---------------------------- MODULE PlaylistItems ----------------------------
(***************************************************************************)
(* The items of a playlist with their metadata, asked for in one call      *)
(* (mafw-playlist.c, mafw_playlist_get_items_md): the range is fetched     *)
(* from the playlist daemon by calls that block (mafw-proxy-playlist.c),   *)
(* the items are grouped by source when the main loop is idle, each source *)
(* is asked once, and the callback is called for each item.                *)
(*                                                                         *)
(* Others edit the playlist, sources come and go, and the application may  *)
(* cancel at any time, in the callback too.  An item may be in a playlist  *)
(* more than once.  Metadata are there or not.                             *)
(*                                                                         *)
(* Wrong versions used by nothing, there to replace the definition that    *)
(* follows them: Renewed.                                                  *)
(***************************************************************************)
EXTENDS Integers, Sequences, SequencesExt, FiniteSetsExt, Functions, TLC

CONSTANTS
  Op,        \* the operations there may be
  NoSource,  \* of an object id that names none
  Plots      \* what may happen in one behaviour, a record of the playlists
    \* there may be, the source of each item, the sources there may be, the calls,
    \* records of the range (its end negative for all that remain) and of whether
    \* there are keys, and the number of changes by others

VARIABLES
  plot,     \* one of Plots
  list,     \* the playlist
  present,  \* the sources in the registry
  ops,      \* the operations, struct GetPlItemData
  open,     \* questions not answered: operation, source, its items
  changes   \* by others

ivars == <<plot, list, present, ops, open, changes>>

NotCalled ==
  [phase |-> "none", from |-> 0, to |-> 0, keys |-> FALSE, oids |-> <<>>,
   cancelled |-> FALSE, remaining |-> 0, indexhash |-> <<>>,
   given |-> <<>>, freed |-> 0]

In(phases) == {o \in Op : ops[o].phase \in phases}
Becomes(o, d) == ops' = [ops EXCEPT ![o] = d]

\* the operations that can be cancelled, Active_miwmds
Active == In({"idle", "asking"})

\* miwmd_free
Free(d) == [d EXCEPT !.phase = "over", !.freed = @ + 1, !.indexhash = <<>>]

-----------------------------------------------------------------------------
(* mafw_playlist_get_items_md.  The size and the items are asked for by    *)
(* calls that block the application.                                       *)

Blocked == In({"sizing", "fetching"}) # {}

Calls(o) ==
  /\ ~Blocked /\ ops[o].phase = "none"
  /\ \E call \in plot.calls :
       Becomes(o, [NotCalled EXCEPT
         !.phase = IF call.to < 0 THEN "sizing" ELSE "fetching",
         !.from = call.from, !.to = call.to, !.keys = call.keys])
  /\ UNCHANGED <<plot, list, present, open, changes>>

\* An error is taken for an empty playlist.
GetsSize(o) ==
  /\ ops[o].phase = "sizing"
  /\ \E size \in {0, Len(list)} :
       Becomes(o, IF size = 0 THEN Free(ops[o])
                  ELSE [ops[o] EXCEPT !.phase = "fetching", !.to = size - 1])
  /\ UNCHANGED <<plot, list, present, open, changes>>

\* The daemon cuts the range at the end of the list.  When there is none, or
\* on an error, the destructor is not called.
GetsItems(o) ==
  /\ ops[o].phase = "fetching"
  /\ LET d == ops[o] IN
     \/ Becomes(o, [d EXCEPT !.phase = "failed"])
     \/ /\ d.from < Len(list) /\ d.from <= d.to
        /\ Becomes(o, [d EXCEPT !.phase = "idle",
                         !.oids = SubSeq(list, d.from + 1,
                                         Min({d.to + 1, Len(list)}))])
  /\ UNCHANGED <<plot, list, present, open, changes>>

-----------------------------------------------------------------------------
(* The callback, which may cancel: then only some of the items are given,  *)
(* and no more.                                                            *)

Indexes(d) == {d.from + i - 1 : i \in DOMAIN d.oids}
Item(d, i) == d.oids[i - d.from + 1]

\* what giving the items with indexes is may come to
Giving(d, is) ==
  IF d.cancelled THEN {d}
  ELSE {[d EXCEPT !.given = @ \o SetToSeq(told), !.cancelled = TRUE]
          : told \in SUBSET is \ {{}}}
       \cup {[d EXCEPT !.given = @ \o SetToSeq(is)]}

-----------------------------------------------------------------------------
(* miwd_send_requests, when the main loop is idle.                         *)

\* those that get no metadata
Bare(d) == {i \in Indexes(d) : \/ ~d.keys
                               \/ plot.source[Item(d, i)] \notin present}

Renewed(found, i) == {i}
Prepended(found, i) == found \cup {i}

\* item -> indexes, of those that are asked for
IndexHash(d) ==
  LET Found[n \in 0 .. Len(d.oids)] ==
        IF n = 0 THEN <<>>
        ELSE LET i == d.from + n - 1
                 x == d.oids[n]
                 f == Found[n - 1]
             IN  IF i \in Bare(d) THEN f
                 ELSE (x :> Prepended(IF x \in DOMAIN f THEN f[x] ELSE {}, i))
                        @@ f
  IN  Found[Len(d.oids)]

Questions(o, hash) ==
  {[op |-> o, source |-> s, items |-> {x \in DOMAIN hash : plot.source[x] = s}]
     : s \in {plot.source[x] : x \in DOMAIN hash}}

SendsRequests(o) ==
  /\ ~Blocked /\ ops[o].phase = "idle"
  /\ \E d \in Giving(ops[o], Bare(ops[o])) :
       LET hash == IndexHash(d)
           qs   == Questions(o, hash)
       IN  IF d.cancelled \/ qs = {}
           THEN Becomes(o, Free(d)) /\ UNCHANGED open
           ELSE /\ Becomes(o, [d EXCEPT !.phase = "asking", !.indexhash = hash,
                                        !.remaining = Cardinality(qs)])
                /\ open' = open \cup qs
  /\ UNCHANGED <<plot, list, present, changes>>

-----------------------------------------------------------------------------
(* miwd_got_mdatas.  A source may have no metadata of an item, or fail; one *)
(* that left is answered for by the bus.  The rest is given at the end.    *)

Held(hash, xs) == UNION {hash[x] : x \in xs}

Answered(q) ==
  /\ ~Blocked
  /\ \E xs \in SUBSET q.items : \E d \in Giving(ops[q.op], Held(ops[q.op].indexhash, xs)) :
       LET left == Restrict(d.indexhash, DOMAIN d.indexhash \ xs)
           e == [d EXCEPT !.indexhash = left, !.remaining = @ - 1]
       IN  IF e.remaining > 0 THEN Becomes(q.op, e)
           ELSE \E g \in Giving(e, Held(left, DOMAIN left)) : Becomes(q.op, Free(g))
  /\ open' = open \ {q}
  /\ UNCHANGED <<plot, list, present, changes>>

-----------------------------------------------------------------------------
Cancels(o) ==
  /\ ~Blocked /\ o \in Active
  /\ Becomes(o, [ops[o] EXCEPT !.cancelled = TRUE])
  /\ UNCHANGED <<plot, list, present, open, changes>>

Changes == changes < plot.changes /\ changes' = changes + 1

\* others edit the playlist, also while the application is blocked
Edited ==
  /\ Changes /\ list' \in plot.lists \ {list}
  /\ UNCHANGED <<plot, present, ops, open>>

\* a source comes, or leaves: the application is told by its main loop
SourceTurns(s) ==
  /\ ~Blocked /\ Changes
  /\ present' = SymDiff(present, {s})
  /\ UNCHANGED <<plot, list, ops, open>>

IInit ==
  /\ plot \in Plots
  /\ list \in plot.lists /\ present = plot.sources
  /\ ops = [o \in Op |-> NotCalled]
  /\ open = {} /\ changes = 0

INext ==
  \/ \E o \in Op : \/ Calls(o) \/ GetsSize(o) \/ GetsItems(o)
                   \/ SendsRequests(o) \/ Cancels(o)
  \/ \E q \in open : Answered(q)
  \/ Edited
  \/ \E s \in plot.sources : SourceTurns(s)

(* The daemon answers, the main loop turns, and sources answer or the bus  *)
(* does.                                                                   *)
ISpec ==
  /\ IInit /\ [][INext]_ivars
  /\ WF_ivars(\E o \in Op : GetsSize(o) \/ GetsItems(o))
  /\ WF_ivars(\E o \in Op : SendsRequests(o))
  /\ WF_ivars(\E q \in open : Answered(q))

-----------------------------------------------------------------------------
(* No item is given twice, though it is in the list twice or several       *)
(* sources answer in any order; when an operation is over, each item of    *)
(* the range has been given unless it was cancelled.  The destructor is    *)
(* called once, and only then.                                             *)
EachOnce ==
  \A o \in Op : LET d == ops[o] IN
    /\ IsInjective(d.given) /\ ToSet(d.given) \subseteq Indexes(d)
    /\ d.phase = "over" /\ ~d.cancelled => ToSet(d.given) = Indexes(d)
    /\ d.freed = IF d.phase = "over" THEN 1 ELSE 0

(* Nothing is given after a cancel, nor after the destructor was called.   *)
NothingAfter ==
  [][\A o \in Op : ops[o].cancelled \/ ops[o].phase = "over"
                     => ops'[o].given = ops[o].given]_ivars

(* mafw_playlist_get_items_md keeps what its comment promises: each item   *)
(* once, the destructor at the very end, which comes whoever leaves.  But  *)
(* for a range that cannot be fetched.                                     *)
ItemsOnce == [](EachOnce /\ <>(In({"none", "failed", "over"}) = Op))
=============================================================================
