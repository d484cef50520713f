---------------------------- MODULE TrackerCalls ----------------------------
(***************************************************************************)
(* Metadata of objects in tracker, and their destruction                   *)
(* (mafw-tracker-source-metadata.c, mafw-tracker-source.c).  The clips of  *)
(* one kind are asked for together, each container by itself; the answers  *)
(* come in any order and are counted.  An object is a pair of its category *)
(* and a number.                                                           *)
(*                                                                         *)
(* A question is a record of the kind of answer it gets and of the objects *)
(* it is about.  With no key that tracker knows, the answer is made up by  *)
(* an idle function instead, in which case it is one metadata, however     *)
(* many clips were asked for.                                              *)
(***************************************************************************)
EXTENDS SourceAnswer

Clip      == {"audio", "video", "playlist"}
Container == {"root", "music", "playlists", "artist", "genres"}

Kind      == Clip \cup Container \cup {"bad"}

Category(o) == o[1]

\* struct _metadatas_common_closure
Commons(objs) == [remaining : Nat, got : SUBSET objs, err : BOOLEAN]
Common(n) == [remaining |-> n, got |-> {}, err |-> FALSE]

Emits(m)  == Reaction(m, <<Todo("emit", {})>>, {}, <<>>)
Waits(m)  == Reaction(m, <<>>, {}, <<>>)
IfNone(m) == IF m.remaining = 0 THEN Emits(m) ELSE Waits(m)

\* _get_metadata_tracker_cb: the metadata of o, if got, and perhaps an error
GotOne(m, o, got, err) ==
  IfNone([m EXCEPT !.err = @ \/ err, !.got = IF got THEN @ \cup {o} ELSE @,
                   !.remaining = @ - 1])

\* _get_metadatas_tracker_cb: the results of several clips
GotSeveral(m, objs) ==
  IfNone([m EXCEPT !.got = @ \cup objs, !.remaining = @ - Cardinality(objs)])
MadeUp(m, objs) ==
  LET o == CHOOSE x \in objs : TRUE IN
  IfNone([m EXCEPT !.got = @ \cup {o}, !.remaining = @ - 1])
\* an error is answered at once, others may still be waited for
BatchFails(m) == Emits([m EXCEPT !.err = TRUE])

(* _get_metadatas_tracker_from_playlist_cb: the duration of those that     *)
(* have none stored is calculated by a browse.                             *)
GotPlaylists(m, objs, unmeasured) ==
  LET rest == objs \ unmeasured
      n == [m EXCEPT !.got = @ \cup rest, !.remaining = @ - Cardinality(rest)]
      measure == {Todo("duration", {o}) : o \in unmeasured}
      end == IF rest # {} /\ n.remaining = 0 THEN Emits(n) ELSE Waits(n)
  IN  [end EXCEPT !.asks = measure]

-----------------------------------------------------------------------------
(* mafw_tracker_source_get_metadatas.  keys: "known", "unknown" to tracker,*)
(* or "none".                                                              *)

Asks(m, q, keys) ==
  IF keys = "known" THEN Reaction(m, <<>>, {q}, <<>>)
                    ELSE Reaction(m, <<q>>, {}, <<>>)

Prepared(objs, keys) ==
  LET next(r, o) ==
        CASE Category(o) = "bad"      -> Then(r, GotOne(r.work, o, FALSE, TRUE))
          [] Category(o) \in Clip      -> r
          [] Category(o) \in Container ->
               Then(r, Asks(r.work, Todo("container", {o}), keys))
      after[i \in 0 .. Len(objs)] ==
        IF i = 0 THEN Waits(Common(Len(objs))) ELSE next(after[i - 1], objs[i])
  IN  after[Len(objs)]

Clips(objs, what) == {o \in ToSet(objs) : Category(o) = what}
AsksClips(r, objs, what, keys) ==
  IF Clips(objs, what) = {} THEN r
  ELSE Then(r, Asks(r.work, Todo(IF what = "playlist" THEN "playlists" ELSE "clips",
                                 Clips(objs, what)), keys))
Batched(r, objs, keys) ==
  AsksClips(AsksClips(AsksClips(r, objs, "audio", keys), objs, "video", keys),
            objs, "playlist", keys)

TrackerGets(objs, keys) ==
  IF keys = "none" THEN Emits(Common(Len(objs)))
  ELSE Batched(Prepared(objs, keys), objs, keys)

(* What the answer to a question makes of the closure, for every answer    *)
(* tracker may give.  The root asks for the videos once it has the music,  *)
(* of which an error is forgotten.                                         *)
TrackerAnswers(m, q) ==
  LET o == CHOOSE x \in q.objs : TRUE IN
  CASE q.kind = "clips" -> {GotSeveral(m, q.objs), BatchFails(m)}
    [] q.kind = "playlists" ->
         {GotPlaylists(m, q.objs, u) : u \in SUBSET q.objs} \cup {BatchFails(m)}
    [] q.kind = "duration" -> {GotOne(m, o, TRUE, e) : e \in BOOLEAN}
    [] q.kind = "container" /\ Category(o) = "root" ->
         {Reaction(m, <<>>, {Todo("videos", q.objs)}, <<>>)}
    [] q.kind = "container" /\ Category(o) = "playlists" ->
         {GotOne(m, o, FALSE, TRUE), GotOne(m, o, TRUE, FALSE),
          Reaction(m, <<>>, {Todo("duration", q.objs)}, <<>>)}
    [] q.kind = "container" /\ Category(o) \notin {"root", "playlists"} ->
         {GotOne(m, o, FALSE, TRUE), GotOne(m, o, TRUE, FALSE)}
    [] q.kind = "videos" ->
         {GotOne(m, o, g, e) : g \in BOOLEAN, e \in BOOLEAN}
           \ {GotOne(m, o, FALSE, FALSE)}

\* the idle function in place of tracker's answer
TrackerMakesUp(m, q) ==
  LET o == CHOOSE x \in q.objs : TRUE IN
  CASE q.kind \in {"clips", "playlists"} -> MadeUp(m, q.objs)
    [] q.kind = "container" /\ Category(o) = "root" ->
         Reaction(m, <<Todo("videos", q.objs)>>, {}, <<>>)
    [] OTHER -> GotOne(m, o, TRUE, FALSE)

\* _emit_metadatas_results_idle; the closure is freed after it
TrackerEmits(m) == Says(Answer(~m.err, m.got))

-----------------------------------------------------------------------------
(* set_metadata and destroy_object.                                        *)

TrackerSets(o) ==
  IF Category(o) \in {"audio", "video"}
  THEN Reaction(Over, <<Todo("set", {})>>, {}, <<>>) ELSE Says(Refused)

\* the files to delete, and whether one could not be
Removals   == [files : Nat, err : BOOLEAN]
Removal(n) == [files |-> n, err |-> FALSE]
TrackerDestroys(o) ==
  CASE Category(o) \in Clip ->
         Reaction(Removal(1), <<Todo("delete", {})>>, {}, <<>>)
    [] Category(o) = "artist" ->
         Reaction(Removal(1), <<>>, {Todo("songs", {o})}, <<>>)
    [] OTHER -> Says(Refused)

\* _destroy_object_tracker_cb
SongsFound(MaxFiles) ==
  {Says(Refused)} \cup {Reaction(Removal(n), <<Todo("delete", {})>>, {}, <<>>) :
                          n \in 0 .. MaxFiles}

\* _destroy_object_idle, again and again until no file is left
DeletesFile(d) ==
  IF d.files = 0 THEN {Says(Answer(~d.err, {}))}
  ELSE {Reaction([files |-> d.files - 1, err |-> d.err \/ e], <<Todo("delete", {})>>, {},
                 <<>>) : e \in BOOLEAN}
=============================================================================
