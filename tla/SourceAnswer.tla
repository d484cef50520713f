---------------------------- MODULE SourceAnswer ----------------------------
(***************************************************************************)
(* The calls of a source that answer once: get_metadata, get_metadatas,    *)
(* set_metadata, create_object, destroy_object.  A handler of a source is  *)
(* described by its reaction: the operation it leaves for the call, the    *)
(* idle functions it adds to the main loop, the questions it sends to      *)
(* another process, and its calls of the caller's callback, in order.      *)
(*                                                                         *)
(* mafw-source.c has a get_metadatas for sources without one of their own: *)
(* it calls their get_metadata for each object and collects the answers.   *)
(*                                                                         *)
(* Wrong versions used by nothing, there to replace the definition that    *)
(* follows them: EmitsAgain, StaysQueued.                                  *)
(***************************************************************************)
EXTENDS Integers, Sequences, FiniteSets, SequencesExt

CONSTANTS
  Over,      \* no operation, or one that was freed
  UintMod    \* an unsigned counter is less than this

ASSUME UintAssumption == UintMod \in Nat \ {0}

\* was there no error; the objects whose metadata is given
Answer(ok, got) == [ok |-> ok, got |-> got]
Fine    == Answer(TRUE, {})
Refused == Answer(FALSE, {})

Reaction(work, later, asks, says) ==
  [work |-> work, later |-> later, asks |-> asks, says |-> says]
Says(a) == Reaction(Over, <<>>, {}, <<a>>)
Later(t) == Reaction(Over, <<t>>, {}, <<>>)

\* what an idle function, or a question, is for
Todo(kind, objs) == [kind |-> kind, objs |-> objs]

\* Two handlers in a row, the second one working on what the first one left
Then(r, s) == Reaction(s.work, r.later \o s.later, r.asks \cup s.asks,
                       r.says \o s.says)

\* the virtual methods a source does not implement
Unsupported == Says(Refused)

-----------------------------------------------------------------------------
(* struct metadatas_data.                                                  *)
Metadatas(objs) == [remaining : 0 .. UintMod - 1, got : SUBSET objs,
                    err : BOOLEAN, queued : BOOLEAN]
NoMetadatas == [remaining |-> 0, got |-> {}, err |-> FALSE, queued |-> FALSE]

EmitsAgain(m) == m.remaining = 0
EmitsNow(m)   == m.remaining = 0 /\ ~m.queued

FirstError(m, a)    == m.err \/ ~a.ok

\* _metadata_collector: get_metadata answers a for one of the objects
Collected(m0, a) ==
  LET m == [m0 EXCEPT !.remaining = (@ - 1) % UintMod,
                      !.got = @ \cup a.got, !.err = FirstError(m0, a)]
  IN  IF EmitsNow(m)
      THEN Reaction([m EXCEPT !.queued = TRUE], <<Todo("emit", {})>>, {}, <<>>)
      ELSE Reaction(m, <<>>, {}, <<>>)

\* the reaction r of get_metadata, with the collector as its callback
Gathered(m, r) ==
  LET after[i \in 0 .. Len(r.says)] ==
        IF i = 0 THEN Reaction(m, r.later, r.asks, <<>>)
        ELSE Then(after[i - 1], Collected(after[i - 1].work, r.says[i]))
  IN  after[Len(r.says)]

\* _emit_result, in idle.  More objects may have been asked for since.
StaysQueued(m) == m
NotYet(m)      == [m EXCEPT !.queued = FALSE]
EmitResult(m) ==
  IF m.remaining # 0 THEN Reaction(NotYet(m), <<>>, {}, <<>>)
                     ELSE Says(Answer(~m.err, m.got))

\* mafw_source_get_metadatas: gets[o] is what get_metadata does for object o
GetMetadatas(objs, gets) ==
  LET after[i \in 0 .. Len(objs)] ==
        IF i = 0 THEN Reaction(NoMetadatas, <<>>, {}, <<>>)
        ELSE Then(after[i - 1],
                  Gathered([after[i - 1].work EXCEPT !.remaining = @ + 1],
                           gets[objs[i]]))
  IN  after[Len(objs)]
=============================================================================
