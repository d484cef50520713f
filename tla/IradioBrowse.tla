---------------------------- MODULE IradioBrowse ----------------------------
(***************************************************************************)
(* Browsing the internet radio source (mafw-iradio-source.c): the rows of  *)
(* the table are read by browse(), sorted and cut by the first idle, then  *)
(* handed to the callback one per idle, until the idle after the last one  *)
(* frees the request.  An operation is a browse_data_container; idle tells *)
(* that its idle source is still there.  OnlyFlags is a wrong version of   *)
(* what follows it.                                                        *)
(***************************************************************************)
EXTENDS BrowseResult

IradioStart(req, stock) ==
  Outcome([list |-> [i \in 1 .. stock |-> i], skip |-> req.skip,
           count |-> req.count, next |-> 0, free_req |-> FALSE,
           idle |-> TRUE], <<>>)

\* the items skip_count and item_count leave; both are cleared by the cut
Trimmed(b) ==
  LET l == SubSeq(b.list, b.skip + 1, Len(b.list)) IN
  [b EXCEPT !.skip = 0, !.count = IF Len(l) > @ THEN 0 ELSE @,
            !.list = IF b.count # 0 /\ Len(l) > b.count
                     THEN SubSeq(l, 1, b.count) ELSE l]

Emitted(b) ==
  IF b.list = <<>> THEN Outcome([b EXCEPT !.next = @ + 1, !.free_req = TRUE],
                                <<Nothing(b.next)>>)
  ELSE Outcome([b EXCEPT !.list = Tail(@), !.next = @ + 1,
                         !.free_req = Len(b.list) = 1],
               <<Result(Len(b.list) - 1, b.next, Head(b.list))>>)

IradioSteps(b) ==
  IF ~b.idle THEN {}
  ELSE IF b.free_req THEN {Outcome(Over, <<>>)}
  ELSE IF b.skip # 0 /\ b.skip >= Len(b.list)
       THEN {Outcome([b EXCEPT !.free_req = TRUE], <<Failure>>)}
  ELSE {Emitted(Trimmed(b))}

OnlyFlags(b) == Outcome(b, <<>>)

\* the request stays in the list, with nothing left to free it
IradioCancel(b) ==
  Outcome([b EXCEPT !.idle = FALSE, !.free_req = TRUE], <<>>)
=============================================================================
