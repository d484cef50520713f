---------------------------- MODULE BrowseWrapper ----------------------------
(***************************************************************************)
(* The D-Bus wrapper of a source (source-wrapper.c), the daemon's side of  *)
(* a browse: it answers the client's calls, and gathers the results the    *)
(* source hands it into messages sent when there are enough, when a timer  *)
(* of the request goes off, and at the end.  Sources are parameters here:  *)
(* a handler is given what the source's handler said.                      *)
(***************************************************************************)
EXTENDS BrowseResult

CONSTANTS
  FirstBatch,   \* INITIAL_MAX_RESULTS
  LastBatch,    \* MAX_BROWSE_RESULT
  NoRequest     \* no struct browse_data

Request == [pending : Seq(AnyResult), max : Nat, timer : BOOLEAN]
ASSUME WrapperAssumption ==
  FirstBatch \in Nat \ {0} /\ LastBatch \in Nat \ {0} /\ NoRequest \notin Request

VARIABLES
  requests,     \* session -> struct browse_data: the results of the message
                \* being built, its maxresults, whether the timer is there
  idles,        \* sessions whose remove_from_hash is scheduled
  bus           \* messages on their way to the client

NewRequest == [pending |-> <<>>, max |-> FirstBatch, timer |-> TRUE]

Results(s, l) == [what |-> "results", s |-> s, list |-> l]
Reply(s, c, ok) == [what |-> "reply", s |-> s, to |-> c, ok |-> ok]

\* the state the handlers below work on
Wrapper == [requests |-> requests, idles |-> idles, bus |-> bus]
Becomes(w) == /\ requests' = w.requests /\ idles' = w.idles /\ bus' = w.bus

Flushed(w, s) ==
  IF w.requests[s].pending = <<>> THEN w
  ELSE [w EXCEPT !.bus = Append(@, Results(s, w.requests[s].pending)),
                 !.requests[s].pending = <<>>]
Forgotten(w, s) == [w EXCEPT !.requests[s] = NoRequest]

Larger(max) == IF 3 * max > LastBatch THEN LastBatch ELSE 3 * max

(* The callback of mafw_source_browse for one result.  The last one, and   *)
(* an error, is sent at once; the request is then freed by an idle.        *)
emit_browse_result(w, s, r) ==
  LET added == [w EXCEPT !.requests[s].pending = Append(@, r)]
      q == added.requests[s]
  IN  IF ~r.id
      THEN Forgotten([w EXCEPT !.bus = Append(@, Reply(s, "browse", FALSE))], s)
      ELSE IF r.left = 0 \/ r.err
      THEN [Flushed(added, s) EXCEPT !.requests[s].timer = FALSE,
                                     !.idles = @ \cup {s}]
      ELSE IF Len(q.pending) >= q.max
      THEN [Flushed(added, s) EXCEPT !.requests[s].max = Larger(@),
                                     !.requests[s].timer = TRUE]
      ELSE added

\* the source called the callback for the results says; after[i] is the state
\* after the first i of them
Heard(w, s, says) ==
  LET after[i \in 0 .. Len(says)] ==
        IF i = 0 THEN w ELSE emit_browse_result(after[i - 1], s, says[i])
  IN  after[Len(says)]

(* A browse call; the source began the browse unless it refused it.        *)
HandleBrowse(s, says) ==
  LET w == Heard([Wrapper EXCEPT !.requests[s] = NewRequest], s, says) IN
  Becomes(IF w.requests[s] = NoRequest THEN w
          ELSE [w EXCEPT !.bus = Append(@, Reply(s, "browse", TRUE))])

(* A cancel_browse call; known tells whether the source knew the session.  *)
HandleCancel(s, known, says) ==
  LET w == Forgotten(Heard(Wrapper, s, says), s) IN
  Becomes([w EXCEPT !.bus = Append(@, Reply(s, "cancel", known))])

(* The source hands over results in its own time.                          *)
HandleResults(s, says) == Becomes(Heard(Wrapper, s, says))

(* The timer of a request; it stays and goes off again.                    *)
send_browse_res(s) ==
  /\ requests[s] # NoRequest /\ requests[s].timer
  /\ requests[s].pending # <<>>
  /\ Becomes(Flushed(Wrapper, s))

remove_from_hash(s) ==
  /\ s \in idles
  /\ Becomes([Forgotten(Wrapper, s) EXCEPT !.idles = @ \ {s}])
=============================================================================
