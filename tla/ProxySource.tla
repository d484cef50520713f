----------------------------- MODULE ProxySource -----------------------------
(***************************************************************************)
(* The client's side of a browse (mafw-proxy-source.c): calls that block   *)
(* until their reply, or an error after the time D-Bus gives it; messages  *)
(* with results, handled by the main loop, each result given to the        *)
(* client's callback.  The client may browse and cancel from there too.    *)
(* KeepsGiving is a wrong version of CallbackReturns.                      *)
(***************************************************************************)
EXTENDS BrowseResult

CONSTANT None   \* no call, no message being handled, nothing asked

VARIABLES
  calls,      \* calls on their way to the daemon
  waits,      \* the call the client is blocked in
  known,      \* sessions in browse_requests of the proxy
  giving,     \* the message being handled: its session, the results left
              \* in it, the one in the callback and stop_emitting
  got,        \* history: session -> the results its callback was given
  asked,      \* history: session -> what was asked for, None before
  cancelled   \* history: sessions the client cancelled

ClientCall == [to : {"browse"}, s : Session, req : Criteria]
                \cup [to : {"cancel"}, s : Session]
Giving == [s : Session, now : AnyResult, rest : Seq(AnyResult), stop : BOOLEAN]
ASSUME NoneAssumption == None \notin Criteria \cup ClientCall \cup Giving

Free == waits = None
Emitting(s) == giving # None /\ giving.s = s

Gets(s, r) == got' = [got EXCEPT ![s] = Append(@, r)]
Calls(c) == waits' = c /\ calls' = Append(calls, c)

mafw_proxy_source_browse(s, req) ==
  /\ Free /\ asked[s] = None
  /\ \A t \in Session : t < s => asked[t] # None
  /\ Calls([to |-> "browse", s |-> s, req |-> req])
  /\ asked' = [asked EXCEPT ![s] = req]
  /\ UNCHANGED <<known, giving, got, cancelled>>

(* A request that results are being given of is only told to stop.         *)
mafw_proxy_source_cancel_browse(s) ==
  /\ Free /\ s \in known /\ s \notin cancelled
  /\ IF Emitting(s) THEN giving' = [giving EXCEPT !.stop = TRUE]
                         /\ UNCHANGED known
     ELSE known' = known \ {s} /\ UNCHANGED giving
  /\ Calls([to |-> "cancel", s |-> s])
  /\ cancelled' = cancelled \cup {s}
  /\ UNCHANGED <<got, asked>>

(* A call returns with the reply that arrived, whatever came before it.    *)
Returns(ok) ==
  /\ waits' = None
  /\ IF waits.to = "cancel" THEN UNCHANGED <<known, got>>
     ELSE IF ok THEN known' = known \cup {waits.s} /\ UNCHANGED got
     ELSE Gets(waits.s, Refusal) /\ UNCHANGED known
  /\ UNCHANGED <<giving, asked, cancelled, calls>>

\* gives the first of the results l; the rest waits for the callback
Give(s, l, stop) ==
  /\ giving' = [s |-> s, now |-> Head(l), rest |-> Tail(l), stop |-> stop]
  /\ Gets(s, Head(l))

(* mafw_proxy_source_dispatch_message: results of a request no longer      *)
(* known are dropped.                                                      *)
Dispatch(s, l) ==
  /\ Free /\ giving = None
  /\ IF s \in known THEN Give(s, l, FALSE) ELSE UNCHANGED <<giving, got>>
  /\ UNCHANGED <<calls, waits, known, asked, cancelled>>

KeepsGiving ==
  /\ Free /\ giving # None
  /\ IF giving.now.left = 0
     THEN giving' = None /\ known' = known \ {giving.s} /\ UNCHANGED got
     ELSE /\ UNCHANGED known
          /\ IF giving.rest = <<>> THEN giving' = None /\ UNCHANGED got
             ELSE Give(giving.s, giving.rest, giving.stop)
  /\ UNCHANGED <<calls, waits, asked, cancelled>>

(* After the last result, or once told to stop, the request is removed.    *)
CallbackReturns ==
  /\ Free /\ giving # None
  /\ IF giving.now.left = 0 \/ giving.stop
     THEN giving' = None /\ known' = known \ {giving.s} /\ UNCHANGED got
     ELSE /\ UNCHANGED known
          /\ IF giving.rest = <<>> THEN giving' = None /\ UNCHANGED got
             ELSE Give(giving.s, giving.rest, giving.stop)
  /\ UNCHANGED <<calls, waits, asked, cancelled>>
=============================================================================
