----------------------------- MODULE BrowseChain -----------------------------
(***************************************************************************)
(* A browse from the client's callback to the source and back: ProxySource *)
(* in the client, BrowseWrapper and a source in the daemon, D-Bus between  *)
(* them.  The source is that of one plugin, and its container does not     *)
(* change while it is browsed.                                             *)
(***************************************************************************)
EXTENDS BrowseWrapper, ProxySource, UpnpBrowse, IradioBrowse, TrackerBrowse

CONSTANT Scenarios   \* what may happen in one behaviour, a record of the
   \* source (its plugin), the number of items in its container (stock), the
   \* category of that in tracker (what), the requests a client may make, the
   \* sessions it may open, and the faults: "timeout" of a call, "leaves": the
   \* UPnP server does

ASSUME ScenariosAssumption == \A p \in Scenarios :
  /\ p.source \in {"upnp", "iradio", "tracker"}
  /\ p.stock \in 0 .. MaxItems /\ p.what \in Category
  /\ p.requests \subseteq Criteria
  /\ p.sessions \subseteq Session /\ p.faults \subseteq {"timeout", "leaves"}
  /\ "leaves" \in p.faults => p.source = "upnp"

VARIABLES
  plan,   \* one of Scenarios
  work,   \* session -> the operation of the source, Over if there is none
  gone    \* the UPnP server has left and its source was removed

wrapper == <<requests, idles, bus>>
proxy == <<calls, waits, known, giving, got, asked, cancelled>>
vars == <<wrapper, proxy, plan, work, gone>>

Init ==
  /\ plan \in Scenarios /\ gone = FALSE
  /\ work = [s \in Session |-> Over]
  /\ requests = [s \in Session |-> NoRequest] /\ idles = {} /\ bus = <<>>
  /\ calls = <<>> /\ waits = None /\ known = {} /\ giving = None
  /\ got = [s \in Session |-> <<>>] /\ asked = [s \in Session |-> None]
  /\ cancelled = {}

-----------------------------------------------------------------------------
(* The virtual methods of the source at hand.                              *)

\* mafw_source_browse, or the source, may not accept the criteria
Starts(req) ==
  IF req.bad THEN {Outcome(Over, <<Refusal>>)}
  ELSE CASE plan.source = "upnp" -> {UpnpStart(req)}
         [] plan.source = "iradio" -> {IradioStart(req, plan.stock)}
         [] plan.source = "tracker" ->
              {TrackerStart(plan.what, req, plan.stock, parses, local) :
                 parses \in BOOLEAN, local \in BOOLEAN}
Steps(op) ==
  CASE plan.source = "upnp" -> UpnpSteps(op, plan.stock)
    [] plan.source = "iradio" -> IradioSteps(op)
    [] plan.source = "tracker" -> TrackerSteps(op, plan.stock)
Cancelled(op) ==
  CASE plan.source = "upnp" -> UpnpCancel(op, FALSE)
    [] plan.source = "iradio" -> IradioCancel(op)
    [] plan.source = "tracker" -> TrackerCancel(op)

\* the operation could call the callback of the browse
Speaks(op) ==
  /\ op # Over
  /\ CASE plan.source = "upnp" -> TRUE
       [] plan.source = "iradio" -> op.idle /\ ~op.free_req
       [] plan.source = "tracker" -> op.st # "stuck" /\ ~op.cancelled

Works(s, o) == work' = [work EXCEPT ![s] = o.op]

-----------------------------------------------------------------------------
(* The daemon: handle_source_msg, timers, idles, and the source.           *)

DaemonBrowse ==
  /\ calls # <<>> /\ ~gone /\ Head(calls).to = "browse"
  /\ LET c == Head(calls) IN
     \E o \in Starts(c.req) : HandleBrowse(c.s, o.says) /\ Works(c.s, o)
  /\ calls' = Tail(calls)
  /\ UNCHANGED <<waits, known, giving, got, asked, cancelled, plan, gone>>

DaemonCancel ==
  /\ calls # <<>> /\ ~gone /\ Head(calls).to = "cancel"
  /\ LET s == Head(calls).s IN
     IF work[s] = Over THEN HandleCancel(s, FALSE, <<>>) /\ UNCHANGED work
     ELSE LET o == Cancelled(work[s]) IN
          HandleCancel(s, TRUE, o.says) /\ Works(s, o)
  /\ calls' = Tail(calls)
  /\ UNCHANGED <<waits, known, giving, got, asked, cancelled, plan, gone>>

SourceStep(s) ==
  /\ work[s] # Over
  /\ \E o \in Steps(work[s]) : HandleResults(s, o.says) /\ Works(s, o)
  /\ UNCHANGED <<proxy, plan, gone>>

WrapperTimer(s) == send_browse_res(s) /\ UNCHANGED <<proxy, plan, work, gone>>
WrapperIdle(s) == remove_from_hash(s) /\ UNCHANGED <<proxy, plan, work, gone>>

\* cut_off[s] is the state after the operations of the sessions 1 .. s ended
AllCutOff ==
  LET cut_off[s \in 0 .. Cardinality(Session)] ==
        IF s = 0 THEN Wrapper
        ELSE IF work[s] = Over THEN cut_off[s - 1]
        ELSE Heard(cut_off[s - 1], s, UpnpCancel(work[s], TRUE).says)
  IN  cut_off[Cardinality(Session)]

(* mafw_upnp_source_device_proxy_unavailable: every operation is cancelled *)
(* with an error, and the source is removed and no longer exported.  The   *)
(* tree is changed by the visit that goes through it; as GLib lays out the *)
(* freed nodes, all of them are still visited.                             *)
ServerLeaves ==
  /\ "leaves" \in plan.faults /\ ~gone
  /\ gone' = TRUE
  /\ work' = [s \in Session |-> Over]
  /\ Becomes(AllCutOff)
  /\ UNCHANGED <<proxy, plan>>

\* D-Bus answers for a service that is gone
BusRefuses ==
  /\ calls # <<>> /\ gone
  /\ bus' = Append(bus, Reply(Head(calls).s, Head(calls).to, FALSE))
  /\ calls' = Tail(calls)
  /\ UNCHANGED <<requests, idles, waits, known, giving, got, asked, cancelled,
                 plan, work, gone>>

-----------------------------------------------------------------------------
(* The client.                                                             *)

ClientBrowse == \E s \in plan.sessions, req \in plan.requests :
  /\ mafw_proxy_source_browse(s, req)
  /\ UNCHANGED <<wrapper, plan, work, gone>>
ClientCancel == \E s \in Session :
  /\ mafw_proxy_source_cancel_browse(s)
  /\ UNCHANGED <<wrapper, plan, work, gone>>

\* the reply waited for may have overtaken nothing but is read first
ClientReply ==
  /\ ~Free
  /\ \E i \in DOMAIN bus :
       /\ bus[i].what = "reply" /\ bus[i].s = waits.s /\ bus[i].to = waits.to
       /\ Returns(bus[i].ok)
       /\ bus' = RemoveAt(bus, i)
  /\ UNCHANGED <<requests, idles, plan, work, gone>>

\* the reply takes too long; when it comes it is dropped
ClientTimeout ==
  /\ "timeout" \in plan.faults /\ ~Free
  /\ Returns(FALSE)
  /\ UNCHANGED <<wrapper, plan, work, gone>>

ClientDispatch ==
  /\ bus # <<>>
  /\ LET m == Head(bus) IN
     IF m.what = "results" THEN Dispatch(m.s, m.list)
     ELSE Free /\ giving = None /\ UNCHANGED proxy
  /\ bus' = Tail(bus)
  /\ UNCHANGED <<requests, idles, plan, work, gone>>

ClientCallback == CallbackReturns /\ UNCHANGED <<wrapper, plan, work, gone>>

Next ==
  \/ DaemonBrowse \/ DaemonCancel \/ ServerLeaves \/ BusRefuses
  \/ \E s \in Session : SourceStep(s) \/ WrapperTimer(s) \/ WrapperIdle(s)
  \/ ClientBrowse \/ ClientCancel \/ ClientReply \/ ClientTimeout
  \/ ClientDispatch \/ ClientCallback

Spec == Init /\ [][Next]_vars

(* Main loops turn, answers of tracker and of servers come, D-Bus delivers *)
(* or gives up; the client may stop asking, but not stop its main loop.    *)
FairSpec ==
  /\ Spec
  /\ WF_vars(DaemonBrowse) /\ WF_vars(DaemonCancel) /\ WF_vars(BusRefuses)
  /\ \A s \in Session : WF_vars(SourceStep(s)) /\ WF_vars(WrapperIdle(s))
  /\ WF_vars(ClientReply \/ ClientTimeout)
  /\ WF_vars(ClientDispatch) /\ WF_vars(ClientCallback)

-----------------------------------------------------------------------------
(* The types of the state of the client and the wrapper, and the bounds of *)
(* a message: never more results than maxresults, itself never more than   *)
(* MAX_BROWSE_RESULT.                                                      *)
Given == {Failure, Refusal} \cup
         {Result(l, i, o) : l, i, o \in 0 .. MaxItems}
TypeOK ==
  /\ plan \in Scenarios /\ gone \in BOOLEAN
  /\ \A s \in Session :
       /\ \/ requests[s] = NoRequest
          \/ /\ requests[s].max \in FirstBatch .. LastBatch
             /\ requests[s].timer \in BOOLEAN
             /\ Len(requests[s].pending) < requests[s].max
       /\ \A i \in DOMAIN got[s] : got[s][i] \in Given
       /\ asked[s] \in plan.requests \cup {None}
  /\ known \cup cancelled \cup idles \subseteq Session

(* Every operation that can still call the callback of its browse has a    *)
(* request there to be called for: emit_browse_result of the wrapper is    *)
(* never handed a struct browse_data that was freed, whatever the order of *)
(* ends, cancels and a server's leaving.                                   *)
HasListener == \A s \in Session : Speaks(work[s]) => requests[s] # NoRequest

Ended(s) == got[s] # <<>> /\ Last(got[s]).left = 0
Done(s) == s \in cancelled \/ Ended(s)

(* What the client is given keeps to mafw_source_browse's contract, with   *)
(* batches, blocking calls that let results overtake their reply, cancels  *)
(* out of the callback, and operations cut off.                            *)
Phase == [s \in Session |->
  IF asked[s] = None THEN "idle" ELSE IF Ended(s) THEN "ended"
  ELSE IF s \in cancelled THEN "cancelled" ELSE "open"]
Contract == INSTANCE BrowseContract WITH phase <- Phase
ContractSpec == Contract!Spec

(* Every browse that is not cancelled ends, be the container empty, the    *)
(* query fail or the server leave; of the upnp source, every one that gave *)
(* something, for its callback is not called when the first answer of the  *)
(* server is a failure or has no items at all.  And the wrapper frees the  *)
(* request and its timer in the end, cancelled or not; again, of the upnp  *)
(* source if it was given something to send.                               *)
BrowseEnds == \A s \in Session :
  /\ (asked[s] # None /\ (plan.source = "upnp" => got[s] # <<>>)) ~> Done(s)
  /\ /\ requests[s] # NoRequest
     /\ plan.source = "upnp" => requests[s].pending # <<>>
     ~> requests[s] = NoRequest
=============================================================================
