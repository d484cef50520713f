------------------------------ MODULE GstVolume ------------------------------
(***************************************************************************)
(* The volume of the renderer (mafw-gst-renderer-worker-volume.c): what    *)
(* was set last is current; it is written to PulseAudio, one write at a    *)
(* time, at once or when a timer goes off, and what PulseAudio has is read *)
(* when it tells of a change.  PulseAudio may restart, and others change   *)
(* the volume too.  It has 65536 steps, the renderer percents.             *)
(*                                                                         *)
(* The messages between the two are in order in each direction.  A write   *)
(* by anybody is answered by an event to those who subscribed.  Muting is  *)
(* left out, it is not compiled in by default.                             *)
(*                                                                         *)
(* Wrong versions used by nothing, there to replace the definition that    *)
(* follows them: ClearsFirst, StopsTimer.                                  *)
(***************************************************************************)
EXTENDS Integers, Sequences

CONSTANTS
  Percent,     \* volumes the user may set
  Steps,       \* volumes others may set, in PulseAudio's steps
  None,        \* no volume
  MaxSets,     \* bound: volumes set by the user
  MaxOthers,   \* bound: volumes set by others
  MaxFails     \* bound: restarts of PulseAudio and writes that it refuses

Norm == 65536

ToPercent(steps)   == (200 * steps + Norm) \div (2 * Norm)
FromPercent(volume) == (volume * Norm) \div 100

VARIABLES
  link,      \* "down", "connecting", "ready" (the volume is asked for), "up"
  known,     \* the worker was given the volume manager
  current,   \* current_volume: what the user sees
  pulse,     \* pulse_volume: what was read last
  pending,   \* pending_operation_volume, None without pending_operation
  running,   \* pa_operation is running
  timer,     \* change_request_id is set
  toPulse, toUs,   \* messages on their way
  actual,    \* what PulseAudio has, in its steps
  subscribed,
  left,      \* of the bounds: sets, others, fails
  spoilt     \* history: a pending operation will not be seen to end, or a
             \* change was missed

ours == <<known, current, pulse, pending, running, timer>>
theirs == <<actual, subscribed>>
vars == <<link, ours, toPulse, toUs, theirs, left, spoilt>>

Read(init) == [what |-> "read", init |-> init]
Write(v)   == [what |-> "write", steps |-> FromPercent(v)]
Subscribe  == [what |-> "subscribe"]
Reply(init) == [what |-> "reply", init |-> init, value |-> actual]
Event      == [what |-> "event"]
Ack        == [what |-> "ack"]

Init ==
  /\ link = "connecting" /\ known = FALSE
  /\ current = 0 /\ pulse = 100 /\ pending = None
  /\ running = FALSE /\ timer = FALSE
  /\ toPulse = <<>> /\ toUs = <<>>
  /\ actual \in Steps /\ subscribed = FALSE
  /\ left = [sets |-> MaxSets, others |-> MaxOthers, fails |-> MaxFails]
  /\ spoilt = FALSE

-----------------------------------------------------------------------------
(* The renderer.                                                           *)

\* _set_timeout, with the volume v as the current one
Stays(going) == UNCHANGED <<pending, running, toPulse, spoilt>> /\ timer' = going
StopsTimer(v, going) ==
  /\ pending' = v /\ running' = TRUE /\ timer' = FALSE
  /\ toPulse' = Append(toPulse, Write(v)) /\ UNCHANGED spoilt
Writes(v, going) ==
  /\ pending' = v /\ running' = TRUE /\ timer' = going
  /\ toPulse' = Append(toPulse, Write(v)) /\ UNCHANGED spoilt
\* the context is not ready: no operation, but it stays pending
WriteFails(v) ==
  /\ pending' = v /\ running' = FALSE /\ timer' = FALSE /\ spoilt' = TRUE
  /\ UNCHANGED toPulse
SetTimeout(v) ==
  \/ pending # None /\ Stays(TRUE)
  \/ pending = None /\ pulse # v /\ link \in {"ready", "up"} /\ Writes(v, TRUE)
  \/ pending = None /\ pulse # v /\ link \notin {"ready", "up"} /\ WriteFails(v)
  \/ pending = None /\ pulse = v /\ Stays(FALSE)

\* mafw_gst_renderer_worker_volume_set
Set(v) ==
  /\ known /\ left.sets > 0
  /\ link \in {"ready", "up"} /\ v # current
  /\ current' = v /\ left' = [left EXCEPT !.sets = @ - 1]
  /\ IF timer THEN Stays(TRUE) ELSE SetTimeout(v)
  /\ UNCHANGED <<link, known, pulse, toUs, theirs>>

Tick ==
  /\ timer /\ SetTimeout(current)
  /\ UNCHANGED <<link, known, current, pulse, toUs, theirs, left>>

\* _state_cb_init
Ready ==
  /\ link = "connecting" /\ link' = "ready"
  /\ toPulse' = <<Read(TRUE), Subscribe>>
  /\ UNCHANGED <<ours, toUs, theirs, left, spoilt>>

\* _reconnect, after _state_cb or _state_cb_init has seen the context fail
Reconnect ==
  /\ link = "down" /\ link' = "connecting" /\ running' = FALSE
  /\ UNCHANGED <<known, current, pulse, pending, timer, toPulse, toUs, theirs,
                 left, spoilt>>

\* _ext_stream_restore_read_cb_init: pending_operation is kept
FirstReply(v) ==
  /\ link' = "up" /\ known' = TRUE /\ pulse' = v /\ current' = v
  /\ spoilt' = (spoilt \/ (pending # None /\ ~running))
  /\ UNCHANGED <<pending, running, timer, toPulse>>

\* _ext_stream_restore_read_cb
Ignored(v) == running \/ pending \notin {None, v}
ClearsFirst(v) == v
Seen(v) == IF pending = None THEN v ELSE current
LaterReply(v) ==
  /\ IF Ignored(v)
     THEN spoilt' = (spoilt \/ ~running) /\ UNCHANGED <<pulse, current, pending>>
     ELSE pulse' = v /\ current' = Seen(v) /\ pending' = None /\ UNCHANGED spoilt
  /\ UNCHANGED <<link, known, running, timer, toPulse>>

Receive ==
  /\ toUs # <<>> /\ toUs' = Tail(toUs)
  /\ LET m == Head(toUs) IN
     \/ /\ m.what = "reply"
        /\ LET v == ToPercent(m.value) IN
           IF m.init THEN FirstReply(v) ELSE LaterReply(v)
     \/ /\ m.what = "event" /\ toPulse' = Append(toPulse, Read(FALSE))
        /\ UNCHANGED <<link, ours, spoilt>>
     \/ /\ m.what = "ack" /\ running' = FALSE
        /\ UNCHANGED <<link, known, current, pulse, pending, timer, toPulse, spoilt>>
  /\ UNCHANGED <<theirs, left>>

-----------------------------------------------------------------------------
(* PulseAudio.                                                             *)

Told(l) == IF subscribed THEN l \o <<Event>> ELSE l

Serve ==
  /\ toPulse # <<>> /\ toPulse' = Tail(toPulse)
  /\ LET m == Head(toPulse) IN
     \/ m.what = "read" /\ toUs' = Append(toUs, Reply(m.init)) /\ UNCHANGED theirs
     \/ m.what = "subscribe" /\ subscribed' = TRUE /\ UNCHANGED <<toUs, actual>>
     \/ /\ m.what = "write" /\ actual' = m.steps
        /\ toUs' = Append(Told(toUs), Ack) /\ UNCHANGED subscribed
  /\ UNCHANGED <<link, ours, left, spoilt>>

\* a write is refused: it is only acknowledged
Refuse ==
  /\ toPulse # <<>> /\ Head(toPulse).what = "write" /\ left.fails > 0
  /\ toPulse' = Tail(toPulse) /\ toUs' = Append(toUs, Ack)
  /\ left' = [left EXCEPT !.fails = @ - 1] /\ spoilt' = TRUE
  /\ UNCHANGED <<link, ours, theirs>>

\* missed between the first read and the subscription
Missed ==
  /\ ~subscribed
  /\ link = "up" \/ \E i \in DOMAIN toUs : toUs[i].what = "reply"
Other(s) ==
  /\ left.others > 0 /\ link # "down" /\ s # actual
  /\ actual' = s /\ toUs' = Told(toUs)
  /\ left' = [left EXCEPT !.others = @ - 1]
  /\ spoilt' = (spoilt \/ Missed)
  /\ UNCHANGED <<link, ours, toPulse, subscribed>>

\* PulseAudio restarts; it has stored the volume
Fail ==
  /\ left.fails > 0 /\ link # "down" /\ link' = "down"
  /\ toPulse' = <<>> /\ toUs' = <<>> /\ subscribed' = FALSE /\ running' = FALSE
  /\ left' = [left EXCEPT !.fails = @ - 1]
  /\ UNCHANGED <<known, current, pulse, pending, timer, actual, spoilt>>

Next ==
  \/ \E v \in Percent : Set(v)
  \/ Tick \/ Ready \/ Reconnect \/ Receive
  \/ Serve \/ Refuse \/ Fail \/ \E s \in Steps : Other(s)

Spec == Init /\ [][Next]_vars

(* The timer goes off, the main loop turns, PulseAudio serves and is back. *)
FairSpec ==
  Spec /\ WF_vars(Tick) /\ WF_vars(Ready) /\ WF_vars(Reconnect)
       /\ WF_vars(Receive) /\ WF_vars(Serve)

-----------------------------------------------------------------------------
(* What the user sees and what PulseAudio has agree in the end, whatever   *)
(* was set, how fast, and by whom, though only one write is made at a time *)
(* and answers to reads cross it.  Except once, in spoilt: what was        *)
(* written is never read, because another client changed the volume before *)
(* it was, or the write was refused or lost in a restart; then the         *)
(* operation stays pending and the volume is stuck for good.  Or another   *)
(* client changed it between the first read and the subscription.          *)
Agree == <>[](spoilt \/ current = ToPercent(actual))

(* As long as nobody else changes it, the volume the user sees is the one  *)
(* set last, however late the answers about those set before are read.     *)
(* Only the first read of a connection overrides it.  (With other clients  *)
(* it may be taken back: their event and that of the write both make a     *)
(* read, the first answer ends the operation, the second is believed.)     *)
NoEcho ==
  [][Receive /\ current' # current =>
       Head(toUs).init \/ left.others < MaxOthers]_vars
=============================================================================
