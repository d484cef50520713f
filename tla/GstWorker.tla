------------------------------ MODULE GstWorker ------------------------------
(***************************************************************************)
(* The worker of the GStreamer renderer (mafw-gst-renderer-worker.c)       *)
(* between the renderer, which commands it and is notified by it, and the  *)
(* GStreamer pipeline, which is asked for a state, reaches it step by      *)
(* step, and tells by messages handled later in the main loop.             *)
(*                                                                         *)
(* A handler often calls another in its middle: the handlers are therefore *)
(* functions from the state s before a call to the state after it, and a   *)
(* step of the system applies one of them.  Fields of s:                   *)
(*   gst, target, bus, low   the pipeline (external): its state, the one   *)
(*                     it was asked for, messages not handled yet, and     *)
(*                     whether its buffer is low                           *)
(*   owner             the renderer's state                                *)
(*   want              history: "play" or "pause", the user's last word    *)
(*   st ...            the fields of MafwGstRendererWorker; more is the    *)
(*                     number of items or alternatives left, parsed tells  *)
(*                     that media.location is set                          *)
(*                                                                         *)
(* Positions and metadata are left out, but for what seek_position decides.*)
(* PlaysAnyway and DropsPending are wrong versions of the definition that  *)
(* follows, used by nothing.                                               *)
(***************************************************************************)
EXTENDS Integers, Sequences

CONSTANTS
  MaxBus,    \* bound: messages on the bus
  MaxMore,   \* bound: items left in a worker's playlist
  Scenarios  \* sets of what may happen in one behaviour: see Kinds

(* The user pauses and resumes; seeks; gives commands, and the timer goes  *)
(* off, before the pipeline has reached what it was asked for; the stream  *)
(* buffers; a long pause sends the pipeline to READY; a URI has            *)
(* alternatives or is a playlist; a playlist cannot be parsed; errors and  *)
(* ends of stream.                                                         *)
Kinds == {"pause", "seek", "hasty", "buffer", "ready", "items", "unparsable",
          "errors"}
ASSUME ScenariosAssumption == Scenarios \subseteq SUBSET Kinds
ASSUME BoundAssumption == MaxBus \in Nat /\ MaxMore \in Nat

VARIABLE s

GstStates == <<"NULL", "READY", "PAUSED", "PLAYING">>
Rank(g) == CHOOSE i \in 1 .. 4 : GstStates[i] = g

-----------------------------------------------------------------------------
(* The pipeline (external).                                                *)

Post(x, m) == [x EXCEPT !.bus = Append(@, m)]
Changed(old, new) == [kind |-> "state", old |-> old, new |-> new]
Buffered(full) == [kind |-> "buffering", full |-> full]
SetState(x, g) == [x EXCEPT !.target = g]

\* a flushing seek takes a playing pipeline to PAUSED and back; in a pipeline
\* that is in READY by now it fails
GstSeek(x) ==
  IF x.gst = "PLAYING"
  THEN Post([x EXCEPT !.gst = "PAUSED"], Changed("PAUSED", "PAUSED"))
  ELSE x

Toward(g, t) == GstStates[IF Rank(g) < Rank(t) THEN Rank(g) + 1
                                               ELSE Rank(g) - 1]
Advances ==
  /\ s.gst # s.target /\ Len(s.bus) < MaxBus
  /\ LET g == Toward(s.gst, s.target) IN
     s' = Post([s EXCEPT !.gst = g], Changed(s.gst, g))
RunsLow ==
  /\ "buffer" \in s.kinds /\ s.stream /\ Len(s.bus) < MaxBus
  /\ s.gst \in {"PAUSED", "PLAYING"}
  /\ s' = Post([s EXCEPT !.low = TRUE], Buffered(FALSE))
Fills ==
  /\ s.low /\ Len(s.bus) < MaxBus
  /\ s' = Post([s EXCEPT !.low = FALSE], Buffered(TRUE))
Errs ==
  /\ "errors" \in s.kinds /\ s.target # "NULL" /\ Len(s.bus) < MaxBus
  /\ s' = Post(s, [kind |-> "error"])
Ends ==
  /\ "errors" \in s.kinds /\ s.gst = "PLAYING" /\ Len(s.bus) < MaxBus
  /\ s' = Post(s, [kind |-> "eos"])


Settled == s.bus = <<>> /\ s.gst = s.target
InTime == Settled \/ "hasty" \in s.kinds

-----------------------------------------------------------------------------
(* The renderer's side of a notification.                                  *)

NotifyPlay(x) ==
  IF x.owner \in {"Transitioning", "Paused"}
  THEN [x EXCEPT !.owner = "Playing"] ELSE x
NotifyPause(x) ==
  CASE x.owner = "Transitioning" -> [x EXCEPT !.owner = "Paused", !.stay = FALSE]
    [] x.owner = "Playing" -> [x EXCEPT !.owner = "Paused"]
    [] OTHER -> x

-----------------------------------------------------------------------------
(* The worker.                                                             *)

\* mafw_gst_renderer_worker_stop: nothing to do for a pipeline made ahead,
\* which is recognised by its bus watch and the missing location
WorkerStop(x) ==
  IF x.watch /\ ~x.parsed THEN x
  ELSE [x EXCEPT
         !.gst = "NULL", !.target = "NULL", !.bus = <<>>, !.low = FALSE,
         !.st = "NULL", !.report = TRUE, !.prerolling = FALSE,
         !.live = FALSE, !.buffering = FALSE, !.stream = FALSE,
         !.failed = FALSE, !.eos = FALSE, !.seek = -1, !.timer = "off",
         !.inReady = FALSE, !.seekable = "unknown", !.parsed = FALSE,
         !.watch = TRUE]

\* _start_play of a location; whether it is a stream, and a live one, shows
StartPlay(x, stream, live) ==
  [x EXCEPT !.parsed = TRUE, !.watch = TRUE, !.target = "PAUSED",
            !.report = TRUE, !.prerolling = TRUE, !.live = live,
            !.stream = stream]

PlayNextItem(x) ==
  StartPlay([WorkerStop(x) EXCEPT !.more = x.more - 1], x.stream, x.live)

\* _add_ready_timeout: an unknown seekability counts as seekable
AddTimer(x) ==
  IF x.seekable = "no" THEN [x EXCEPT !.timer = "off"]
  ELSE IF x.timer = "off" /\ "ready" \in x.kinds THEN [x EXCEPT !.timer = "on"]
  ELSE x
RemoveTimer(x) == [x EXCEPT !.timer = "off", !.inReady = FALSE]

PlaysAnyway(x) == SetState([x EXCEPT !.report = TRUE], "PLAYING")
DoPlay(x) ==
  LET y == [x EXCEPT !.report = TRUE] IN
  IF y.stay THEN AddTimer(y)
  ELSE SetState(y, IF y.st = "READY" THEN "PAUSED" ELSE "PLAYING")

DoSeek(x, pos) ==
  IF x.eos \/ x.seekable = "no" THEN x
  ELSE LET y == [x EXCEPT !.seek = pos, !.report = FALSE] IN
       IF y.inReady /\ y.st = "READY" THEN SetState(y, "PAUSED")
       ELSE GstSeek(y)

PauseProcessing(x) == AddTimer(NotifyPause(x))

DropsPending(x) ==
  IF ~x.report THEN x
  ELSE IF x.mode = "single" THEN NotifyPlay(x)
  ELSE [x EXCEPT !.pending = FALSE]
ReportPlaying(x) ==
  IF ~x.report THEN x
  ELSE IF x.mode = "single" THEN NotifyPlay(x)
  ELSE IF x.pending THEN [NotifyPlay(x) EXCEPT !.pending = FALSE]
  ELSE x

\* _finalize_startup, _do_play: q is the answer about seekability
Started(x, q) == DoPlay([x EXCEPT !.seekable = q])
Prerolled(x, q) == [Started(x, q) EXCEPT !.prerolling = FALSE]

WokenUp(x, q) ==
  LET y == IF x.seek > 0
           THEN LET z == [x EXCEPT !.seekable = q] IN
                IF q # "no" THEN DoSeek(z, z.seek) ELSE z
           ELSE x
  IN IF ~y.stream \/ y.live THEN DoPlay(y) ELSE y

\* _handle_state_changed
StateChanged(x0, old, new, q) ==
  LET x == [x0 EXCEPT !.st = new] IN
  IF x0.st = new THEN x0
  ELSE IF old = "READY" /\ new = "PAUSED" /\ x.inReady THEN WokenUp(x, q)
  ELSE IF x.buffering
       THEN IF old = "PAUSED" /\ new = "PLAYING" THEN ReportPlaying(x) ELSE x
  ELSE IF old = "READY" /\ new = "PAUSED"
       THEN IF x.prerolling /\ x.report
            THEN LET y == Prerolled(x, q) IN
                 IF y.stay THEN PauseProcessing(y) ELSE y
            ELSE x
  ELSE IF old = "PLAYING" /\ new = "PAUSED"
       THEN IF x.report THEN PauseProcessing(x) ELSE x
  ELSE IF old = "PAUSED" /\ new = "PLAYING"
       THEN RemoveTimer(ReportPlaying([x EXCEPT !.seek = -1, !.eos = FALSE]))
  ELSE x

\* _handle_buffering
BufferLow(x) ==
  LET y == [x EXCEPT !.buffering = TRUE] IN
  IF y.st = "PLAYING" THEN SetState([y EXCEPT !.report = FALSE], "PAUSED")
  ELSE y
BufferFull(x, q) ==
  LET y == [x EXCEPT !.buffering = FALSE] IN
  CASE y.st = "PAUSED" /\ y.prerolling ->
         LET z == Prerolled(y, q) IN IF z.stay THEN NotifyPause(z) ELSE z
    [] y.st = "PAUSED" /\ ~y.prerolling /\ y.inReady -> DoPlay(y)
    [] y.st = "PAUSED" /\ ~y.prerolling /\ ~y.inReady ->
         IF y.stay THEN y ELSE SetState(y, "PLAYING")
    [] y.st = "PLAYING" ->
         LET z == SetState(y, "PLAYING") IN
         IF z.report THEN NotifyPlay(z) ELSE z
    [] OTHER -> y
Buffering(x, full, q) ==
  IF x.live THEN x ELSE IF full THEN BufferFull(x, q) ELSE BufferLow(x)

\* _send_error: the renderer stops the worker; it may play something else
SendError(x) ==
  [WorkerStop([x EXCEPT !.failed = TRUE]) EXCEPT !.owner = "Stopped"]
NormalMode(x) == [x EXCEPT !.mode = "single", !.more = 0, !.pending = TRUE]

HasNext(x) == x.more > 0

\* why: no space is left, the location is a playlist after all, or another
\* error.  Items of playlists are taken not to be playlists themselves.
PlayItems(x, n) ==
  StartPlay([WorkerStop(x) EXCEPT !.mode = "playlist", !.more = n,
                                  !.pending = TRUE], x.stream, x.live)
Error(x, why, n) ==
  CASE x.mode # "single" /\ HasNext(x) ->
         IF why = "nospace" THEN SendError(x) ELSE PlayNextItem(x)
    [] x.mode # "single" /\ ~HasNext(x) -> SendError(NormalMode(x))
    [] x.mode = "single" ->
         IF why = "playlist" THEN PlayItems(x, n) ELSE SendError(x)

\* End of stream.  What the renderer did with the notification comes first:
\* a renderer that plays stops the worker; then the bus watch is taken away,
\* be it that of the new pipeline.
Unwatched(x) == [x EXCEPT !.watch = FALSE]
NotifyEos(x) ==
  IF x.owner = "Playing"
  THEN [WorkerStop(x) EXCEPT !.owner = "Stopped"] ELSE x
Eos(x0) ==
  LET x == [x0 EXCEPT !.eos = TRUE] IN
  IF x.mode = "playlist" /\ HasNext(x) THEN PlayNextItem(x)
  ELSE LET y == Unwatched(NotifyEos(
                  IF x.mode = "playlist" THEN NormalMode(x) ELSE x))
       IN IF y.mode = "redundant" THEN NormalMode(y) ELSE y

\* _async_bus_handler: nothing is handled after an error
Handle ==
  /\ s.watch /\ s.bus # <<>>
  /\ LET m == Head(s.bus)
         x == [s EXCEPT !.bus = Tail(@)] IN
     IF s.failed THEN s' = x
     ELSE \/ /\ m.kind = "state"
             /\ \E q \in {"yes", "no"} : s' = StateChanged(x, m.old, m.new, q)
          \/ /\ m.kind = "buffering"
             /\ \E q \in {"yes", "no"} : s' = Buffering(x, m.full, q)
          \/ /\ m.kind = "error"
             /\ \E why \in {"nospace", "playlist", "other"}, n \in 0 .. MaxMore :
                  s' = Error(x, why, n)
          \/ m.kind = "eos" /\ s' = Eos(x)

\* _go_to_gst_ready: refused unless paused, the timer's id is then kept
GoToReady ==
  /\ s.timer = "on" /\ InTime
  /\ IF s.st = "PAUSED" \/ s.prerolling
     THEN \E pos \in {0, 1} :
          s' = SetState([s EXCEPT !.seek = IF @ # -1 THEN @ ELSE pos,
                                  !.inReady = TRUE, !.timer = "off"],
                        "READY")
     ELSE s' = [s EXCEPT !.timer = "stale"]

-----------------------------------------------------------------------------
(* The renderer's commands, as its states allow them.                      *)

\* mafw_gst_renderer_worker_play and _play_alternatives, of an item, a parsed
\* playlist, alternatives or a playlist that cannot be parsed
Play ==
  /\ \E mode \in {"single", "playlist", "redundant", "unparsable"},
        n \in 0 .. MaxMore, stream, live, stay \in BOOLEAN :
       /\ mode \in {"single", "unparsable"} => n = 0
       /\ mode \in {"playlist", "redundant"} => "items" \in s.kinds
       /\ mode = "unparsable" => "unparsable" \in s.kinds
       /\ live => stream
       /\ stream => "buffer" \in s.kinds
       /\ stay => "pause" \in s.kinds
       /\ LET x == [WorkerStop(s) EXCEPT
                     !.owner = "Transitioning", !.stay = stay,
                     !.want = IF stay THEN "pause" ELSE "play",
                     !.more = n, !.pending = TRUE]
          IN s' = IF mode = "unparsable" THEN SendError(x)
                  ELSE StartPlay([x EXCEPT !.mode = mode], stream, live)
Stop ==
  /\ s.owner # "Stopped"
  /\ s' = [WorkerStop(s) EXCEPT !.owner = "Stopped",
             !.stay = IF s.owner = "Paused" THEN FALSE ELSE @]

\* mafw_gst_renderer_worker_pause and _resume
Silently(x) == x.buffering /\ x.st = "PAUSED" /\ ~x.prerolling
WorkerPause(x) ==
  IF Silently(x) THEN NotifyPause([x EXCEPT !.stay = TRUE])
  ELSE SetState([x EXCEPT !.report = TRUE], "PAUSED")
WorkerResume(x) ==
  LET y == [x EXCEPT !.pending = (@ \/ x.mode # "single")] IN
  IF Silently(y) THEN [y EXCEPT !.report = TRUE] ELSE DoPlay(y)

\* in Transitioning the renderer only sets stay_paused
Pause ==
  /\ "pause" \in s.kinds /\ InTime
  /\ LET x == [s EXCEPT !.want = "pause"] IN
     \/ s.owner = "Transitioning" /\ s' = [x EXCEPT !.stay = TRUE]
     \/ s.owner = "Playing" /\ s' = WorkerPause(x)
Resume ==
  /\ InTime
  /\ LET x == [s EXCEPT !.stay = FALSE, !.want = "play"] IN
     \/ s.owner = "Transitioning" /\ s.stay /\ s' = x
     \/ s.owner = "Paused" /\ s' = WorkerResume(x)
SetPosition ==
  /\ "seek" \in s.kinds /\ s.owner \in {"Playing", "Paused"}
  /\ InTime /\ Len(s.bus) < MaxBus
  /\ \E pos \in {0, 1} :
       LET x == IF s.owner = "Paused" THEN [s EXCEPT !.stay = TRUE] ELSE s
           y == IF x.timer # "off" THEN AddTimer(RemoveTimer(x)) ELSE x
       IN s' = DoSeek(y, pos)

-----------------------------------------------------------------------------
Init == \E kinds \in Scenarios : s = [
  kinds |-> kinds,
  gst |-> "NULL", target |-> "NULL", bus |-> <<>>, low |-> FALSE,
  owner |-> "Stopped", want |-> "play",
  st |-> "NULL", mode |-> "single", more |-> 0, pending |-> TRUE,
  prerolling |-> FALSE, stay |-> FALSE, report |-> TRUE, inReady |-> FALSE,
  timer |-> "off", seek |-> -1, seekable |-> "unknown", buffering |-> FALSE,
  stream |-> FALSE, live |-> FALSE, eos |-> FALSE, failed |-> FALSE,
  parsed |-> FALSE, watch |-> TRUE]

Pipeline == Advances \/ RunsLow \/ Fills \/ Errs \/ Ends
Command == Play \/ Stop \/ Pause \/ Resume \/ SetPosition
Next == Pipeline \/ Handle \/ GoToReady \/ Command
Spec == Init /\ [][Next]_s

\* The pipeline goes where it was asked to and its buffer fills; the main loop
\* handles messages.  (Strong for the pipeline: MaxBus may block it for a
\* while, the code's bus does not.)
Fairness == SF_s(Advances) /\ WF_s(Fills) /\ WF_s(Handle)
FairSpec == Spec /\ Fairness

-----------------------------------------------------------------------------
(* Properties.                                                             *)

\* Every field has its type.
TypeOK ==
  LET States == {GstStates[i] : i \in 1 .. 4} IN
  /\ \A f \in {"low", "pending", "prerolling", "stay", "report", "inReady",
              "buffering", "stream", "live", "eos", "failed", "parsed",
              "watch"} : s[f] \in BOOLEAN
  /\ \A f \in {"gst", "target", "st"} : s[f] \in States
  /\ s.owner \in {"Stopped", "Transitioning", "Playing", "Paused"}
  /\ s.want \in {"play", "pause"} /\ s.timer \in {"off", "on", "stale"}
  /\ s.mode \in {"single", "playlist", "redundant"} /\ s.more \in 0 .. MaxMore
  /\ s.seek \in -1 .. 1 /\ s.seekable \in {"unknown", "yes", "no"}
  /\ Len(s.bus) <= MaxBus /\ s.kinds \in Scenarios

\* When nothing is on its way (no message, no state to reach, no buffer to
\* fill), the renderer and the pipeline agree: the renderer does not wait for
\* a state the pipeline will never reach, thinks that it plays when the
\* pipeline does, and that it is paused only when the pipeline is, or has been
\* sent to READY by the timer.
Agrees ==
  Settled /\ ~s.low =>
    /\ s.owner # "Transitioning"
    /\ s.owner = "Playing" => s.gst = "PLAYING"
    /\ s.owner = "Paused" => s.gst \in {"PAUSED", "READY"}

\* What is started ends playing, paused or stopped, whatever errors, other
\* candidates and lack of data come in between, unless the user starts
\* something else for ever.
Settles == \/ []<><<Play>>_s
           \/ s.owner = "Transitioning" ~> s.owner # "Transitioning"
=============================================================================
