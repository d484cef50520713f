---------------------------- MODULE RendererProxy ----------------------------
(***************************************************************************)
(* Clients and the renderer they share: the proxy of a renderer in each    *)
(* client (mafw-proxy-renderer.c, mafw-proxy-extension.c), the wrapper in  *)
(* the renderer's process (renderer-wrapper.c, extension-wrapper.c), and   *)
(* the bus between them, which delivers in order.                          *)
(*                                                                         *)
(* What the renderer does is in GstRenderer.tla; here it is a status that  *)
(* changes, and the signals of one handler are those of its changes.  A    *)
(* client makes a proxy, asks for what it wants to show, and follows the   *)
(* signals.                                                                *)
(*                                                                         *)
(* The properties of the renderer are one, policy, and the metadata and    *)
(* the position are asked for and not followed.  Errors, which a signal    *)
(* tells as well, and the time-outs of the client are left out.            *)
(*                                                                         *)
(* Wrong versions used by nothing, there to replace the definition that    *)
(* follows them: TimerStays.                                               *)
(***************************************************************************)
EXTENDS Integers, Sequences, SequencesExt, FiniteSets

CONSTANTS
  Client,
  Playlist,    \* ids of playlists the daemon has at the start
  NoPlaylist,  \* MAFW_PROXY_PLAYLIST_INVALID_ID
  NoObject,    \* the NULL object id
  Unknown,     \* what a client has not been told
  MaxCalls,    \* bound: calls of a client
  Scenes       \* what may happen in one behaviour, a record of the requests
    \* of the clients, a sequence of sets each, of the changes the renderer may make
    \* by itself, how many, and of whether its process may crash

ProxyCall == Client \X (0 .. MaxCalls)
Owner(k) == k[1]

VARIABLES
  scene,     \* one of Scenes
  up,        \* the renderer's process is running
  status,    \* of the renderer: state, medium, playlist, policy, name, buffer
  moved,     \* the index of the medium changed since it was signalled
  tout,      \* buffering_data: is the timer on, last_state
  used,      \* the playlist the renderer has a use count of
  playlists, \* those the daemon has
  requests,  \* calls the renderer has not handled, in order
  assigning, \* the assign_playlist that is being handled, as a sequence
  follows,   \* clients with a proxy
  inbox,     \* client -> messages
  stage,     \* call -> "none", "sent", "told"
  req,       \* call -> what is asked for
  view,      \* client -> what it was told of the renderer
  turns      \* changes the renderer made by itself

renderer == <<status, moved, tout, used>>
calls    == <<requests, assigning, stage, req>>
cvars == <<scene, up, renderer, playlists, calls, follows, inbox, view, turns>>

NoRequest == [op |-> "none", arg |-> Unknown]

-----------------------------------------------------------------------------
(* The changes of a handler, each signalled when it is made.  The state's  *)
(* transport actions are signalled after it, and follow from it.           *)

Change(field, value) == [field |-> field, value |-> value]
State(s) == Change("state", s)
Media(m) == Change("medium", m)

Nothing   == [index |-> -1, object |-> NoObject]
Alone(o)  == [index |-> -1, object |-> o]
Items     == {[index |-> i, object |-> "item"] : i \in 0 .. 1}
IsAlone   == status.medium.index = -1 /\ status.medium.object # NoObject

\* mafw_gst_renderer_set_media_playlist with playlist p
OfPlaylist(p) == IF p = NoPlaylist THEN {Nothing} ELSE {Nothing} \cup Items

\* back from play_object to the playlist
Back == IF IsAlone THEN {<<Media(m)>> : m \in OfPlaylist(status.playlist)}
                   ELSE {<<>>}

Outcome(ok, changes) == [ok |-> ok, changes |-> changes]

\* the proxy's commands, answered by the renderer's callback
Starts == {"play", "play_object", "play_uri"}
Halts  == {"stop", "pause", "resume"}
Jumps  == {"next", "previous", "goto_index"}
Playback == Starts \cup Halts \cup Jumps

\* mafw_gst_renderer_play: of the playlist, also when something else plays
Plays ==
  {Outcome(FALSE, <<>>)}
  \cup UNION {{Outcome(TRUE, b \o <<State("Transitioning")>>),
               Outcome(FALSE, b), Outcome(FALSE, b \o <<State("Stopped")>>)}
                : b \in Back}

\* mafw_gst_renderer_play_object; play_uri makes an object of the URI
PlaysObject(o) ==
  {Outcome(TRUE, <<Media(Alone(o)), State("Transitioning")>>),
   Outcome(FALSE, <<Media(Alone(o))>>)}

\* mafw_gst_renderer_stop
Stops ==
  IF status.state = "Stopped" THEN {Outcome(TRUE, <<>>)}
  ELSE {Outcome(TRUE, <<State("Stopped")>> \o b) : b \in Back}

\* mafw_gst_renderer_pause and resume: the worker tells the state later
Paused == {Outcome(ok, <<>>) : ok \in BOOLEAN}

\* mafw_gst_renderer_next, previous and goto_index
Moves ==
  {Outcome(FALSE, <<>>)}
  \cup {Outcome(TRUE, <<Media(m)>> \o t) :
           m \in IF status.playlist = NoPlaylist THEN {}
                 ELSE OfPlaylist(status.playlist),
           t \in {<<>>, <<State("Transitioning")>>, <<State("Stopped")>>}}

\* What a command may come to, all of it before its callback is called.
Outcomes(q) ==
  CASE q.op = "play" -> Plays
    [] q.op \in {"play_object", "play_uri"} -> PlaysObject(q.arg)
    [] q.op = "stop" -> Stops
    [] q.op \in {"pause", "resume"} -> Paused
    [] q.op \in Jumps -> Moves

\* What it may do by itself: the worker's messages that it plays or pauses,
Turns ==
  {<<State(t)>> : t \in CASE status.state = "Stopped" -> {}
                          [] status.state = "Transitioning" -> {"Playing", "Paused"}
                          [] status.state = "Playing" -> {"Paused"}
                          [] status.state = "Paused" -> {"Playing"}}
\* that it buffers,
Buffers ==
  IF status.state = "Stopped" THEN {} ELSE {<<Change("buffer", p)>> : p \in {50, 100}}
\* that it came to the end,
Ends ==
  IF status.state = "Stopped" THEN {} ELSE {<<State("Stopped")>> \o b : b \in Back}
\* a change of the playlist
Own ==
  Turns \cup Buffers \cup Ends
  \cup (IF IsAlone THEN {} ELSE {<<Media(m)>> : m \in OfPlaylist(status.playlist)})

-----------------------------------------------------------------------------
(* The wrapper: its handlers of the renderer's signals.                    *)

TimerStays(t) == t
_remove_buffering_tout(t) == IF t.on THEN [on |-> FALSE, last |-> 0] ELSE t

\* w is the status, the timer and what is sent
Sends(w, c) == [w EXCEPT !.sent = Append(@, [is |-> "signal", change |-> c])]

state_changed(w, c) ==
  Sends([w EXCEPT !.status = [@ EXCEPT !.state = c.value, !.buffer = 0],
                  !.tout = _remove_buffering_tout(@)], c)

\* Between two that are sent 750 ms pass, but the end of it is sent at once.
buffering_info(w0, c) ==
  LET w == [w0 EXCEPT !.status.buffer = c.value]
      p == c.value
  IN  IF ~w.tout.on
      THEN Sends([w EXCEPT !.tout = [on |-> TRUE, last |-> p]], c)
      ELSE IF p = 100
           THEN Sends([w EXCEPT !.tout = [on |-> FALSE, last |-> p]], c)
           ELSE [w EXCEPT !.tout.last = p]

Signalled(w, c) ==
  CASE c.field = "state"  -> state_changed(w, c)
    [] c.field = "buffer" -> buffering_info(w, c)
    [] OTHER -> Sends([w EXCEPT !.status[c.field] = c.value], c)

Delivered(box, msgs) ==
  [c \in Client |-> IF c \in follows THEN box[c] \o msgs ELSE box[c]]

Failed(k) == [is |-> "reply", call |-> k, ok |-> FALSE, status |-> status]

\* The reply tells the status at that time, of which the caller takes its part.
Reply(k, ok) == [is |-> "reply", call |-> k, ok |-> ok, status |-> status']

\* the changes of a handler, and the replies it sends after them
Emits(changes, replies) ==
  LET w == FoldLeft(Signalled, [status |-> status, tout |-> tout, sent |-> <<>>],
                    changes)
      box == Delivered(inbox, w.sent)
  IN  /\ status' = w.status /\ tout' = w.tout
      /\ moved' = (moved /\ \A i \in DOMAIN changes : changes[i].field # "medium")
      /\ inbox' = [c \in Client |->
                     box[c] \o SelectSeq(replies, LAMBDA m : Owner(m.call) = c)]

emit_buffering_info_tout ==
  /\ up /\ tout.on
  /\ tout' = [tout EXCEPT !.on = FALSE]
  /\ inbox' = Delivered(inbox, <<[is |-> "signal",
                                  change |-> Change("buffer", tout.last)]>>)
  /\ UNCHANGED <<scene, up, status, moved, used, playlists, calls, follows,
                 view, turns>>

-----------------------------------------------------------------------------
(* The wrapper: handle_renderer_msg, handle_extension_msg.                 *)

Positions == {"get_position", "set_position"}
Asking == Positions \cup {"get_status", "get_current_metadata", "get_name",
                         "get_property"}
NoReplies == {"set_name", "set_property"}

Handles(changes, replies) ==
  /\ Emits(changes, replies)
  /\ requests' = Tail(requests)
  /\ UNCHANGED <<scene, up, used, playlists, assigning, follows, stage, req,
                 view, turns>>

\* commands and questions, answered by playback_cb, get_status_cb and the like
HandlesCommand(k) ==
  /\ req[k].op \in Playback
  /\ \E o \in Outcomes(req[k]) : Handles(o.changes, <<Reply(k, o.ok)>>)

HandlesQuestion(k) ==
  /\ req[k].op \in Asking
  /\ Handles(<<>>, <<Reply(k, TRUE)>>)

\* not answered, and signalled even when it changes nothing
HandlesSetting(k) ==
  /\ req[k].op \in NoReplies
  /\ Handles(<<Change(IF req[k].op = "set_name" THEN "name" ELSE "policy",
                      req[k].arg)>>, <<>>)

\* assign_playlist: asks the daemon for the playlist, then for its contents.
\* When the daemon cannot be asked, nothing is assigned.
FailsAssign(k) ==
  /\ req[k].op = "assign_playlist" /\ req[k].arg # NoPlaylist
  /\ Handles(<<>>, <<Reply(k, FALSE)>>)

HandlesAssign(k) ==
  /\ req[k].op = "assign_playlist"
  /\ assigning' = <<k, IF req[k].arg \in playlists THEN req[k].arg
                       ELSE NoPlaylist>>
  /\ requests' = Tail(requests)
  /\ UNCHANGED <<scene, up, renderer, playlists, follows, inbox, stage, req,
                 view, turns>>

RendererHandles ==
  /\ up /\ assigning = <<>> /\ requests # <<>>
  /\ LET k == Head(requests) IN
     \/ HandlesCommand(k) \/ HandlesQuestion(k) \/ HandlesSetting(k)
     \/ HandlesAssign(k) \/ FailsAssign(k)

\* mafw_gst_renderer_assign_playlist.  When the iterator cannot be made,
\* the old playlist is kept, without its use count.
Assigns ==
  /\ up /\ assigning # <<>>
  /\ LET k  == assigning[1]
         p  == assigning[2]
         ok == p = NoPlaylist \/ p \in playlists
         q  == IF ok THEN p ELSE status.playlist
     IN  /\ \E m \in OfPlaylist(q) :
              Emits(<<Change("playlist", q), Media(m), State("Stopped")>>,
                    <<Reply(k, ok)>>)
         /\ used' = IF ok THEN p ELSE NoPlaylist
  /\ assigning' = <<>>
  /\ UNCHANGED <<scene, up, playlists, requests, follows, stage, req, view,
                 turns>>

-----------------------------------------------------------------------------
(* The renderer by itself, its end, and the playlist daemon.               *)

RendererChanges ==
  /\ up /\ assigning = <<>> /\ turns < scene.turns
  /\ turns' = turns + 1
  /\ \E changes \in Own :
       changes[1].field \in scene.own /\ Emits(changes, <<>>)
  /\ UNCHANGED <<scene, up, used, playlists, calls, follows, view>>

\* An edit of the playlist moves the current item: the renderer is told that
\* the clip did not change, and signals nothing.
ItemMoves ==
  /\ up /\ assigning = <<>> /\ turns < scene.turns /\ "index" \in scene.own
  /\ \E m \in Items \ {status.medium} :
       /\ status.medium \in Items
       /\ status' = [status EXCEPT !.medium = m]
  /\ moved' = TRUE /\ turns' = turns + 1
  /\ UNCHANGED <<scene, up, tout, used, playlists, calls, follows, inbox, view>>

Open == requests \o (IF assigning = <<>> THEN <<>> ELSE <<assigning[1]>>)

\* The bus answers those of client c that want an answer.
Failing(c, ks) ==
  LET of(k) == Owner(k) = c /\ req[k].op \notin NoReplies
      mine  == SelectSeq(ks, of)
  IN  [i \in DOMAIN mine |-> Failed(mine[i])]

Crash ==
  /\ up /\ scene.crash
  /\ up' = FALSE
  /\ inbox' = [c \in Client |-> inbox[c] \o Failing(c, Open)]
  /\ requests' = <<>> /\ assigning' = <<>>
  /\ tout' = [on |-> FALSE, last |-> 0]
  /\ UNCHANGED <<scene, status, moved, used, playlists, follows, stage, req,
                 view, turns>>

DestroysPlaylist(p) ==
  /\ p \in playlists /\ used # p
  /\ playlists' = playlists \ {p}
  /\ UNCHANGED <<scene, up, renderer, calls, follows, inbox, view, turns>>

-----------------------------------------------------------------------------
(* The client.                                                             *)

\* waiting in mafw_dbus_call
Blocked(c) == {k \in ProxyCall : Owner(k) = c /\ stage[k] = "sent"
                            /\ req[k].op = "assign_playlist"}

Sent(k, q) ==
  /\ req' = [req EXCEPT ![k] = q]
  /\ stage' = [stage EXCEPT ![k] = IF q.op \in NoReplies THEN "told" ELSE "sent"]
  /\ requests' = IF up THEN Append(requests, k) ELSE requests
  /\ inbox' = IF up \/ q.op \in NoReplies THEN inbox
              ELSE [inbox EXCEPT ![Owner(k)] = Append(@, Failed(k))]

\* mafw_proxy_renderer_new: the matches are added before it asks the name
New(c) ==
  /\ up /\ c \in DOMAIN scene.requests \ follows
  /\ follows' = follows \cup {c}
  /\ Sent(<<c, 0>>, [op |-> "get_name", arg |-> Unknown])
  /\ UNCHANGED <<scene, up, renderer, playlists, assigning, view, turns>>

\* the n-th call of the proxy; set_name sets the proxy's own name
Calls(c, n) ==
  /\ stage[<<c, 0>>] = "told" /\ Blocked(c) = {}
  /\ n \in DOMAIN scene.requests[c] /\ stage[<<c, n>>] = "none"
  /\ \A m \in 1 .. n - 1 : stage[<<c, m>>] # "none"
  /\ \E q \in scene.requests[c][n] :
       /\ Sent(<<c, n>>, q)
       /\ view' = IF q.op = "set_name" THEN [view EXCEPT ![c].name = q.arg]
                  ELSE view
  /\ UNCHANGED <<scene, up, renderer, playlists, assigning, follows, turns>>

\* mafw_playlist_manager_get_playlist
Resolved(p) == IF p \in playlists THEN p ELSE NoPlaylist

\* the fields a reply tells
Tells(op) ==
  CASE op = "get_status"   -> {"state", "medium", "playlist"}
    [] op = "get_name"     -> {"name"}
    [] op = "get_property" -> {"policy"}
    [] OTHER               -> {}

Learned(field, value) == IF field = "playlist" THEN Resolved(value) ELSE value

\* A change of the state ends what was heard of the buffering.
Hears(v, c) ==
  IF c.field = "state" THEN [v EXCEPT !.state = c.value, !.buffer = 0]
                       ELSE [v EXCEPT ![c.field] = Learned(c.field, c.value)]

Told(v, op, s) ==
  [f \in DOMAIN v |-> IF f \in Tells(op) THEN Learned(f, s[f]) ELSE v[f]]

ClientHandles(c) ==
  /\ Blocked(c) = {} /\ inbox[c] # <<>>
  /\ LET m == Head(inbox[c]) IN
     IF m.is = "signal"
     THEN view' = [view EXCEPT ![c] = Hears(@, m.change)] /\ UNCHANGED stage
     ELSE /\ stage' = [stage EXCEPT ![m.call] = "told"]
          /\ view' = [view EXCEPT ![c] =
                        IF m.ok THEN Told(@, req[m.call].op, m.status) ELSE @]
  /\ inbox' = [inbox EXCEPT ![c] = Tail(@)]
  /\ UNCHANGED <<scene, up, renderer, playlists, requests, assigning, req,
                 follows, turns>>

\* The reply of assign_playlist is taken before the signals sent before it.
Unblocks(c) ==
  /\ \E i \in DOMAIN inbox[c] :
       /\ inbox[c][i].is = "reply" /\ inbox[c][i].call \in Blocked(c)
       /\ stage' = [stage EXCEPT ![inbox[c][i].call] = "told"]
       /\ inbox' = [inbox EXCEPT ![c] = RemoveAt(@, i)]
  /\ UNCHANGED <<scene, up, renderer, playlists, requests, assigning, req,
                 follows, view, turns>>

-----------------------------------------------------------------------------
CInit ==
  /\ scene \in Scenes
  /\ up = TRUE
  /\ status = [state |-> "Stopped", medium |-> Nothing, playlist |-> NoPlaylist,
               policy |-> "continue", name |-> "renderer", buffer |-> 0]
  /\ moved = FALSE /\ tout = [on |-> FALSE, last |-> 0] /\ used = NoPlaylist
  /\ playlists = Playlist
  /\ requests = <<>> /\ assigning = <<>>
  /\ follows = {} /\ inbox = [c \in Client |-> <<>>]
  /\ stage = [k \in ProxyCall |-> "none"] /\ req = [k \in ProxyCall |-> NoRequest]
  /\ view = [c \in Client |-> [f \in DOMAIN status |-> Unknown]]
  /\ turns = 0

CNext ==
  \/ RendererHandles \/ Assigns \/ emit_buffering_info_tout
  \/ RendererChanges \/ ItemMoves \/ Crash
  \/ \E p \in Playlist : DestroysPlaylist(p)
  \/ \E c \in Client : \/ New(c) \/ ClientHandles(c) \/ Unblocks(c)
                       \/ \E n \in 1 .. MaxCalls : Calls(c, n)

(* Main loops turn.                                                        *)
CSpec ==
  /\ CInit /\ [][CNext]_cvars
  /\ WF_cvars(RendererHandles) /\ WF_cvars(Assigns)
  /\ \A c \in Client : WF_cvars(ClientHandles(c)) /\ WF_cvars(Unblocks(c))

-----------------------------------------------------------------------------
\* client c has field f of the renderer's status right, if it has been told
Right(c, f) ==
  \/ view[c][f] \in {Unknown, status[f]}
  \/ f = "buffer" /\ tout.on
  \/ f = "medium" /\ moved
  \/ f = "playlist" /\ view[c][f] = Resolved(status[f])

(* A client that asked and follows the signals has the renderer as it is,  *)
(* whatever was on the way when it began to, and whoever else calls: when  *)
(* it has handled its messages, what it was told of state, media,          *)
(* playlist, name, properties and buffering is what they are.  But for the *)
(* index of the current item, when an edit of the playlist moved it.       *)
Agrees ==
  up /\ requests = <<>> =>
    \A c \in Client : inbox[c] = <<>> =>
      \A f \in DOMAIN status : Right(c, f)

(* And each call of its proxy is answered in the end, though the           *)
(* renderer's process crash: also a call that waits for its answer.        *)
ClientsFollow ==
  [](Agrees /\ <>(\A k \in ProxyCall : stage[k] # "sent"))
=============================================================================
