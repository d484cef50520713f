----------------------------- MODULE GstRenderer -----------------------------
(***************************************************************************)
(* The state machine of the GStreamer renderer (mafw-gst-renderer.c and    *)
(* mafw-gst-renderer-state*.c).                                            *)
(*                                                                         *)
(* The renderer plays the current item of its playlist (mode "playlist")   *)
(* or one object somebody asked for (mode "standalone").  To play an       *)
(* object it stops the worker, asks the object's source for its URI and    *)
(* waits in Transitioning.  A request cannot be taken back: stop, play or  *)
(* next leave its answer on the way, to meet whatever the renderer does by *)
(* then.  Everything runs in one main loop, so a handler is one step: a    *)
(* command of the user, an answer of a source, an idle callback, a         *)
(* notification of the worker or of the playlist iterator.                 *)
(*                                                                         *)
(* RequestUnlessMissing, StartOver, ClipReplaced and TryNextForever are    *)
(* wrong versions of the one that follows them; nothing uses them, they    *)
(* are there to replace it and show which property notices.                *)
(*                                                                         *)
(* The playlist is seen through its iterator: a size and a current object. *)
(* Where a move leads is left open, so that it stands for any order,       *)
(* shuffled or not, repeated or not.  The worker is seen through what it   *)
(* was told and what it notifies.                                          *)
(***************************************************************************)
EXTENDS Integers

CONSTANTS
  Obj,           \* object ids
  NoObj,         \* no object; as an index of pend, "its source is missing"
  MaxSize,       \* bound: items in the playlist
  MaxPending,    \* bound: answers on their way, of each kind
  PlaylistFails, \* the playlist may fail to say which item is next
  LateErrors     \* a pipeline may fail between prerolling and playing

ASSUME NoObjAssumption == NoObj \notin Obj
ASSUME BoundAssumption == MaxSize \in Nat /\ MaxPending \in Nat
ASSUME FlagAssumption  == PlaylistFails \in BOOLEAN /\ LateErrors \in BOOLEAN

VARIABLES
  cur,       \* current_state
  mode,      \* playback_mode
  media,     \* media->object_id
  wk,        \* what the worker does
  wclip,     \* the object its pipeline was started for
  stay,      \* worker->stay_paused
  assigned,  \* there is a playlist
  size,      \* the iterator's size
  current,   \* the iterator's current object
  resume,    \* resume_playlist
  failed,    \* play_failed_count
  policy,    \* error_policy
  pend       \* answers on their way: [Obj -> Nat], and idle errors at NoObj

player == <<cur, mode, media, wk, wclip>>
list   == <<assigned, size, current>>
vars   == <<cur, mode, media, wk, wclip, stay, assigned, size, current,
            resume, failed, policy, pend>>

States  == {"Stopped", "Transitioning", "Playing", "Paused"}
Phases  == {"idle", "prerolling", "starting", "playing",
            "pausing", "paused", "resuming", "ended"}

-----------------------------------------------------------------------------
(* What the handlers are made of.                                          *)

(* set_media_playlist: the playlist's current object, if any.              *)
MediaAt(item) == IF assigned /\ size > 0 THEN item ELSE NoObj
Current == MediaAt(current)

Quiet == wk' = "idle" /\ wclip' = NoObj

RequestUnlessMissing(o, p) ==
  \/ p[o] < MaxPending /\ pend' = [p EXCEPT ![o] = @ + 1]
  \/ pend' = p

(* get_metadata: the source is asked, or there is none and an idle         *)
(* callback will run the error policy.                                     *)
Request(o, p) ==
  \E kind \in {o, NoObj} :
    p[kind] < MaxPending /\ pend' = [p EXCEPT ![kind] = @ + 1]

Halt(m) == cur' = "Stopped" /\ mode' = "playlist" /\ media' = m /\ Quiet

StartOver(o, md, p) ==
  \/ o = NoObj /\ Halt(NoObj) /\ pend' = p
  \/ /\ o # NoObj /\ cur' = "Transitioning" /\ mode' = md /\ media' = o
     /\ UNCHANGED <<wk, wclip>> /\ Request(o, p)
Start(o, md, p) ==
  \/ o = NoObj /\ Halt(NoObj) /\ pend' = p
  \/ /\ o # NoObj /\ cur' = "Transitioning" /\ mode' = md /\ media' = o
     /\ Quiet /\ Request(o, p)

(* Going back to the playlist, a standalone clip gives way to its item.    *)
OwnMedia == IF mode = "standalone" THEN Current ELSE media

(* The Paused state sets or clears stay_paused before it does as the       *)
(* others.                                                                 *)
PausedSets(b) == stay' = IF cur = "Paused" THEN b ELSE stay

StatePlay(p) == Start(OwnMedia, "playlist", p)

StateStop ==
  /\ IF cur = "Stopped" THEN UNCHANGED player ELSE Halt(OwnMedia)
  /\ PausedSets(FALSE)

(* The iterator moves to some item, or finds itself at the end.            *)
Moved   == assigned /\ size > 0 /\ current' \in Obj
Rewound == assigned /\ IF size > 0 THEN current' \in Obj ELSE UNCHANGED current

-----------------------------------------------------------------------------
Init ==
  /\ cur = "Stopped" /\ mode = "playlist" /\ media = NoObj
  /\ wk = "idle" /\ wclip = NoObj /\ stay = FALSE
  /\ assigned = FALSE /\ size = 0 /\ current = NoObj
  /\ resume = FALSE /\ failed = 0 /\ policy = "continue"
  /\ pend = [o \in Obj \cup {NoObj} |-> 0]

-----------------------------------------------------------------------------
(* Commands of the user.                                                   *)

Play ==
  /\ StatePlay(pend)
  /\ UNCHANGED <<stay, list, resume, failed, policy>>

(* The playlist is resumed after the clip if it was interrupted.           *)
PlayObject(o) ==
  /\ Start(o, "standalone", pend)
  /\ resume' = IF mode = "playlist" THEN cur # "Stopped" ELSE resume
  /\ PausedSets(FALSE)
  /\ UNCHANGED <<list, failed, policy>>

Stop ==
  /\ StateStop
  /\ failed' = 0
  /\ UNCHANGED <<list, resume, policy, pend>>

(* In Playing the change is done when the worker notifies it, at once if   *)
(* the worker is buffering.                                                *)
Pause ==
  /\ \/ cur = "Transitioning" /\ stay' = TRUE /\ UNCHANGED player
     \/ /\ cur = "Playing" /\ wk' = IF wk = "ended" THEN wk ELSE "pausing"
        /\ UNCHANGED <<cur, mode, media, wclip, stay>>
     \/ /\ cur = "Playing" /\ wk # "ended" /\ wk' = "paused"
        /\ stay' = TRUE /\ cur' = "Paused"
        /\ UNCHANGED <<mode, media, wclip>>
  /\ UNCHANGED <<list, resume, failed, policy, pend>>

Resume ==
  /\ \/ cur = "Transitioning" /\ stay /\ UNCHANGED player
     \/ cur = "Paused" /\ wk' = "resuming" /\ UNCHANGED <<cur, mode, media, wclip>>
  /\ stay' = FALSE
  /\ UNCHANGED <<list, resume, failed, policy, pend>>

(* Seeking while paused.                                                   *)
SetPosition ==
  /\ cur = "Paused" /\ stay' = TRUE
  /\ UNCHANGED <<player, list, resume, failed, policy, pend>>

(* In Stopped a move only changes the media.                               *)
MoveStopped ==
  /\ cur = "Stopped"
  /\ \/ Moved /\ media' = MediaAt(current')
     \/ Rewound /\ media' = MediaAt(current')
     \/ (assigned => PlaylistFails) /\ UNCHANGED <<current, media>>
  /\ UNCHANGED <<cur, mode, wk, wclip, stay, pend>>

MoveActive ==
  /\ cur # "Stopped"
  /\ \/ /\ Moved /\ (mode = "playlist" \/ resume)
        /\ Start(MediaAt(current'), "playlist", pend) /\ PausedSets(TRUE)
     \/ /\ Moved /\ mode = "standalone" /\ ~resume
        /\ Halt(MediaAt(current')) /\ PausedSets(FALSE) /\ UNCHANGED pend
     \/ Rewound /\ Start(MediaAt(current'), "playlist", pend) /\ PausedSets(TRUE)
     \/ /\ ~assigned /\ Halt(OwnMedia) /\ PausedSets(FALSE)
        /\ UNCHANGED <<current, pend>>
     \/ /\ assigned /\ PlaylistFails /\ mode' = "playlist" /\ media' = OwnMedia
        /\ PausedSets(TRUE) /\ UNCHANGED <<cur, wk, wclip, current, pend>>

(* next and previous: at the end they go on from the other end.            *)
NextItem ==
  /\ MoveStopped \/ MoveActive
  /\ failed' = 0
  /\ UNCHANGED <<assigned, size, resume, policy>>

(* goto_index with an index that is not in the playlist; otherwise it does *)
(* as next.                                                                *)
GotoIndexOutside ==
  /\ assigned /\ StateStop
  /\ failed' = 0
  /\ UNCHANGED <<list, resume, policy, pend>>

AssignPlaylist ==
  /\ \/ assigned' = FALSE /\ size' = 0 /\ current' = NoObj
     \/ /\ assigned' = TRUE /\ size' \in 0 .. MaxSize
        /\ current' \in IF size' > 0 THEN Obj ELSE {NoObj}
  /\ IF cur = "Stopped" THEN media' = Current' /\ UNCHANGED <<cur, mode, wk, wclip>>
     ELSE Halt(Current')
  /\ PausedSets(FALSE) /\ failed' = 0
  /\ UNCHANGED <<resume, policy, pend>>

SetErrorPolicy ==
  /\ policy' \in {"continue", "stop"}
  /\ UNCHANGED <<player, stay, list, resume, failed, pend>>

(* The memory card the clip is on is about to be unmounted.                *)
PreUnmount ==
  /\ cur \in {"Playing", "Paused"} /\ StateStop
  /\ failed' = 0
  /\ UNCHANGED <<list, resume, policy, pend>>

-----------------------------------------------------------------------------
(* The playlist was edited; the iterator says whether its current item     *)
(* changed.                                                                *)
ClipReplaced ==
  /\ media' = IF mode = "standalone" THEN media ELSE Current'
  /\ UNCHANGED <<cur, mode, wk, wclip, stay, pend>>
ClipChanged ==
  IF mode = "standalone" THEN UNCHANGED <<player, stay, pend>>
  ELSE IF cur = "Stopped"
       THEN media' = Current' /\ UNCHANGED <<cur, mode, wk, wclip, stay, pend>>
       ELSE Start(Current', "playlist", pend) /\ PausedSets(TRUE)

ItemsInserted ==
  /\ assigned /\ size' \in size + 1 .. MaxSize
  /\ IF size = 0 THEN current' \in Obj /\ UNCHANGED assigned /\ ClipChanged
     ELSE UNCHANGED <<assigned, current, player, stay, pend>>
  /\ failed' = 0
  /\ UNCHANGED <<resume, policy>>

ItemsRemoved ==
  /\ assigned /\ size' \in 0 .. size - 1 /\ UNCHANGED assigned
  /\ \/ size' > 0 /\ UNCHANGED <<current, player, stay, pend>>
     \/ current' \in (IF size' > 0 THEN Obj ELSE {NoObj}) /\ ClipChanged
  /\ UNCHANGED <<resume, failed, policy>>

-----------------------------------------------------------------------------
(* _run_error_policy, with the answers p still on their way.               *)

GiveUp(p) ==
  /\ StateStop /\ failed' = 0 /\ pend' = p /\ UNCHANGED current

(* A clip that failed in standalone mode gives way to the playlist.        *)
LeaveStandalone(p) ==
  /\ IF resume THEN StatePlay(p) ELSE Halt(Current) /\ pend' = p
  /\ UNCHANGED <<current, stay, failed>>

TryNextForever(p) ==
  /\ size > 0 /\ Moved
  /\ Start(MediaAt(current'), "playlist", p) /\ failed' = failed /\ UNCHANGED stay
TryNext(p) ==
  \/ /\ size <= failed + 1 /\ (Moved \/ UNCHANGED current)
     /\ IF cur = "Stopped" THEN media' = MediaAt(current') /\ UNCHANGED <<cur, mode, wk, wclip>>
        ELSE Halt(MediaAt(current'))
     /\ PausedSets(FALSE) /\ failed' = 0 /\ pend' = p
  \/ /\ size > failed + 1 /\ Rewound
     /\ IF cur = "Stopped" THEN media' = MediaAt(current') /\ UNCHANGED <<cur, mode, wk, wclip>>
        ELSE Halt(MediaAt(current'))
     /\ PausedSets(FALSE) /\ failed' = 0 /\ pend' = p
  \/ /\ size > failed + 1 /\ Moved
     /\ Start(MediaAt(current'), "playlist", p) /\ failed' = failed + 1 /\ UNCHANGED stay

RunErrorPolicy(oom, p) ==
  /\ \/ (oom \/ (mode = "playlist" /\ policy = "stop")) /\ GiveUp(p)
     \/ ~oom /\ mode = "standalone" /\ LeaveStandalone(p)
     \/ ~oom /\ mode = "playlist" /\ policy = "continue" /\ assigned /\ TryNext(p)
     \/ /\ ~oom /\ mode = "playlist" /\ policy = "continue" /\ ~assigned
        /\ pend' = p /\ UNCHANGED <<player, stay, current, failed>>
  /\ UNCHANGED <<assigned, size, resume, policy>>

(* _notify_metadata: a good answer is used if the renderer still waits for *)
(* this object; a bad one is an error whatever it does by now.             *)
MetadataArrives(o) ==
  LET p == [pend EXCEPT ![o] = @ - 1] IN
  /\ o # NoObj /\ pend[o] > 0
  /\ \/ /\ IF cur = "Transitioning" /\ media = o
           THEN wk' = "prerolling" /\ wclip' = o ELSE UNCHANGED <<wk, wclip>>
        /\ pend' = p
        /\ UNCHANGED <<cur, mode, media, stay, list, resume, failed, policy>>
     \/ RunErrorPolicy(FALSE, p)

(* manage_error_idle: no source was found for an object.                   *)
SourceMissing ==
  pend[NoObj] > 0 /\ RunErrorPolicy(FALSE, [pend EXCEPT ![NoObj] = @ - 1])

-----------------------------------------------------------------------------
(* Notifications of the worker.                                            *)

NotifyPlay  == cur' = IF cur \in {"Transitioning", "Paused"} THEN "Playing" ELSE cur
NotifyPause ==
  /\ cur' = IF cur \in {"Transitioning", "Playing"} THEN "Paused" ELSE cur
  /\ stay' = IF cur = "Transitioning" THEN FALSE ELSE stay

Prerolled ==
  /\ wk = "prerolling" /\ failed' = 0
  /\ IF stay THEN wk' = "paused" /\ NotifyPause
     ELSE wk' = "starting" /\ UNCHANGED <<cur, stay>>
  /\ UNCHANGED <<mode, media, wclip, list, resume, policy, pend>>

WorkerPlays ==
  /\ wk \in {"starting", "resuming"} /\ wk' = "playing" /\ NotifyPlay
  /\ UNCHANGED <<mode, media, wclip, stay, list, resume, failed, policy, pend>>

WorkerPauses ==
  /\ wk = "pausing" /\ wk' = "paused" /\ NotifyPause
  /\ UNCHANGED <<mode, media, wclip, list, resume, failed, policy, pend>>

WorkerFails ==
  /\ wk \in Phases \ {"idle", "ended"} /\ (wk = "starting" => LateErrors)
  /\ \E oom \in BOOLEAN : RunErrorPolicy(oom, pend)

EndOfStandalone ==
  /\ mode = "standalone"
  /\ IF resume THEN StatePlay(pend) ELSE Halt(Current) /\ UNCHANGED pend
  /\ UNCHANGED current

(* At the end of the playlist, or of a radio stream when errors stop       *)
(* playback, the renderer stops.                                           *)
EndOfItem ==
  /\ mode = "playlist"
  /\ \/ Moved /\ Start(current', "playlist", pend)
     \/ Halt(media) /\ UNCHANGED <<current, pend>>
     \/ /\ assigned /\ PlaylistFails /\ wk' = "ended"
        /\ UNCHANGED <<cur, mode, media, wclip, current, pend>>

EndOfStream ==
  /\ wk \in {"playing", "pausing"}
  /\ IF cur = "Playing" THEN EndOfStandalone \/ EndOfItem
     ELSE wk' = "ended" /\ UNCHANGED <<cur, mode, media, wclip, current, pend>>
  /\ UNCHANGED <<stay, assigned, size, resume, failed, policy>>

-----------------------------------------------------------------------------
Command ==
  \/ Play \/ (\E o \in Obj : PlayObject(o)) \/ Stop \/ Pause \/ Resume
  \/ SetPosition \/ NextItem \/ GotoIndexOutside \/ AssignPlaylist \/ SetErrorPolicy
Outside == PreUnmount \/ ItemsInserted \/ ItemsRemoved
Answer  == (\E o \in Obj : MetadataArrives(o)) \/ SourceMissing
Worker  == Prerolled \/ WorkerPlays \/ WorkerPauses \/ WorkerFails \/ EndOfStream

Next == Command \/ Outside \/ Answer \/ Worker

Spec == Init /\ [][Next]_vars

(* A source answers every request, idle callbacks run, and a pipeline that *)
(* was started reports that it prerolls and plays, or an error.            *)
FairSpec ==
  /\ Spec
  /\ \A o \in Obj : WF_vars(MetadataArrives(o))
  /\ WF_vars(SourceMissing)
  /\ WF_vars(Prerolled \/ WorkerPlays \/ WorkerPauses \/ WorkerFails)
-----------------------------------------------------------------------------
(* Properties.                                                             *)

(* Types.                                                                  *)
TypeOK ==
  /\ cur \in States /\ mode \in {"playlist", "standalone"}
  /\ {media, wclip, current} \subseteq Obj \cup {NoObj}
  /\ wk \in Phases /\ policy \in {"continue", "stop"}
  /\ {stay, assigned, resume} \subseteq BOOLEAN
  /\ size \in 0 .. MaxSize /\ failed \in Nat
  /\ pend \in [Obj \cup {NoObj} -> 0 .. MaxPending]

(* A stopped renderer plays nothing and is back at its playlist, whichever *)
(* command, error, end or edit stopped it.                                 *)
StoppedIsIdle ==
  cur = "Stopped" => wk = "idle" /\ wclip = NoObj /\ mode = "playlist"

(* The object the renderer reports as its media is the one its worker      *)
(* plays, and while it follows the playlist that is the current item,      *)
(* through every edit, late answer and change of mode.                     *)
MediaIsPlayed ==
  /\ wclip # NoObj => wclip = media
  /\ cur \in {"Playing", "Paused"} => wclip = media
  /\ mode = "playlist" => media = Current

(* The renderer never waits for nothing: in Transitioning an answer, an    *)
(* idle error or a notification of a running pipeline is still to come.    *)
NothingHangs ==
  cur = "Transitioning" =>
    \/ pend[media] > 0 \/ pend[NoObj] > 0
    \/ wk \in {"prerolling", "starting"}

(* What the renderer says it does is what the worker does.                 *)
WorkerInStep ==
  /\ cur = "Playing" => wk \in {"playing", "pausing"}
  /\ cur = "Paused"  => wk \in {"paused", "resuming"}
  /\ cur = "Transitioning" => wk \in {"idle", "prerolling", "starting"}

(* Left alone, the renderer does not run through failing items for ever:   *)
(* it keeps leaving Transitioning, unless the playlist left it unanswered. *)
Settles ==
  (<>[][~Command /\ ~Outside]_vars) =>
    []<>(cur = "Transitioning" => PlaylistFails /\ ~NothingHangs)
=============================================================================
