-------------------------- MODULE GstRenderer_proofs --------------------------
(***************************************************************************)
(* Proofs about GstRenderer, for any objects, bounds and playlists.        *)
(*                                                                         *)
(* TypeOK and StoppedIsIdle are inductive as they stand.  The others need  *)
(* a playlist that answers (~PlaylistFails) and each other, with what ties *)
(* the pipeline to the media: IInv.  A handler ends in one of three ways   *)
(* -- it starts an object, stops, or leaves the player as it is -- so      *)
(* Start, Halt and StateStop each get a lemma, and the actions cite them.  *)
(***************************************************************************)
EXTENDS GstRenderer, TLAPS

Objs  == Obj \cup {NoObj}
Pends == [Objs -> 0 .. MaxPending]
Modes == {"playlist", "standalone"}

(* The pipeline, if there is one, is the media's, and a renderer that is   *)
(* not stopped has a media.                                                *)
PipelineOfMedia ==
  /\ wk # "idle" => wclip = media
  /\ wk = "idle" => wclip = NoObj
  /\ wk # "ended"
  /\ cur # "Stopped" => media # NoObj

Steady == PipelineOfMedia /\ MediaIsPlayed /\ NothingHangs /\ WorkerInStep

IInv == TypeOK /\ StoppedIsIdle /\ Steady

-----------------------------------------------------------------------------
(* Types.                                                                  *)

LEMMA CurrentTyped ==
  ASSUME TypeOK PROVE Current \in Objs /\ OwnMedia \in Objs
BY DEF TypeOK, Current, MediaAt, OwnMedia, Objs

(* What the helpers leave is typed.                                        *)
PlayerTyped ==
  /\ cur \in States /\ mode \in Modes
  /\ media \in Objs /\ wclip \in Objs /\ wk \in Phases

LEMMA HaltTyped ==
  ASSUME NEW m \in Objs, Halt(m) PROVE PlayerTyped'
BY DEF Halt, Quiet, PlayerTyped, States, Modes, Phases, Objs

LEMMA RequestTyped ==
  ASSUME NEW o \in Objs, NEW p \in Pends, Request(o, p) PROVE pend' \in Pends
<1>1. PICK kind \in {o, NoObj} :
        p[kind] < MaxPending /\ pend' = [p EXCEPT ![kind] = @ + 1]
  BY DEF Request
<1>2. kind \in Objs /\ p[kind] \in 0 .. MaxPending
  BY DEF Objs, Pends
<1>3. p[kind] + 1 \in 0 .. MaxPending
  BY <1>1, <1>2, BoundAssumption
<1> QED BY <1>1, <1>2, <1>3 DEF Pends

LEMMA StartTyped ==
  ASSUME NEW o \in Objs, NEW md \in Modes, NEW p \in Pends, Start(o, md, p),
         PlayerTyped
  PROVE  PlayerTyped' /\ pend' \in Pends
<1>1. CASE o = NoObj /\ Halt(NoObj) /\ pend' = p
  BY <1>1, HaltTyped
<1>2. CASE /\ o # NoObj /\ cur' = "Transitioning" /\ mode' = md /\ media' = o
           /\ Quiet /\ Request(o, p)
  <2>1. pend' \in Pends BY <1>2, RequestTyped
  <2> QED BY <1>2, <2>1 DEF PlayerTyped, States, Quiet, Phases, Objs
<1> QED BY <1>1, <1>2 DEF Start

LEMMA StopTyped ==
  ASSUME StateStop, TypeOK, PlayerTyped
  PROVE  PlayerTyped' /\ stay' \in BOOLEAN
<1>1. OwnMedia \in Objs BY CurrentTyped
<1>2. PlayerTyped'
  BY <1>1, HaltTyped DEF StateStop, PlayerTyped, player
<1> QED BY <1>2 DEF StateStop, PausedSets, TypeOK

(* TypeOK by parts, as the steps use it.                                   *)
LEMMA TypeParts ==
  TypeOK <=>
    /\ PlayerTyped /\ current \in Objs /\ policy \in {"continue", "stop"}
    /\ stay \in BOOLEAN /\ assigned \in BOOLEAN /\ resume \in BOOLEAN
    /\ size \in 0 .. MaxSize /\ failed \in Nat
    /\ pend \in Pends
BY DEF TypeOK, PlayerTyped, Objs, Pends, Modes

LEMMA Decremented ==
  ASSUME NEW p \in Pends, NEW o \in Objs, p[o] > 0
  PROVE  [p EXCEPT ![o] = @ - 1] \in Pends
<1>1. p[o] \in 0 .. MaxPending BY DEF Pends
<1>2. p[o] - 1 \in 0 .. MaxPending BY <1>1, BoundAssumption
<1> QED BY <1>2 DEF Pends

LEMMA ClipChangedTyped ==
  ASSUME TypeOK, ClipChanged, Current' \in Objs
  PROVE  PlayerTyped' /\ stay' \in BOOLEAN /\ pend' \in Pends
<1>1. PlayerTyped /\ stay \in BOOLEAN /\ pend \in Pends BY TypeParts
<1>2. CASE mode = "standalone"
  BY <1>1, <1>2 DEF ClipChanged, player, PlayerTyped
<1>3. CASE mode # "standalone" /\ cur = "Stopped"
  BY <1>1, <1>3 DEF ClipChanged, PlayerTyped
<1>4. CASE mode # "standalone" /\ cur # "Stopped"
  <2>1. Start(Current', "playlist", pend) /\ PausedSets(TRUE)
    BY <1>4 DEF ClipChanged
  <2>2. "playlist" \in Modes BY DEF Modes
  <2> QED BY <1>1, <2>1, <2>2, StartTyped DEF PausedSets
<1> QED BY <1>2, <1>3, <1>4

LEMMA PolicyTyped ==
  ASSUME TypeOK, NEW oom \in BOOLEAN, NEW p \in Pends, RunErrorPolicy(oom, p)
  PROVE  TypeOK'
<1>1. /\ PlayerTyped /\ current \in Objs /\ failed \in Nat /\ stay \in BOOLEAN
      /\ size \in 0 .. MaxSize /\ assigned \in BOOLEAN
  BY TypeParts
<1>2. UNCHANGED <<assigned, size, resume, policy>>
  BY DEF RunErrorPolicy
<1>3. "playlist" \in Modes /\ OwnMedia \in Objs /\ Current \in Objs
  BY CurrentTyped DEF Modes
<1>4. Moved \/ Rewound \/ UNCHANGED current => current' \in Objs
  BY <1>1 DEF Moved, Rewound, Objs
<1>5. MediaAt(current') \in Objs \/ current' \notin Objs
  BY DEF MediaAt, Objs
<1>7. /\ PlayerTyped' /\ stay' \in BOOLEAN /\ current' \in Objs
      /\ failed' \in Nat /\ pend' \in Pends
  <2>1. CASE GiveUp(p)
    BY <1>1, <1>4, <2>1, StopTyped DEF GiveUp
  <2>2. CASE LeaveStandalone(p)
    BY <1>1, <1>3, <1>4, <2>2, StartTyped, HaltTyped
    DEF LeaveStandalone, StatePlay
  <2>3. CASE TryNext(p)
    <3>1. current' \in Objs /\ MediaAt(current') \in Objs
      BY <2>3, <1>4, <1>5 DEF TryNext
    <3>2. CASE /\ IF cur = "Stopped"
                  THEN media' = MediaAt(current') /\ UNCHANGED <<cur, mode, wk, wclip>>
                  ELSE Halt(MediaAt(current'))
               /\ PausedSets(FALSE) /\ failed' = 0 /\ pend' = p
      <4>1. PlayerTyped'
        BY <1>1, <3>1, <3>2, HaltTyped DEF PlayerTyped
      <4> QED BY <1>1, <3>1, <3>2, <4>1 DEF PausedSets
    <3>3. CASE Start(MediaAt(current'), "playlist", p) /\ failed' = failed + 1
               /\ UNCHANGED stay
      <4>1. PlayerTyped' /\ pend' \in Pends
        BY <1>1, <1>3, <3>1, <3>3, StartTyped
      <4> QED BY <1>1, <3>1, <3>3, <4>1
    <3> QED BY <2>3, <3>2, <3>3 DEF TryNext
  <2>4. CASE pend' = p /\ UNCHANGED <<player, stay, current, failed>>
    BY <1>1, <2>4 DEF player, PlayerTyped
  <2> QED BY <2>1, <2>2, <2>3, <2>4 DEF RunErrorPolicy
<1>6. /\ policy' \in {"continue", "stop"} /\ size' \in 0 .. MaxSize
      /\ assigned' \in BOOLEAN /\ resume' \in BOOLEAN
  BY <1>2 DEF TypeOK
<1> QED BY <1>7, <1>6 DEF TypeOK, PlayerTyped, Objs, Pends, Modes

-----------------------------------------------------------------------------
LEMMA CommandTyped ==
  ASSUME TypeOK, Command PROVE TypeOK'
<1>1. /\ PlayerTyped /\ current \in Objs /\ failed \in Nat /\ stay \in BOOLEAN
      /\ size \in 0 .. MaxSize /\ assigned \in BOOLEAN /\ resume \in BOOLEAN
      /\ policy \in {"continue", "stop"} /\ pend \in Pends
  BY TypeParts
<1>2. Modes = {"playlist", "standalone"} /\ OwnMedia \in Objs /\ Current \in Objs
  BY CurrentTyped DEF Modes
<1>3. \A x \in Objs : MediaAt(x) \in Objs
  BY DEF MediaAt, Objs
<1>4. CASE Play
  <2>1. PlayerTyped' /\ pend' \in Pends
    BY <1>1, <1>2, <1>4, StartTyped DEF Play, StatePlay
  <2> QED BY <1>1, <1>4, <2>1 DEF Play, list, TypeOK, PlayerTyped, Objs, Pends, Modes
<1>5. CASE \E o \in Obj : PlayObject(o)
  <2>1. PICK o \in Obj : PlayObject(o) BY <1>5
  <2>2. PlayerTyped' /\ pend' \in Pends
    BY <1>1, <1>2, <2>1, StartTyped DEF PlayObject, Objs
  <2>3. resume' \in BOOLEAN /\ stay' \in BOOLEAN
    BY <1>1, <2>1 DEF PlayObject, PausedSets
  <2> QED BY <1>1, <2>1, <2>2, <2>3
          DEF PlayObject, list, TypeOK, PlayerTyped, Objs, Pends, Modes
<1>6. CASE Stop
  <2>1. PlayerTyped' /\ stay' \in BOOLEAN
    BY <1>1, <1>6, StopTyped DEF Stop
  <2> QED BY <1>1, <1>6, <2>1 DEF Stop, list, TypeOK, PlayerTyped, Objs, Pends, Modes
<1>7. CASE Pause
  <2>1. PlayerTyped' /\ stay' \in BOOLEAN
    BY <1>1, <1>7 DEF Pause, player, PlayerTyped, States, Phases
  <2> QED BY <1>1, <1>7, <2>1 DEF Pause, list, TypeOK, PlayerTyped, Objs, Pends, Modes
<1>8. CASE Resume
  <2>1. PlayerTyped'
    BY <1>1, <1>8 DEF Resume, player, PlayerTyped, States, Phases
  <2> QED BY <1>1, <1>8, <2>1 DEF Resume, list, TypeOK, PlayerTyped, Objs, Pends, Modes
<1>9. CASE SetPosition
  <2>1. PlayerTyped'
    BY <1>1, <1>9 DEF SetPosition, player, PlayerTyped
  <2> QED BY <1>1, <1>9, <2>1 DEF SetPosition, list, TypeOK, PlayerTyped, Objs, Pends, Modes
<1>10. CASE NextItem
  <2>1. current' \in Objs /\ MediaAt(current') \in Objs
    <3>1. Moved \/ Rewound \/ UNCHANGED current
      BY <1>10 DEF NextItem, MoveStopped, MoveActive
    <3>2. current' \in Objs BY <1>1, <3>1 DEF Moved, Rewound, Objs
    <3> QED BY <1>3, <3>2
  <2>2. PlayerTyped' /\ pend' \in Pends /\ stay' \in BOOLEAN
    <3>1. CASE MoveStopped
      BY <1>1, <2>1, <3>1 DEF MoveStopped, PlayerTyped
    <3>2. CASE MoveActive
      <4>1. CASE Start(MediaAt(current'), "playlist", pend) /\ PausedSets(TRUE)
        BY <1>1, <1>2, <2>1, <4>1, StartTyped DEF PausedSets
      <4>2. CASE Halt(MediaAt(current')) /\ PausedSets(FALSE) /\ UNCHANGED pend
        BY <1>1, <2>1, <4>2, HaltTyped DEF PausedSets
      <4>3. CASE Halt(OwnMedia) /\ PausedSets(FALSE) /\ UNCHANGED <<current, pend>>
        BY <1>1, <1>2, <4>3, HaltTyped DEF PausedSets
      <4>4. CASE /\ mode' = "playlist" /\ media' = OwnMedia
                 /\ PausedSets(TRUE) /\ UNCHANGED <<cur, wk, wclip, current, pend>>
        BY <1>1, <1>2, <4>4 DEF PausedSets, PlayerTyped
      <4> QED BY <3>2, <4>1, <4>2, <4>3, <4>4 DEF MoveActive
    <3> QED BY <1>10, <3>1, <3>2 DEF NextItem
  <2> QED BY <1>1, <1>10, <2>1, <2>2 DEF NextItem, TypeOK, PlayerTyped, Objs, Pends, Modes
<1>11. CASE GotoIndexOutside
  <2>1. PlayerTyped' /\ stay' \in BOOLEAN
    BY <1>1, <1>11, StopTyped DEF GotoIndexOutside
  <2> QED BY <1>1, <1>11, <2>1 DEF GotoIndexOutside, list, TypeOK, PlayerTyped, Objs, Pends, Modes
<1>12. CASE AssignPlaylist
  <2>1. assigned' \in BOOLEAN /\ size' \in 0 .. MaxSize /\ current' \in Objs
    <3>1. CASE assigned' = FALSE /\ size' = 0 /\ current' = NoObj
      <4>1. 0 \in 0 .. MaxSize BY BoundAssumption
      <4> QED BY <3>1, <4>1, Zenon DEF Objs
    <3>2. CASE /\ assigned' = TRUE /\ size' \in 0 .. MaxSize
               /\ current' \in IF size' > 0 THEN Obj ELSE {NoObj}
      BY <3>2 DEF Objs
    <3> QED BY <1>12, <3>1, <3>2 DEF AssignPlaylist
  <2>2. Current' \in Objs BY <2>1 DEF Current, MediaAt, Objs
  <2>3. PlayerTyped' /\ stay' \in BOOLEAN
    BY <1>1, <1>12, <2>2, HaltTyped DEF AssignPlaylist, PlayerTyped, PausedSets
  <2> QED BY <1>1, <1>12, <2>1, <2>3 DEF AssignPlaylist, TypeOK, PlayerTyped, Objs, Pends, Modes
<1>13. CASE SetErrorPolicy
  <2>1. PlayerTyped' BY <1>1, <1>13 DEF SetErrorPolicy, player, PlayerTyped
  <2> QED BY <1>1, <1>13, <2>1 DEF SetErrorPolicy, list, TypeOK, PlayerTyped, Objs, Pends, Modes
<1> QED BY <1>4, <1>5, <1>6, <1>7, <1>8, <1>9, <1>10, <1>11, <1>12, <1>13 DEF Command

LEMMA OutsideTyped ==
  ASSUME TypeOK, Outside PROVE TypeOK'
<1>1. /\ PlayerTyped /\ current \in Objs /\ failed \in Nat /\ stay \in BOOLEAN
      /\ size \in 0 .. MaxSize /\ assigned \in BOOLEAN /\ resume \in BOOLEAN
      /\ policy \in {"continue", "stop"} /\ pend \in Pends
  BY TypeParts
<1>2. CASE PreUnmount
  <2>1. PlayerTyped' /\ stay' \in BOOLEAN
    BY <1>1, <1>2, StopTyped DEF PreUnmount
  <2> QED BY <1>1, <1>2, <2>1 DEF PreUnmount, list, TypeOK, PlayerTyped, Objs, Pends, Modes
<1>3. CASE ItemsInserted \/ ItemsRemoved
  <2>1. size' \in 0 .. MaxSize /\ assigned' = assigned
    <3>1. CASE ItemsInserted
      <4>1. size' \in size + 1 .. MaxSize BY <3>1 DEF ItemsInserted
      <4>2. assigned' = assigned BY <3>1 DEF ItemsInserted
      <4> QED BY <1>1, <4>1, <4>2, BoundAssumption
    <3>2. CASE ItemsRemoved
      BY <1>1, <3>2, BoundAssumption DEF ItemsRemoved
    <3> QED BY <1>3, <3>1, <3>2
  <2>2. current' \in Objs
    BY <1>1, <1>3 DEF ItemsInserted, ItemsRemoved, Objs
  <2>3. Current' \in Objs BY <2>2 DEF Current, MediaAt, Objs
  <2>4. PlayerTyped' /\ stay' \in BOOLEAN /\ pend' \in Pends
    <3>1. CASE ClipChanged BY <2>2, <2>3, <3>1, ClipChangedTyped
    <3>2. CASE UNCHANGED <<current, player, stay, pend>>
      BY <1>1, <3>2 DEF player, PlayerTyped
    <3> QED BY <1>3, <3>1, <3>2 DEF ItemsInserted, ItemsRemoved
  <2>5. UNCHANGED <<resume, policy>> /\ failed' \in Nat
    BY <1>1, <1>3 DEF ItemsInserted, ItemsRemoved
  <2> QED BY <1>1, <2>1, <2>2, <2>4, <2>5 DEF TypeOK, PlayerTyped, Objs, Pends, Modes
<1> QED BY <1>2, <1>3 DEF Outside

LEMMA AnswerTyped ==
  ASSUME TypeOK, Answer PROVE TypeOK'
<1>1. pend \in Pends /\ PlayerTyped BY TypeParts
<1>2. ASSUME NEW o \in Objs, pend[o] > 0, RunErrorPolicy(FALSE, [pend EXCEPT ![o] = @ - 1])
      PROVE  TypeOK'
  <2>1. [pend EXCEPT ![o] = @ - 1] \in Pends BY <1>1, <1>2, Decremented
  <2> QED BY <1>2, <2>1, PolicyTyped
<1>3. CASE SourceMissing BY <1>2, <1>3 DEF SourceMissing, Objs
<1>4. CASE \E o \in Obj : MetadataArrives(o)
  <2>1. PICK o \in Obj : MetadataArrives(o) BY <1>4
  <2>2. pend[o] > 0 /\ o \in Objs BY <2>1 DEF MetadataArrives, Objs
  <2>3. CASE RunErrorPolicy(FALSE, [pend EXCEPT ![o] = @ - 1])
    BY <1>2, <2>2, <2>3
  <2>4. CASE /\ IF cur = "Transitioning" /\ media = o
                THEN wk' = "prerolling" /\ wclip' = o ELSE UNCHANGED <<wk, wclip>>
             /\ pend' = [pend EXCEPT ![o] = @ - 1]
             /\ UNCHANGED <<cur, mode, media, stay, list, resume, failed, policy>>
    <3>1. pend' \in Pends BY <1>1, <2>2, <2>4, Decremented
    <3>2. PlayerTyped' BY <1>1, <2>2, <2>4 DEF PlayerTyped, Phases
    <3> QED BY <2>4, <3>1, <3>2 DEF list, TypeOK, PlayerTyped, Objs, Pends, Modes
  <2> QED BY <2>1, <2>3, <2>4 DEF MetadataArrives
<1> QED BY <1>3, <1>4 DEF Answer

LEMMA WorkerTyped ==
  ASSUME TypeOK, Worker PROVE TypeOK'
<1>1. /\ PlayerTyped /\ current \in Objs /\ failed \in Nat /\ stay \in BOOLEAN
      /\ size \in 0 .. MaxSize /\ assigned \in BOOLEAN /\ resume \in BOOLEAN
      /\ policy \in {"continue", "stop"} /\ pend \in Pends
  BY TypeParts
<1>2. CASE Prerolled \/ WorkerPlays \/ WorkerPauses
  <2>1. PlayerTyped' /\ stay' \in BOOLEAN /\ failed' \in Nat
    <3>1. NotifyPause => cur' \in States /\ stay' \in BOOLEAN
      BY <1>1 DEF NotifyPause, PlayerTyped, States
    <3>2. NotifyPlay => cur' \in States
      BY <1>1 DEF NotifyPlay, PlayerTyped, States
    <3>3. CASE Prerolled
      BY <1>1, <3>1, <3>3 DEF Prerolled, PlayerTyped, Phases
    <3>4. CASE WorkerPlays
      BY <1>1, <3>2, <3>4 DEF WorkerPlays, PlayerTyped, Phases
    <3>5. CASE WorkerPauses
      BY <1>1, <3>1, <3>5 DEF WorkerPauses, PlayerTyped, Phases
    <3> QED BY <1>2, <3>3, <3>4, <3>5
  <2>2. UNCHANGED <<list, resume, policy, pend>>
    BY <1>2 DEF Prerolled, WorkerPlays, WorkerPauses
  <2> QED BY <1>1, <2>1, <2>2 DEF list, TypeOK, PlayerTyped, Objs, Pends, Modes
<1>3. CASE WorkerFails BY <1>1, <1>3, PolicyTyped DEF WorkerFails
<1>4. CASE EndOfStream
  <2>1. "playlist" \in Modes /\ OwnMedia \in Objs /\ Current \in Objs
    BY CurrentTyped DEF Modes
  <2>2. PlayerTyped' /\ pend' \in Pends /\ current' \in Objs
    <3>1. CASE EndOfStandalone
      BY <1>1, <2>1, <3>1, StartTyped, HaltTyped DEF EndOfStandalone, StatePlay
    <3>2. CASE EndOfItem
      <4>1. CASE Moved /\ Start(current', "playlist", pend)
        <5>1. current' \in Objs BY <4>1 DEF Moved, Objs
        <5> QED BY <1>1, <2>1, <4>1, <5>1, StartTyped
      <4>2. CASE Halt(media) /\ UNCHANGED <<current, pend>>
        <5>1. media \in Objs BY <1>1 DEF PlayerTyped
        <5> QED BY <1>1, <4>2, <5>1, HaltTyped
      <4>3. CASE wk' = "ended" /\ UNCHANGED <<cur, mode, media, wclip, current, pend>>
        BY <1>1, <4>3 DEF PlayerTyped, Phases
      <4> QED BY <3>2, <4>1, <4>2, <4>3 DEF EndOfItem
    <3>3. CASE wk' = "ended" /\ UNCHANGED <<cur, mode, media, wclip, current, pend>>
      BY <1>1, <3>3 DEF PlayerTyped, Phases
    <3> QED BY <1>4, <3>1, <3>2, <3>3 DEF EndOfStream
  <2> QED BY <1>1, <1>4, <2>2 DEF EndOfStream, TypeOK, PlayerTyped, Objs, Pends, Modes
<1> QED BY <1>2, <1>3, <1>4 DEF Worker

(* Every state of the renderer is typed.                                   *)
THEOREM TypeCorrect == Spec => []TypeOK
<1>1. Init => TypeOK
  <2>1. 0 \in 0 .. MaxPending /\ 0 \in 0 .. MaxSize /\ 0 \in Nat
    BY BoundAssumption
  <2>2. Init => pend \in [Obj \cup {NoObj} -> 0 .. MaxPending]
    BY <2>1 DEF Init
  <2> QED BY <2>1, <2>2 DEF Init, TypeOK, States, Phases
<1>2. TypeOK /\ [Next]_vars => TypeOK'
  <2>1. CASE UNCHANGED vars
    BY <2>1 DEF vars, TypeOK
  <2> QED BY <2>1, CommandTyped, OutsideTyped, AnswerTyped, WorkerTyped DEF Next
<1> QED BY <1>1, <1>2, PTL DEF Spec

-----------------------------------------------------------------------------
(* A stopped renderer is idle: Halt leaves it so, and whatever moves the   *)
(* worker on needs a worker that is not idle, or the state Transitioning.  *)

LEMMA HaltIdle ==
  ASSUME NEW m, Halt(m) PROVE StoppedIsIdle'
BY DEF Halt, Quiet, StoppedIsIdle

LEMMA StartIdle ==
  ASSUME NEW o, NEW md, NEW p, Start(o, md, p) PROVE StoppedIsIdle'
BY DEF Start, Halt, Quiet, StoppedIsIdle

LEMMA SameIdle ==
  ASSUME StoppedIsIdle, UNCHANGED <<cur, mode, wk, wclip>> PROVE StoppedIsIdle'
BY DEF StoppedIsIdle

LEMMA StopIdle ==
  ASSUME StoppedIsIdle, StateStop PROVE StoppedIsIdle'
BY HaltIdle, SameIdle DEF StateStop, player

LEMMA PolicyIdle ==
  ASSUME StoppedIsIdle, NEW oom, NEW p, RunErrorPolicy(oom, p)
  PROVE  StoppedIsIdle'
BY StopIdle, HaltIdle, StartIdle, SameIdle
DEF RunErrorPolicy, GiveUp, LeaveStandalone, StatePlay, TryNext, player

LEMMA CommandIdle ==
  ASSUME StoppedIsIdle, Command PROVE StoppedIsIdle'
<1>1. CASE Play \/ (\E o \in Obj : PlayObject(o))
  BY <1>1, StartIdle DEF Play, PlayObject, StatePlay
<1>2. CASE Stop \/ GotoIndexOutside
  BY <1>2, StopIdle DEF Stop, GotoIndexOutside
<1>3. CASE Pause \/ Resume \/ SetPosition
  BY <1>3 DEF Pause, Resume, SetPosition, player, StoppedIsIdle
<1>4. CASE NextItem
  <2>1. CASE MoveStopped BY <2>1, SameIdle DEF MoveStopped
  <2>2. CASE MoveActive
    BY <2>2, StartIdle, HaltIdle DEF MoveActive, StoppedIsIdle
  <2> QED BY <1>4, <2>1, <2>2 DEF NextItem
<1>5. CASE AssignPlaylist
  BY <1>5, HaltIdle, SameIdle DEF AssignPlaylist
<1>6. CASE SetErrorPolicy
  BY <1>6, SameIdle DEF SetErrorPolicy, player
<1> QED BY <1>1, <1>2, <1>3, <1>4, <1>5, <1>6 DEF Command

LEMMA OutsideIdle ==
  ASSUME StoppedIsIdle, Outside PROVE StoppedIsIdle'
<1>1. CASE PreUnmount BY <1>1, StopIdle DEF PreUnmount
<1>2. ClipChanged => StoppedIsIdle'
  BY StartIdle, SameIdle DEF ClipChanged, player
<1>3. CASE ItemsInserted \/ ItemsRemoved
  BY <1>2, <1>3, SameIdle DEF ItemsInserted, ItemsRemoved, player
<1> QED BY <1>1, <1>3 DEF Outside

LEMMA AnswerIdle ==
  ASSUME StoppedIsIdle, Answer PROVE StoppedIsIdle'
<1>1. CASE SourceMissing BY <1>1, PolicyIdle DEF SourceMissing
<1>2. CASE \E o \in Obj : MetadataArrives(o)
  BY <1>2, PolicyIdle DEF MetadataArrives, StoppedIsIdle
<1> QED BY <1>1, <1>2 DEF Answer

LEMMA WorkerIdle ==
  ASSUME StoppedIsIdle, Worker PROVE StoppedIsIdle'
<1>1. CASE Prerolled
  BY <1>1 DEF Prerolled, NotifyPause, StoppedIsIdle
<1>2. CASE WorkerPlays
  BY <1>2 DEF WorkerPlays, NotifyPlay, StoppedIsIdle
<1>3. CASE WorkerPauses
  BY <1>3 DEF WorkerPauses, NotifyPause, StoppedIsIdle
<1>4. CASE WorkerFails BY <1>4, PolicyIdle DEF WorkerFails
<1>5. CASE EndOfStream
  <2>1. cur # "Stopped" BY <1>5 DEF EndOfStream, StoppedIsIdle
  <2> QED BY <1>5, <2>1, StartIdle, HaltIdle
          DEF EndOfStream, EndOfStandalone, EndOfItem, StatePlay, StoppedIsIdle
<1> QED BY <1>1, <1>2, <1>3, <1>4, <1>5 DEF Worker

(* Whatever stopped the renderer, its worker is idle and it is back at its *)
(* playlist, also when the playlist fails to answer.                       *)
THEOREM StoppedStaysIdle == Spec => []StoppedIsIdle
<1>1. Init => StoppedIsIdle BY DEF Init, StoppedIsIdle
<1>2. StoppedIsIdle /\ [Next]_vars => StoppedIsIdle'
  <2>1. CASE UNCHANGED vars BY <2>1 DEF vars, StoppedIsIdle
  <2> QED BY <2>1, CommandIdle, OutsideIdle, AnswerIdle, WorkerIdle DEF Next
<1> QED BY <1>1, <1>2, PTL DEF Spec

-----------------------------------------------------------------------------
(* What is left of Steady after each way a handler may end.                *)

LEMMA HaltSteady ==
  ASSUME NEW m, Halt(m), m = Current' PROVE Steady'
BY DEF Halt, Quiet, Steady, PipelineOfMedia, MediaIsPlayed, NothingHangs,
       WorkerInStep

LEMMA RequestHeard ==
  ASSUME NEW o \in Objs, NEW p \in Pends, Request(o, p)
  PROVE  pend'[o] > 0 \/ pend'[NoObj] > 0
<1>1. PICK kind \in {o, NoObj} :
        p[kind] < MaxPending /\ pend' = [p EXCEPT ![kind] = @ + 1]
  BY DEF Request
<1>2. kind \in Objs /\ p[kind] \in Nat BY DEF Objs, Pends
<1>3. pend'[kind] = p[kind] + 1 BY <1>1, <1>2 DEF Pends
<1>4. pend'[kind] > 0 BY <1>2, <1>3
<1> QED BY <1>1, <1>4

LEMMA StartSteady ==
  ASSUME NEW o \in Objs, NEW md \in Modes, NEW p \in Pends, Start(o, md, p),
         o = NoObj \/ md = "playlist" => o = Current'
  PROVE  Steady'
<1>1. CASE o = NoObj /\ Halt(NoObj) /\ pend' = p
  BY <1>1, HaltSteady
<1>2. CASE /\ o # NoObj /\ cur' = "Transitioning" /\ mode' = md /\ media' = o
           /\ Quiet /\ Request(o, p)
  <2>1. NothingHangs' BY <1>2, RequestHeard DEF NothingHangs
  <2> QED BY <1>2, <2>1
          DEF Quiet, Steady, PipelineOfMedia, MediaIsPlayed, WorkerInStep
<1> QED BY <1>1, <1>2 DEF Start

LEMMA SameSteady ==
  ASSUME Steady, UNCHANGED <<player, pend>>, Current' = Current
  PROVE  Steady'
BY DEF player, Steady, PipelineOfMedia, MediaIsPlayed, NothingHangs, WorkerInStep

(* In Stopped only the media follows the playlist.                         *)
LEMMA StoppedSteady ==
  ASSUME StoppedIsIdle, cur = "Stopped", UNCHANGED <<cur, mode, wk, wclip>>,
         media' = Current'
  PROVE  Steady'
BY DEF StoppedIsIdle, Steady, PipelineOfMedia, MediaIsPlayed, NothingHangs,
       WorkerInStep

(* The media of a renderer that goes back to its playlist.                 *)
LEMMA OwnIsCurrent ==
  ASSUME IInv PROVE OwnMedia = Current
BY DEF IInv, TypeOK, Steady, MediaIsPlayed, OwnMedia

LEMMA StopSteady ==
  ASSUME IInv, StateStop, Current' = Current PROVE Steady'
<1>1. CASE cur = "Stopped"
  <2>1. UNCHANGED player BY <1>1 DEF StateStop
  <2>2. media = Current
    BY <1>1 DEF IInv, StoppedIsIdle, Steady, MediaIsPlayed
  <2> QED BY <1>1, <2>1, <2>2, StoppedSteady DEF IInv, player
<1>2. CASE cur # "Stopped"
  BY <1>2, OwnIsCurrent, HaltSteady DEF StateStop
<1> QED BY <1>1, <1>2

LEMMA ListSame ==
  ASSUME UNCHANGED <<assigned, size>>
  PROVE  Current' = MediaAt(current')
BY DEF Current, MediaAt

LEMMA PolicySteady ==
  ASSUME IInv, NEW oom \in BOOLEAN, NEW p \in Pends, RunErrorPolicy(oom, p)
  PROVE  Steady'
<1>1. UNCHANGED <<assigned, size>> /\ Current' = MediaAt(current')
  BY ListSame DEF RunErrorPolicy
<1>2. UNCHANGED current => Current' = Current
  BY <1>1 DEF Current
<1>3. "playlist" \in Modes /\ OwnMedia = Current /\ Current \in Objs
  BY OwnIsCurrent, CurrentTyped DEF IInv, Modes
<1>4. CASE GiveUp(p) BY <1>2, <1>4, StopSteady DEF GiveUp
<1>5. CASE LeaveStandalone(p)
  BY <1>2, <1>3, <1>5, StartSteady, HaltSteady DEF LeaveStandalone, StatePlay
<1>6. CASE TryNext(p)
  <2>1. Current' \in Objs
    <3>1. current' \in Objs BY <1>6 DEF TryNext, Moved, Rewound, IInv, TypeOK, Objs
    <3> QED BY <1>1, <3>1 DEF MediaAt, Objs
  <2>2. CASE IF cur = "Stopped"
             THEN media' = MediaAt(current') /\ UNCHANGED <<cur, mode, wk, wclip>>
             ELSE Halt(MediaAt(current'))
    BY <1>1, <2>2, StoppedSteady, HaltSteady DEF IInv
  <2>3. CASE Start(MediaAt(current'), "playlist", p)
    BY <1>1, <1>3, <2>1, <2>3, StartSteady
  <2> QED BY <1>6, <2>2, <2>3 DEF TryNext
<1>7. CASE mode = "playlist" /\ ~assigned /\ pend' = p
           /\ UNCHANGED <<player, stay, current, failed>>
  <2>1. media = Current /\ Current = NoObj
    BY <1>7 DEF IInv, Steady, MediaIsPlayed, Current, MediaAt
  <2>2. cur = "Stopped" BY <2>1 DEF IInv, Steady, PipelineOfMedia
  <2>3. media' = Current' BY <1>2, <1>7, <2>1 DEF player
  <2> QED BY <1>7, <2>2, <2>3, StoppedSteady DEF IInv, player
<1> QED BY <1>4, <1>5, <1>6, <1>7 DEF RunErrorPolicy

LEMMA CommandSteady ==
  ASSUME IInv, ~PlaylistFails, Command PROVE Steady'
<1>1. /\ Modes = {"playlist", "standalone"} /\ pend \in Pends
      /\ OwnMedia = Current /\ Current \in Objs /\ current \in Objs
  BY OwnIsCurrent, CurrentTyped, TypeParts DEF IInv, Modes
<1>2. UNCHANGED list => Current' = Current
  BY DEF list, Current, MediaAt
<1>3. CASE Play
  BY <1>1, <1>2, <1>3, StartSteady DEF Play, StatePlay
<1>4. CASE \E o \in Obj : PlayObject(o)
  BY <1>1, <1>2, <1>4, StartSteady, NoObjAssumption DEF PlayObject, Objs
<1>5. CASE Stop BY <1>2, <1>5, StopSteady DEF Stop
<1>6. CASE GotoIndexOutside BY <1>2, <1>6, StopSteady DEF GotoIndexOutside
<1>7. CASE Pause
  <2>1. Current' = Current BY <1>2, <1>7 DEF Pause
  <2>2. CASE UNCHANGED player
    BY <1>7, <2>1, <2>2, SameSteady DEF Pause, IInv
  <2>3. CASE cur = "Playing" /\ wk' = (IF wk = "ended" THEN wk ELSE "pausing")
             /\ UNCHANGED <<cur, mode, media, wclip, stay>>
    BY <2>1, <2>3 DEF IInv, Steady, PipelineOfMedia, MediaIsPlayed,
                      NothingHangs, WorkerInStep
  <2>4. CASE cur = "Playing" /\ wk' = "paused" /\ cur' = "Paused"
             /\ UNCHANGED <<mode, media, wclip>>
    BY <2>1, <2>4 DEF IInv, Steady, PipelineOfMedia, MediaIsPlayed,
                      NothingHangs, WorkerInStep
  <2> QED BY <1>7, <2>2, <2>3, <2>4 DEF Pause
<1>8. CASE Resume
  <2>1. Current' = Current /\ UNCHANGED pend BY <1>2, <1>8 DEF Resume
  <2>2. CASE UNCHANGED player BY <2>1, <2>2, SameSteady DEF IInv
  <2>3. CASE cur = "Paused" /\ wk' = "resuming" /\ UNCHANGED <<cur, mode, media, wclip>>
    BY <2>1, <2>3 DEF IInv, Steady, PipelineOfMedia, MediaIsPlayed,
                      NothingHangs, WorkerInStep
  <2> QED BY <1>8, <2>2, <2>3 DEF Resume
<1>9. CASE SetPosition
  BY <1>2, <1>9, SameSteady DEF SetPosition, IInv
<1>10. CASE SetErrorPolicy
  BY <1>2, <1>10, SameSteady DEF SetErrorPolicy, IInv
<1>11. CASE NextItem
  <2>1. Current' = MediaAt(current') BY <1>11, ListSame DEF NextItem
  <2>2. Current' \in Objs
    <3>1. current' \in Objs
      BY <1>1, <1>11 DEF NextItem, MoveStopped, MoveActive, Moved, Rewound, Objs
    <3> QED BY <2>1, <3>1 DEF MediaAt, Objs
  <2>3. CASE MoveStopped
    <3>1. CASE media' = MediaAt(current')
      BY <2>1, <2>3, <3>1, StoppedSteady DEF MoveStopped, IInv
    <3>2. CASE UNCHANGED <<current, media>>
      <4>1. Current' = Current BY <1>11, <2>1, <3>2 DEF Current
      <4> QED BY <2>3, <3>2, <4>1, SameSteady DEF MoveStopped, IInv, player
    <3> QED BY <2>3, <3>1, <3>2 DEF MoveStopped
  <2>4. CASE MoveActive
    <3>1. CASE Start(MediaAt(current'), "playlist", pend)
      BY <1>1, <2>1, <2>2, <3>1, StartSteady
    <3>2. CASE Halt(MediaAt(current')) BY <2>1, <3>2, HaltSteady
    <3>3. CASE Halt(OwnMedia) /\ UNCHANGED current
      BY <1>1, <2>1, <3>3, HaltSteady DEF Current
    <3> QED BY <2>4, <3>1, <3>2, <3>3 DEF MoveActive
  <2> QED BY <1>11, <2>3, <2>4 DEF NextItem
<1>12. CASE AssignPlaylist
  BY <1>12, StoppedSteady, HaltSteady DEF AssignPlaylist, IInv
<1> QED BY <1>3, <1>4, <1>5, <1>6, <1>7, <1>8, <1>9, <1>10, <1>11, <1>12 DEF Command

LEMMA OutsideSteady ==
  ASSUME IInv, Outside PROVE Steady'
<1>1. CASE PreUnmount
  <2>1. Current' = Current BY <1>1 DEF PreUnmount, list, Current, MediaAt
  <2> QED BY <1>1, <2>1, StopSteady DEF PreUnmount
<1>2. CASE ItemsInserted \/ ItemsRemoved
  <2>1. Current' \in Objs
    BY <1>2 DEF ItemsInserted, ItemsRemoved, IInv, TypeOK, Current, MediaAt, Objs
  <2>2. CASE ClipChanged
    <3>1. CASE mode = "standalone"
      BY <2>2, <3>1 DEF ClipChanged, player, IInv, Steady, PipelineOfMedia,
                        MediaIsPlayed, NothingHangs, WorkerInStep
    <3>2. CASE mode # "standalone" /\ cur = "Stopped"
      BY <2>2, <3>2, StoppedSteady DEF ClipChanged, IInv
    <3>3. CASE Start(Current', "playlist", pend)
      <4>1. pend \in Pends /\ "playlist" \in Modes BY TypeParts DEF IInv, Modes
      <4> QED BY <2>1, <3>3, <4>1, StartSteady
    <3> QED BY <2>2, <3>1, <3>2, <3>3 DEF ClipChanged
  <2>3. CASE /\ size > 0 /\ size' > 0
             /\ UNCHANGED <<assigned, current, player, stay, pend>>
    <3>1. Current' = Current BY <2>3 DEF Current, MediaAt
    <3> QED BY <2>3, <3>1, SameSteady DEF IInv
  <2>4. ItemsInserted => ClipChanged \/ (/\ size > 0 /\ size' > 0
             /\ UNCHANGED <<assigned, current, player, stay, pend>>)
    <3>1. size \in Nat BY BoundAssumption DEF IInv, TypeOK
    <3>2. size # 0 => size > 0 BY <3>1
    <3>3. ItemsInserted => size' > 0 BY <3>1, BoundAssumption DEF ItemsInserted
    <3> QED BY <3>2, <3>3 DEF ItemsInserted
  <2>5. ItemsRemoved => ClipChanged \/ (/\ size > 0 /\ size' > 0
             /\ UNCHANGED <<assigned, current, player, stay, pend>>)
    <3>1. ItemsRemoved /\ size' > 0 => size > 0
      BY DEF ItemsRemoved, IInv, TypeOK
    <3> QED BY <3>1 DEF ItemsRemoved
  <2> QED BY <1>2, <2>2, <2>3, <2>4, <2>5
<1> QED BY <1>1, <1>2 DEF Outside

LEMMA AnswerSteady ==
  ASSUME IInv, Answer PROVE Steady'
<1>1. pend \in Pends BY TypeParts DEF IInv
<1>2. ASSUME NEW o \in Objs, pend[o] > 0, RunErrorPolicy(FALSE, [pend EXCEPT ![o] = @ - 1])
      PROVE  Steady'
  <2>1. [pend EXCEPT ![o] = @ - 1] \in Pends BY <1>1, <1>2, Decremented
  <2> QED BY <1>2, <2>1, PolicySteady
<1>3. CASE SourceMissing BY <1>2, <1>3 DEF SourceMissing, Objs
<1>4. CASE \E o \in Obj : MetadataArrives(o)
  <2>1. PICK o \in Obj : MetadataArrives(o) BY <1>4
  <2>2. pend[o] > 0 /\ o \in Objs BY <2>1 DEF MetadataArrives, Objs
  <2>3. CASE RunErrorPolicy(FALSE, [pend EXCEPT ![o] = @ - 1])
    BY <1>2, <2>2, <2>3
  <2>4. CASE /\ IF cur = "Transitioning" /\ media = o
                THEN wk' = "prerolling" /\ wclip' = o ELSE UNCHANGED <<wk, wclip>>
             /\ pend' = [pend EXCEPT ![o] = @ - 1]
             /\ UNCHANGED <<cur, mode, media, stay, list, resume, failed, policy>>
    <3>1. Current' = Current BY <2>4 DEF list, Current, MediaAt
    <3>2. \A x \in Objs : x # o => pend'[x] = pend[x]
      BY <1>1, <2>4 DEF Pends
    <3>3. NothingHangs'
      <4>1. media \in Objs /\ NoObj \in Objs /\ NoObj # o
        BY NoObjAssumption DEF IInv, TypeOK, Objs
      <4> QED BY <2>4, <3>2, <4>1 DEF IInv, Steady, NothingHangs
    <3> QED BY <2>4, <3>1, <3>3
            DEF IInv, Steady, PipelineOfMedia, MediaIsPlayed, WorkerInStep
  <2> QED BY <2>1, <2>3, <2>4 DEF MetadataArrives
<1> QED BY <1>3, <1>4 DEF Answer

(* What the worker does says which state the renderer is in.               *)
LEMMA WorkerTellsState ==
  ASSUME IInv
  PROVE  /\ wk \in {"prerolling", "starting"} => cur = "Transitioning"
         /\ wk \in {"playing", "pausing"} => cur = "Playing"
         /\ wk \in {"paused", "resuming"} => cur = "Paused"
BY DEF IInv, TypeOK, States, StoppedIsIdle, Steady, WorkerInStep

LEMMA WorkerSteady ==
  ASSUME IInv, ~PlaylistFails, Worker PROVE Steady'
<1>1. /\ "playlist" \in Modes /\ pend \in Pends
      /\ OwnMedia = Current /\ Current \in Objs
  BY OwnIsCurrent, CurrentTyped, TypeParts DEF IInv, Modes
<1>2. CASE Prerolled \/ WorkerPlays \/ WorkerPauses
  <2>1. Current' = Current /\ UNCHANGED <<mode, media, wclip, pend>>
    BY <1>2 DEF Prerolled, WorkerPlays, WorkerPauses, list, Current, MediaAt
  <2>2. wk # "idle" /\ wclip = media /\ media # NoObj
    BY <1>2, WorkerTellsState
    DEF Prerolled, WorkerPlays, WorkerPauses, IInv, Steady, PipelineOfMedia
  <2>3. \/ cur' = "Transitioning" /\ wk' = "starting"
        \/ cur' = "Playing" /\ wk' = "playing"
        \/ cur' = "Paused" /\ wk' = "paused"
    BY <1>2, WorkerTellsState
    DEF Prerolled, WorkerPlays, WorkerPauses, NotifyPlay, NotifyPause
  <2> QED BY <2>1, <2>2, <2>3
          DEF IInv, Steady, PipelineOfMedia, MediaIsPlayed, NothingHangs, WorkerInStep
<1>3. CASE WorkerFails BY <1>1, <1>3, PolicySteady DEF WorkerFails
<1>4. CASE EndOfStream
  <2>1. cur = "Playing" BY <1>4, WorkerTellsState DEF EndOfStream
  <2>2. Current' = MediaAt(current') BY <1>4, ListSame DEF EndOfStream
  <2>3. CASE EndOfStandalone
    <3>1. Current' = Current BY <2>2, <2>3 DEF EndOfStandalone, Current
    <3> QED BY <1>1, <2>3, <3>1, StartSteady, HaltSteady
            DEF EndOfStandalone, StatePlay
  <2>4. CASE EndOfItem
    <3>1. CASE Moved /\ Start(current', "playlist", pend)
      <4>1. current' = MediaAt(current') /\ current' \in Objs
        BY <3>1 DEF Moved, MediaAt, Objs
      <4> QED BY <1>1, <2>2, <3>1, <4>1, StartSteady
    <3>2. CASE Halt(media) /\ UNCHANGED current
      <4>1. media = Current BY <2>4 DEF EndOfItem, IInv, Steady, MediaIsPlayed
      <4>2. Current' = Current BY <2>2, <3>2 DEF Current
      <4> QED BY <3>2, <4>1, <4>2, HaltSteady
    <3> QED BY <2>4, <3>1, <3>2 DEF EndOfItem
  <2> QED BY <1>4, <2>1, <2>3, <2>4 DEF EndOfStream
<1> QED BY <1>2, <1>3, <1>4 DEF Worker

(* The inductive invariant of a renderer whose playlist answers.           *)
THEOREM Invariance == ~PlaylistFails => (Spec => []IInv)
<1> SUFFICES ASSUME ~PlaylistFails PROVE Spec => []IInv
  OBVIOUS
<1>1. Spec => []TypeOK BY TypeCorrect
<1>2. Spec => []StoppedIsIdle BY StoppedStaysIdle
<1>3. Init => Steady
  BY DEF Init, Steady, PipelineOfMedia, MediaIsPlayed, NothingHangs,
         WorkerInStep, Current, MediaAt
<1>4. TypeOK /\ StoppedIsIdle /\ Steady /\ [Next]_vars => Steady'
  <2>1. CASE UNCHANGED vars
    <3>1. Current' = Current BY <2>1 DEF vars, Current, MediaAt
    <3> QED BY <2>1, <3>1, SameSteady DEF vars, player
  <2> QED BY <2>1, CommandSteady, OutsideSteady, AnswerSteady, WorkerSteady
          DEF Next, IInv
<1> QED BY <1>1, <1>2, <1>3, <1>4, PTL DEF Spec, IInv

(* The item the renderer reports is the one its worker plays, and the      *)
(* playlist's current one while it follows the playlist.                   *)
THEOREM ReportedIsPlayed == ~PlaylistFails => (Spec => []MediaIsPlayed)
<1> SUFFICES ASSUME ~PlaylistFails PROVE Spec => []MediaIsPlayed
  OBVIOUS
<1>1. IInv => MediaIsPlayed BY DEF IInv, Steady
<1> QED BY <1>1, Invariance, PTL

(* In Transitioning an answer, an error or a notification is to come.      *)
THEOREM AlwaysAwaited == ~PlaylistFails => (Spec => []NothingHangs)
<1> SUFFICES ASSUME ~PlaylistFails PROVE Spec => []NothingHangs
  OBVIOUS
<1>1. IInv => NothingHangs BY DEF IInv, Steady
<1> QED BY <1>1, Invariance, PTL

(* The renderer's state says what its worker does.                         *)
THEOREM StateIsWorkers == ~PlaylistFails => (Spec => []WorkerInStep)
<1> SUFFICES ASSUME ~PlaylistFails PROVE Spec => []WorkerInStep
  OBVIOUS
<1>1. IInv => WorkerInStep BY DEF IInv, Steady
<1> QED BY <1>1, Invariance, PTL
=============================================================================
