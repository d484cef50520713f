---------------------------- MODULE PlaylistVault ----------------------------
(***************************************************************************)
(* What the playlist daemon should promise about one playlist that it is   *)
(* given to keep: it is there again after the daemon stopped, in the       *)
(* version saved last or, when a later one was written completely and only *)
(* its save not finished, in that one, which then is what is kept (the     *)
(* comment at playlist-manager-wrapper.c:167); and a playlist that was     *)
(* destroyed is gone.  There are no files, timers, names or use counts     *)
(* here.  PlaylistStore implements this but for the last two actions,      *)
(* which are what the code does instead and no part of the promise         *)
(* (VaultSpec there).                                                      *)
(***************************************************************************)
EXTENDS Integers

CONSTANTS Rev, None

VARIABLES
  up,        \* the daemon runs
  now,       \* the version clients see, None when there is no playlist
  base,      \* the version saved last
  extra      \* a version written whose save was not finished

vars == <<up, now, base, extra>>

Init == up = TRUE /\ now = None /\ base = None /\ extra = None

\* a new playlist: nothing old may come back under its id
Make ==
  /\ up /\ now = None /\ base = None /\ extra = None
  /\ now' = 0 /\ UNCHANGED <<up, base, extra>>

Write ==
  /\ up /\ now # None
  /\ \E v \in Rev : v > now /\ now' = v
  /\ UNCHANGED <<up, base, extra>>

Finished   == base' = now /\ extra' = None
Unfinished == extra' \in {None, now} /\ UNCHANGED base
Forgotten  == base' = None /\ extra' = None

Save == up /\ now # None /\ (Finished \/ Unfinished) /\ UNCHANGED <<up, now>>

Destroy == up /\ now # None /\ now' = None /\ Forgotten /\ UNCHANGED up

\* the daemon stops, perhaps in the middle of a save or of a destroy
Stop ==
  /\ up /\ up' = FALSE /\ now' = None
  /\ \/ UNCHANGED <<base, extra>>
     \/ now # None /\ (Finished \/ Unfinished \/ Forgotten)

Newest == IF extra # None THEN extra ELSE base
Start ==
  /\ ~up /\ up' = TRUE
  /\ now' = Newest /\ base' = Newest /\ extra' = None

Next == Make \/ Write \/ Save \/ Destroy \/ Stop \/ Start

Spec == Init /\ [][Next]_vars

-----------------------------------------------------------------------------
(* Not promised.                                                           *)

\* A version left over is not made the saved one, and may or may not be the
\* one that is loaded.
LoadsEither ==
  /\ extra # None
  /\ ~up /\ up' = TRUE
  /\ now' \in {base, extra} \ {None} /\ UNCHANGED <<base, extra>>

\* A version left over survives the playlist, for the next start to find;
\* the daemon may die of a destroy, too.
ForgetsHalf ==
  /\ extra # None
  /\ up /\ now # None /\ now' = None /\ up' \in BOOLEAN
  /\ base' = None /\ UNCHANGED extra
=============================================================================
