----------------------------- MODULE MCGstWorker -----------------------------
(* The worker on small instances: GstWorker, or its volume, Volume, which  *)
(* shares no state with the rest of it; one of the two runs.               *)
EXTENDS GstWorker

CONSTANTS Percent, Steps, None, MaxSets, MaxOthers, MaxFails   \* of GstVolume

VARIABLES
  loud,   \* the one that runs is Volume
  link, known, current, pulse, pending, running, timer, toPulse, toUs,
  actual, subscribed, left, spoilt

Volume == INSTANCE GstVolume

ASSUME VolumeAssumption ==
  /\ Percent \subseteq 0 .. 100 /\ None \notin 0 .. 100
  /\ Steps \subseteq 0 .. Volume!Norm
  /\ {MaxSets, MaxOthers, MaxFails} \subseteq Nat

vvars == <<link, known, current, pulse, pending, running, timer, toPulse,
           toUs, actual, subscribed, left, spoilt>>

MCInit == Init /\ Volume!Init /\ loud \in BOOLEAN

MCNext ==
  /\ UNCHANGED loud
  /\ \/ ~loud /\ Next /\ UNCHANGED vvars
     \/ loud /\ Volume!Next /\ UNCHANGED s

MCSpec ==
  /\ MCInit /\ [][MCNext]_<<loud, s, vvars>>
  /\ SF_s(~loud /\ Advances) /\ WF_s(~loud /\ Fills) /\ WF_s(~loud /\ Handle)
  /\ WF_vvars(loud /\ Volume!Tick)
  /\ WF_vvars(loud /\ Volume!Ready)
  /\ WF_vvars(loud /\ Volume!Reconnect)
  /\ WF_vvars(loud /\ Volume!Receive)
  /\ WF_vvars(loud /\ Volume!Serve)

(* What the user sees and what PulseAudio has agree in the end             *)
(* (mafw-gst-renderer-worker-volume.c:420), but for the cases in spoilt.   *)
VolumesAgree == loud => Volume!Agree

(* No late answer takes back the volume the user set last                  *)
(* (mafw-gst-renderer-worker-volume.c:123).                                *)
NoEcho == Volume!NoEcho
=============================================================================
