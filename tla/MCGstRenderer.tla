---------------------------- MODULE MCGstRenderer ----------------------------
(* GstRenderer on two small instances, one of which runs: one whose        *)
(* playlist answers while pipelines may fail late, and, with a state of    *)
(* its own, Left, a renderer left alone with a playlist that may fail.     *)
EXTENDS GstRenderer

CONSTANT LeftObj   \* the objects of Left

VARIABLES
  left,   \* the instance that runs is Left
  lcur, lmode, lmedia, lwk, lwclip, lstay, lassigned, lsize, lcurrent,
  lresume, lfailed, lpolicy, lpend

lvars == <<lcur, lmode, lmedia, lwk, lwclip, lstay, lassigned, lsize,
           lcurrent, lresume, lfailed, lpolicy, lpend>>

Left == INSTANCE GstRenderer WITH
  Obj <- LeftObj, MaxPending <- 1, PlaylistFails <- TRUE, LateErrors <- FALSE,
  cur <- lcur, mode <- lmode, media <- lmedia, wk <- lwk, wclip <- lwclip,
  stay <- lstay, assigned <- lassigned, size <- lsize, current <- lcurrent,
  resume <- lresume, failed <- lfailed, policy <- lpolicy, pend <- lpend

MCInit == Init /\ Left!Init /\ left \in BOOLEAN

MCNext ==
  /\ UNCHANGED left
  /\ \/ ~left /\ Next /\ UNCHANGED lvars
     \/ left /\ Left!Next /\ UNCHANGED vars

(* The fairness of Left, when it is Left that runs.                        *)
MCSpec ==
  /\ MCInit /\ [][MCNext]_<<left, vars, lvars>>
  /\ \A o \in LeftObj : WF_lvars(left /\ Left!MetadataArrives(o))
  /\ WF_lvars(left /\ Left!SourceMissing)
  /\ WF_lvars(left /\ (Left!Prerolled \/ Left!WorkerPlays
                       \/ Left!WorkerPauses \/ Left!WorkerFails))

(* A renderer left alone settles (mafw-gst-renderer.h:139), though its     *)
(* playlist may fail to tell the next item.                                *)
LeftSettles == Left!Settles
=============================================================================
