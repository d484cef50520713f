--------------------------- MODULE BrowseContract ---------------------------
(***************************************************************************)
(* What mafw_source_browse promises the client that calls it, of whatever  *)
(* source and over D-Bus: the callback is called for one object after the  *)
(* other, numbered from 0, each object once and with fewer left each time, *)
(* until a last call says that nothing is left, or why the browse failed;  *)
(* after that, and after a cancel, it is not called again.  There are no   *)
(* messages, timers or daemons here.  BrowseChain implements this.         *)
(***************************************************************************)
EXTENDS Integers, Sequences, SequencesExt

CONSTANTS Session, Given   \* Given: what a callback may be given

VARIABLES phase,   \* "idle", "open", "ended" or "cancelled"
          got      \* what the callback was given

vars == <<phase, got>>

Init == phase = [s \in Session |-> "idle"] /\ got = [s \in Session |-> <<>>]

Open(s) == /\ phase[s] = "idle"
           /\ phase' = [phase EXCEPT ![s] = "open"] /\ UNCHANGED got

\* what may follow the results l
Follows(r, l) ==
  \/ /\ r.obj # 0 /\ ~r.err /\ r.index = Len(l)
     /\ \A i \in DOMAIN l : l[i].obj # r.obj
     /\ l # <<>> => r.left < Last(l).left
  \/ r.obj = 0 /\ r.left = 0

Give(s) ==
  /\ phase[s] = "open"
  /\ \E r \in Given :
       /\ Follows(r, got[s])
       /\ got' = [got EXCEPT ![s] = Append(@, r)]
       /\ phase' = [phase EXCEPT ![s] = IF r.left = 0 THEN "ended" ELSE @]

Cancel(s) == /\ phase[s] = "open"
             /\ phase' = [phase EXCEPT ![s] = "cancelled"] /\ UNCHANGED got

Next == \E s \in Session : Open(s) \/ Give(s) \/ Cancel(s)

Spec == Init /\ [][Next]_vars
=============================================================================
