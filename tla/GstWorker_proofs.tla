--------------------------- MODULE GstWorker_proofs ---------------------------
(***************************************************************************)
(* Proofs about GstWorker, and the volume it runs beside, for any bounds.  *)
(*                                                                         *)
(* The volume: while no other client changes it, what a write of the       *)
(* worker brings about, its event, the read that follows and the answer,   *)
(* is on its way once at most, and the operation is pending until then.    *)
(*                                                                         *)
(* The worker: first the types, then that its renderer's state is the      *)
(* pipeline's once nothing is on its way, in every scenario but those with *)
(* a clash of kinds of events.  What is known of the worker at any time,   *)
(* Core, is about what it believes of the pipeline; what is on the bus     *)
(* leads from there to what the pipeline is: OnBus has a path of states,   *)
(* each reached from the one before by the message in between, and one of  *)
(* levels of the buffer.  When the bus is empty the path has no steps.     *)
(* Below the definitions come the lemmas on the paths (a message is posted *)
(* or taken), then one for each command of the renderer, each message and  *)
(* each step of the pipeline.                                              *)
(***************************************************************************)
EXTENDS MCGstWorker, TLAPS, SequenceTheorems

-----------------------------------------------------------------------------
(* The volume.                                                             *)

Volumes == {v \in Nat : v <= 100}
Levels == {n \in Nat : n <= 65536}

Orders ==
  [what : {"read"}, init : BOOLEAN] \cup [what : {"write"}, steps : Levels]
    \cup [what : {"subscribe"}]
News ==
  [what : {"reply"}, init : BOOLEAN, value : Levels] \cup [what : {"event", "ack"}]

VolumeTyped ==
  /\ current \in Volumes /\ actual \in Levels
  /\ toPulse \in Seq(Orders) /\ toUs \in Seq(News)
  /\ left \in [sets : Int, others : Int, fails : Int]
  /\ left.others <= MaxOthers

(* The messages by which a write of the worker comes back to it: the write,*)
(* its event, the read that follows and the answer.                        *)
Echo(m) ==
  \/ m.what \in {"write", "event"}
  \/ m.what \in {"read", "reply"} /\ ~m.init
NoneIn(q) == \A i \in 1 .. Len(q) : ~Echo(q[i])
OneIn(q) == \A i, j \in 1 .. Len(q) : Echo(q[i]) /\ Echo(q[j]) => i = j

(* While nobody else sets the volume, one echo at most is on its way, and  *)
(* until it is back the operation is pending.                              *)
EchoPending ==
  left.others = MaxOthers =>
    /\ OneIn(toPulse) /\ OneIn(toUs)
    /\ NoneIn(toPulse) \/ NoneIn(toUs)
    /\ pending = None => NoneIn(toPulse) /\ NoneIn(toUs)

VolumeInv == VolumeTyped /\ EchoPending

LEMMA Joined ==
  ASSUME NEW S, NEW q \in Seq(S), NEW e \in S
  PROVE  /\ Append(q, e) \in Seq(S) /\ q \o <<e>> = Append(q, e)
         /\ ~Echo(e) => (NoneIn(q) => NoneIn(Append(q, e)))
                          /\ (OneIn(q) => OneIn(Append(q, e)))
         /\ NoneIn(q) => OneIn(Append(q, e))
<1>1. Append(q, e) \in Seq(S) /\ q \o <<e>> = Append(q, e)
  BY AppendIsConcat
<1>2. /\ Len(q) \in Nat /\ Len(Append(q, e)) = Len(q) + 1
      /\ \A i \in 1 .. Len(q) : Append(q, e)[i] = q[i]
      /\ Append(q, e)[Len(q) + 1] = e
  OBVIOUS
<1>3. \A i \in 1 .. Len(q) + 1 : i \in 1 .. Len(q) \/ i = Len(q) + 1
  BY <1>2
<1> QED
  BY <1>1, <1>2, <1>3 DEF NoneIn, OneIn

LEMMA Passed ==
  ASSUME NEW S, NEW q \in Seq(S), q # <<>>
  PROVE  /\ Head(q) \in S /\ Tail(q) \in Seq(S)
         /\ NoneIn(q) => NoneIn(Tail(q)) /\ ~Echo(Head(q))
         /\ OneIn(q) => OneIn(Tail(q))
         /\ OneIn(q) /\ Echo(Head(q)) => NoneIn(Tail(q))
<1>1. /\ Len(q) \in Nat /\ Len(q) >= 1 /\ Len(Tail(q)) = Len(q) - 1
      /\ Head(q) = q[1] /\ \A i \in 1 .. Len(q) - 1 : Tail(q)[i] = q[i + 1]
      /\ Head(q) \in S /\ Tail(q) \in Seq(S)
  OBVIOUS
<1>2. \A i \in 1 .. Len(q) - 1 : i + 1 \in 1 .. Len(q) /\ i + 1 # 1
  BY <1>1
<1>3. 1 \in 1 .. Len(q)
  BY <1>1
<1>4. \A i, j \in 1 .. Len(q) - 1 : i + 1 = j + 1 => i = j
  BY <1>1
<1> QED
  BY <1>1, <1>2, <1>3, <1>4 DEF NoneIn, OneIn

LEMMA Divided ==
  ASSUME NEW x \in Nat, x <= 13172736 PROVE x \div 131072 <= 100
BY SMT

LEMMA DividedInt ==
  ASSUME NEW x \in Nat PROVE x \div 131072 \in Int /\ 0 <= x \div 131072
BY SMT

LEMMA Hundredth ==
  ASSUME NEW x \in Nat, x <= 6553600 PROVE x \div 100 <= 65536
BY SMT

LEMMA HundredthInt ==
  ASSUME NEW x \in Nat PROVE x \div 100 \in Int /\ 0 <= x \div 100
BY SMT

LEMMA Scaled ==
  ASSUME NEW n \in Nat, n <= 65536
  PROVE  200 * n + 65536 \in Nat /\ 200 * n + 65536 <= 13172736
BY SMT

LEMMA ScaledUp ==
  ASSUME NEW v \in Nat, v <= 100 PROVE v * 65536 \in Nat /\ v * 65536 <= 6553600
BY SMT

LEMMA InVolumes ==
  ASSUME NEW v \in 0 .. 100 PROVE v \in Volumes
BY SMT DEF Volumes

LEMMA InLevels ==
  ASSUME NEW n \in 0 .. Volume!Norm PROVE n \in Levels
BY SMT DEF Levels, Volume!Norm

LEMMA ToPercentRange ==
  ASSUME NEW n \in Levels PROVE Volume!ToPercent(n) \in Volumes
<1>1. n \in Nat /\ n <= 65536
  BY SMT DEF Levels
<1>2. Volume!ToPercent(n) = (200 * n + 65536) \div 131072
  BY SMT DEF Volume!ToPercent, Volume!Norm
<1> DEFINE x == 200 * n + 65536
<1>3. x \in Nat /\ x <= 13172736
  BY <1>1, Scaled, SMT
<1>4. Volume!ToPercent(n) = x \div 131072
  BY <1>2, SMT
<1> HIDE DEF x
<1>5. x \div 131072 \in Int /\ 0 <= x \div 131072 /\ x \div 131072 <= 100
  BY <1>3, Divided, DividedInt, SMT
<1> QED
  BY <1>4, <1>5, SMT DEF Volumes

LEMMA FromPercentRange ==
  ASSUME NEW v \in Volumes PROVE Volume!FromPercent(v) \in Levels
<1>1. v \in Nat /\ v <= 100
  BY SMT DEF Volumes
<1>2. Volume!FromPercent(v) = (v * 65536) \div 100
  BY SMT DEF Volume!FromPercent, Volume!Norm
<1> DEFINE x == v * 65536
<1>3. x \in Nat /\ x <= 6553600
  BY <1>1, ScaledUp, SMT
<1>4. Volume!FromPercent(v) = x \div 100
  BY <1>2, SMT
<1> HIDE DEF x
<1>5. x \div 100 \in Int /\ 0 <= x \div 100 /\ x \div 100 <= 65536
  BY <1>3, Hundredth, HundredthInt, SMT
<1> QED
  BY <1>4, <1>5, SMT DEF Levels

LEMMA Rounded ==
  /\ \A n \in Levels : Volume!ToPercent(n) \in Volumes
  /\ \A v \in Volumes : Volume!FromPercent(v) \in Levels
BY ToPercentRange, FromPercentRange

(* Writing v or not, when the timer goes off or a volume is set.           *)
LEMMA SetTimeoutKeeps ==
  ASSUME VolumeTyped, EchoPending, NEW v \in Volumes, Volume!SetTimeout(v)
  PROVE  /\ toPulse' \in Seq(Orders)
         /\ left.others = MaxOthers =>
              /\ OneIn(toPulse') /\ (NoneIn(toPulse') \/ NoneIn(toUs))
              /\ pending' = None => NoneIn(toPulse') /\ NoneIn(toUs)
<1>1. CASE UNCHANGED <<pending, toPulse>>
  BY <1>1 DEF VolumeTyped, EchoPending
<1>2. CASE /\ pending = None /\ pending' = v
           /\ toPulse' = Append(toPulse, Volume!Write(v))
  <2>1. Volume!Write(v) \in Orders
    BY Rounded DEF Volume!Write, Orders
  <2>2. v # None
    <3>1. v \in 0 .. 100
      BY DEF Volumes
    <3> QED
      BY <3>1, VolumeAssumption
  <2> QED
    BY <1>2, <2>1, <2>2, Joined DEF VolumeTyped, EchoPending
<1>3. CASE pending = None /\ UNCHANGED toPulse
  BY <1>3 DEF VolumeTyped, EchoPending
<1> QED
  BY <1>1, <1>2, <1>3 DEF Volume!SetTimeout, Volume!Stays, Volume!Writes,
     Volume!WriteFails

LEMMA VolumeStep ==
  ASSUME VolumeInv, Volume!Next
  PROVE  VolumeInv'
<1> USE DEF VolumeInv
<1>1. ASSUME NEW v \in Percent, Volume!Set(v)
      PROVE  VolumeInv'
  <2> USE DEF Volume!Set
  <2>1. v \in Volumes
    BY VolumeAssumption, InVolumes
  <2>2. /\ left' \in [sets : Int, others : Int, fails : Int]
        /\ left'.others = left.others
    BY <1>1 DEF VolumeTyped
  <2>3. toPulse' \in Seq(Orders) /\ EchoPending'
    <3>1. CASE UNCHANGED <<pending, toPulse>>
      BY <1>1, <2>2, <3>1 DEF VolumeTyped, EchoPending
    <3>2. CASE Volume!SetTimeout(v)
      BY <1>1, <2>1, <2>2, <3>2, SetTimeoutKeeps DEF EchoPending
    <3> QED
      BY <1>1, <3>1, <3>2 DEF Volume!Stays
  <2> QED
    BY <1>1, <2>1, <2>2, <2>3 DEF VolumeTyped, Volume!theirs
<1>2. CASE Volume!Tick
  BY <1>2, SetTimeoutKeeps
     DEF Volume!Tick, VolumeTyped, EchoPending, Volume!theirs
<1>3. CASE Volume!Ready
  <2>1. toPulse' = <<Volume!Read(TRUE), Volume!Subscribe>>
    BY <1>3 DEF Volume!Ready
  <2>2. toPulse' \in Seq(Orders)
    BY <2>1 DEF Volume!Read, Volume!Subscribe, Orders
  <2>3. NoneIn(toPulse')
    BY <2>1 DEF Volume!Read, Volume!Subscribe, NoneIn, Echo
  <2> QED
    BY <1>3, <2>2, <2>3
       DEF Volume!Ready, VolumeTyped, EchoPending, NoneIn, OneIn, Volume!theirs,
           Volume!ours
<1>4. CASE Volume!Reconnect
  BY <1>4 DEF Volume!Reconnect, VolumeTyped, EchoPending, Volume!theirs
<1>5. CASE Volume!Receive
  <2> DEFINE m == Head(toUs)
  <2>1. /\ toUs # <<>> /\ toUs' = Tail(toUs) /\ UNCHANGED <<actual, left>>
        /\ m \in News /\ toUs' \in Seq(News)
    BY <1>5, Passed DEF Volume!Receive, VolumeTyped, Volume!theirs
  <2>2. CASE m.what = "reply"
    <3> DEFINE v == Volume!ToPercent(m.value)
    <3>1. v \in Volumes
      BY <2>1, <2>2, Rounded DEF News
    <3>2. UNCHANGED toPulse /\ current' \in Volumes
          /\ (pending' = pending \/ (~m.init /\ pending' = None))
      BY <1>5, <2>2, <3>1 DEF Volume!Receive, Volume!FirstReply,
         Volume!LaterReply, Volume!Seen, VolumeTyped
    <3>3. ~m.init => Echo(m)
      BY <2>2 DEF Echo
    <3>4. EchoPending'
      <4> SUFFICES ASSUME left.others = MaxOthers PROVE EchoPending'
        BY <2>1 DEF EchoPending
      <4>1. /\ NoneIn(toUs) => NoneIn(toUs') /\ ~Echo(m)
            /\ OneIn(toUs) => OneIn(toUs')
            /\ OneIn(toUs) /\ Echo(m) => NoneIn(toUs')
        BY <2>1, Passed DEF VolumeTyped
      <4> QED
        BY <2>1, <3>2, <3>3, <4>1 DEF EchoPending
    <3> QED
      BY <2>1, <3>2, <3>4 DEF VolumeTyped
  <2>3. CASE m.what = "event"
    <3>1. /\ toPulse' = Append(toPulse, Volume!Read(FALSE))
          /\ UNCHANGED <<pending, current>>
      BY <1>5, <2>3 DEF Volume!Receive, Volume!ours
    <3>2. Volume!Read(FALSE) \in Orders /\ Echo(m)
      BY <2>3 DEF Volume!Read, Orders, Echo
    <3>3. /\ toPulse' \in Seq(Orders)
          /\ NoneIn(toPulse) => OneIn(toPulse')
      BY <3>1, <3>2, Joined DEF VolumeTyped
    <3>4. /\ NoneIn(toUs) => ~Echo(m)
          /\ OneIn(toUs) => OneIn(toUs') /\ NoneIn(toUs')
      BY <2>1, <3>2, Passed DEF VolumeTyped
    <3> QED
      BY <2>1, <3>1, <3>2, <3>3, <3>4 DEF VolumeTyped, EchoPending
  <2>4. CASE m.what = "ack"
    <3>1. UNCHANGED <<pending, current, toPulse>>
      BY <1>5, <2>4 DEF Volume!Receive
    <3>2. /\ NoneIn(toUs) => NoneIn(toUs')
          /\ OneIn(toUs) => OneIn(toUs')
      BY <2>1, Passed DEF VolumeTyped
    <3> QED
      BY <2>1, <3>1, <3>2 DEF VolumeTyped, EchoPending
  <2> QED
    BY <1>5, <2>2, <2>3, <2>4 DEF Volume!Receive
<1>6. CASE Volume!Serve
  <2> DEFINE m == Head(toPulse)
  <2>1. /\ toPulse # <<>> /\ toPulse' = Tail(toPulse)
        /\ UNCHANGED <<current, pending, left>>
        /\ m \in Orders /\ toPulse' \in Seq(Orders)
        /\ NoneIn(toPulse) => NoneIn(toPulse') /\ ~Echo(m)
        /\ OneIn(toPulse) => OneIn(toPulse')
        /\ OneIn(toPulse) /\ Echo(m) => NoneIn(toPulse')
    BY <1>6, Passed DEF Volume!Serve, VolumeTyped, Volume!ours
  <2>2. CASE m.what = "read"
    <3> DEFINE e == Volume!Reply(m.init)
    <3>1. toUs' = Append(toUs, e) /\ UNCHANGED actual
      BY <1>6, <2>2 DEF Volume!Serve, Volume!theirs
    <3>2. e \in News /\ (Echo(e) <=> Echo(m))
      BY <2>1, <2>2 DEF Volume!Reply, News, Echo, VolumeTyped, Orders
    <3> HIDE DEF e, m
    <3>3. /\ toUs' \in Seq(News) /\ (NoneIn(toUs) => OneIn(toUs'))
          /\ ~Echo(e) => (NoneIn(toUs) => NoneIn(toUs'))
                           /\ (OneIn(toUs) => OneIn(toUs'))
      BY <3>1, <3>2, Joined DEF VolumeTyped
    <3> QED
      BY <2>1, <3>1, <3>2, <3>3 DEF VolumeTyped, EchoPending
  <2>3. CASE m.what = "subscribe"
    BY <1>6, <2>1, <2>3 DEF Volume!Serve, VolumeTyped, EchoPending
  <2>4. CASE m.what = "write"
    <3>1. actual' \in Levels /\ toUs' = Append(Volume!Told(toUs), Volume!Ack)
      BY <1>6, <2>1, <2>4 DEF Volume!Serve, Orders
    <3>2. Volume!Event \in News /\ Volume!Ack \in News /\ ~Echo(Volume!Ack)
      BY DEF Volume!Event, Volume!Ack, News, Echo
    <3>3. /\ Volume!Told(toUs) \in Seq(News)
          /\ NoneIn(toUs) => OneIn(Volume!Told(toUs))
      <4>1. NoneIn(toUs) => OneIn(toUs)
        BY DEF NoneIn, OneIn
      <4> QED
        BY <3>2, <4>1, Joined DEF VolumeTyped, Volume!Told
    <3>4. toUs' \in Seq(News) /\ (NoneIn(toUs) => OneIn(toUs'))
      BY <3>1, <3>2, <3>3, Joined
    <3>5. Echo(m)
      BY <2>4 DEF Echo
    <3> QED
      BY <2>1, <3>1, <3>4, <3>5 DEF VolumeTyped, EchoPending
  <2> QED
    BY <1>6, <2>2, <2>3, <2>4 DEF Volume!Serve
<1>7. CASE Volume!Refuse
  <2>1. /\ UNCHANGED <<pending, current, actual>>
        /\ toPulse # <<>> /\ toPulse' = Tail(toPulse)
        /\ toUs' = Append(toUs, Volume!Ack)
    BY <1>7 DEF Volume!Refuse, Volume!ours, Volume!theirs
  <2>5. /\ left' \in [sets : Int, others : Int, fails : Int]
        /\ left'.others = left.others
    <3>1. left' = [left EXCEPT !.fails = left.fails - 1]
      BY <1>7 DEF Volume!Refuse
    <3>2. left.fails \in Int /\ left.fails - 1 \in Int
      BY DEF VolumeTyped
    <3> QED
      BY <3>1, <3>2 DEF VolumeTyped
  <2>2. Volume!Ack \in News /\ ~Echo(Volume!Ack)
    BY DEF Volume!Ack, News, Echo
  <2>3. /\ toPulse' \in Seq(Orders)
        /\ NoneIn(toPulse) => NoneIn(toPulse')
        /\ OneIn(toPulse) => OneIn(toPulse')
    BY <2>1, Passed DEF VolumeTyped
  <2>4. /\ toUs' \in Seq(News) /\ (NoneIn(toUs) => NoneIn(toUs'))
        /\ OneIn(toUs) => OneIn(toUs')
    BY <2>1, <2>2, Joined DEF VolumeTyped
  <2> QED
    BY <2>1, <2>3, <2>4, <2>5 DEF VolumeTyped, EchoPending
<1>8. CASE Volume!Fail
  <2>1. toPulse' = <<>> /\ toUs' = <<>> /\ UNCHANGED <<current, actual>>
        /\ left' \in [sets : Int, others : Int, fails : Int]
        /\ left'.others = left.others
    BY <1>8 DEF Volume!Fail, VolumeTyped
  <2> QED
    BY <2>1 DEF VolumeTyped, EchoPending, NoneIn, OneIn
<1>9. ASSUME NEW v \in Steps, Volume!Other(v)
      PROVE  VolumeInv'
  <2>1. v \in Levels
    BY VolumeAssumption, InLevels
  <2>2. /\ left' \in [sets : Int, others : Int, fails : Int]
        /\ left'.others <= MaxOthers /\ left'.others # MaxOthers
    <3>1. left' = [left EXCEPT !.others = left.others - 1]
      BY <1>9 DEF Volume!Other
    <3>2. left.others \in Int /\ left.others - 1 \in Int
      BY DEF VolumeTyped
    <3> HIDE DEF VolumeInv
    <3>3. left.others <= MaxOthers /\ MaxOthers \in Int
      BY VolumeAssumption DEF VolumeInv, VolumeTyped
    <3>4. left'.others = left.others - 1
      BY <3>1 DEF VolumeInv, VolumeTyped
    <3>5. left' \in [sets : Int, others : Int, fails : Int]
      BY <3>1, <3>2 DEF VolumeInv, VolumeTyped
    <3> QED
      BY <3>2, <3>3, <3>4, <3>5
  <2>3. Volume!Event \in News
    BY DEF Volume!Event, News
  <2>4. toUs' \in Seq(News)
    BY <1>9, <2>3, Joined DEF Volume!Other, Volume!Told, VolumeTyped
  <2> QED
    BY <1>9, <2>1, <2>2, <2>4
       DEF Volume!Other, VolumeTyped, EchoPending, Volume!ours
<1> QED
  BY <1>1, <1>2, <1>3, <1>4, <1>5, <1>6, <1>7, <1>8, <1>9 DEF Volume!Next

LEMMA VolumeInvHolds == MCSpec => []VolumeInv
<1>1. MCInit => VolumeInv
  <2> SUFFICES ASSUME Volume!Init PROVE VolumeInv
    BY DEF MCInit
  <2>1. /\ actual \in Levels /\ current \in Volumes
        /\ left = [sets |-> MaxSets, others |-> MaxOthers, fails |-> MaxFails]
        /\ MaxSets \in Int /\ MaxOthers \in Int /\ MaxFails \in Int
        /\ toPulse = <<>> /\ toUs = <<>>
    BY VolumeAssumption, InLevels, InVolumes DEF Volume!Init
  <2>2. /\ left \in [sets : Int, others : Int, fails : Int]
        /\ left.others = MaxOthers
    BY <2>1
  <2> QED
    BY <2>1, <2>2 DEF VolumeInv, VolumeTyped, EchoPending, NoneIn, OneIn
<1>2. VolumeInv /\ [MCNext]_<<loud, s, vvars>> => VolumeInv'
  <2> SUFFICES ASSUME VolumeInv, UNCHANGED vvars \/ Volume!Next
               PROVE  VolumeInv'
    BY DEF MCNext, vvars
  <2>1. CASE UNCHANGED vvars
    BY <2>1 DEF vvars, VolumeInv, VolumeTyped, EchoPending
  <2> QED
    BY <2>1, VolumeStep
<1> QED
  BY <1>1, <1>2, PTL DEF MCSpec

(* The user's last word stands as long as nobody else sets the volume      *)
(* (mafw-gst-renderer-worker-volume.c:123): an answer that comes while no  *)
(* operation is pending is the first of a connection, since the one echo   *)
(* of a write ends the operation, or is ignored while it still runs.       *)
THEOREM LastWordStands == MCSpec => NoEcho
<1> DEFINE A == Volume!Receive /\ current' # current =>
                  Head(toUs).init \/ left.others < MaxOthers
<1>1. VolumeInv /\ [MCNext]_<<loud, s, vvars>> => [A]_Volume!vars
  <2> SUFFICES ASSUME VolumeInv, Volume!Receive, current' # current,
                      ~Head(toUs).init, ~(left.others < MaxOthers)
               PROVE  FALSE
    OBVIOUS
  <2> DEFINE m == Head(toUs)
  <2>1. left.others = MaxOthers
    <3>1. left.others \in Int /\ left.others <= MaxOthers /\ MaxOthers \in Int
      BY VolumeAssumption DEF VolumeInv, VolumeTyped
    <3> QED
      BY <3>1
  <2>2. m.what = "reply"
    BY DEF Volume!Receive, Volume!ours
  <2>3. pending = None
    BY <2>2 DEF Volume!Receive, Volume!LaterReply, Volume!Seen
  <2>4. NoneIn(toUs) /\ toUs # <<>> /\ toUs \in Seq(News)
    BY <2>1, <2>3 DEF VolumeInv, VolumeTyped, EchoPending, Volume!Receive
  <2>5. ~Echo(m)
    BY <2>4, Passed
  <2> QED
    BY <2>2, <2>5 DEF Echo
<1> QED
  BY <1>1, VolumeInvHolds, PTL DEF MCSpec, NoEcho, Volume!NoEcho

-----------------------------------------------------------------------------
(* The worker.                                                             *)

States == {"NULL", "READY", "PAUSED", "PLAYING"}
Messages ==
  [kind : {"state"}, old : States, new : States]
    \cup [kind : {"buffering"}, full : BOOLEAN] \cup [kind : {"error", "eos"}]
Owners == {"Stopped", "Transitioning", "Playing", "Paused"}
Fields ==
  {"kinds", "gst", "target", "bus", "low", "owner", "want", "st", "mode",
   "more", "pending", "prerolling", "stay", "report", "inReady", "timer",
   "seek", "seekable", "buffering", "stream", "live", "eos", "failed",
   "parsed", "watch"}
Worker(x) ==
  /\ DOMAIN x = Fields
  /\ x.kinds \subseteq Kinds /\ x.bus \in Seq(Messages)
  /\ x.gst \in States /\ x.target \in States /\ x.st \in States
  /\ x.owner \in Owners /\ x.want \in {"play", "pause"}
  /\ x.mode \in {"single", "playlist", "redundant"} /\ x.more \in 0 .. MaxMore
  /\ x.timer \in {"off", "on", "stale"} /\ x.seek \in -1 .. 1
  /\ x.seekable \in {"unknown", "yes", "no"}
  /\ x.low \in BOOLEAN /\ x.pending \in BOOLEAN /\ x.prerolling \in BOOLEAN
  /\ x.stay \in BOOLEAN /\ x.report \in BOOLEAN /\ x.inReady \in BOOLEAN
  /\ x.buffering \in BOOLEAN /\ x.stream \in BOOLEAN /\ x.live \in BOOLEAN
  /\ x.eos \in BOOLEAN /\ x.failed \in BOOLEAN /\ x.parsed \in BOOLEAN
  /\ x.watch \in BOOLEAN

(* What a scenario may not combine: with any of these, TLC finds a state   *)
(* where nothing is on its way and the two disagree.                       *)
Clashes ==
  {{"unparsable"}, {"errors", "pause"}, {"hasty", "pause", "seek"},
   {"buffer", "hasty", "pause"}, {"ready", "hasty", "pause"},
   {"buffer", "pause", "ready"}, {"buffer", "pause", "items"},
   {"errors", "hasty", "seek"}}
NoClash(x) == \A bad \in Clashes : ~(bad \subseteq x.kinds)

Has(x, kind) == kind \in x.kinds

\* a pipeline that was stopped
Fresh(x) ==
  /\ x.gst = "NULL" /\ x.target = "NULL" /\ x.bus = <<>> /\ ~x.low
  /\ x.st = "NULL" /\ x.report /\ ~x.prerolling /\ ~x.live /\ ~x.buffering
  /\ ~x.stream /\ ~x.failed /\ ~x.eos /\ x.seek = -1 /\ x.timer = "off"
  /\ ~x.inReady

\* a worker without a location is fresh
Located(x) ==
  /\ ~x.parsed => Fresh(x) /\ x.owner = "Stopped"
  /\ x.parsed => x.owner # "Stopped" /\ x.target # "NULL" /\ x.watch

\* what only some scenarios lead to
Allowed(x) ==
  /\ ~x.failed
  /\ ~Has(x, "buffer") => ~x.stream /\ ~x.live /\ ~x.low /\ ~x.buffering
  /\ ~Has(x, "items") /\ ~Has(x, "errors") => x.mode = "single"
  /\ ~Has(x, "pause") => x.owner # "Paused" /\ ~x.stay
  /\ ~(Has(x, "pause") /\ Has(x, "ready")) =>
       x.timer = "off" /\ ~x.inReady /\ x.target # "READY"
  /\ x.live => x.stream /\ ~x.buffering

\* the renderer will be told that it plays
WillTell(x) == x.mode = "single" \/ x.pending

Starting(x) == x.prerolling =>
  /\ x.owner \in {"Transitioning", "Playing"}
  /\ x.target = "PAUSED" /\ x.st # "PLAYING"
  /\ x.st = "PAUSED" => x.buffering
  /\ x.st # "PAUSED" => x.report
  /\ x.owner = "Playing" => Has(x, "errors")

Waiting(x) == x.owner = "Transitioning" =>
  /\ x.report /\ WillTell(x)
  /\ \/ x.prerolling
     \/ /\ x.target = "PLAYING" /\ x.st = "PAUSED"
        /\ Has(x, "buffer") => ~x.stay

Playing(x) ==
  /\ x.st = "PLAYING" => x.owner = "Playing"
  /\ x.owner = "Playing" =>
       /\ x.st \in {"READY", "NULL"} => x.prerolling
       /\ x.target \in {"PAUSED", "PLAYING"}
       /\ x.target = "PAUSED" /\ ~x.buffering /\ ~x.prerolling =>
            Has(x, "pause") /\ x.report /\ x.st = "PLAYING"
       /\ Has(x, "buffer") => ~x.stay
       /\ Has(x, "hasty") /\ Has(x, "pause") => x.st = "PLAYING"

Pausing(x) == x.owner = "Paused" =>
  /\ \/ x.st = "PAUSED"
     \/ /\ x.st = "READY" /\ x.inReady /\ x.timer = "off"
        /\ x.target \in {"READY", "PAUSED"}
  /\ x.target = "PLAYING" => x.st = "PAUSED" /\ x.report /\ WillTell(x)
  /\ x.target = "READY" => x.inReady /\ x.timer = "off"
  /\ x.target = "PAUSED" /\ x.st = "READY" => x.stay \/ WillTell(x)
  /\ x.report \/ x.stay

Timed(x) ==
  /\ x.timer # "off" =>
       /\ x.timer = "on" /\ x.st = "PAUSED" /\ x.owner = "Paused"
       /\ x.target # "READY"
  /\ x.inReady => x.owner = "Paused"

Falling(x) == ~Has(x, "pause") =>
  /\ x.target = "PAUSED" /\ ~x.prerolling => ~x.report
  /\ ~x.report => x.owner = "Playing"

Core(x) ==
  /\ Located(x) /\ Allowed(x) /\ Starting(x) /\ Waiting(x) /\ Playing(x)
  /\ Pausing(x) /\ Timed(x) /\ Falling(x)

-----------------------------------------------------------------------------
(* The messages on the bus.                                                *)

IsState(m, old, new) == m.kind = "state" /\ m.old = old /\ m.new = new

Moves ==
  {<<"NULL", "READY">>, <<"READY", "PAUSED">>, <<"PAUSED", "PLAYING">>,
   <<"PAUSED", "READY">>, <<"PLAYING", "PAUSED">>}
\* the message of a flushing seek says less than what happened
IsSeek(m) == IsState(m, "PAUSED", "PAUSED")

\* a pipeline in state a is in b after what m tells of
Follows(m, a, b) ==
  /\ m.kind = "state" /\ ~IsSeek(m) =>
       m.old = a /\ m.new = b /\ <<a, b>> \in Moves
  /\ IsSeek(m) => a = "PLAYING" /\ b = "PAUSED"
  /\ m.kind # "state" => b = a
  /\ m.kind = "eos" => b = "PLAYING"

Places(x) == 0 .. Len(x.bus)

\* f leads through the messages, from what the worker knows to what is
Chain(x, f) ==
  /\ f \in [Places(x) -> States]
  /\ f[0] = x.st /\ f[Len(x.bus)] = x.gst
  /\ \A k \in 1 .. Len(x.bus) : Follows(x.bus[k], f[k - 1], f[k])

Between(a, b, c) ==
  \/ Rank(a) <= Rank(b) /\ Rank(b) <= Rank(c)
  \/ Rank(a) >= Rank(b) /\ Rank(b) >= Rank(c)
Direct(x, f) ==
  \A j, k \in Places(x) :
    \/ k < j \/ Between(f[j], f[k], x.target)
    \/ j = 0 /\ k # 0 /\ IsSeek(x.bus[1])

Path(x, f) ==
  /\ Chain(x, f)
  /\ x.prerolling => \A k \in Places(x) : f[k] # "PLAYING"
  /\ Has(x, "pause") /\ ~Has(x, "buffer") => Direct(x, f)
  /\ Has(x, "pause") =>
       \A k \in 1 .. Len(x.bus) : IsSeek(x.bus[k]) =>
         k = 1 /\ x.owner = "Playing" /\ x.target = "PLAYING" /\ ~x.report
  /\ Has(x, "buffer") /\ x.owner = "Paused" /\ x.stay =>
       x.target = "PAUSED" /\ \A k \in Places(x) : f[k] = "PAUSED"

\* g leads through the buffer's levels
Levelled(x, g) ==
  /\ g \in [Places(x) -> BOOLEAN]
  /\ g[0] = x.buffering /\ g[Len(x.bus)] = x.low
  /\ \A k \in 1 .. Len(x.bus) :
       g[k] = IF x.bus[k].kind = "buffering" THEN ~x.bus[k].full ELSE g[k - 1]

\* what only some scenarios send
Messaged(x) == \A k \in 1 .. Len(x.bus) :
  /\ x.bus[k].kind = "buffering" => Has(x, "buffer")
  /\ x.bus[k].kind \in {"error", "eos"} => Has(x, "errors")
  /\ IsSeek(x.bus[k]) => Has(x, "seek")
  /\ IsState(x.bus[k], "PAUSED", "READY") => Has(x, "pause") /\ Has(x, "ready")
  /\ IsState(x.bus[k], "PLAYING", "PAUSED") => Has(x, "pause") \/ ~x.report

OnBus(x) ==
  /\ Messaged(x)
  /\ x.live \/ \E g \in [Places(x) -> BOOLEAN] : Levelled(x, g)
  /\ \E f \in [Places(x) -> States] : Path(x, f)

Inv(x) == Core(x) /\ OnBus(x)

-----------------------------------------------------------------------------

(* Types.                                                                  *)

Typed(x, y) == Worker(y) /\ y.kinds = x.kinds /\ Len(y.bus) <= Len(x.bus)

(* The handlers that leave the bus as it is.                               *)
Quiet(x, y) == Worker(y) /\ y.kinds = x.kinds /\ y.bus = x.bus

LEMMA TypedTwice ==
  ASSUME NEW x, Worker(x), NEW y, NEW z, Typed(x, y), Typed(y, z)
  PROVE  Typed(x, z)
<1>1. Len(x.bus) \in Nat /\ Len(y.bus) \in Nat /\ Len(z.bus) \in Nat
  BY DEF Typed, Worker
<1> QED
  BY <1>1 DEF Typed

LEMMA QuietTyped ==
  ASSUME NEW x, Worker(x), NEW y, Quiet(x, y) PROVE Typed(x, y)
<1>1. Len(x.bus) \in Nat
  BY DEF Worker
<1> QED
  BY <1>1 DEF Typed, Quiet

LEMMA StopFields ==
  ASSUME NEW x, Worker(x), ~(x.watch /\ ~x.parsed), NEW y, y = WorkerStop(x)
  PROVE  /\ Fresh(y) /\ ~y.parsed /\ y.watch /\ y.seekable = "unknown"
         /\ y.kinds = x.kinds /\ y.owner = x.owner /\ y.want = x.want
         /\ y.mode = x.mode /\ y.more = x.more /\ y.pending = x.pending
         /\ y.stay = x.stay
BY DEF WorkerStop, Worker, Fields, Fresh

LEMMA StopTyped ==
  ASSUME NEW x, Worker(x) PROVE Typed(x, WorkerStop(x))
<1> DEFINE y == WorkerStop(x)
<1>1. CASE x.watch /\ ~x.parsed
  <2>1. y = x
    BY <1>1 DEF WorkerStop
  <2> QED
    BY <2>1, QuietTyped DEF Quiet
<1>2. CASE ~(x.watch /\ ~x.parsed)
  <2>1. DOMAIN y = Fields
    BY <1>2 DEF WorkerStop, Worker
  <2>2. /\ <<>> \in Seq(Messages) /\ Len(<<>>) = 0 /\ Len(x.bus) \in Nat
        /\ -1 \in -1 .. 1
    BY DEF Worker
  <2> HIDE DEF y
  <2>3. Worker(y)
    <3>1. /\ Fresh(y) /\ ~y.parsed /\ y.watch /\ y.seekable = "unknown"
          /\ y.kinds = x.kinds /\ y.owner = x.owner /\ y.want = x.want
          /\ y.mode = x.mode /\ y.more = x.more /\ y.pending = x.pending
          /\ y.stay = x.stay
      BY <1>2, StopFields DEF y
    <3>2. /\ y.gst = "NULL" /\ y.target = "NULL" /\ y.bus = <<>> /\ ~y.low
          /\ y.st = "NULL" /\ y.report /\ ~y.prerolling /\ ~y.live
          /\ ~y.buffering /\ ~y.stream /\ ~y.failed /\ ~y.eos /\ y.seek = -1
          /\ y.timer = "off" /\ ~y.inReady
      BY <3>1 DEF Fresh
    <3>3. /\ y.bus \in Seq(Messages) /\ y.seek \in -1 .. 1
          /\ y.gst \in States /\ y.target \in States /\ y.st \in States
      BY <2>2, <3>2 DEF States
    <3>4. /\ y.low = FALSE /\ y.prerolling = FALSE /\ y.live = FALSE
          /\ y.buffering = FALSE /\ y.stream = FALSE /\ y.failed = FALSE
          /\ y.eos = FALSE /\ y.inReady = FALSE /\ y.parsed = FALSE
          /\ y.watch = TRUE /\ y.report = TRUE
      BY <1>2 DEF y, WorkerStop, Worker, Fields
    <3> QED
      BY <2>1, <3>1, <3>2, <3>3, <3>4 DEF Worker
  <2> QED
    BY <1>2, <2>2, <2>3, StopFields DEF y, Typed, Fresh
<1> QED
  BY <1>1, <1>2

LEMMA StartQuiet ==
  ASSUME NEW x, Worker(x), NEW stream \in BOOLEAN, NEW live \in BOOLEAN
  PROVE  Quiet(x, StartPlay(x, stream, live))
BY DEF StartPlay, Worker, Fields, States, Quiet

LEMMA TimersQuiet ==
  ASSUME NEW x, Worker(x)
  PROVE  Quiet(x, AddTimer(x)) /\ Quiet(x, RemoveTimer(x))
BY DEF AddTimer, RemoveTimer, Worker, Fields, Quiet

LEMMA DoPlayQuiet ==
  ASSUME NEW x, Worker(x) PROVE Quiet(x, DoPlay(x))
<1> DEFINE y == [x EXCEPT !.report = TRUE]
<1>1. Quiet(x, y)
  BY DEF Worker, Fields, Quiet
<1>2. \A g \in States : Quiet(x, SetState(y, g))
  BY DEF Worker, Fields, Quiet, SetState
<1>3. Quiet(x, AddTimer(y))
  BY <1>1, TimersQuiet DEF Quiet
<1> QED
  BY <1>2, <1>3 DEF DoPlay, States

LEMMA NotifyQuiet ==
  ASSUME NEW x, Worker(x)
  PROVE  Quiet(x, NotifyPlay(x)) /\ Quiet(x, NotifyPause(x))
<1>1. Quiet(x, x)
  BY DEF Quiet
<1>2. \A o \in Owners : Quiet(x, [x EXCEPT !.owner = o])
  BY DEF Worker, Fields, Quiet
<1>3. Quiet(x, [x EXCEPT !.owner = "Paused", !.stay = FALSE])
  BY DEF Worker, Fields, Quiet, Owners
<1> QED
  BY <1>1, <1>2, <1>3 DEF NotifyPlay, NotifyPause, Owners

LEMMA ReportsQuiet ==
  ASSUME NEW x, Worker(x)
  PROVE  Quiet(x, ReportPlaying(x)) /\ Quiet(x, PauseProcessing(x))
<1>1. \A y : Worker(y) => Quiet(y, [y EXCEPT !.pending = FALSE])
  BY DEF Worker, Fields, Quiet
<1>2. Quiet(x, x)
  BY DEF Quiet
<1> QED
  BY <1>1, <1>2, NotifyQuiet, TimersQuiet DEF ReportPlaying, PauseProcessing, Quiet

LEMMA PrerolledQuiet ==
  ASSUME NEW x, Worker(x), NEW q \in {"yes", "no"}
  PROVE  Quiet(x, Started(x, q)) /\ Quiet(x, Prerolled(x, q))
<1>1. Quiet(x, [x EXCEPT !.seekable = q])
  BY DEF Worker, Fields, Quiet
<1>2. Quiet(x, Started(x, q))
  BY <1>1, DoPlayQuiet DEF Started, Quiet
<1>3. \A y : Worker(y) => Quiet(y, [y EXCEPT !.prerolling = FALSE])
  BY DEF Worker, Fields, Quiet
<1> QED
  BY <1>2, <1>3 DEF Prerolled, Quiet

(* Those that may post one message.                                        *)
Posting(x, y) ==
  Worker(y) /\ y.kinds = x.kinds /\ Len(y.bus) <= Len(x.bus) + 1

LEMMA QuietPosting ==
  ASSUME NEW x, Worker(x), NEW y, Quiet(x, y) PROVE Posting(x, y)
<1>1. Len(x.bus) \in Nat
  BY DEF Worker
<1> QED
  BY <1>1 DEF Posting, Quiet

LEMMA PostTyped ==
  ASSUME NEW x, Worker(x), NEW m \in Messages
  PROVE  /\ Worker(Post(x, m)) /\ Post(x, m).kinds = x.kinds
         /\ Post(x, m).bus = Append(x.bus, m)
         /\ Len(Post(x, m).bus) = Len(x.bus) + 1
<1> DEFINE b == Append(x.bus, m)
<1>1. b \in Seq(Messages) /\ Len(b) = Len(x.bus) + 1
  BY DEF Worker
<1> HIDE DEF b
<1>2. Post(x, m) = [x EXCEPT !.bus = b]
  BY DEF Post, b
<1>3. Worker([x EXCEPT !.bus = b]) /\ [x EXCEPT !.bus = b].bus = b
      /\ [x EXCEPT !.bus = b].kinds = x.kinds
  BY <1>1 DEF Worker, Fields
<1> QED
  BY <1>1, <1>2, <1>3 DEF b

LEMMA DoSeekPosting ==
  ASSUME NEW x, Worker(x), NEW pos \in -1 .. 1 PROVE Posting(x, DoSeek(x, pos))
<1> DEFINE y == [x EXCEPT !.seek = pos, !.report = FALSE]
           z == [y EXCEPT !.gst = "PAUSED"]
<1>1. Quiet(x, y)
  BY DEF Worker, Fields, Quiet
<1>2. Quiet(x, SetState(y, "PAUSED"))
  BY DEF Worker, Fields, Quiet, SetState, States
<1>3. Quiet(x, z)
  BY DEF Worker, Fields, Quiet, States
<1> HIDE DEF y, z
<1>4. Changed("PAUSED", "PAUSED") \in Messages
  BY DEF Changed, Messages, States
<1>5. Posting(x, Post(z, Changed("PAUSED", "PAUSED")))
  <2>1. Len(x.bus) \in Nat
    BY DEF Worker
  <2> QED
    BY <1>3, <1>4, <2>1, PostTyped DEF Posting, Quiet
<1>6. Posting(x, GstSeek(y))
  BY <1>1, <1>5, QuietPosting DEF GstSeek, z
<1>7. Posting(x, x)
  BY QuietPosting DEF Quiet
<1> QED
  BY <1>2, <1>6, <1>7, QuietPosting DEF DoSeek, y

LEMMA WokenUpPosting ==
  ASSUME NEW x, Worker(x), NEW q \in {"yes", "no"}
  PROVE  Posting(x, WokenUp(x, q))
<1> DEFINE z == [x EXCEPT !.seekable = q]
           y == IF x.seek > 0
                THEN IF q # "no" THEN DoSeek(z, z.seek) ELSE z
                ELSE x
<1>1. Quiet(x, z) /\ z.seek = x.seek /\ x.seek \in -1 .. 1
  BY DEF Worker, Fields, Quiet
<1>2. WokenUp(x, q) = IF ~y.stream \/ y.live THEN DoPlay(y) ELSE y
  BY DEF WokenUp
<1> HIDE DEF z
<1>3. Posting(x, DoSeek(z, z.seek))
  BY <1>1, DoSeekPosting DEF Quiet, Posting
<1>4. Posting(x, y)
  BY <1>1, <1>3, QuietPosting DEF Quiet
<1> HIDE DEF y
<1>5. Posting(x, DoPlay(y))
  BY <1>4, DoPlayQuiet DEF Posting, Quiet
<1> QED
  BY <1>2, <1>4, <1>5

LEMMA StateChangedPosting ==
  ASSUME NEW x, Worker(x), NEW old \in States, NEW new \in States,
         NEW q \in {"yes", "no"}
  PROVE  Posting(x, StateChanged(x, old, new, q))
<1> DEFINE y == [x EXCEPT !.st = new]
           z == [y EXCEPT !.seek = -1, !.eos = FALSE]
<1>1. Quiet(x, y)
  BY DEF Worker, Fields, Quiet
<1>2. Quiet(x, z)
  BY DEF Worker, Fields, Quiet
<1> HIDE DEF y, z
<1>3. Quiet(x, ReportPlaying(y)) /\ Quiet(x, PauseProcessing(y))
  BY <1>1, ReportsQuiet DEF Quiet
<1>4. Quiet(x, Prerolled(y, q))
      /\ Quiet(x, PauseProcessing(Prerolled(y, q)))
  BY <1>1, PrerolledQuiet, ReportsQuiet DEF Quiet
<1>5. Quiet(x, RemoveTimer(ReportPlaying(z)))
  BY <1>2, ReportsQuiet, TimersQuiet DEF Quiet
<1>6. Posting(x, WokenUp(y, q))
  BY <1>1, WokenUpPosting DEF Quiet, Posting
<1>7. Quiet(x, x)
  BY DEF Quiet
<1> QED
  BY <1>1, <1>3, <1>4, <1>5, <1>6, <1>7, QuietPosting DEF StateChanged, y, z

LEMMA BufferingQuiet ==
  ASSUME NEW x, Worker(x), NEW full, NEW q \in {"yes", "no"}
  PROVE  Quiet(x, Buffering(x, full, q))
<1>1. Quiet(x, x)
  BY DEF Quiet
<1>2. \A b \in BOOLEAN : Quiet(x, [x EXCEPT !.buffering = b])
  BY DEF Worker, Fields, Quiet
<1>3. \A y, g : Quiet(x, y) /\ g \in States => Quiet(x, SetState(y, g))
  BY DEF Worker, Fields, Quiet, SetState
<1>4. \A y : Quiet(x, y) => /\ Quiet(x, NotifyPlay(y)) /\ Quiet(x, NotifyPause(y))
                            /\ Quiet(x, DoPlay(y)) /\ Quiet(x, Prerolled(y, q))
                            /\ Quiet(x, [y EXCEPT !.report = FALSE])
  <2>1. \A y : Worker(y) => Quiet(y, [y EXCEPT !.report = FALSE])
    BY DEF Worker, Fields, Quiet
  <2> QED
    BY <2>1, NotifyQuiet, DoPlayQuiet, PrerolledQuiet DEF Quiet
<1>5. Quiet(x, BufferLow(x))
  <2> DEFINE y == [x EXCEPT !.buffering = TRUE]
  <2>1. Quiet(x, y) /\ Quiet(x, SetState([y EXCEPT !.report = FALSE], "PAUSED"))
    BY <1>2, <1>3, <1>4 DEF States
  <2> QED
    BY <2>1 DEF BufferLow
<1>6. Quiet(x, BufferFull(x, q))
  <2> DEFINE y == [x EXCEPT !.buffering = FALSE]
  <2>1. Quiet(x, y)
    BY <1>2
  <2> HIDE DEF y
  <2>2. /\ Quiet(x, Prerolled(y, q)) /\ Quiet(x, NotifyPause(Prerolled(y, q)))
        /\ Quiet(x, DoPlay(y)) /\ Quiet(x, SetState(y, "PLAYING"))
        /\ Quiet(x, NotifyPlay(SetState(y, "PLAYING")))
    BY <1>3, <1>4, <2>1 DEF States
  <2>3. y.prerolling \in BOOLEAN /\ y.inReady \in BOOLEAN
    BY <2>1 DEF Quiet, Worker
  <2>4. BufferFull(x, q) = CASE y.st = "PAUSED" /\ y.prerolling ->
         IF Prerolled(y, q).stay THEN NotifyPause(Prerolled(y, q))
         ELSE Prerolled(y, q)
    [] y.st = "PAUSED" /\ ~y.prerolling /\ y.inReady -> DoPlay(y)
    [] y.st = "PAUSED" /\ ~y.prerolling /\ ~y.inReady ->
         IF y.stay THEN y ELSE SetState(y, "PLAYING")
    [] y.st = "PLAYING" ->
         IF SetState(y, "PLAYING").report THEN NotifyPlay(SetState(y, "PLAYING"))
         ELSE SetState(y, "PLAYING")
    [] OTHER -> y
    BY DEF BufferFull, y
  <2>5. CASE y.st = "PAUSED" /\ y.prerolling
    BY <2>2, <2>4, <2>5
  <2>6. CASE y.st = "PAUSED" /\ ~y.prerolling
    BY <2>1, <2>2, <2>3, <2>4, <2>6
  <2>7. CASE y.st = "PLAYING"
    BY <2>2, <2>4, <2>7
  <2>8. CASE y.st # "PAUSED" /\ y.st # "PLAYING"
    BY <2>1, <2>4, <2>8
  <2> QED
    BY <2>5, <2>6, <2>7, <2>8
<1> QED
  BY <1>1, <1>5, <1>6 DEF Buffering

LEMMA SendErrorTyped ==
  ASSUME NEW x, Worker(x) PROVE Typed(x, SendError(x))
<1> DEFINE y == [x EXCEPT !.failed = TRUE]
           z == WorkerStop(y)
<1>1. Quiet(x, y)
  BY DEF Worker, Fields, Quiet
<1>2. Typed(y, z)
  BY <1>1, StopTyped DEF Quiet
<1> HIDE DEF z
<1>3. Quiet(z, [z EXCEPT !.owner = "Stopped"])
  BY <1>2 DEF Typed, Worker, Fields, Quiet, Owners
<1>4. SendError(x) = [z EXCEPT !.owner = "Stopped"]
  BY DEF SendError, z
<1> QED
  BY <1>1, <1>2, <1>3, <1>4 DEF Typed, Quiet

LEMMA NormalModeQuiet ==
  ASSUME NEW x, Worker(x) PROVE Quiet(x, NormalMode(x))
<1>1. 0 \in 0 .. MaxMore
  BY BoundAssumption
<1> QED
  BY <1>1 DEF NormalMode, Worker, Fields, Quiet

LEMMA PlayItemsTyped ==
  ASSUME NEW x, Worker(x), NEW n \in 0 .. MaxMore
  PROVE  /\ Typed(x, PlayItems(x, n))
         /\ HasNext(x) => Typed(x, PlayNextItem(x))
<1> DEFINE w == WorkerStop(x)
<1>1. Typed(x, w)
  BY StopTyped
<1> HIDE DEF w
<1>2. Quiet(w, [w EXCEPT !.mode = "playlist", !.more = n, !.pending = TRUE])
  BY <1>1 DEF Typed, Worker, Fields, Quiet
<1>3. \A y : Quiet(w, y) => Typed(x, StartPlay(y, x.stream, x.live))
  <2> SUFFICES ASSUME NEW y, Quiet(w, y)
               PROVE  Typed(x, StartPlay(y, x.stream, x.live))
    OBVIOUS
  <2>1. x.stream \in BOOLEAN /\ x.live \in BOOLEAN
    BY DEF Worker
  <2>2. Quiet(y, StartPlay(y, x.stream, x.live))
    BY <2>1, StartQuiet DEF Quiet
  <2> QED
    BY <1>1, <2>2 DEF Typed, Quiet
<1>4. HasNext(x) => x.more - 1 \in 0 .. MaxMore
  BY BoundAssumption DEF HasNext, Worker
<1>5. HasNext(x) => Quiet(w, [w EXCEPT !.more = x.more - 1])
  BY <1>1, <1>4 DEF Typed, Worker, Fields, Quiet
<1> QED
  BY <1>2, <1>3, <1>5 DEF PlayItems, PlayNextItem, w

LEMMA ErrorTyped ==
  ASSUME NEW x, Worker(x), NEW n \in 0 .. MaxMore, NEW why
  PROVE  Typed(x, Error(x, why, n))
<1>1. Typed(x, SendError(NormalMode(x)))
  BY NormalModeQuiet, SendErrorTyped DEF Typed, Quiet
<1>2. CASE x.mode = "single"
  BY <1>2, SendErrorTyped, PlayItemsTyped DEF Error
<1>3. CASE x.mode # "single" /\ HasNext(x)
  BY <1>3, SendErrorTyped, PlayItemsTyped DEF Error
<1>4. CASE x.mode # "single" /\ ~HasNext(x)
  BY <1>1, <1>4 DEF Error
<1> QED
  BY <1>2, <1>3, <1>4

LEMMA NotifyEosTyped ==
  ASSUME NEW x, Worker(x) PROVE Typed(x, Unwatched(NotifyEos(x)))
<1> DEFINE w == WorkerStop(x)
<1>1. Typed(x, w)
  BY StopTyped
<1> HIDE DEF w
<1>2. Quiet(w, [w EXCEPT !.owner = "Stopped"])
  BY <1>1 DEF Typed, Worker, Fields, Quiet, Owners
<1>3. Typed(x, x)
  BY QuietTyped DEF Quiet
<1>4. Typed(x, NotifyEos(x))
  BY <1>1, <1>2, <1>3 DEF NotifyEos, w, Typed, Quiet
<1>5. \A y : Worker(y) => Quiet(y, Unwatched(y))
  BY DEF Worker, Fields, Quiet, Unwatched
<1> QED
  BY <1>4, <1>5 DEF Typed, Quiet

LEMMA EosTyped ==
  ASSUME NEW x, Worker(x) PROVE Typed(x, Eos(x))
<1> DEFINE y == [x EXCEPT !.eos = TRUE]
           z == IF y.mode = "playlist" THEN NormalMode(y) ELSE y
           u == Unwatched(NotifyEos(z))
<1>1. Quiet(x, y)
  BY DEF Worker, Fields, Quiet
<1>2. Eos(x) = IF y.mode = "playlist" /\ HasNext(y) THEN PlayNextItem(y)
               ELSE IF u.mode = "redundant" THEN NormalMode(u) ELSE u
  BY DEF Eos
<1> HIDE DEF y
<1>3. Quiet(x, z)
  BY <1>1, NormalModeQuiet DEF Quiet
<1> HIDE DEF z
<1>4. Typed(x, u)
  BY <1>3, NotifyEosTyped DEF Typed, Quiet
<1> HIDE DEF u
<1>5. Typed(x, NormalMode(u))
  BY <1>4, NormalModeQuiet DEF Typed, Quiet
<1>6. HasNext(y) => Typed(x, PlayNextItem(y))
  <2>1. 0 \in 0 .. MaxMore
    BY BoundAssumption
  <2> QED
    BY <1>1, <2>1, PlayItemsTyped DEF Typed, Quiet
<1> QED
  BY <1>2, <1>4, <1>5, <1>6

LEMMA PausesQuiet ==
  ASSUME NEW x, Worker(x)
  PROVE  Quiet(x, WorkerPause(x)) /\ Quiet(x, WorkerResume(x))
<1> DEFINE y == [x EXCEPT !.pending = (@ \/ x.mode # "single")]
<1>1. Quiet(x, [x EXCEPT !.stay = TRUE])
  BY DEF Worker, Fields, Quiet
<1>2. Quiet(x, SetState([x EXCEPT !.report = TRUE], "PAUSED"))
  BY DEF Worker, Fields, Quiet, States, SetState
<1>3. Quiet(x, y)
  <2> DEFINE p == x.pending \/ x.mode # "single"
  <2>1. p \in BOOLEAN /\ y = [x EXCEPT !.pending = p]
    BY DEF Worker
  <2> HIDE DEF p
  <2> QED
    BY <2>1 DEF Worker, Fields, Quiet
<1> HIDE DEF y
<1>4. Quiet(x, [y EXCEPT !.report = TRUE])
  BY <1>3 DEF Worker, Fields, Quiet
<1>5. Quiet(x, DoPlay(y))
  BY <1>3, DoPlayQuiet DEF Quiet
<1>6. Quiet(x, NotifyPause([x EXCEPT !.stay = TRUE]))
  BY <1>1, NotifyQuiet DEF Quiet
<1> QED
  BY <1>2, <1>4, <1>5, <1>6 DEF WorkerPause, WorkerResume, y

WorkerTyped == Worker(s) /\ Len(s.bus) <= MaxBus /\ s.kinds \in Scenarios

LEMMA TypedIsOK ==
  ASSUME WorkerTyped PROVE TypeOK
<1>1. {GstStates[i] : i \in 1 .. 4} = States
  <2>1. 1 .. 4 = {1, 2, 3, 4}
    OBVIOUS
  <2> QED
    BY <2>1 DEF GstStates, States
<1> QED
  BY <1>1 DEF WorkerTyped, Worker, TypeOK, Owners

LEMMA Posted ==
  ASSUME WorkerTyped, Len(s.bus) < MaxBus, NEW y, Worker(y),
         y.kinds = s.kinds, y.bus = s.bus, NEW m \in Messages
  PROVE  Worker(Post(y, m)) /\ Post(y, m).kinds \in Scenarios
         /\ Len(Post(y, m).bus) <= MaxBus
<1>1. Len(s.bus) \in Nat /\ MaxBus \in Nat
  BY BoundAssumption DEF WorkerTyped, Worker
<1> QED
  BY <1>1, PostTyped DEF WorkerTyped

LEMMA TypedStays ==
  ASSUME WorkerTyped, NEW y, Typed(s, y), s' = y PROVE WorkerTyped'
<1>1. Len(s.bus) \in Nat /\ MaxBus \in Nat /\ Len(y.bus) \in Nat
  BY BoundAssumption DEF WorkerTyped, Worker, Typed
<1> QED
  BY <1>1 DEF WorkerTyped, Typed

LEMMA Ranks ==
  /\ Rank("NULL") = 1 /\ Rank("READY") = 2 /\ Rank("PAUSED") = 3
  /\ Rank("PLAYING") = 4
<1>1. /\ GstStates[1] = "NULL" /\ GstStates[2] = "READY"
      /\ GstStates[3] = "PAUSED" /\ GstStates[4] = "PLAYING"
  BY DEF GstStates
<1>2. 1 .. 4 = {1, 2, 3, 4}
  OBVIOUS
<1> QED
  BY <1>1, <1>2, Zenon DEF Rank

LEMMA RankToward ==
  ASSUME NEW g \in States, NEW t \in States, g # t
  PROVE  Toward(g, t) \in States
<1>1. /\ GstStates[1] = "NULL" /\ GstStates[2] = "READY"
      /\ GstStates[3] = "PAUSED" /\ GstStates[4] = "PLAYING"
  BY DEF GstStates
<1> QED
  BY <1>1, Ranks DEF Toward, States

LEMMA PipelineTyped ==
  ASSUME WorkerTyped, Pipeline PROVE WorkerTyped'
<1> USE DEF WorkerTyped
<1>1. CASE Advances
  <2> DEFINE g == Toward(s.gst, s.target)
             y == [s EXCEPT !.gst = g]
  <2>1. g \in States /\ s.gst \in States
    BY <1>1, RankToward DEF Advances, Worker
  <2>2. Changed(s.gst, g) \in Messages
    BY <2>1 DEF Changed, Messages
  <2>3. Len(s.bus) < MaxBus /\ s' = Post(y, Changed(s.gst, g))
    BY <1>1 DEF Advances
  <2> HIDE DEF g
  <2>4. Worker(y) /\ y.kinds = s.kinds /\ y.bus = s.bus
    BY <2>1 DEF Worker, Fields
  <2> QED
    BY <2>2, <2>3, <2>4, Posted
<1>2. CASE RunsLow \/ Fills
  <2>1. PICK b \in BOOLEAN :
          Len(s.bus) < MaxBus /\ s' = Post([s EXCEPT !.low = b], Buffered(~b))
    BY <1>2 DEF RunsLow, Fills
  <2>2. Buffered(~b) \in Messages
    BY DEF Buffered, Messages
  <2> DEFINE y == [s EXCEPT !.low = b]
  <2>3. Worker(y) /\ y.kinds = s.kinds /\ y.bus = s.bus
    BY DEF Worker, Fields
  <2> QED
    BY <2>1, <2>2, <2>3, Posted
<1>3. CASE Errs \/ Ends
  <2>1. PICK k \in {"error", "eos"} :
          Len(s.bus) < MaxBus /\ s' = Post(s, [kind |-> k])
    BY <1>3 DEF Errs, Ends
  <2>2. [kind |-> k] \in Messages
    BY DEF Messages
  <2> QED
    BY <2>1, <2>2, Posted
<1> QED
  BY <1>1, <1>2, <1>3 DEF Pipeline

\* the worker after the first message was taken off the bus
Popped(x) == [x EXCEPT !.bus = Tail(@)]

LEMMA PoppedTyped ==
  ASSUME NEW x, Worker(x), x.bus # <<>>
  PROVE  /\ Head(x.bus) \in Messages
         /\ Worker(Popped(x)) /\ Popped(x).kinds = x.kinds
         /\ Len(Popped(x).bus) = Len(x.bus) - 1 /\ Popped(x).bus = Tail(x.bus)
<1> DEFINE b == Tail(x.bus)
<1>1. b \in Seq(Messages) /\ Len(b) = Len(x.bus) - 1 /\ Head(x.bus) \in Messages
  BY DEF Worker
<1>2. Popped(x) = [x EXCEPT !.bus = b]
  BY DEF Popped
<1> HIDE DEF b
<1>3. Worker(Popped(x)) /\ Popped(x).kinds = x.kinds /\ Popped(x).bus = b
  BY <1>1, <1>2 DEF Worker, Fields
<1> QED
  BY <1>1, <1>3 DEF b

LEMMA HandleTyped ==
  ASSUME WorkerTyped, Handle PROVE WorkerTyped'
<1> DEFINE m == Head(s.bus)
           x == Popped(s)
<1>1. /\ m \in Messages /\ Worker(x) /\ x.kinds = s.kinds
      /\ Len(x.bus) = Len(s.bus) - 1 /\ Len(s.bus) \in Nat /\ Len(x.bus) \in Nat
  <2>1. Worker(s) /\ s.bus # <<>>
    BY DEF Handle, WorkerTyped
  <2>2. Worker(x) => Len(x.bus) \in Nat
    BY DEF Worker
  <2>3. Len(s.bus) \in Nat
    BY <2>1 DEF Worker
  <2> QED
    BY <2>1, <2>2, <2>3, PoppedTyped
<1>2. /\ Typed(x, s') => WorkerTyped'
      /\ Posting(x, s') => WorkerTyped'
  BY <1>1, BoundAssumption DEF Typed, Posting, WorkerTyped, Worker
<1>3. CASE s.failed
  <2>1. s' = x
    BY <1>3 DEF Handle, Popped
  <2> QED
    BY <1>1, <1>2, <2>1 DEF Typed
<1>4. CASE ~s.failed
  <2> HIDE DEF x, m
  <2>1. \/ m.kind = "state" /\ \E q \in {"yes", "no"} :
             s' = StateChanged(x, m.old, m.new, q)
        \/ \E q \in {"yes", "no"} : s' = Buffering(x, m.full, q)
        \/ \E why \in {"nospace", "playlist", "other"}, n \in 0 .. MaxMore :
             s' = Error(x, why, n)
        \/ s' = Eos(x)
    BY <1>4 DEF Handle, x, m, Popped
  <2>2. m.kind = "state" => m.old \in States /\ m.new \in States
    BY <1>1 DEF Messages
  <2>3. \A q \in {"yes", "no"} : s' = Buffering(x, m.full, q) => Typed(x, s')
    BY <1>1, BufferingQuiet, QuietTyped
  <2> QED
    BY <1>1, <1>2, <2>1, <2>2, <2>3, StateChangedPosting, ErrorTyped, EosTyped
<1> QED
  BY <1>3, <1>4

LEMMA GoToReadyTyped ==
  ASSUME WorkerTyped, GoToReady PROVE WorkerTyped'
<1>1. \A p \in -1 .. 1 :
        Quiet(s, SetState([s EXCEPT !.seek = p, !.inReady = TRUE,
                                    !.timer = "off"], "READY"))
  BY DEF WorkerTyped, Worker, Fields, Quiet, SetState, States
<1>2. Quiet(s, [s EXCEPT !.timer = "stale"])
  BY DEF WorkerTyped, Worker, Fields, Quiet
<1>3. s.seek \in -1 .. 1 /\ 0 \in -1 .. 1 /\ 1 \in -1 .. 1
  BY DEF WorkerTyped, Worker
<1>4. Quiet(s, s')
  BY <1>1, <1>2, <1>3 DEF GoToReady
<1> QED
  BY <1>4, TypedStays, QuietTyped DEF WorkerTyped

LEMMA CommandTyped ==
  ASSUME WorkerTyped, Command PROVE WorkerTyped'
<1> USE DEF WorkerTyped
<1>1. CASE Play
  <2> DEFINE w == WorkerStop(s)
  <2>1. PICK mode \in {"single", "playlist", "redundant", "unparsable"},
             n \in 0 .. MaxMore, stream, live, stay \in BOOLEAN :
       /\ mode \in {"single", "unparsable"} => n = 0
       /\ mode \in {"playlist", "redundant"} => "items" \in s.kinds
       /\ mode = "unparsable" => "unparsable" \in s.kinds
       /\ live => stream
       /\ stream => "buffer" \in s.kinds
       /\ stay => "pause" \in s.kinds
       /\ LET x == [WorkerStop(s) EXCEPT
                     !.owner = "Transitioning", !.stay = stay,
                     !.want = IF stay THEN "pause" ELSE "play",
                     !.more = n, !.pending = TRUE]
          IN s' = IF mode = "unparsable" THEN SendError(x)
                  ELSE StartPlay([x EXCEPT !.mode = mode], stream, live)
    BY <1>1 DEF Play
  <2> DEFINE want == IF stay THEN "pause" ELSE "play"
             x == [w EXCEPT !.owner = "Transitioning", !.stay = stay,
                            !.want = want, !.more = n, !.pending = TRUE]
  <2>2. Typed(s, w)
    BY StopTyped
  <2>3. want \in {"play", "pause"}
    OBVIOUS
  <2> HIDE DEF w, want
  <2>4. Quiet(w, x)
    BY <2>2, <2>3 DEF Typed, Worker, Fields, Quiet, Owners
  <2> HIDE DEF x
  <2>5. mode # "unparsable" => Quiet(x, [x EXCEPT !.mode = mode])
    BY <2>4 DEF Worker, Fields, Quiet
  <2>6. Typed(x, SendError(x))
    BY <2>4, SendErrorTyped DEF Quiet
  <2>7. mode # "unparsable" =>
          Quiet(x, StartPlay([x EXCEPT !.mode = mode], stream, live))
    BY <2>5, StartQuiet DEF Quiet
  <2>8. s' = IF mode = "unparsable" THEN SendError(x)
             ELSE StartPlay([x EXCEPT !.mode = mode], stream, live)
    BY <2>1 DEF x, w, want
  <2>9. Typed(s, s')
    BY <2>2, <2>4, <2>6, <2>7, <2>8 DEF Typed, Quiet
  <2> QED
    BY <2>9, TypedStays
<1>2. CASE Stop
  <2> DEFINE w == WorkerStop(s)
             b == IF s.owner = "Paused" THEN FALSE ELSE w.stay
  <2>1. Typed(s, w)
    BY StopTyped
  <2>2. s' = [w EXCEPT !.owner = "Stopped", !.stay = b]
    BY <1>2 DEF Stop
  <2>3. b \in BOOLEAN
    BY <2>1 DEF Typed, Worker
  <2> HIDE DEF w, b
  <2>4. Quiet(w, s')
    BY <2>1, <2>2, <2>3 DEF Typed, Worker, Fields, Quiet, Owners
  <2> QED
    BY <2>1, <2>4, TypedStays DEF Typed, Quiet
<1>3. CASE Pause
  <2> DEFINE x == [s EXCEPT !.want = "pause"]
  <2>1. Quiet(s, x)
    BY DEF Worker, Fields, Quiet
  <2>2. s' \in {[x EXCEPT !.stay = TRUE], WorkerPause(x)}
    BY <1>3 DEF Pause
  <2> HIDE DEF x
  <2>3. Quiet(s, [x EXCEPT !.stay = TRUE])
    BY <2>1 DEF Worker, Fields, Quiet
  <2>4. Quiet(s, WorkerPause(x))
    BY <2>1, PausesQuiet DEF Quiet
  <2> QED
    BY <2>2, <2>3, <2>4, TypedStays, QuietTyped
<1>4. CASE Resume
  <2> DEFINE x == [s EXCEPT !.stay = FALSE, !.want = "play"]
  <2>1. Quiet(s, x)
    BY DEF Worker, Fields, Quiet
  <2>2. s' \in {x, WorkerResume(x)}
    BY <1>4 DEF Resume
  <2> HIDE DEF x
  <2>3. Quiet(s, WorkerResume(x))
    BY <2>1, PausesQuiet DEF Quiet
  <2> QED
    BY <2>1, <2>2, <2>3, TypedStays, QuietTyped
<1>5. CASE SetPosition
  <2>1. PICK pos \in {0, 1} :
          LET x == IF s.owner = "Paused" THEN [s EXCEPT !.stay = TRUE] ELSE s
              y == IF x.timer # "off" THEN AddTimer(RemoveTimer(x)) ELSE x
          IN s' = DoSeek(y, pos)
    BY <1>5 DEF SetPosition
  <2> DEFINE x == IF s.owner = "Paused" THEN [s EXCEPT !.stay = TRUE] ELSE s
             y == IF x.timer # "off" THEN AddTimer(RemoveTimer(x)) ELSE x
  <2>2. Quiet(s, x)
    <3>1. Quiet(s, s) /\ Quiet(s, [s EXCEPT !.stay = TRUE])
      BY DEF Worker, Fields, Quiet
    <3> QED
      BY <3>1
  <2> HIDE DEF x
  <2>3. Quiet(s, AddTimer(RemoveTimer(x)))
    BY <2>2, TimersQuiet DEF Quiet
  <2>4. Quiet(s, y)
    BY <2>2, <2>3
  <2>5. s' = DoSeek(y, pos)
    BY <2>1 DEF x
  <2> HIDE DEF y
  <2>6. pos \in -1 .. 1
    OBVIOUS
  <2>7. Posting(y, s')
    BY <2>4, <2>5, <2>6, DoSeekPosting DEF Quiet
  <2>8. Len(s.bus) < MaxBus /\ Len(s.bus) \in Nat /\ MaxBus \in Nat
        /\ Len(s'.bus) \in Nat
    BY <1>5, <2>7, BoundAssumption DEF SetPosition, Worker, Posting
  <2> QED
    BY <2>4, <2>7, <2>8 DEF Posting, Quiet
<1> QED
  BY <1>1, <1>2, <1>3, <1>4, <1>5 DEF Command

LEMMA InitTyped ==
  ASSUME Init PROVE WorkerTyped
<1>1. PICK kinds \in Scenarios : s = [
  kinds |-> kinds,
  gst |-> "NULL", target |-> "NULL", bus |-> <<>>, low |-> FALSE,
  owner |-> "Stopped", want |-> "play",
  st |-> "NULL", mode |-> "single", more |-> 0, pending |-> TRUE,
  prerolling |-> FALSE, stay |-> FALSE, report |-> TRUE, inReady |-> FALSE,
  timer |-> "off", seek |-> -1, seekable |-> "unknown", buffering |-> FALSE,
  stream |-> FALSE, live |-> FALSE, eos |-> FALSE, failed |-> FALSE,
  parsed |-> FALSE, watch |-> TRUE]
  BY DEF Init
<1>2. kinds \subseteq Kinds /\ <<>> \in Seq(Messages) /\ Len(<<>>) = 0
      /\ 0 \in 0 .. MaxMore /\ -1 \in -1 .. 1 /\ 0 <= MaxBus
  BY ScenariosAssumption, BoundAssumption
<1>3. DOMAIN s = Fields
  BY <1>1 DEF Fields
<1> QED
  BY <1>1, <1>2, <1>3 DEF WorkerTyped, Worker, States, Owners

(* A worker's fields keep their types, and the bus its bound: what one     *)
(* handler does in the middle of another (mafw-gst-renderer-worker.c:942)  *)
(* leaves a state the next one can read.                                   *)
THEOREM WorkerTypeCorrect == Spec => []TypeOK
<1>1. WorkerTyped /\ [Next]_s => WorkerTyped'
  <2> SUFFICES ASSUME WorkerTyped, [Next]_s PROVE WorkerTyped'
    OBVIOUS
  <2>1. CASE UNCHANGED s
    BY <2>1 DEF WorkerTyped
  <2> QED
    BY <2>1, PipelineTyped, HandleTyped, GoToReadyTyped, CommandTyped DEF Next
<1>2. Init => WorkerTyped
  BY InitTyped
<1>3. WorkerTyped => TypeOK
  BY TypedIsOK
<1> QED
  BY <1>1, <1>2, <1>3, PTL DEF Spec

-----------------------------------------------------------------------------
(* Paths through the bus.                                                  *)

(* A message is put on the bus, or taken off it.                           *)
LEMMA PutPlaces ==
  ASSUME NEW b \in Seq(Messages), NEW m \in Messages
  PROVE  /\ Len(b) \in Nat /\ Len(Append(b, m)) = Len(b) + 1
         /\ 0 .. Len(b) + 1 = (0 .. Len(b)) \cup {Len(b) + 1}
         /\ \A k \in 1 .. Len(b) + 1 : k \in 1 .. Len(b) \/ k = Len(b) + 1
         /\ \A k \in 1 .. Len(b) : Append(b, m)[k] = b[k] /\ k # Len(b) + 1
              /\ k \in 0 .. Len(b) /\ k - 1 \in 0 .. Len(b)
         /\ Append(b, m)[Len(b) + 1] = m
         /\ Len(b) \in 0 .. Len(b) /\ 0 \in 0 .. Len(b)
         /\ Len(b) + 1 \notin 0 .. Len(b) /\ Len(b) + 1 - 1 = Len(b)
<1>1. Len(b) \in Nat /\ Len(Append(b, m)) = Len(b) + 1
  OBVIOUS
<1>2. \A k \in 1 .. Len(b) : Append(b, m)[k] = b[k]
  OBVIOUS
<1>3. Append(b, m)[Len(b) + 1] = m
  OBVIOUS
<1> QED
  BY <1>1, <1>2, <1>3

LEMMA TakePlaces ==
  ASSUME NEW b \in Seq(Messages), b # <<>>
  PROVE  /\ Len(b) \in Nat /\ Len(Tail(b)) = Len(b) - 1 /\ Len(b) - 1 \in Nat
         /\ Head(b) = b[1] /\ 1 \in 1 .. Len(b)
         /\ \A k \in 0 .. Len(b) - 1 : k + 1 \in 0 .. Len(b)
         /\ \A k \in 1 .. Len(b) - 1 :
              /\ Tail(b)[k] = b[k + 1] /\ k + 1 \in 1 .. Len(b) /\ k \in Nat
              /\ (k - 1) + 1 = k /\ (k + 1) - 1 = k /\ k - 1 \in 0 .. Len(b) - 1
         /\ (Len(b) - 1) + 1 = Len(b) /\ Len(b) - 1 \in 0 .. Len(b) - 1
         /\ 0 \in 0 .. Len(b) - 1 /\ 0 + 1 = 1 /\ 1 - 1 = 0
<1>1. Len(b) \in Nat /\ Len(b) >= 1 /\ Len(Tail(b)) = Len(b) - 1 /\ Head(b) = b[1]
  OBVIOUS
<1>2. \A k \in 1 .. Len(b) - 1 : Tail(b)[k] = b[k + 1]
  OBVIOUS
<1> QED
  BY <1>1, <1>2

LEMMA ChainPut ==
  ASSUME NEW x, Worker(x), NEW y, NEW m \in Messages, NEW b \in States,
         NEW f \in [Places(x) -> States], Chain(x, f), y.st = x.st,
         y.bus = Append(x.bus, m), y.gst = b, Follows(m, x.gst, b)
  PROVE  \E h \in [Places(y) -> States] :
           /\ Chain(y, h) /\ h[Len(x.bus) + 1] = b
           /\ \A k \in Places(x) : h[k] = f[k]
<1> DEFINE n == Len(x.bus)
           h == [k \in 0 .. n + 1 |-> IF k = n + 1 THEN b ELSE f[k]]
<1>1. x.bus \in Seq(Messages)
  BY DEF Worker
<1>2. /\ n \in Nat /\ Len(y.bus) = n + 1
      /\ 0 .. n + 1 = (0 .. n) \cup {n + 1}
      /\ \A k \in 1 .. n + 1 : k \in 1 .. n \/ k = n + 1
      /\ \A k \in 1 .. n : y.bus[k] = x.bus[k] /\ k # n + 1
           /\ k \in 0 .. n /\ k - 1 \in 0 .. n
      /\ y.bus[n + 1] = m
      /\ n \in 0 .. n /\ 0 \in 0 .. n /\ n + 1 \notin 0 .. n /\ n + 1 - 1 = n
  BY <1>1, PutPlaces
<1>3. /\ f \in [0 .. n -> States] /\ f[0] = x.st /\ f[n] = x.gst
      /\ \A k \in 1 .. n : Follows(x.bus[k], f[k - 1], f[k])
  BY DEF Chain, Places
<1> HIDE DEF n
<1>4. h \in [0 .. n + 1 -> States]
  BY <1>2, <1>3
<1>5. /\ \A k \in 0 .. n : h[k] = f[k]
      /\ h[n + 1] = b
  BY <1>2
<1>6. \A k \in 1 .. n + 1 : Follows(y.bus[k], h[k - 1], h[k])
  BY <1>2, <1>3, <1>5
<1> HIDE DEF h
<1>7. Chain(y, h)
  BY <1>2, <1>3, <1>4, <1>5, <1>6 DEF Chain, Places
<1> QED
  BY <1>2, <1>4, <1>5, <1>7 DEF Places, n

LEMMA ChainTake ==
  ASSUME NEW x, Worker(x), NEW y, x.bus # <<>>,
         NEW f \in [Places(x) -> States], Chain(x, f), y.st = f[1],
         y.bus = Tail(x.bus), y.gst = x.gst
  PROVE  \E h \in [Places(y) -> States] :
           /\ Chain(y, h)
           /\ \A k \in Places(y) : k + 1 \in Places(x) /\ h[k] = f[k + 1]
<1> DEFINE n == Len(x.bus)
           h == [k \in 0 .. n - 1 |-> f[k + 1]]
<1>1. x.bus \in Seq(Messages)
  BY DEF Worker
<1>2. /\ n \in Nat /\ Len(y.bus) = n - 1 /\ n - 1 \in Nat
      /\ \A k \in 0 .. n - 1 : k + 1 \in 0 .. n
      /\ \A k \in 1 .. n - 1 :
           /\ y.bus[k] = x.bus[k + 1] /\ k + 1 \in 1 .. n /\ k \in Nat
           /\ (k - 1) + 1 = k /\ (k + 1) - 1 = k /\ k - 1 \in 0 .. n - 1
      /\ (n - 1) + 1 = n /\ n - 1 \in 0 .. n - 1
      /\ 0 \in 0 .. n - 1 /\ 0 + 1 = 1
  BY <1>1, TakePlaces
<1>3. /\ f \in [0 .. n -> States] /\ f[0] = x.st /\ f[n] = x.gst
      /\ \A k \in 1 .. n : Follows(x.bus[k], f[k - 1], f[k])
  BY DEF Chain, Places
<1> HIDE DEF n
<1>4. h \in [0 .. n - 1 -> States] /\ \A k \in 0 .. n - 1 : h[k] = f[k + 1]
  BY <1>2, <1>3
<1> HIDE DEF h
<1>5. h[0] = y.st /\ h[n - 1] = y.gst
  BY <1>2, <1>3, <1>4
<1>6. \A k \in 1 .. n - 1 : Follows(y.bus[k], h[k - 1], h[k])
  <2> SUFFICES ASSUME NEW k \in 1 .. n - 1
               PROVE  Follows(y.bus[k], h[k - 1], h[k])
    OBVIOUS
  <2>1. Follows(x.bus[k + 1], f[(k + 1) - 1], f[k + 1])
    BY <1>2, <1>3
  <2>2. h[k - 1] = f[k] /\ h[k] = f[k + 1]
    BY <1>2, <1>4
  <2> QED
    BY <1>2, <2>1, <2>2
<1>7. Chain(y, h)
  BY <1>2, <1>4, <1>5, <1>6 DEF Chain, Places
<1> QED
  BY <1>2, <1>4, <1>7 DEF Places, n

\* the buffer is low after m, if it was so before it is lo
LowAfter(m, lo) == IF m.kind = "buffering" THEN ~m.full ELSE lo

LEMMA LevelPut ==
  ASSUME NEW x, Worker(x), NEW y, NEW m \in Messages,
         NEW g \in [Places(x) -> BOOLEAN], Levelled(x, g),
         y.bus = Append(x.bus, m), y.buffering = x.buffering,
         y.low = LowAfter(m, x.low), y.low \in BOOLEAN
  PROVE  \E h \in [Places(y) -> BOOLEAN] : Levelled(y, h)
<1> DEFINE n == Len(x.bus)
           h == [k \in 0 .. n + 1 |-> IF k = n + 1 THEN y.low ELSE g[k]]
<1>1. x.bus \in Seq(Messages)
  BY DEF Worker
<1>2. /\ n \in Nat /\ Len(y.bus) = n + 1
      /\ 0 .. n + 1 = (0 .. n) \cup {n + 1}
      /\ \A k \in 1 .. n + 1 : k \in 1 .. n \/ k = n + 1
      /\ \A k \in 1 .. n : y.bus[k] = x.bus[k] /\ k # n + 1
           /\ k \in 0 .. n /\ k - 1 \in 0 .. n
      /\ y.bus[n + 1] = m
      /\ n \in 0 .. n /\ 0 \in 0 .. n /\ n + 1 \notin 0 .. n /\ n + 1 - 1 = n
  BY <1>1, PutPlaces
<1>3. /\ g \in [0 .. n -> BOOLEAN] /\ g[0] = x.buffering /\ g[n] = x.low
      /\ \A k \in 1 .. n : g[k] = LowAfter(x.bus[k], g[k - 1])
  BY DEF Levelled, Places, LowAfter
<1> HIDE DEF n
<1>4. h \in [0 .. n + 1 -> BOOLEAN]
  BY <1>2, <1>3
<1>5. /\ \A k \in 0 .. n : h[k] = g[k]
      /\ h[n + 1] = y.low
  BY <1>2
<1>6. \A k \in 1 .. n + 1 : h[k] = LowAfter(y.bus[k], h[k - 1])
  BY <1>2, <1>3, <1>5
<1> HIDE DEF h
<1>7. Levelled(y, h)
  BY <1>2, <1>3, <1>4, <1>5, <1>6 DEF Levelled, Places, LowAfter
<1> QED
  BY <1>2, <1>4, <1>7 DEF Places

LEMMA LevelTake ==
  ASSUME NEW x, Worker(x), NEW y, x.bus # <<>>,
         NEW g \in [Places(x) -> BOOLEAN], Levelled(x, g),
         y.bus = Tail(x.bus), y.low = x.low,
         y.buffering = LowAfter(Head(x.bus), x.buffering)
  PROVE  \E h \in [Places(y) -> BOOLEAN] : Levelled(y, h)
<1> DEFINE n == Len(x.bus)
           h == [k \in 0 .. n - 1 |-> g[k + 1]]
<1>1. x.bus \in Seq(Messages)
  BY DEF Worker
<1>2. /\ n \in Nat /\ Len(y.bus) = n - 1 /\ n - 1 \in Nat
      /\ \A k \in 0 .. n - 1 : k + 1 \in 0 .. n
      /\ \A k \in 1 .. n - 1 :
           /\ y.bus[k] = x.bus[k + 1] /\ k + 1 \in 1 .. n /\ k \in Nat
           /\ (k - 1) + 1 = k /\ (k + 1) - 1 = k /\ k - 1 \in 0 .. n - 1
      /\ (n - 1) + 1 = n /\ n - 1 \in 0 .. n - 1
      /\ 0 \in 0 .. n - 1 /\ 0 + 1 = 1 /\ 1 - 1 = 0 /\ 1 \in 1 .. n
      /\ Head(x.bus) = x.bus[1]
  BY <1>1, TakePlaces
<1>3. /\ g \in [0 .. n -> BOOLEAN] /\ g[0] = x.buffering /\ g[n] = x.low
      /\ \A k \in 1 .. n : g[k] = LowAfter(x.bus[k], g[k - 1])
  BY DEF Levelled, Places, LowAfter
<1> HIDE DEF n
<1>4. h \in [0 .. n - 1 -> BOOLEAN] /\ \A k \in 0 .. n - 1 : h[k] = g[k + 1]
  BY <1>2, <1>3
<1> HIDE DEF h
<1>5. h[0] = y.buffering /\ h[n - 1] = y.low
  <2>1. g[1] = LowAfter(x.bus[1], g[1 - 1])
    BY <1>2, <1>3
  <2>2. h[0] = g[1]
    BY <1>2, <1>4
  <2> QED
    BY <1>2, <1>3, <1>4, <2>1, <2>2
<1>6. \A k \in 1 .. n - 1 : h[k] = LowAfter(y.bus[k], h[k - 1])
  <2> SUFFICES ASSUME NEW k \in 1 .. n - 1
               PROVE  h[k] = LowAfter(y.bus[k], h[k - 1])
    OBVIOUS
  <2>1. g[k + 1] = LowAfter(x.bus[k + 1], g[(k + 1) - 1])
    BY <1>2, <1>3
  <2>2. h[k - 1] = g[k] /\ h[k] = g[k + 1]
    BY <1>2, <1>4
  <2> QED
    BY <1>2, <2>1, <2>2
<1>7. Levelled(y, h)
  BY <1>2, <1>4, <1>5, <1>6 DEF Levelled, Places, LowAfter
<1> QED
  BY <1>2, <1>4, <1>7 DEF Places

-----------------------------------------------------------------------------
(* What a handler that leaves the bus alone has to keep.                   *)

NoSeeks(x) == \A k \in 1 .. Len(x.bus) : ~IsSeek(x.bus[k])
NoFalls(x) ==
  \A k \in 1 .. Len(x.bus) : ~IsState(x.bus[k], "PLAYING", "PAUSED")
Still(x, y) ==
  /\ y.kinds = x.kinds /\ y.bus = x.bus /\ y.gst = x.gst /\ y.st = x.st
  /\ y.low = x.low /\ y.buffering = x.buffering /\ y.live = x.live

LEMMA Held ==
  ASSUME NEW x, Worker(x), NEW y, Worker(y), OnBus(x), Still(x, y),
         y.prerolling => x.prerolling,
         Has(x, "pause") /\ ~Has(x, "buffer") =>
           y.target = x.target \/ x.bus = <<>>,
         Has(x, "pause") =>
           \/ y.owner = x.owner /\ y.target = x.target /\ (y.report => x.report)
           \/ NoSeeks(x),
         Has(x, "buffer") /\ y.owner = "Paused" /\ y.stay =>
           /\ y.target = "PAUSED"
           /\ (x.owner = "Paused" /\ x.stay) \/ (x.bus = <<>> /\ x.st = "PAUSED"),
         y.report => x.report \/ Has(x, "pause") \/ NoFalls(x)
  PROVE  OnBus(y)
<1> USE DEF Still
<1>1. Messaged(y)
  BY DEF OnBus, Messaged, NoFalls, Has
<1>2. y.live \/ \E g \in [Places(y) -> BOOLEAN] : Levelled(y, g)
  BY DEF OnBus, Levelled, Places
<1>3. PICK f \in [Places(x) -> States] : Path(x, f)
  BY DEF OnBus
<1>4. Chain(y, f) /\ Places(y) = Places(x)
  BY <1>3 DEF Path, Chain, Places
<1>5. y.prerolling => \A k \in Places(y) : f[k] # "PLAYING"
  BY <1>3, <1>4 DEF Path
<1>6. Has(y, "pause") /\ ~Has(y, "buffer") => Direct(y, f)
  <2> SUFFICES ASSUME Has(y, "pause"), ~Has(y, "buffer") PROVE Direct(y, f)
    OBVIOUS
  <2>1. CASE y.target = x.target
    BY <1>3, <1>4, <2>1 DEF Path, Direct, Has
  <2>2. CASE x.bus = <<>>
    <3>1. Places(y) = {0}
      BY <2>2 DEF Places
    <3>2. \A a, c \in States : Between(a, a, c)
      BY Ranks DEF Between, States
    <3>3. f[0] \in States /\ y.target \in States
      BY <1>3, <1>4, <3>1 DEF Path, Chain, Worker
    <3> QED
      BY <3>1, <3>2, <3>3 DEF Direct
  <2> QED
    BY <2>1, <2>2 DEF Has
<1>7. Has(y, "pause") =>
        \A k \in 1 .. Len(y.bus) : IsSeek(y.bus[k]) =>
          k = 1 /\ y.owner = "Playing" /\ y.target = "PLAYING" /\ ~y.report
  BY <1>3 DEF Path, NoSeeks, Has
<1>8. Has(y, "buffer") /\ y.owner = "Paused" /\ y.stay =>
        y.target = "PAUSED" /\ \A k \in Places(y) : f[k] = "PAUSED"
  <2> SUFFICES ASSUME Has(y, "buffer"), y.owner = "Paused", y.stay
               PROVE  y.target = "PAUSED" /\ \A k \in Places(y) : f[k] = "PAUSED"
    OBVIOUS
  <2>1. CASE x.owner = "Paused" /\ x.stay
    BY <1>3, <1>4, <2>1 DEF Path, Has
  <2>2. CASE x.bus = <<>> /\ x.st = "PAUSED"
    <3>1. Places(y) = {0}
      BY <2>2 DEF Places
    <3> QED
      BY <1>3, <2>2, <3>1 DEF Path, Chain, Has
  <2> QED
    BY <2>1, <2>2 DEF Has
<1>9. Path(y, f)
  BY <1>4, <1>5, <1>6, <1>7, <1>8 DEF Path
<1> QED
  BY <1>1, <1>2, <1>3, <1>4, <1>9 DEF OnBus

LEMMA SameRank ==
  ASSUME NEW a \in States, NEW b \in States, Between(a, b, a) PROVE b = a
BY Ranks DEF States, Between

(* Where a pipeline goes straight to its target, there is nothing on the   *)
(* bus once the worker has seen it arrive.                                 *)
LEMMA Arrived ==
  ASSUME NEW x, Worker(x), NoClash(x), OnBus(x), Has(x, "pause"),
         ~Has(x, "buffer"), x.st = x.target, NoSeeks(x)
  PROVE  x.bus = <<>> /\ x.gst = x.target
<1>1. PICK f \in [Places(x) -> States] : Path(x, f)
  BY DEF OnBus
<1>2. /\ x.bus \in Seq(Messages) /\ Len(x.bus) \in Nat /\ x.target \in States
      /\ Chain(x, f) /\ Direct(x, f)
  BY <1>1 DEF Path, Worker
<1>3. ASSUME x.bus # <<>> PROVE FALSE
  <2> DEFINE m == x.bus[1]
  <2>1. 1 \in 1 .. Len(x.bus) /\ 0 \in Places(x) /\ 1 \in Places(x) /\ 1 - 1 = 0
        /\ m \in Messages
    BY <1>2, <1>3 DEF Places
  <2>2. m.kind = "state" /\ ~IsSeek(m)
    <3>1. ~Has(x, "errors")
      BY DEF NoClash, Clashes, Has
    <3>2. ~(m.kind = "buffering") /\ ~(m.kind \in {"error", "eos"})
      BY <2>1, <3>1 DEF OnBus, Messaged
    <3> QED
      BY <2>1, <3>2 DEF Messages, NoSeeks
  <2>3. Follows(m, f[0], f[1]) /\ f[0] = x.target /\ f[1] \in States
    BY <1>2, <2>1 DEF Chain
  <2>4. Between(f[0], f[1], x.target)
    BY <1>2, <2>1, <2>2 DEF Direct
  <2>5. f[1] = x.target
    BY <1>2, <2>3, <2>4, SameRank
  <2> QED
    BY <2>2, <2>3, <2>5 DEF Follows, Moves
<1>4. x.bus = <<>>
  BY <1>3
<1> QED
  BY <1>2, <1>4 DEF Chain

(* The worker and its knowledge after it took a message off the bus.       *)
Took(x, y) ==
  LET m == Head(x.bus) IN
  /\ y.bus = Tail(x.bus) /\ y.kinds = x.kinds /\ y.gst = x.gst
  /\ y.low = x.low /\ y.live = x.live /\ y.target = x.target
  /\ y.owner = x.owner /\ y.report = x.report /\ y.stay = x.stay
  /\ y.prerolling = x.prerolling
  /\ y.st = IF m.kind = "state" THEN m.new ELSE x.st
  /\ y.live \/ y.buffering = LowAfter(m, x.buffering)

LEMMA Taken ==
  ASSUME NEW x, Worker(x), OnBus(x), x.bus # <<>>, NEW y, Took(x, y)
  PROVE  LET m == Head(x.bus) IN
    /\ OnBus(y)
    /\ Has(x, "pause") => NoSeeks(y)
    /\ Follows(m, x.st, y.st)
    /\ x.prerolling => y.st # "PLAYING"
    /\ Has(x, "pause") /\ ~Has(x, "buffer") =>
         IsSeek(m) \/ Between(x.st, y.st, x.target)
    /\ Has(x, "pause") /\ IsSeek(m) =>
         x.owner = "Playing" /\ x.target = "PLAYING" /\ ~x.report
    /\ Has(x, "buffer") /\ x.owner = "Paused" /\ x.stay =>
         x.target = "PAUSED" /\ x.st = "PAUSED" /\ y.st = "PAUSED"
    /\ m.kind = "buffering" => Has(x, "buffer")
    /\ m.kind \in {"error", "eos"} => Has(x, "errors")
    /\ IsSeek(m) => Has(x, "seek")
    /\ IsState(m, "PAUSED", "READY") => Has(x, "pause") /\ Has(x, "ready")
    /\ IsState(m, "PLAYING", "PAUSED") => Has(x, "pause") \/ ~x.report
<1> DEFINE m == Head(x.bus)
           n == Len(x.bus)
<1>1. PICK f \in [Places(x) -> States] : Path(x, f)
  BY DEF OnBus
<1>2. x.bus \in Seq(Messages)
  BY DEF Worker
<1>3. /\ n \in Nat /\ Len(y.bus) = n - 1 /\ m = x.bus[1] /\ 1 \in 1 .. n
      /\ \A k \in 0 .. n - 1 : k + 1 \in 0 .. n
      /\ \A k \in 1 .. n - 1 :
           y.bus[k] = x.bus[k + 1] /\ k + 1 \in 1 .. n /\ k \in Nat
      /\ 0 \in 0 .. n - 1 /\ 0 + 1 = 1 /\ 1 - 1 = 0
  BY <1>2, TakePlaces DEF Took
<1>4. 0 \in Places(x) /\ 1 \in Places(x) /\ Places(y) = 0 .. n - 1
      /\ Places(x) = 0 .. n
  BY <1>3 DEF Places
<1> HIDE DEF n
<1>5. Chain(x, f) /\ f[0] = x.st /\ Follows(m, f[0], f[1])
  <2>1. Follows(x.bus[1], f[1 - 1], f[1])
    BY <1>1, <1>3 DEF Path, Chain, n
  <2> QED
    BY <1>1, <1>3, <2>1 DEF Path, Chain
<1>6. y.st = f[1]
  BY <1>5 DEF Took, Follows, IsSeek, IsState
<1>7. PICK h \in [Places(y) -> States] :
        /\ Chain(y, h)
        /\ \A k \in Places(y) : k + 1 \in Places(x) /\ h[k] = f[k + 1]
  BY <1>1, <1>5, <1>6, ChainTake DEF Took
<1>8. Messaged(y)
  BY <1>3 DEF OnBus, Messaged, Took, Has, n
<1>9. y.live \/ \E g \in [Places(y) -> BOOLEAN] : Levelled(y, g)
  <2> SUFFICES ASSUME ~y.live
               PROVE  \E g \in [Places(y) -> BOOLEAN] : Levelled(y, g)
    OBVIOUS
  <2>1. PICK g \in [Places(x) -> BOOLEAN] : Levelled(x, g)
    BY DEF OnBus, Took
  <2> QED
    BY <2>1, LevelTake DEF Took
<1>10. Has(x, "pause") => NoSeeks(y)
  <2> SUFFICES ASSUME Has(x, "pause"), NEW k \in 1 .. n - 1, IsSeek(y.bus[k])
               PROVE  FALSE
    BY <1>3 DEF NoSeeks
  <2>1. k + 1 = 1
    BY <1>1, <1>3 DEF Path, n
  <2> QED
    BY <2>1
<1>11. Has(x, "pause") /\ ~Has(x, "buffer") => Direct(y, h)
  <2> SUFFICES ASSUME Has(x, "pause"), ~Has(x, "buffer"),
                      NEW j \in Places(y), NEW k \in Places(y), ~(k < j)
               PROVE  Between(h[j], h[k], y.target)
    BY DEF Direct
  <2>1. j \in Nat /\ k \in Nat /\ j + 1 \in Places(x) /\ k + 1 \in Places(x)
        /\ h[j] = f[j + 1] /\ h[k] = f[k + 1]
    BY <1>4, <1>7
  <2>2. ~(k + 1 < j + 1) /\ j + 1 # 0
    BY <2>1
  <2>3. Between(f[j + 1], f[k + 1], x.target)
    BY <1>1, <2>1, <2>2 DEF Path, Direct
  <2> QED
    BY <2>1, <2>3 DEF Took
<1>12. Path(y, h)
  BY <1>1, <1>7, <1>10, <1>11 DEF Path, Took, NoSeeks, Has
<1>13. OnBus(y)
  BY <1>7, <1>8, <1>9, <1>12 DEF OnBus
<1>14. Has(x, "pause") /\ ~Has(x, "buffer") =>
         IsSeek(m) \/ Between(x.st, y.st, x.target)
  BY <1>1, <1>3, <1>4, <1>5, <1>6 DEF Path, Direct
<1>15. /\ x.prerolling => y.st # "PLAYING"
       /\ Has(x, "pause") /\ IsSeek(m) =>
            x.owner = "Playing" /\ x.target = "PLAYING" /\ ~x.report
       /\ Has(x, "buffer") /\ x.owner = "Paused" /\ x.stay =>
            x.target = "PAUSED" /\ x.st = "PAUSED" /\ y.st = "PAUSED"
  BY <1>1, <1>3, <1>4, <1>5, <1>6 DEF Path, n
<1>16. /\ m.kind = "buffering" => Has(x, "buffer")
       /\ m.kind \in {"error", "eos"} => Has(x, "errors")
       /\ IsSeek(m) => Has(x, "seek")
       /\ IsState(m, "PAUSED", "READY") => Has(x, "pause") /\ Has(x, "ready")
       /\ IsState(m, "PLAYING", "PAUSED") => Has(x, "pause") \/ ~x.report
  BY <1>3 DEF OnBus, Messaged, n
<1> QED
  BY <1>5, <1>6, <1>10, <1>13, <1>14, <1>15, <1>16

(* The pipeline tells of a state b, or of something else.                  *)
Put(x, y, m, b) ==
  /\ y.bus = Append(x.bus, m) /\ y.kinds = x.kinds /\ y.gst = b
  /\ y.low = LowAfter(m, x.low) /\ y.live = x.live /\ y.target = x.target
  /\ y.owner = x.owner /\ y.report = x.report /\ y.stay = x.stay
  /\ y.prerolling = x.prerolling /\ y.st = x.st /\ y.buffering = x.buffering

LEMMA PutOnBus ==
  ASSUME NEW x, Worker(x), NEW y, Worker(y), OnBus(x), NEW m \in Messages,
         NEW b \in States, Put(x, y, m, b), Follows(m, x.gst, b), ~IsSeek(m),
         m.kind = "buffering" => Has(x, "buffer"),
         m.kind \in {"error", "eos"} => Has(x, "errors"),
         IsState(m, "PAUSED", "READY") => Has(x, "pause") /\ Has(x, "ready"),
         IsState(m, "PLAYING", "PAUSED") =>
           Has(x, "pause") \/ ~x.report \/ x.prerolling,
         x.prerolling => b # "PLAYING",
         \A a \in States : Between(a, x.gst, x.target) => Between(a, b, x.target),
         x.gst = x.target => b = x.gst
  PROVE  OnBus(y)
<1> DEFINE n == Len(x.bus)
<1>1. PICK f \in [Places(x) -> States] : Path(x, f)
  BY DEF OnBus
<1>2. x.bus \in Seq(Messages)
  BY DEF Worker
<1>3. /\ n \in Nat /\ Len(y.bus) = n + 1
      /\ 0 .. n + 1 = (0 .. n) \cup {n + 1}
      /\ \A k \in 1 .. n + 1 : k \in 1 .. n \/ k = n + 1
      /\ \A k \in 1 .. n : y.bus[k] = x.bus[k] /\ k \in 0 .. n
      /\ y.bus[n + 1] = m
      /\ n \in 0 .. n /\ 0 \in 0 .. n /\ n + 1 \notin 0 .. n
  BY <1>2, PutPlaces DEF Put
<1>4. Places(x) = 0 .. n /\ Places(y) = (0 .. n) \cup {n + 1}
  BY <1>3 DEF Places
<1>5. Chain(x, f) /\ f[n] = x.gst
  BY <1>1 DEF Path, Chain
<1>6. PICK h \in [Places(y) -> States] :
        /\ Chain(y, h) /\ h[n + 1] = b
        /\ \A k \in Places(x) : h[k] = f[k]
  BY <1>1, <1>5, ChainPut DEF Put
<1>7. IsState(m, "PLAYING", "PAUSED") => Has(x, "pause") \/ ~x.report
  <2> SUFFICES ASSUME IsState(m, "PLAYING", "PAUSED"), x.prerolling PROVE FALSE
    OBVIOUS
  <2>1. x.gst = "PLAYING"
    BY DEF Follows, IsState
  <2> QED
    BY <1>1, <1>3, <1>4, <1>5, <2>1 DEF Path
<1>8. Messaged(y)
  <2> SUFFICES ASSUME NEW k \in 1 .. n + 1
               PROVE  LET z == y.bus[k] IN
                      /\ z.kind = "buffering" => Has(y, "buffer")
                      /\ z.kind \in {"error", "eos"} => Has(y, "errors")
                      /\ IsSeek(z) => Has(y, "seek")
                      /\ IsState(z, "PAUSED", "READY") =>
                           Has(y, "pause") /\ Has(y, "ready")
                      /\ IsState(z, "PLAYING", "PAUSED") =>
                           Has(y, "pause") \/ ~y.report
    BY <1>3 DEF Messaged
  <2>1. CASE k = n + 1
    BY <1>3, <1>7, <2>1 DEF Put, Has
  <2>2. CASE k \in 1 .. n
    BY <1>3, <2>2 DEF Put, Has, OnBus, Messaged
  <2> QED
    BY <1>3, <2>1, <2>2
<1>9. y.live \/ \E g \in [Places(y) -> BOOLEAN] : Levelled(y, g)
  <2> SUFFICES ASSUME ~y.live
               PROVE  \E g \in [Places(y) -> BOOLEAN] : Levelled(y, g)
    OBVIOUS
  <2>1. PICK g \in [Places(x) -> BOOLEAN] : Levelled(x, g)
    BY DEF OnBus, Put
  <2>2. y.low \in BOOLEAN
    BY DEF Worker
  <2> QED
    BY <2>1, <2>2, LevelPut DEF Put
<1> HIDE DEF n
<1>10. y.prerolling => \A k \in Places(y) : h[k] # "PLAYING"
  BY <1>1, <1>4, <1>6 DEF Path, Put
<1>11. Has(y, "pause") /\ ~Has(y, "buffer") => Direct(y, h)
  <2> SUFFICES ASSUME Has(x, "pause"), ~Has(x, "buffer"),
                      NEW j \in Places(y), NEW k \in Places(y), ~(k < j),
                      ~(j = 0 /\ k # 0 /\ IsSeek(y.bus[1]))
               PROVE  Between(h[j], h[k], x.target)
    BY DEF Direct, Put, Has
  <2>1. Direct(x, f) /\ x.target \in States /\ h[j] \in States /\ h[k] \in States
    BY <1>1, <1>6 DEF Path, Worker
  <2>2. CASE j \in 0 .. n /\ k \in 0 .. n
    <3>1. k # 0 => 1 \in 1 .. n
      BY <1>3, <2>2
    <3> QED
      BY <1>3, <1>4, <1>6, <2>1, <2>2, <3>1 DEF Direct
  <2>3. CASE j \in 0 .. n /\ k = n + 1
    <3>1. ~(n < j) /\ n \in Places(x)
      BY <1>3, <1>4, <2>3
    <3>2. n # 0 => 1 \in 1 .. n
      BY <1>3
    <3>3. Between(f[j], f[n], x.target)
      <4>1. CASE ~(j = 0 /\ n # 0 /\ IsSeek(x.bus[1]))
        BY <1>3, <1>4, <2>1, <2>3, <3>1, <4>1 DEF Direct
      <4>2. CASE j = 0 /\ n # 0 /\ IsSeek(x.bus[1])
        BY <1>3, <2>3, <3>2, <4>2
      <4> QED
        BY <4>1, <4>2
    <3> QED
      BY <1>4, <1>5, <1>6, <2>1, <2>3, <3>1, <3>3
  <2>4. CASE j = n + 1
    <3>1. k = n + 1
      BY <1>3, <1>4, <2>4
    <3>2. \A a, c \in States : Between(a, a, c)
      BY Ranks DEF Between, States
    <3> QED
      BY <2>1, <2>4, <3>1, <3>2
  <2> QED
    BY <1>4, <2>2, <2>3, <2>4
<1>12. Has(y, "pause") =>
        \A k \in 1 .. Len(y.bus) : IsSeek(y.bus[k]) =>
          k = 1 /\ y.owner = "Playing" /\ y.target = "PLAYING" /\ ~y.report
  BY <1>1, <1>3 DEF Path, Put, Has, n
<1>13. Has(y, "buffer") /\ y.owner = "Paused" /\ y.stay =>
         y.target = "PAUSED" /\ \A k \in Places(y) : h[k] = "PAUSED"
  BY <1>1, <1>3, <1>4, <1>5, <1>6 DEF Path, Put, Has
<1>14. Path(y, h)
  BY <1>6, <1>10, <1>11, <1>12, <1>13 DEF Path
<1> QED
  BY <1>6, <1>8, <1>9, <1>14 DEF OnBus

-----------------------------------------------------------------------------
(* The invariant is kept by every step.                                    *)

LEMMA CorePut ==
  ASSUME NEW x, Worker(x), NEW y, Core(x), x.parsed, NEW m, NEW b, Put(x, y, m, b),
         y.low => Has(x, "buffer"), y.parsed = x.parsed, y.watch = x.watch,
         y.failed = x.failed, y.stream = x.stream, y.mode = x.mode,
         y.timer = x.timer, y.inReady = x.inReady, y.pending = x.pending
  PROVE  Core(y)
<1> USE DEF Put, Has
<1>1. Located(y)
  BY DEF Core, Located
<1>2. Allowed(y)
  BY DEF Core, Allowed
<1>3. Starting(y) /\ Waiting(y)
  BY DEF Core, Starting, Waiting, WillTell
<1>4. Playing(y) /\ Pausing(y)
  BY DEF Core, Playing, Pausing, WillTell
<1>5. Timed(y) /\ Falling(y)
  BY DEF Core, Timed, Falling
<1> QED
  BY <1>1, <1>2, <1>3, <1>4, <1>5 DEF Core

LEMMA TowardTable ==
  ASSUME NEW g \in States, NEW t \in States, g # t, t # "NULL"
  PROVE  LET b == Toward(g, t) IN
    /\ b \in States /\ <<g, b>> \in Moves
    /\ \A a \in States : Between(a, g, t) => Between(a, b, t)
    /\ g = "PAUSED" /\ b = "READY" => t = "READY"
    /\ g = "PLAYING" /\ b = "PAUSED" => t \in {"READY", "PAUSED"}
    /\ t = "PAUSED" /\ g # "PLAYING" => b # "PLAYING"
<1>1. /\ GstStates[1] = "NULL" /\ GstStates[2] = "READY"
      /\ GstStates[3] = "PAUSED" /\ GstStates[4] = "PLAYING"
  BY DEF GstStates
<1>2. \/ g = "NULL" /\ Toward(g, t) = "READY"
      \/ g = "READY" /\ Toward(g, t) = "PAUSED"
      \/ g = "PAUSED" /\ t = "READY" /\ Toward(g, t) = "READY"
      \/ g = "PAUSED" /\ t = "PLAYING" /\ Toward(g, t) = "PLAYING"
      \/ g = "PLAYING" /\ Toward(g, t) = "PAUSED"
  BY <1>1, Ranks DEF Toward, States
<1>3. ASSUME NEW a \in States, Between(a, g, t)
      PROVE  Between(a, Toward(g, t), t)
  BY <1>2, <1>3, Ranks DEF Between, States
<1> QED
  BY <1>2, <1>3 DEF Moves, States

LEMMA AdvancesKeeps ==
  ASSUME WorkerTyped, Inv(s), Advances PROVE Inv(s')
<1> DEFINE b == Toward(s.gst, s.target)
           m == Changed(s.gst, b)
           z == [s EXCEPT !.gst = b]
<1>1. Worker(s) /\ Worker(s')
  BY PipelineTyped DEF Pipeline, WorkerTyped
<1>2. s.gst \in States /\ s.target \in States /\ s.gst # s.target
      /\ s' = Post(z, m)
  BY <1>1 DEF Advances, Worker
<1>3. s.parsed /\ s.target # "NULL"
  BY <1>2 DEF Inv, Core, Located, Fresh
<1>4. /\ b \in States /\ <<s.gst, b>> \in Moves
      /\ \A a \in States : Between(a, s.gst, s.target) => Between(a, b, s.target)
      /\ s.gst = "PAUSED" /\ b = "READY" => s.target = "READY"
      /\ s.gst = "PLAYING" /\ b = "PAUSED" => s.target \in {"READY", "PAUSED"}
      /\ s.target = "PAUSED" /\ s.gst # "PLAYING" => b # "PLAYING"
  BY <1>2, <1>3, TowardTable
<1> HIDE DEF b
<1>5. m \in Messages /\ m.kind = "state" /\ m.old = s.gst /\ m.new = b
  BY <1>2, <1>4 DEF Messages, Changed
<1>6. ~IsSeek(m) /\ Follows(m, s.gst, b)
  BY <1>4, <1>5 DEF IsSeek, IsState, Follows, Moves
<1> HIDE DEF m
<1>7. Put(s, s', m, b)
  BY <1>1, <1>2, <1>5 DEF Put, Post, LowAfter, Worker, Fields
<1>8. /\ s'.parsed = s.parsed /\ s'.watch = s.watch /\ s'.failed = s.failed
      /\ s'.stream = s.stream /\ s'.mode = s.mode /\ s'.timer = s.timer
      /\ s'.inReady = s.inReady /\ s'.pending = s.pending
  BY <1>1, <1>2 DEF Post, Worker, Fields
<1>9. Core(s')
  <2>1. s'.low => Has(s, "buffer")
    BY <1>5, <1>7 DEF Put, LowAfter, Inv, Core, Allowed
  <2> QED
    BY <1>1, <1>3, <1>7, <1>8, <2>1, CorePut DEF Inv
<1>10. OnBus(s')
  <2>1. s.prerolling => b # "PLAYING"
    <3>1. PICK f \in [Places(s) -> States] : Path(s, f)
      BY DEF Inv, OnBus
    <3>2. Len(s.bus) \in Places(s) /\ f[Len(s.bus)] = s.gst
      BY <1>1, <3>1 DEF Path, Chain, Places, Worker
    <3> QED
      BY <1>4, <3>1, <3>2 DEF Path, Inv, Core, Starting
  <2>2. IsState(m, "PAUSED", "READY") => Has(s, "pause") /\ Has(s, "ready")
    BY <1>4, <1>5 DEF IsState, Inv, Core, Allowed
  <2>3. IsState(m, "PLAYING", "PAUSED") =>
          Has(s, "pause") \/ ~s.report \/ s.prerolling
    BY <1>4, <1>5 DEF IsState, Inv, Core, Allowed, Falling
  <2> QED
    BY <1>1, <1>2, <1>4, <1>5, <1>6, <1>7, <2>1, <2>2, <2>3, PutOnBus DEF Inv
<1> QED
  BY <1>9, <1>10 DEF Inv

LEMMA OthersKeep ==
  ASSUME WorkerTyped, Inv(s), RunsLow \/ Fills \/ Errs \/ Ends PROVE Inv(s')
<1>1. Worker(s) /\ Worker(s')
  BY PipelineTyped DEF Pipeline, WorkerTyped
<1>2. s.parsed
  BY DEF RunsLow, Fills, Errs, Ends, Inv, Core, Located, Fresh
<1>3. PICK m \in Messages :
        /\ m.kind \in {"buffering", "error", "eos"}
        /\ m.kind = "buffering" => Has(s, "buffer")
        /\ m.kind \in {"error", "eos"} => Has(s, "errors")
        /\ m.kind = "eos" => s.gst = "PLAYING"
        /\ \/ s' = Post([s EXCEPT !.low = LowAfter(m, s.low)], m)
           \/ s' = Post(s, m) /\ m.kind # "buffering"
  <2>1. CASE RunsLow
    <3>1. Buffered(FALSE) \in Messages /\ LowAfter(Buffered(FALSE), s.low) = TRUE
          /\ Buffered(FALSE).kind = "buffering"
      BY DEF Buffered, Messages, LowAfter
    <3> QED
      BY <2>1, <3>1 DEF RunsLow, Has
  <2>2. CASE Fills
    <3>1. Buffered(TRUE) \in Messages /\ LowAfter(Buffered(TRUE), s.low) = FALSE
          /\ Buffered(TRUE).kind = "buffering"
      BY DEF Buffered, Messages, LowAfter
    <3>2. Has(s, "buffer")
      BY <2>2 DEF Fills, Inv, Core, Allowed
    <3> QED
      BY <2>2, <3>1, <3>2 DEF Fills
  <2>3. CASE Errs \/ Ends
    <3>1. \A k \in {"error", "eos"} :
            [kind |-> k] \in Messages /\ [kind |-> k].kind = k
      BY DEF Messages
    <3> QED
      BY <2>3, <3>1 DEF Errs, Ends, Has
  <2> QED
    BY <2>1, <2>2, <2>3
<1>4. Put(s, s', m, s.gst)
  <2>1. CASE s' = Post([s EXCEPT !.low = LowAfter(m, s.low)], m)
    <3> DEFINE lo == LowAfter(m, s.low)
    <3> HIDE DEF lo
    <3>1. s' = Post([s EXCEPT !.low = lo], m)
      BY <2>1 DEF lo
    <3>2. /\ s'.bus = Append(s.bus, m) /\ s'.low = lo
          /\ s'.kinds = s.kinds /\ s'.gst = s.gst /\ s'.live = s.live
          /\ s'.target = s.target /\ s'.owner = s.owner
          /\ s'.report = s.report /\ s'.stay = s.stay
          /\ s'.prerolling = s.prerolling /\ s'.st = s.st
          /\ s'.buffering = s.buffering
      BY <1>1, <3>1 DEF Post, Worker, Fields
    <3> QED
      BY <3>2 DEF lo, Put
  <2>2. CASE s' = Post(s, m) /\ m.kind # "buffering"
    <3>1. LowAfter(m, s.low) = s.low
      BY <2>2 DEF LowAfter
    <3> QED
      BY <1>1, <2>2, <3>1 DEF Put, Post, Worker, Fields
  <2> QED
    BY <1>3, <2>1, <2>2
<1>5. /\ s'.parsed = s.parsed /\ s'.watch = s.watch /\ s'.failed = s.failed
      /\ s'.stream = s.stream /\ s'.mode = s.mode /\ s'.timer = s.timer
      /\ s'.inReady = s.inReady /\ s'.pending = s.pending
  BY <1>1, <1>3 DEF Post, Worker, Fields
<1>6. s'.low => Has(s, "buffer")
  BY <1>3, <1>4 DEF Put, LowAfter, Inv, Core, Allowed
<1>7. Core(s')
  BY <1>1, <1>2, <1>4, <1>5, <1>6, CorePut DEF Inv
<1>8. Follows(m, s.gst, s.gst) /\ ~IsSeek(m) /\ s.gst \in States
      /\ ~IsState(m, "PAUSED", "READY") /\ ~IsState(m, "PLAYING", "PAUSED")
  BY <1>1, <1>3 DEF Follows, IsSeek, IsState, Worker
<1>9. s.prerolling => s.gst # "PLAYING"
  <2>1. PICK f \in [Places(s) -> States] : Path(s, f)
    BY DEF Inv, OnBus
  <2>2. Len(s.bus) \in Places(s) /\ f[Len(s.bus)] = s.gst
    BY <1>1, <2>1 DEF Path, Chain, Places, Worker
  <2> QED
    BY <2>1, <2>2 DEF Path
<1>10. OnBus(s')
  BY <1>1, <1>3, <1>4, <1>8, <1>9, PutOnBus DEF Inv
<1> QED
  BY <1>7, <1>10 DEF Inv

(* An empty bus.                                                           *)
LEMMA EmptyBus ==
  ASSUME NEW x, Worker(x), x.bus = <<>>, x.gst = x.st, x.live \/ x.low = x.buffering,
         x.prerolling => x.st # "PLAYING",
         Has(x, "buffer") /\ x.owner = "Paused" /\ x.stay =>
           x.target = "PAUSED" /\ x.st = "PAUSED"
  PROVE  OnBus(x)
<1> DEFINE f == [k \in {0} |-> x.st]
           g == [k \in {0} |-> x.low]
<1>1. Places(x) = {0} /\ Len(x.bus) = 0 /\ 1 .. Len(x.bus) = {}
  BY DEF Places
<1>2. /\ f \in [Places(x) -> States] /\ g \in [Places(x) -> BOOLEAN]
      /\ f[0] = x.st /\ g[0] = x.low
  BY <1>1 DEF Worker
<1> HIDE DEF f, g
<1>3. Messaged(x) /\ Chain(x, f)
  BY <1>1, <1>2 DEF Messaged, Chain
<1>4. x.live \/ Levelled(x, g)
  BY <1>1, <1>2 DEF Levelled
<1>5. Direct(x, f)
  <2>1. x.target \in States /\ x.st \in States
    BY DEF Worker
  <2>2. Between(x.st, x.st, x.target)
    BY <2>1, Ranks DEF Between, States
  <2> QED
    BY <1>1, <1>2, <2>2 DEF Direct
<1>6. Path(x, f)
  BY <1>1, <1>2, <1>3, <1>5 DEF Path
<1> QED
  BY <1>2, <1>3, <1>4, <1>6 DEF OnBus

LEMMA EmptyMeans ==
  ASSUME NEW x, OnBus(x), x.bus = <<>> PROVE x.gst = x.st /\ NoSeeks(x)
<1>1. Len(x.bus) = 0 /\ 1 .. Len(x.bus) = {}
  OBVIOUS
<1>2. PICK f \in [Places(x) -> States] : Path(x, f)
  BY DEF OnBus
<1> QED
  BY <1>1, <1>2 DEF Path, Chain, NoSeeks

\* a pipeline that is still prerolling has not played
LEMMA NoFallsYet ==
  ASSUME NEW x, Worker(x), OnBus(x), x.prerolling PROVE NoFalls(x)
<1>1. PICK f \in [Places(x) -> States] : Path(x, f)
  BY DEF OnBus
<1>2. ASSUME NEW k \in 1 .. Len(x.bus), IsState(x.bus[k], "PLAYING", "PAUSED")
      PROVE  FALSE
  <2>1. k - 1 \in Places(x)
    BY DEF Places, Worker
  <2>2. f[k - 1] = "PLAYING"
    BY <1>1, <1>2 DEF Path, Chain, Follows, IsSeek, IsState
  <2> QED
    BY <1>1, <2>1, <2>2 DEF Path
<1> QED
  BY <1>2 DEF NoFalls

(* What a handler does after it took a message off the bus, or a command,  *)
(* leaves most of the state alone.                                         *)
Light(x, y) ==
  /\ Worker(y) /\ Still(x, y) /\ y.parsed = x.parsed /\ y.watch = x.watch
  /\ y.failed = x.failed /\ y.stream = x.stream /\ y.mode = x.mode

LEMMA LightTwice ==
  ASSUME NEW x, NEW y, NEW z, Light(x, y), Light(y, z) PROVE Light(x, z)
BY DEF Light, Still

\* the timer after it may have been set
TimerAfter(x, y) ==
  \/ y.timer \in {"off", x.timer}
  \/ y.timer = "on" /\ Has(x, "ready")

AddTimerTo(x, y) ==
  /\ Light(x, y) /\ TimerAfter(x, y)
  /\ y.owner = x.owner /\ y.target = x.target /\ y.stay = x.stay
  /\ y.inReady = x.inReady /\ y.prerolling = x.prerolling
  /\ y.report = x.report /\ y.pending = x.pending
  /\ y.seekable = x.seekable

LEMMA AddTimerLight ==
  ASSUME NEW x, Worker(x)
  PROVE  AddTimerTo(x, AddTimer(x))
<1> SUFFICES ASSUME NEW y, y = AddTimer(x) PROVE AddTimerTo(x, y)
  OBVIOUS
<1> QED
  BY DEF AddTimerTo, AddTimer, Worker, Fields, Light, Still, TimerAfter, Has

RemoveTimerTo(x, y) ==
  /\ Light(x, y) /\ y.timer = "off" /\ y.inReady = FALSE
  /\ y.owner = x.owner /\ y.target = x.target /\ y.stay = x.stay
  /\ y.prerolling = x.prerolling /\ y.report = x.report
  /\ y.pending = x.pending

LEMMA RemoveTimerLight ==
  ASSUME NEW x, Worker(x)
  PROVE  RemoveTimerTo(x, RemoveTimer(x))
<1> SUFFICES ASSUME NEW y, y = RemoveTimer(x) PROVE RemoveTimerTo(x, y)
  OBVIOUS
<1> QED
  BY DEF RemoveTimerTo, RemoveTimer, Worker, Fields, Light, Still

DoPlayTo(x, y) ==
  /\ Light(x, y) /\ y.owner = x.owner /\ y.stay = x.stay
  /\ y.inReady = x.inReady /\ y.prerolling = x.prerolling
  /\ y.pending = x.pending /\ y.report = TRUE
  /\ x.stay => y.target = x.target /\ TimerAfter(x, y)
  /\ ~x.stay => y.timer = x.timer
       /\ y.target = IF x.st = "READY" THEN "PAUSED" ELSE "PLAYING"

LEMMA DoPlayLight ==
  ASSUME NEW x, Worker(x)
  PROVE  DoPlayTo(x, DoPlay(x))
<1> SUFFICES ASSUME NEW y, y = DoPlay(x) PROVE DoPlayTo(x, y)
  OBVIOUS
<1> USE DEF DoPlayTo
<1> DEFINE z == [x EXCEPT !.report = TRUE]
           g == IF x.st = "READY" THEN "PAUSED" ELSE "PLAYING"
<1>1. /\ Light(x, z) /\ z.owner = x.owner /\ z.stay = x.stay
      /\ z.inReady = x.inReady /\ z.prerolling = x.prerolling /\ z.st = x.st
      /\ z.pending = x.pending /\ z.report = TRUE /\ z.target = x.target
      /\ z.timer = x.timer /\ z.kinds = x.kinds /\ Worker(z)
  BY DEF Worker, Fields, Light, Still
<1> HIDE DEF z
<1>2. CASE x.stay
  <2>1. y = AddTimer(z)
    BY <1>1, <1>2 DEF DoPlay, z
  <2> QED
    BY <1>1, <1>2, <2>1, AddTimerLight, LightTwice DEF AddTimerTo, TimerAfter, Has
<1>3. CASE ~x.stay
  <2>1. y = [z EXCEPT !.target = g] /\ g \in States
    BY <1>1, <1>3 DEF DoPlay, SetState, z, States
  <2> HIDE DEF g
  <2>2. /\ Light(z, y) /\ y.owner = z.owner /\ y.stay = z.stay
        /\ y.inReady = z.inReady /\ y.prerolling = z.prerolling
        /\ y.pending = z.pending /\ y.report = z.report /\ y.target = g
        /\ y.timer = z.timer
    BY <1>1, <2>1 DEF Worker, Fields, Light, Still
  <2> QED
    BY <1>1, <1>3, <2>2, LightTwice DEF g
<1> QED
  BY <1>2, <1>3

PrerolledTo(x, y) ==
  /\ Light(x, y) /\ y.owner = x.owner /\ y.stay = x.stay
  /\ y.inReady = x.inReady /\ y.prerolling = FALSE
  /\ y.pending = x.pending /\ y.report = TRUE
  /\ x.stay => y.target = x.target /\ TimerAfter(x, y)
  /\ ~x.stay => y.timer = x.timer
       /\ y.target = IF x.st = "READY" THEN "PAUSED" ELSE "PLAYING"

LEMMA PrerolledLight ==
  ASSUME NEW x, Worker(x), NEW q \in {"yes", "no"}
  PROVE  PrerolledTo(x, Prerolled(x, q))
<1> SUFFICES ASSUME NEW y, y = Prerolled(x, q) PROVE PrerolledTo(x, y)
  OBVIOUS
<1> USE DEF PrerolledTo
<1> DEFINE z == [x EXCEPT !.seekable = q]
           w == DoPlay(z)
<1>1. /\ Light(x, z) /\ z.owner = x.owner /\ z.stay = x.stay
      /\ z.inReady = x.inReady /\ z.st = x.st /\ z.pending = x.pending
      /\ z.target = x.target /\ z.timer = x.timer /\ z.kinds = x.kinds
      /\ Worker(z)
  BY DEF Worker, Fields, Light, Still
<1>2. y = [w EXCEPT !.prerolling = FALSE]
  BY DEF Prerolled, Started
<1> HIDE DEF z
<1>3. /\ Light(z, w) /\ w.owner = z.owner /\ w.stay = z.stay /\ Worker(w)
      /\ w.inReady = z.inReady /\ w.pending = z.pending /\ w.report = TRUE
      /\ z.stay => w.target = z.target /\ TimerAfter(z, w)
      /\ ~z.stay => w.timer = z.timer
           /\ w.target = IF z.st = "READY" THEN "PAUSED" ELSE "PLAYING"
  BY <1>1, DoPlayLight DEF DoPlayTo, Light
<1> HIDE DEF w
<1>4. /\ Light(w, y) /\ y.owner = w.owner /\ y.stay = w.stay
      /\ y.inReady = w.inReady /\ y.prerolling = FALSE
      /\ y.pending = w.pending /\ y.report = w.report /\ y.target = w.target
      /\ y.timer = w.timer
  BY <1>2, <1>3 DEF Worker, Fields, Light, Still
<1> QED
  BY <1>1, <1>3, <1>4, LightTwice DEF TimerAfter, Has

NotifyPauseTo(x, y) ==
  /\ Light(x, y) /\ y.target = x.target /\ y.timer = x.timer
  /\ y.inReady = x.inReady /\ y.prerolling = x.prerolling
  /\ y.pending = x.pending /\ y.report = x.report
  /\ x.owner = "Transitioning" => y.owner = "Paused" /\ y.stay = FALSE
  /\ x.owner = "Playing" => y.owner = "Paused" /\ y.stay = x.stay
  /\ x.owner \notin {"Transitioning", "Playing"} =>
       y.owner = x.owner /\ y.stay = x.stay

LEMMA NotifyPauseLight ==
  ASSUME NEW x, Worker(x)
  PROVE  NotifyPauseTo(x, NotifyPause(x))
<1> SUFFICES ASSUME NEW y, y = NotifyPause(x) PROVE NotifyPauseTo(x, y)
  OBVIOUS
<1> QED
  BY DEF NotifyPauseTo, NotifyPause, Worker, Fields, Light, Still, Owners

PauseProcessingTo(x, y) ==
  /\ Light(x, y) /\ y.target = x.target /\ TimerAfter(x, y)
  /\ y.inReady = x.inReady /\ y.prerolling = x.prerolling
  /\ y.pending = x.pending /\ y.report = x.report
  /\ x.owner = "Transitioning" => y.owner = "Paused" /\ y.stay = FALSE
  /\ x.owner = "Playing" => y.owner = "Paused" /\ y.stay = x.stay
  /\ x.owner \notin {"Transitioning", "Playing"} =>
       y.owner = x.owner /\ y.stay = x.stay

LEMMA PauseProcessingLight ==
  ASSUME NEW x, Worker(x)
  PROVE  PauseProcessingTo(x, PauseProcessing(x))
<1> SUFFICES ASSUME NEW y, y = PauseProcessing(x) PROVE PauseProcessingTo(x, y)
  OBVIOUS
<1> USE DEF PauseProcessingTo
<1> DEFINE z == NotifyPause(x)
<1>1. y = AddTimer(z)
  BY DEF PauseProcessing
<1>2. /\ Light(x, z) /\ z.target = x.target /\ z.timer = x.timer
      /\ z.inReady = x.inReady /\ z.prerolling = x.prerolling
      /\ z.pending = x.pending /\ z.report = x.report
      /\ x.owner = "Transitioning" => z.owner = "Paused" /\ z.stay = FALSE
      /\ x.owner = "Playing" => z.owner = "Paused" /\ z.stay = x.stay
      /\ x.owner \notin {"Transitioning", "Playing"} =>
           z.owner = x.owner /\ z.stay = x.stay
  BY NotifyPauseLight DEF NotifyPauseTo
<1> HIDE DEF z
<1>3. z.kinds = x.kinds /\ Worker(z)
  BY <1>2 DEF Light, Still
<1>4. /\ Light(z, y) /\ TimerAfter(z, y)
      /\ y.owner = z.owner /\ y.target = z.target /\ y.stay = z.stay
      /\ y.inReady = z.inReady /\ y.prerolling = z.prerolling
      /\ y.report = z.report /\ y.pending = z.pending
  BY <1>1, <1>3, AddTimerLight DEF AddTimerTo
<1> QED
  BY <1>2, <1>3, <1>4, LightTwice DEF TimerAfter, Has

ReportPlayingTo(x, y) ==
  /\ Light(x, y) /\ y.target = x.target /\ y.timer = x.timer
  /\ y.inReady = x.inReady /\ y.prerolling = x.prerolling
  /\ y.stay = x.stay /\ y.report = x.report
  /\ y.owner = IF x.report /\ WillTell(x)
                  /\ x.owner \in {"Transitioning", "Paused"}
               THEN "Playing" ELSE x.owner

LEMMA ReportPlayingLight ==
  ASSUME NEW x, Worker(x)
  PROVE  ReportPlayingTo(x, ReportPlaying(x))
<1> SUFFICES ASSUME NEW y, y = ReportPlaying(x) PROVE ReportPlayingTo(x, y)
  OBVIOUS
<1> USE DEF ReportPlayingTo
<1> DEFINE z == NotifyPlay(x)
<1>1. /\ Light(x, z) /\ z.target = x.target /\ z.timer = x.timer
      /\ z.inReady = x.inReady /\ z.prerolling = x.prerolling
      /\ z.stay = x.stay /\ z.report = x.report /\ Worker(z)
      /\ z.owner = IF x.owner \in {"Transitioning", "Paused"}
                   THEN "Playing" ELSE x.owner
  BY DEF NotifyPlay, Worker, Fields, Light, Still, Owners
<1> HIDE DEF z
<1>2. LET w == [z EXCEPT !.pending = FALSE] IN
      /\ Light(z, w) /\ w.target = z.target /\ w.timer = z.timer
      /\ w.inReady = z.inReady /\ w.prerolling = z.prerolling
      /\ w.stay = z.stay /\ w.report = z.report /\ w.owner = z.owner
  BY <1>1 DEF Worker, Fields, Light, Still
<1>3. Light(x, x)
  BY DEF Light, Still
<1>4. CASE ~x.report
  BY <1>3, <1>4 DEF ReportPlaying
<1>5. CASE x.report /\ x.mode = "single"
  BY <1>1, <1>5 DEF ReportPlaying, WillTell, z
<1>6. CASE x.report /\ x.mode # "single" /\ x.pending
  <2>1. y = [z EXCEPT !.pending = FALSE]
    BY <1>6 DEF ReportPlaying, z
  <2> QED
    BY <1>1, <1>2, <1>6, <2>1, LightTwice DEF WillTell
<1>7. CASE x.report /\ x.mode # "single" /\ ~x.pending
  BY <1>3, <1>7 DEF ReportPlaying, WillTell
<1> QED
  BY <1>4, <1>5, <1>6, <1>7

(* A pipeline that is fresh, because it was stopped, or that is started.   *)
LEMMA FreshAfterStop ==
  ASSUME NEW x, Worker(x), x.parsed \/ Fresh(x), NEW y, y = WorkerStop(x)
  PROVE  /\ Fresh(y) /\ ~y.parsed /\ Worker(y)
         /\ y.kinds = x.kinds /\ y.owner = x.owner /\ y.want = x.want
         /\ y.mode = x.mode /\ y.more = x.more /\ y.pending = x.pending
         /\ y.stay = x.stay
<1>1. Worker(y)
  BY StopTyped DEF Typed
<1>2. CASE x.watch /\ ~x.parsed
  BY <1>1, <1>2 DEF WorkerStop
<1>3. CASE ~(x.watch /\ ~x.parsed)
  BY <1>1, <1>3, StopFields
<1> QED
  BY <1>2, <1>3

LEMMA StoppedInv ==
  ASSUME NEW x, Worker(x), Fresh(x), ~x.parsed, x.owner = "Stopped",
         ~Has(x, "items") /\ ~Has(x, "errors") => x.mode = "single",
         x.stay => Has(x, "pause")
  PROVE  Inv(x)
<1> USE DEF Fresh
<1>1. Located(x) /\ Allowed(x)
  BY DEF Located, Allowed
<1>2. Starting(x) /\ Waiting(x) /\ Playing(x) /\ Pausing(x) /\ Timed(x)
      /\ Falling(x)
  BY DEF Starting, Waiting, Playing, Pausing, Timed, Falling
<1>3. x.low = x.buffering
  BY DEF Worker
<1>4. OnBus(x)
  BY <1>3, EmptyBus
<1> QED
  BY <1>1, <1>2, <1>4 DEF Inv, Core

LEMMA StartedInv ==
  ASSUME NEW x, Worker(x), Fresh(x), NoClash(x), x.owner \in {"Transitioning", "Playing"},
         x.owner = "Playing" => Has(x, "errors"),
         x.owner = "Transitioning" => WillTell(x),
         ~Has(x, "items") /\ ~Has(x, "errors") => x.mode = "single",
         x.stay => Has(x, "pause"),
         NEW stream \in BOOLEAN, NEW live \in BOOLEAN,
         live => stream, stream => Has(x, "buffer"),
         NEW y, y = StartPlay(x, stream, live)
  PROVE  Inv(y)
<1>1. Worker(y)
  BY StartQuiet DEF Quiet
<1>2. /\ x.gst = "NULL" /\ x.bus = <<>> /\ ~x.low /\ x.st = "NULL"
      /\ ~x.buffering /\ ~x.failed /\ x.timer = "off" /\ ~x.inReady
  BY DEF Fresh
<1>3. /\ y.parsed /\ y.watch /\ y.target = "PAUSED" /\ y.report
      /\ y.prerolling /\ y.live = live /\ y.stream = stream
      /\ y.kinds = x.kinds /\ y.gst = "NULL" /\ y.bus = <<>> /\ ~y.low
      /\ y.st = "NULL" /\ ~y.buffering /\ ~y.failed /\ y.timer = "off"
      /\ ~y.inReady /\ y.owner = x.owner /\ y.mode = x.mode
      /\ y.stay = x.stay /\ y.pending = x.pending
  BY <1>2 DEF StartPlay, Worker, Fields
<1>4. ~(Has(x, "errors") /\ Has(x, "pause"))
  BY DEF NoClash, Clashes, Has
<1>5. Located(y)
  BY <1>3 DEF Located
<1>6. Allowed(y)
  BY <1>3 DEF Allowed, Has
<1>7. Starting(y) /\ Waiting(y)
  BY <1>3 DEF Starting, Waiting, WillTell, Has
<1>8. Playing(y) /\ Pausing(y)
  BY <1>3, <1>4 DEF Playing, Pausing, Has
<1>9. Timed(y) /\ Falling(y)
  BY <1>3 DEF Timed, Falling
<1>10. y.low = y.buffering
  BY <1>1, <1>3 DEF Worker
<1>11. OnBus(y)
  BY <1>1, <1>3, <1>10, EmptyBus
<1> QED
  BY <1>5, <1>6, <1>7, <1>8, <1>9, <1>11 DEF Inv, Core

LEMMA SendErrorInv ==
  ASSUME NEW x, Worker(x), x.parsed,
         ~Has(x, "items") /\ ~Has(x, "errors") => x.mode = "single",
         x.stay => Has(x, "pause")
  PROVE  Inv(SendError(x))
<1> DEFINE a == [x EXCEPT !.failed = TRUE]
           b == WorkerStop(a)
           c == [b EXCEPT !.owner = "Stopped"]
<1>1. Worker(a) /\ a.parsed /\ a.kinds = x.kinds /\ a.mode = x.mode
      /\ a.stay = x.stay
  BY DEF Worker, Fields
<1> HIDE DEF a
<1>2. Worker(b) /\ Fresh(b) /\ ~b.parsed /\ b.kinds = x.kinds
      /\ b.mode = x.mode /\ b.stay = x.stay
  BY <1>1, FreshAfterStop
<1> HIDE DEF b
<1>3. Worker(c) /\ Fresh(c) /\ ~c.parsed /\ c.owner = "Stopped"
      /\ c.kinds = x.kinds /\ c.mode = x.mode /\ c.stay = x.stay
  BY <1>2 DEF Worker, Fields, Owners, Fresh
<1>4. SendError(x) = c
  BY DEF SendError, a, b
<1> HIDE DEF c
<1> QED
  BY <1>3, <1>4, StoppedInv DEF Has

(* The commands and the timer.                                             *)
LEMMA CoreAfterCommand ==
  ASSUME NEW x, NEW y, Core(x), Light(x, y), x.parsed, y.owner # "Stopped",
         y.target # "NULL", y.stay => x.stay \/ Has(x, "pause"),
         y.owner = "Paused" => x.owner = "Paused" \/ Has(x, "pause"),
         \/ Has(x, "pause") /\ Has(x, "ready")
         \/ (y.timer \in {"off", x.timer}) /\ (y.inReady => x.inReady)
              /\ (y.target = "READY" => x.target = "READY")
  PROVE  Located(y) /\ Allowed(y)
<1> USE DEF Light, Still, Core
<1>1. Located(y)
  BY DEF Located
<1>2. Allowed(y)
  BY DEF Allowed, Has
<1> QED
  BY <1>1, <1>2

LEMMA StopKeeps ==
  ASSUME WorkerTyped, Inv(s), Stop PROVE Inv(s')
<1> DEFINE b == WorkerStop(s)
<1>1. Worker(s) /\ s.parsed
  BY DEF WorkerTyped, Stop, Inv, Core, Located
<1>2. Worker(b) /\ Fresh(b) /\ ~b.parsed /\ b.kinds = s.kinds
      /\ b.mode = s.mode /\ b.stay = s.stay
  BY <1>1, FreshAfterStop
<1> HIDE DEF b
<1>3. s' = [b EXCEPT !.owner = "Stopped",
                     !.stay = IF s.owner = "Paused" THEN FALSE ELSE @]
  BY DEF Stop, b
<1>4. Worker(s') /\ Fresh(s') /\ ~s'.parsed /\ s'.owner = "Stopped"
      /\ s'.kinds = s.kinds /\ s'.mode = s.mode /\ (s'.stay => s.stay)
  BY <1>2, <1>3 DEF Worker, Fields, Owners, Fresh
<1> QED
  BY <1>4, StoppedInv DEF Inv, Core, Allowed, Has

LEMMA PlayKeeps ==
  ASSUME WorkerTyped, Inv(s), NoClash(s), Play PROVE Inv(s')
<1>1. PICK mode \in {"single", "playlist", "redundant", "unparsable"},
           n \in 0 .. MaxMore, stream \in BOOLEAN, live \in BOOLEAN,
           stay \in BOOLEAN :
       /\ mode \in {"single", "unparsable"} => n = 0
       /\ mode \in {"playlist", "redundant"} => "items" \in s.kinds
       /\ mode = "unparsable" => "unparsable" \in s.kinds
       /\ live => stream
       /\ stream => "buffer" \in s.kinds
       /\ stay => "pause" \in s.kinds
       /\ LET x == [WorkerStop(s) EXCEPT
                     !.owner = "Transitioning", !.stay = stay,
                     !.want = IF stay THEN "pause" ELSE "play",
                     !.more = n, !.pending = TRUE]
          IN s' = IF mode = "unparsable" THEN SendError(x)
                  ELSE StartPlay([x EXCEPT !.mode = mode], stream, live)
  BY DEF Play
<1> DEFINE b == WorkerStop(s)
           want == IF stay THEN "pause" ELSE "play"
           x == [b EXCEPT !.owner = "Transitioning", !.stay = stay,
                          !.want = want, !.more = n, !.pending = TRUE]
           y == [x EXCEPT !.mode = mode]
<1>2. mode # "unparsable"
  BY <1>1 DEF NoClash, Clashes
<1>3. Worker(s) /\ (s.parsed \/ Fresh(s))
  BY DEF WorkerTyped, Inv, Core, Located
<1>4. Worker(b) /\ Fresh(b) /\ ~b.parsed /\ b.kinds = s.kinds
  BY <1>3, FreshAfterStop
<1>5. s' = StartPlay(y, stream, live) /\ want \in {"play", "pause"}
  BY <1>1, <1>2
<1> HIDE DEF b, want
<1>6. Worker(y) /\ Fresh(y) /\ y.kinds = s.kinds /\ y.owner = "Transitioning"
      /\ y.stay = stay /\ y.pending = TRUE /\ y.mode = mode
  <2>1. Worker(x) /\ Fresh(x) /\ x.kinds = s.kinds /\ x.owner = "Transitioning"
      /\ x.stay = stay /\ x.pending = TRUE
    BY <1>4, <1>5 DEF Worker, Fields, Owners, Fresh
  <2> HIDE DEF x
  <2> QED
    BY <1>2, <2>1 DEF Worker, Fields, Fresh
<1> HIDE DEF y
<1> QED
  BY <1>1, <1>2, <1>5, <1>6, StartedInv DEF Has, WillTell, NoClash

LEMMA GoToReadyKeeps ==
  ASSUME WorkerTyped, Inv(s), NoClash(s), GoToReady PROVE Inv(s')
<1>1. Worker(s) /\ s.timer = "on" /\ InTime
  BY DEF WorkerTyped, GoToReady
<1>2. /\ s.st = "PAUSED" /\ s.owner = "Paused" /\ s.target # "READY"
      /\ Has(s, "pause") /\ Has(s, "ready") /\ s.parsed
  BY <1>1 DEF Inv, Core, Timed, Allowed, Located
<1>3. ~Has(s, "hasty") /\ ~Has(s, "buffer")
  BY <1>2 DEF NoClash, Clashes, Has
<1>4. s.bus = <<>> /\ NoSeeks(s)
  BY <1>1, <1>3, EmptyMeans DEF InTime, Settled, Has, Inv
<1>5. PICK pos \in {0, 1} :
        s' = SetState([s EXCEPT !.seek = IF @ # -1 THEN @ ELSE pos,
                                !.inReady = TRUE, !.timer = "off"], "READY")
  BY <1>2 DEF GoToReady
<1>6. /\ Light(s, s') /\ s'.timer = "off" /\ s'.inReady = TRUE
      /\ s'.target = "READY" /\ s'.owner = s.owner /\ s'.stay = s.stay
      /\ s'.prerolling = s.prerolling /\ s'.report = s.report
      /\ s'.pending = s.pending
  <2>1. (IF s.seek # -1 THEN s.seek ELSE pos) \in -1 .. 1
    BY <1>1 DEF Worker
  <2> QED
    BY <1>1, <1>5, <2>1 DEF SetState, Light, Still, Worker, Fields, States
<1>7. Located(s') /\ Allowed(s')
  BY <1>2, <1>6, CoreAfterCommand DEF Inv
<1>8. Starting(s') /\ Waiting(s') /\ Playing(s') /\ Pausing(s') /\ Timed(s')
      /\ Falling(s')
  BY <1>2, <1>6 DEF Inv, Core, Starting, Waiting, Playing, Pausing, Timed,
                    Falling, Light, Still, Has
<1>9. OnBus(s')
  BY <1>1, <1>2, <1>3, <1>4, <1>6, Held DEF Light, Inv
<1> QED
  BY <1>7, <1>8, <1>9 DEF Inv, Core

\* a command in time finds nothing on the bus, or no seek on it
LEMMA InTimeMeans ==
  ASSUME WorkerTyped, Inv(s), NoClash(s), InTime
  PROVE  /\ ~Has(s, "hasty") => s.bus = <<>> /\ s.st = s.target
         /\ Has(s, "pause") => NoSeeks(s)
         /\ Has(s, "pause") /\ Has(s, "hasty") =>
              ~Has(s, "buffer") /\ ~Has(s, "ready") /\ ~Has(s, "seek")
<1>1. ~Has(s, "hasty") => s.bus = <<>> /\ s.st = s.target /\ NoSeeks(s)
  BY EmptyMeans DEF InTime, Settled, Has, Inv
<1>2. Has(s, "pause") /\ Has(s, "hasty") =>
        ~Has(s, "buffer") /\ ~Has(s, "ready") /\ ~Has(s, "seek")
  BY DEF NoClash, Clashes, Has
<1>3. ~Has(s, "seek") => NoSeeks(s)
  BY DEF Inv, OnBus, Messaged, NoSeeks
<1> QED
  BY <1>1, <1>2, <1>3

LEMMA PauseKeeps ==
  ASSUME WorkerTyped, Inv(s), NoClash(s), Pause PROVE Inv(s')
<1> DEFINE x == [s EXCEPT !.want = "pause"]
<1>1. Worker(s) /\ Has(s, "pause") /\ InTime /\ Core(s) /\ OnBus(s)
  BY DEF WorkerTyped, Pause, Has, Inv
<1>2. s.parsed
  BY DEF Pause, Inv, Core, Located
<1>3. /\ ~Has(s, "hasty") => s.bus = <<>> /\ s.st = s.target
      /\ NoSeeks(s)
      /\ Has(s, "hasty") =>
           ~Has(s, "buffer") /\ ~Has(s, "ready") /\ ~Has(s, "seek")
  BY <1>1, InTimeMeans
<1>4. /\ Light(s, x) /\ x.owner = s.owner /\ x.target = s.target
      /\ x.stay = s.stay /\ x.inReady = s.inReady
      /\ x.prerolling = s.prerolling /\ x.report = s.report
      /\ x.pending = s.pending /\ x.timer = s.timer
  BY <1>1 DEF Worker, Fields, Light, Still
<1>5. CASE s.owner = "Transitioning" /\ s' = [x EXCEPT !.stay = TRUE]
  <2> HIDE DEF x
  <2>1. /\ Light(x, s') /\ s'.owner = x.owner /\ s'.target = x.target
        /\ s'.stay = TRUE /\ s'.inReady = x.inReady
        /\ s'.prerolling = x.prerolling /\ s'.report = x.report
        /\ s'.pending = x.pending /\ s'.timer = x.timer
    BY <1>4, <1>5 DEF Worker, Fields, Light, Still
  <2>2. /\ Light(s, s') /\ s'.owner = "Transitioning" /\ s'.target = s.target
        /\ s'.inReady = s.inReady /\ s'.prerolling = s.prerolling
        /\ s'.report = s.report /\ s'.pending = s.pending /\ s'.timer = s.timer
    BY <1>4, <1>5, <2>1, LightTwice
  <2>3. Located(s') /\ Allowed(s')
    BY <1>1, <1>2, <1>5, <2>2, CoreAfterCommand DEF Core, Located
  <2>4. Waiting(s')
    BY <1>1, <1>3, <1>5, <2>2 DEF Core, Waiting, WillTell, Light, Still, Has
  <2>5. Starting(s') /\ Playing(s') /\ Pausing(s') /\ Timed(s') /\ Falling(s')
    BY <1>1, <1>5, <2>2 DEF Core, Starting, Playing, Pausing, Timed, Falling,
                            Light, Still, Has
  <2>6. OnBus(s')
    BY <1>1, <1>3, <1>5, <2>2, Held DEF Light
  <2> QED
    BY <2>3, <2>4, <2>5, <2>6 DEF Inv, Core
<1>6. CASE s.owner = "Playing" /\ s' = WorkerPause(x)
  <2>1. ~s.prerolling /\ s.st \in {"PAUSED", "PLAYING"}
        /\ s.target \in {"PAUSED", "PLAYING"}
        /\ s.timer = "off" /\ s.inReady = FALSE
        /\ (Has(s, "hasty") => s.st = "PLAYING")
        /\ (s.target = "PAUSED" /\ ~s.buffering => s.st = "PLAYING")
        /\ (s.buffering => Has(s, "buffer"))
    <3>1. ~Has(s, "errors")
      BY <1>1 DEF NoClash, Clashes, Has
    <3>2. ~s.prerolling
      BY <1>1, <1>6, <3>1 DEF Core, Starting
    <3>3. s.inReady \in BOOLEAN /\ s.st \in States
      BY <1>1 DEF Worker
    <3> QED
      BY <1>1, <1>6, <3>2, <3>3 DEF Core, Playing, Timed, Allowed, States
  <2>2. CASE Silently(x)
    <3> DEFINE y == [x EXCEPT !.stay = TRUE]
    <3>1. s' = NotifyPause(y)
      BY <1>6, <2>2 DEF WorkerPause
    <3>2. s.buffering /\ s.st = "PAUSED" /\ s.bus = <<>> /\ s.target = "PAUSED"
      BY <1>3, <1>4, <2>1, <2>2 DEF Silently, Light, Still
    <3> HIDE DEF x
    <3>3. /\ Light(x, y) /\ y.owner = x.owner /\ y.target = x.target
          /\ y.stay = TRUE /\ y.inReady = x.inReady
          /\ y.prerolling = x.prerolling /\ y.report = x.report
          /\ y.pending = x.pending /\ y.timer = x.timer /\ Worker(y)
      BY <1>4 DEF Worker, Fields, Light, Still
    <3> HIDE DEF y
    <3>4. /\ Light(s, s') /\ s'.owner = "Paused" /\ s'.target = s.target
          /\ s'.inReady = s.inReady /\ s'.prerolling = s.prerolling
          /\ s'.report = s.report /\ s'.pending = s.pending
          /\ s'.timer = s.timer /\ s'.stay = TRUE
      <4>1. y.owner = "Playing" /\ Light(s, y)
        BY <1>4, <1>6, <3>3, LightTwice
      <4>2. NotifyPauseTo(y, s')
        BY <3>1, <3>3, NotifyPauseLight
      <4>3. Light(s, s')
        BY <4>1, <4>2, LightTwice DEF NotifyPauseTo
      <4> QED
        BY <1>4, <3>3, <4>1, <4>2, <4>3 DEF NotifyPauseTo
    <3>5. Located(s') /\ Allowed(s')
      BY <1>1, <1>2, <3>2, <3>4, CoreAfterCommand
    <3>6. Starting(s') /\ Waiting(s') /\ Playing(s') /\ Pausing(s')
          /\ Timed(s') /\ Falling(s')
      BY <1>1, <2>1, <3>2, <3>4 DEF Starting, Waiting, Playing, Pausing, Timed,
                                    Falling, Light, Still, Has
    <3>7. OnBus(s')
      BY <1>1, <1>3, <3>2, <3>4, Held DEF Light
    <3> QED
      BY <3>5, <3>6, <3>7 DEF Inv, Core
  <2>3. CASE ~Silently(x)
    <3> DEFINE y == [x EXCEPT !.report = TRUE]
    <3>1. s' = [y EXCEPT !.target = "PAUSED"]
      BY <1>6, <2>3 DEF WorkerPause, SetState
    <3>2. s.buffering => s.st # "PAUSED"
      BY <1>4, <2>1, <2>3 DEF Silently, Light, Still
    <3>3. s.st = "PLAYING"
      BY <1>3, <2>1, <3>2
    <3> HIDE DEF x
    <3>4. /\ Light(x, y) /\ y.owner = x.owner /\ y.target = x.target
          /\ y.stay = x.stay /\ y.inReady = x.inReady
          /\ y.prerolling = x.prerolling /\ y.report = TRUE
          /\ y.pending = x.pending /\ y.timer = x.timer /\ Worker(y)
      BY <1>4 DEF Worker, Fields, Light, Still
    <3> HIDE DEF y
    <3>5. /\ Light(y, s') /\ s'.owner = y.owner /\ s'.target = "PAUSED"
          /\ s'.stay = y.stay /\ s'.inReady = y.inReady
          /\ s'.prerolling = y.prerolling /\ s'.report = y.report
          /\ s'.pending = y.pending /\ s'.timer = y.timer
      BY <3>1, <3>4 DEF Worker, Fields, Light, Still, States
    <3>6. /\ Light(s, s') /\ s'.owner = "Playing" /\ s'.target = "PAUSED"
          /\ s'.stay = s.stay /\ s'.inReady = s.inReady
          /\ s'.prerolling = s.prerolling /\ s'.report = TRUE
          /\ s'.pending = s.pending /\ s'.timer = s.timer
      BY <1>4, <1>6, <3>4, <3>5, LightTwice
    <3>7. Located(s') /\ Allowed(s')
      BY <1>1, <1>2, <3>6, CoreAfterCommand
    <3>8. Starting(s') /\ Waiting(s') /\ Playing(s') /\ Pausing(s')
          /\ Timed(s') /\ Falling(s')
      BY <1>1, <1>6, <2>1, <3>3, <3>6 DEF Core, Starting, Waiting, Playing,
                                Pausing, Timed, Falling, Light, Still, Has
    <3>9. ~Has(s, "buffer") => s'.target = s.target \/ s.bus = <<>>
      <4> SUFFICES ASSUME ~Has(s, "buffer"), s.target # "PAUSED"
                   PROVE  s.bus = <<>>
        BY <3>6
      <4> QED
        BY <1>1, <1>3, <2>1, <3>3, Arrived
    <3>10. OnBus(s')
      BY <1>1, <1>3, <3>6, <3>9, Held DEF Light
    <3> QED
      BY <3>7, <3>8, <3>10 DEF Inv, Core
  <2> QED
    BY <2>2, <2>3
<1> QED
  BY <1>5, <1>6 DEF Pause

LEMMA ResumeKeeps ==
  ASSUME WorkerTyped, Inv(s), NoClash(s), Resume PROVE Inv(s')
<1> DEFINE x == [s EXCEPT !.stay = FALSE, !.want = "play"]
<1>1. Worker(s) /\ InTime /\ Core(s) /\ OnBus(s)
  BY DEF WorkerTyped, Resume, Inv
<1>2. s.parsed /\ Has(s, "pause")
  BY DEF Resume, Inv, Core, Located, Allowed
<1>3. /\ ~Has(s, "hasty") => s.bus = <<>> /\ s.st = s.target
      /\ NoSeeks(s)
      /\ Has(s, "hasty") =>
           ~Has(s, "buffer") /\ ~Has(s, "ready") /\ ~Has(s, "seek")
  BY <1>1, <1>2, InTimeMeans
<1>4. /\ Light(s, x) /\ x.owner = s.owner /\ x.target = s.target
      /\ x.stay = FALSE /\ x.inReady = s.inReady
      /\ x.prerolling = s.prerolling /\ x.report = s.report
      /\ x.pending = s.pending /\ x.timer = s.timer /\ Worker(x)
  BY <1>1 DEF Worker, Fields, Light, Still
<1> HIDE DEF x
<1>5. CASE s.owner = "Transitioning" /\ s' = x
  <2>1. Located(s') /\ Allowed(s')
    BY <1>1, <1>2, <1>4, <1>5, CoreAfterCommand DEF Core, Located
  <2>2. Starting(s') /\ Waiting(s') /\ Playing(s') /\ Pausing(s') /\ Timed(s')
        /\ Falling(s')
    BY <1>1, <1>4, <1>5 DEF Core, Starting, Waiting, WillTell, Playing, Pausing,
                            Timed, Falling, Light, Still, Has
  <2>3. OnBus(s')
    BY <1>1, <1>3, <1>4, <1>5, Held DEF Light
  <2> QED
    BY <2>1, <2>2, <2>3 DEF Inv, Core
<1>6. CASE s.owner = "Paused" /\ s' = WorkerResume(x)
  <2> DEFINE y == [x EXCEPT !.pending = (@ \/ x.mode # "single")]
  <2>1. /\ Light(x, y) /\ y.owner = x.owner /\ y.target = x.target
        /\ y.stay = x.stay /\ y.inReady = x.inReady
        /\ y.prerolling = x.prerolling /\ y.report = x.report
        /\ y.timer = x.timer /\ Worker(y) /\ WillTell(y)
    <3> DEFINE p == x.pending \/ x.mode # "single"
    <3>1. p \in BOOLEAN /\ y = [x EXCEPT !.pending = p]
      OBVIOUS
    <3>2. x.mode # "single" => p = TRUE
      OBVIOUS
    <3> HIDE DEF p, y
    <3>3. y.pending = p
      BY <1>4, <3>1 DEF Worker, Fields
    <3> QED
      BY <1>4, <3>1, <3>2, <3>3 DEF Worker, Fields, Light, Still, WillTell
  <2>2. s' = IF Silently(y) THEN [y EXCEPT !.report = TRUE] ELSE DoPlay(y)
    BY <1>6 DEF WorkerResume
  <2> HIDE DEF y
  <2>3. /\ Light(s, y) /\ y.owner = "Paused" /\ y.target = s.target
        /\ y.stay = FALSE /\ y.inReady = s.inReady
        /\ y.prerolling = s.prerolling /\ y.report = s.report
        /\ y.timer = s.timer /\ y.st = s.st /\ y.buffering = s.buffering
    BY <1>4, <1>6, <2>1, LightTwice DEF Light, Still
  <2>4. ~s.prerolling /\ s.st \in {"PAUSED", "READY"}
        /\ (s.st = "READY" => s.inReady /\ s.timer = "off")
        /\ (s.inReady => Has(s, "ready"))
        /\ (s.target = "READY" => Has(s, "ready"))
        /\ (s.timer # "off" => Has(s, "ready") /\ s.timer = "on" /\ s.st = "PAUSED")
        /\ (s.buffering => Has(s, "buffer"))
        /\ s.target # "NULL"
    BY <1>1, <1>2, <1>6 DEF Core, Starting, Pausing, Allowed, Timed, Located
  <2>5. CASE Silently(y)
    <3>1. /\ Light(y, s') /\ s'.owner = y.owner /\ s'.target = y.target
          /\ s'.stay = y.stay /\ s'.inReady = y.inReady
          /\ s'.prerolling = y.prerolling /\ s'.report = TRUE
          /\ s'.timer = y.timer /\ s'.pending = y.pending
      BY <2>1, <2>2, <2>5 DEF Worker, Fields, Light, Still
    <3>2. /\ Light(s, s') /\ s'.owner = "Paused" /\ s'.target = s.target
          /\ s'.stay = FALSE /\ s'.inReady = s.inReady
          /\ s'.prerolling = s.prerolling /\ s'.report = TRUE
          /\ s'.timer = s.timer /\ WillTell(s')
      BY <2>1, <2>3, <3>1, LightTwice DEF WillTell, Light
    <3>3. s.st = "PAUSED" /\ s.bus = <<>> /\ s.target = "PAUSED"
      BY <1>3, <2>3, <2>4, <2>5 DEF Silently
    <3>4. Located(s') /\ Allowed(s')
      BY <1>1, <1>2, <3>2, <3>3, CoreAfterCommand
    <3>5. Starting(s') /\ Waiting(s') /\ Playing(s') /\ Pausing(s')
          /\ Timed(s') /\ Falling(s')
      BY <1>1, <1>2, <1>6, <2>4, <3>2, <3>3 DEF Core, Starting, Waiting, Playing,
                                     Pausing, Timed, Falling, Light, Still, Has
    <3>6. OnBus(s')
      BY <1>1, <1>2, <1>3, <3>2, <3>3, Held DEF Light
    <3> QED
      BY <3>4, <3>5, <3>6 DEF Inv, Core
  <2>6. CASE ~Silently(y)
    <3>1. /\ Light(y, s') /\ s'.owner = y.owner /\ s'.stay = y.stay
          /\ s'.inReady = y.inReady /\ s'.prerolling = y.prerolling
          /\ s'.pending = y.pending /\ s'.report = TRUE
          /\ s'.timer = y.timer
          /\ s'.target = IF y.st = "READY" THEN "PAUSED" ELSE "PLAYING"
      <4>1. s' = DoPlay(y) /\ ~y.stay /\ Worker(y)
        BY <2>1, <2>2, <2>3, <2>6
      <4>2. DoPlayTo(y, s')
        BY <4>1, DoPlayLight
      <4> QED
        BY <4>1, <4>2 DEF DoPlayTo
    <3>2. /\ Light(s, s') /\ s'.owner = "Paused" /\ s'.stay = FALSE
          /\ s'.inReady = s.inReady /\ s'.prerolling = s.prerolling
          /\ s'.report = TRUE /\ s'.timer = s.timer /\ WillTell(s')
          /\ s'.target = IF s.st = "READY" THEN "PAUSED" ELSE "PLAYING"
      BY <2>1, <2>3, <3>1, LightTwice DEF WillTell, Light
    <3>3. Located(s') /\ Allowed(s')
      <4>1. s'.target # "NULL" /\ s'.target # "READY"
        BY <3>2
      <4> QED
        BY <1>1, <1>2, <3>2, <4>1, CoreAfterCommand
    <3>4. Starting(s') /\ Waiting(s') /\ Playing(s') /\ Pausing(s')
          /\ Timed(s') /\ Falling(s')
      BY <1>1, <1>2, <1>6, <2>4, <3>2 DEF Core, Starting, Waiting, Playing,
                                     Pausing, Timed, Falling, Light, Still, Has
    <3>5. ~Has(s, "buffer") => s'.target = s.target \/ s.bus = <<>>
      <4> SUFFICES ASSUME ~Has(s, "buffer"), Has(s, "hasty"),
                          s'.target # s.target
                   PROVE  s.bus = <<>>
        BY <1>3
      <4>1. ~Has(s, "ready")
        BY <1>3
      <4>2. s.st = "PAUSED" /\ s'.target = "PLAYING" /\ s.target # "READY"
            /\ s.target \in States
        BY <1>1, <2>4, <3>2, <4>1 DEF Worker
      <4>3. s.target = "PAUSED"
        BY <2>4, <4>2 DEF States
      <4> QED
        BY <1>1, <1>2, <1>3, <4>2, <4>3, Arrived
    <3>6. OnBus(s')
      BY <1>1, <1>2, <1>3, <3>2, <3>5, Held DEF Light
    <3> QED
      BY <3>3, <3>4, <3>6 DEF Inv, Core
  <2> QED
    BY <2>5, <2>6
<1> QED
  BY <1>5, <1>6 DEF Resume, x

\* a flushing seek of a playing pipeline
LEMMA SeekOnBus ==
  ASSUME NEW x, Worker(x), NEW y, Worker(y), OnBus(x), NEW m \in Messages, IsSeek(m),
         x.gst = "PLAYING", y.gst = "PAUSED", y.bus = Append(x.bus, m),
         y.kinds = x.kinds, y.st = x.st, y.low = x.low, y.live = x.live,
         y.buffering = x.buffering, y.prerolling = x.prerolling,
         y.owner = "Playing", y.target = x.target, ~y.report, Has(x, "seek"),
         Has(x, "pause") => x.bus = <<>> /\ x.target = "PLAYING"
  PROVE  OnBus(y)
<1> DEFINE n == Len(x.bus)
<1>1. PICK f \in [Places(x) -> States] : Path(x, f)
  BY DEF OnBus
<1>2. x.bus \in Seq(Messages) /\ "PAUSED" \in States
  BY DEF Worker, States
<1>3. /\ n \in Nat /\ Len(y.bus) = n + 1
      /\ 0 .. n + 1 = (0 .. n) \cup {n + 1}
      /\ \A k \in 1 .. n + 1 : k \in 1 .. n \/ k = n + 1
      /\ \A k \in 1 .. n : y.bus[k] = x.bus[k] /\ k \in 0 .. n
      /\ y.bus[n + 1] = m
  BY <1>2, PutPlaces
<1>4. Places(x) = 0 .. n /\ Places(y) = (0 .. n) \cup {n + 1}
  BY <1>3 DEF Places
<1>5. Follows(m, x.gst, "PAUSED")
  BY DEF Follows, IsSeek, IsState
<1> DEFINE b == "PAUSED"
<1>6. PICK h \in [Places(y) -> States] :
        /\ Chain(y, h) /\ h[n + 1] = "PAUSED"
        /\ \A k \in Places(x) : h[k] = f[k]
  <2>1. Chain(x, f) /\ b \in States /\ y.gst = b /\ Follows(m, x.gst, b)
    BY <1>1, <1>2, <1>5 DEF Path
  <2> HIDE DEF b
  <2>2. \E h \in [Places(y) -> States] :
          /\ Chain(y, h) /\ h[Len(x.bus) + 1] = b
          /\ \A k \in Places(x) : h[k] = f[k]
    BY <1>1, <2>1, ChainPut
  <2> QED
    BY <2>2 DEF b
<1>7. Messaged(y)
  <2> SUFFICES ASSUME NEW k \in 1 .. n + 1
               PROVE  LET z == y.bus[k] IN
                      /\ z.kind = "buffering" => Has(y, "buffer")
                      /\ z.kind \in {"error", "eos"} => Has(y, "errors")
                      /\ IsSeek(z) => Has(y, "seek")
                      /\ IsState(z, "PAUSED", "READY") =>
                           Has(y, "pause") /\ Has(y, "ready")
                      /\ IsState(z, "PLAYING", "PAUSED") =>
                           Has(y, "pause") \/ ~y.report
    BY <1>3 DEF Messaged
  <2>1. CASE k = n + 1
    BY <1>3, <2>1 DEF Has, IsSeek, IsState
  <2>2. CASE k \in 1 .. n
    BY <1>3, <2>2 DEF Has, OnBus, Messaged
  <2> QED
    BY <1>3, <2>1, <2>2
<1>8. y.live \/ \E g \in [Places(y) -> BOOLEAN] : Levelled(y, g)
  <2> SUFFICES ASSUME ~y.live
               PROVE  \E g \in [Places(y) -> BOOLEAN] : Levelled(y, g)
    OBVIOUS
  <2>1. PICK g \in [Places(x) -> BOOLEAN] : Levelled(x, g)
    BY DEF OnBus
  <2>2. y.low \in BOOLEAN /\ y.low = LowAfter(m, x.low)
    BY DEF Worker, LowAfter, IsSeek, IsState
  <2> QED
    BY <2>1, <2>2, LevelPut
<1>9. y.prerolling => \A k \in Places(y) : h[k] # "PLAYING"
  BY <1>1, <1>4, <1>6 DEF Path
<1>10. Has(x, "pause") => n = 0
  OBVIOUS
<1> HIDE DEF n
<1>11. Has(y, "pause") /\ ~Has(y, "buffer") => Direct(y, h)
  <2> SUFFICES ASSUME Has(y, "pause"),
                      NEW j \in Places(y), NEW k \in Places(y), ~(k < j),
                      ~(j = 0 /\ k # 0 /\ IsSeek(y.bus[1]))
               PROVE  Between(h[j], h[k], y.target)
    BY DEF Direct
  <2>1. n = 0 /\ y.bus[1] = m /\ j \in {0, 1} /\ k \in {0, 1}
    BY <1>3, <1>4, <1>10 DEF Has
  <2>2. j = k
    BY <2>1
  <2>3. h[j] \in States /\ y.target \in States
    BY <1>6 DEF Worker
  <2> QED
    BY <2>2, <2>3, Ranks DEF Between, States
<1>12. Has(y, "pause") =>
        \A k \in 1 .. Len(y.bus) : IsSeek(y.bus[k]) =>
          k = 1 /\ y.owner = "Playing" /\ y.target = "PLAYING" /\ ~y.report
  BY <1>3, <1>10 DEF Has
<1>13. Path(y, h)
  BY <1>6, <1>9, <1>11, <1>12 DEF Path
<1> QED
  BY <1>6, <1>7, <1>8, <1>13 DEF OnBus

LEMMA SetPositionKeeps ==
  ASSUME WorkerTyped, Inv(s), NoClash(s), SetPosition PROVE Inv(s')
<1>1. Worker(s) /\ Has(s, "seek") /\ InTime /\ Core(s) /\ OnBus(s)
      /\ s.owner \in {"Playing", "Paused"}
  BY DEF WorkerTyped, SetPosition, Has, Inv
<1>2. s.parsed
  BY <1>1 DEF Core, Located
<1>3. /\ ~Has(s, "hasty") => s.bus = <<>> /\ s.st = s.target
      /\ Has(s, "pause") => NoSeeks(s) /\ ~Has(s, "hasty")
  BY <1>1, InTimeMeans
<1> DEFINE x == IF s.owner = "Paused" THEN [s EXCEPT !.stay = TRUE] ELSE s
           y == IF x.timer # "off" THEN AddTimer(RemoveTimer(x)) ELSE x
<1>4. PICK pos \in {0, 1} : s' = DoSeek(y, pos)
  BY DEF SetPosition
<1>5. s.target # "NULL" /\ s.inReady \in BOOLEAN
  BY <1>1, <1>2 DEF Core, Located, Worker
<1>6. CASE s.owner = "Paused"
  <2>1. Has(s, "pause") /\ s.bus = <<>> /\ s.st = s.target /\ s.gst = s.st
        /\ s.st \in {"PAUSED", "READY"} /\ ~s.prerolling
        /\ (s.st = "READY" => s.inReady /\ s.timer = "off" /\ Has(s, "ready"))
        /\ (s.timer # "off" => Has(s, "ready") /\ s.timer = "on" /\ s.st = "PAUSED")
        /\ (s.inReady => Has(s, "ready"))
    <3>1. Has(s, "pause")
      BY <1>1, <1>6 DEF Core, Allowed
    <3>2. s.bus = <<>> /\ s.st = s.target /\ s.gst = s.st
      BY <1>1, <1>3, <3>1, EmptyMeans
    <3> QED
      BY <1>1, <1>6, <3>1, <3>2 DEF Core, Starting, Pausing, Allowed, Timed
  <2>2. /\ Light(s, x) /\ x.owner = "Paused" /\ x.target = s.target
        /\ x.stay = TRUE /\ x.inReady = s.inReady
        /\ x.prerolling = s.prerolling /\ x.report = s.report
        /\ x.pending = s.pending /\ x.timer = s.timer /\ Worker(x)
    BY <1>1, <1>6 DEF Worker, Fields, Light, Still
  <2> HIDE DEF x
  <2>3. /\ Light(s, y) /\ y.owner = "Paused" /\ y.target = s.target
        /\ y.stay = TRUE /\ y.prerolling = s.prerolling
        /\ y.report = s.report /\ y.pending = s.pending /\ Worker(y)
        /\ \/ y.timer = "off" /\ s.timer = "off" /\ y.inReady = s.inReady
           \/ y.timer \in {"off", "on"} /\ s.timer = "on" /\ y.inReady = FALSE
    <3>1. CASE x.timer = "off"
      <4>1. y = x
        BY <3>1
      <4> HIDE DEF y
      <4> QED
        BY <2>2, <3>1, <4>1
    <3>2. CASE x.timer # "off"
      <4> DEFINE z == RemoveTimer(x)
      <4>1. y = AddTimer(z)
        BY <3>2
      <4>2. RemoveTimerTo(x, z)
        BY <2>2, RemoveTimerLight
      <4> HIDE DEF z, y
      <4>3. AddTimerTo(z, y) /\ Worker(z)
        BY <4>1, <4>2, AddTimerLight DEF RemoveTimerTo, Light
      <4>4. Light(s, z) /\ Light(z, y)
        BY <2>2, <4>2, <4>3, LightTwice DEF RemoveTimerTo, AddTimerTo
      <4>5. Light(s, y) /\ Worker(y)
        BY <4>4, LightTwice DEF Light
      <4> QED
        BY <2>1, <2>2, <3>2, <4>2, <4>3, <4>5
           DEF RemoveTimerTo, AddTimerTo, TimerAfter
    <3> QED
      BY <3>1, <3>2
  <2> HIDE DEF y
  <2>4. y.st = s.st /\ y.gst = s.gst
    BY <2>3 DEF Light, Still
  <2>5. /\ Light(y, s') /\ s'.owner = y.owner /\ s'.stay = y.stay
        /\ s'.prerolling = y.prerolling /\ s'.pending = y.pending
        /\ s'.timer = y.timer /\ s'.inReady = y.inReady
        /\ \/ s'.report = y.report /\ s'.target = y.target
           \/ s'.report = FALSE /\ s'.target = y.target
                /\ ~(y.inReady /\ y.st = "READY")
           \/ s'.report = FALSE /\ s'.target = "PAUSED"
                /\ y.inReady /\ y.st = "READY"
    <3>1. CASE y.eos \/ y.seekable = "no"
      <4>1. s' = y
        BY <1>4, <3>1 DEF DoSeek
      <4> QED
        BY <2>3, <4>1 DEF Light, Still
    <3>2. CASE ~(y.eos \/ y.seekable = "no")
      <4> DEFINE z == [y EXCEPT !.seek = pos, !.report = FALSE]
      <4>1. /\ Light(y, z) /\ z.owner = y.owner /\ z.stay = y.stay
            /\ z.prerolling = y.prerolling /\ z.pending = y.pending
            /\ z.timer = y.timer /\ z.inReady = y.inReady /\ z.report = FALSE
            /\ z.target = y.target /\ Worker(z) /\ z.st = y.st /\ z.gst = y.gst
        <5>1. pos \in -1 .. 1
          OBVIOUS
        <5> QED
          BY <2>3, <5>1 DEF Worker, Fields, Light, Still
      <4>2. s' = IF z.inReady /\ z.st = "READY" THEN SetState(z, "PAUSED")
                 ELSE GstSeek(z)
        BY <1>4, <3>2 DEF DoSeek
      <4> HIDE DEF z
      <4>3. GstSeek(z) = z
        BY <2>1, <2>4, <4>1 DEF GstSeek
      <4>4. CASE z.inReady /\ z.st = "READY"
        <5>1. /\ Light(z, s') /\ s'.owner = z.owner /\ s'.stay = z.stay
              /\ s'.prerolling = z.prerolling /\ s'.pending = z.pending
              /\ s'.timer = z.timer /\ s'.inReady = z.inReady
              /\ s'.report = z.report /\ s'.target = "PAUSED"
          BY <4>1, <4>2, <4>4 DEF SetState, Worker, Fields, Light, Still, States
        <5> QED
          BY <4>1, <4>4, <5>1, LightTwice
      <4>5. CASE ~(z.inReady /\ z.st = "READY")
        <5>1. s' = z
          BY <4>2, <4>3, <4>5
        <5> QED
          BY <4>1, <4>5, <5>1
      <4> QED
        BY <4>4, <4>5
    <3> QED
      BY <3>1, <3>2
  <2>6. /\ Light(s, s') /\ s'.owner = "Paused" /\ s'.stay = TRUE
        /\ s'.prerolling = s.prerolling /\ s'.pending = s.pending
        /\ s'.timer \in {"off", "on"} /\ (s'.timer = "on" => s.timer = "on")
        /\ (s'.inReady => s.inReady)
        /\ (s.st = "READY" => s'.timer = "off" /\ s'.inReady
              /\ s'.target \in {"READY", "PAUSED"})
        /\ (s.st = "PAUSED" => s'.target = "PAUSED")
        /\ (s'.report => s.report)
    BY <2>1, <2>3, <2>4, <2>5, LightTwice
  <2>7. Located(s') /\ Allowed(s')
    BY <1>1, <1>2, <2>1, <2>6, CoreAfterCommand
  <2>8. Starting(s') /\ Waiting(s') /\ Playing(s') /\ Pausing(s') /\ Timed(s')
        /\ Falling(s')
    BY <2>1, <2>6 DEF Starting, Waiting, Playing, Pausing, Timed, Falling,
                      Light, Still, Has
  <2>9. Has(s, "buffer") => s'.target = "PAUSED" /\ s.st = "PAUSED"
    BY <2>1, <2>6 DEF NoClash, Clashes, Has
  <2>10. OnBus(s')
    BY <1>1, <1>3, <2>1, <2>6, <2>9, Held DEF Light
  <2> QED
    BY <2>7, <2>8, <2>10 DEF Inv, Core
<1>7. CASE s.owner = "Playing"
  <2>1. s.timer = "off"
    BY <1>1, <1>7 DEF Core, Timed
  <2>2. y = s
    BY <1>7, <2>1
  <2> HIDE DEF x, y
  <2>3. CASE s.eos \/ s.seekable = "no"
    BY <1>1, <1>4, <2>2, <2>3 DEF DoSeek, Inv
  <2>4. CASE ~(s.eos \/ s.seekable = "no")
    <3> DEFINE z == [s EXCEPT !.seek = pos, !.report = FALSE]
    <3>1. /\ Light(s, z) /\ z.owner = "Playing" /\ z.stay = s.stay
          /\ z.prerolling = s.prerolling /\ z.pending = s.pending
          /\ z.timer = s.timer /\ z.inReady = s.inReady /\ z.report = FALSE
          /\ z.target = s.target /\ Worker(z)
      <4>1. pos \in -1 .. 1
        OBVIOUS
      <4> QED
        BY <1>1, <1>7, <4>1 DEF Worker, Fields, Light, Still
    <3>2. ~s.inReady
      BY <1>1, <1>7 DEF Core, Timed
    <3>3. s' = GstSeek(z)
      BY <1>4, <2>2, <2>4, <3>1, <3>2 DEF DoSeek
    <3> HIDE DEF z
    <3>4. s.prerolling => s.st = "PAUSED" /\ s.target = "PAUSED"
            /\ s.bus = <<>>
      <4>1. s.prerolling => ~Has(s, "hasty")
        BY <1>1, <1>7 DEF Core, Starting, NoClash, Clashes, Has
      <4> QED
        BY <1>1, <1>3, <4>1 DEF Core, Starting
    <3>5. Located(z) /\ Allowed(z)
      BY <1>1, <1>2, <1>5, <1>7, <3>1, CoreAfterCommand DEF Core, Timed
    <3>6. Starting(z)
      BY <1>1, <3>1, <3>4 DEF Core, Starting, Light, Still, Has
    <3>7. Playing(z)
      <4>1. ~(s.target = "PAUSED" /\ ~s.buffering /\ ~s.prerolling)
        BY <1>1, <1>3, <1>7 DEF Core, Playing
      <4> QED
        BY <1>1, <1>7, <3>1, <4>1 DEF Core, Playing, Light, Still, Has
    <3>8. Waiting(z) /\ Pausing(z) /\ Timed(z) /\ Falling(z)
      BY <1>1, <1>7, <3>1 DEF Core, Waiting, Pausing, Timed, Falling, Light,
                              Still, Has
    <3>9. Core(z)
      BY <3>5, <3>6, <3>7, <3>8 DEF Core
    <3>10. CASE s.gst # "PLAYING"
      <4>1. s' = z
        BY <3>1, <3>3, <3>10 DEF GstSeek, Light, Still
      <4>2. OnBus(z)
        BY <1>1, <1>3, <1>7, <3>1, Held DEF Light
      <4> QED
        BY <3>9, <4>1, <4>2 DEF Inv
    <3>11. CASE s.gst = "PLAYING"
      <4> DEFINE m == Changed("PAUSED", "PAUSED")
                 w == [z EXCEPT !.gst = "PAUSED"]
      <4>1. m \in Messages /\ IsSeek(m)
        BY DEF Changed, Messages, States, IsSeek, IsState
      <4>2. s' = Post(w, m)
        BY <3>1, <3>3, <3>11 DEF GstSeek, Light, Still
      <4>3. /\ Worker(w) /\ w.bus = s.bus /\ w.gst = "PAUSED"
            /\ w.parsed = z.parsed /\ w.watch = z.watch
            /\ w.failed = z.failed /\ w.stream = z.stream /\ w.mode = z.mode
            /\ w.kinds = s.kinds /\ w.st = s.st /\ w.low = s.low
            /\ w.live = s.live /\ w.buffering = s.buffering
            /\ w.owner = z.owner /\ w.stay = z.stay /\ w.target = z.target
            /\ w.prerolling = z.prerolling /\ w.pending = z.pending
            /\ w.timer = z.timer /\ w.inReady = z.inReady
            /\ w.report = z.report
        BY <3>1 DEF Worker, Fields, States, Light, Still
      <4> HIDE DEF m, w
      <4>4. Worker(s') /\ s'.bus = Append(s.bus, m)
        BY <4>1, <4>2, <4>3, PostTyped
      <4>5. /\ s'.gst = "PAUSED" /\ s'.parsed = z.parsed /\ s'.watch = z.watch
            /\ s'.failed = z.failed /\ s'.stream = z.stream
            /\ s'.mode = z.mode /\ s'.kinds = s.kinds /\ s'.st = s.st
            /\ s'.low = s.low /\ s'.live = s.live
            /\ s'.buffering = s.buffering /\ s'.owner = z.owner
            /\ s'.stay = z.stay /\ s'.target = z.target
            /\ s'.prerolling = z.prerolling /\ s'.pending = z.pending
            /\ s'.timer = z.timer /\ s'.inReady = z.inReady
            /\ s'.report = z.report
        BY <4>2, <4>3 DEF Post, Worker, Fields
      <4>6. Core(s')
        <5>1. Located(s')
          BY <1>2, <3>5, <3>1, <4>5 DEF Located, Light
        <5>2. Allowed(s')
          BY <3>1, <3>5, <4>5 DEF Allowed, Light, Still, Has
        <5>3. Starting(s') /\ Waiting(s') /\ Playing(s') /\ Pausing(s')
              /\ Timed(s') /\ Falling(s')
          BY <3>1, <3>6, <3>7, <3>8, <4>5 DEF Starting, Waiting, WillTell,
               Playing, Pausing, Timed, Falling, Light, Still, Has
        <5> QED
          BY <5>1, <5>2, <5>3 DEF Core
      <4>7. Has(s, "pause") => s.bus = <<>> /\ s.target = "PLAYING"
        <5>1. s.bus = <<>> => s.gst = s.st
          BY <1>1, EmptyMeans
        <5> QED
          BY <1>3, <3>11, <5>1
      <4>8. OnBus(s')
        BY <1>1, <3>1, <3>11, <4>1, <4>4, <4>5, <4>7, SeekOnBus
      <4> QED
        BY <4>6, <4>8 DEF Inv
    <3> QED
      BY <3>10, <3>11
  <2> QED
    BY <2>3, <2>4
<1> QED
  BY <1>1, <1>6, <1>7

(* The messages.  x is the worker once it took m off the bus and noted the *)
(* state or the level that m tells.                                        *)
Told(m, x) ==
  /\ Worker(x) /\ OnBus(x) /\ m = Head(s.bus) /\ m \in Messages
  /\ x.kinds = s.kinds /\ x.gst = s.gst /\ x.low = s.low /\ x.live = s.live
  /\ x.target = s.target /\ x.owner = s.owner /\ x.report = s.report
  /\ x.stay = s.stay /\ x.prerolling = s.prerolling /\ x.parsed = s.parsed
  /\ x.watch = s.watch /\ x.failed = s.failed /\ x.stream = s.stream
  /\ x.mode = s.mode /\ x.inReady = s.inReady /\ x.timer = s.timer
  /\ x.pending = s.pending
  /\ Has(s, "pause") => NoSeeks(x)
  /\ Follows(m, s.st, x.st)
  /\ x.prerolling => x.st # "PLAYING"
  /\ Has(s, "pause") /\ ~Has(s, "buffer") =>
       IsSeek(m) \/ Between(s.st, x.st, s.target)
  /\ Has(s, "pause") /\ IsSeek(m) =>
       s.owner = "Playing" /\ s.target = "PLAYING" /\ ~s.report
  /\ Has(s, "buffer") /\ s.owner = "Paused" /\ s.stay =>
       s.target = "PAUSED" /\ s.st = "PAUSED" /\ x.st = "PAUSED"
  /\ m.kind = "buffering" => Has(s, "buffer")
  /\ m.kind \in {"error", "eos"} => Has(s, "errors")
  /\ IsSeek(m) => Has(s, "seek")
  /\ IsState(m, "PAUSED", "READY") => Has(s, "pause") /\ Has(s, "ready")
  /\ IsState(m, "PLAYING", "PAUSED") => Has(s, "pause") \/ ~s.report

LEMMA TakenTold ==
  ASSUME WorkerTyped, Inv(s), s.bus # <<>>, NEW x, Worker(x), Took(s, x),
         x.parsed = s.parsed, x.watch = s.watch, x.failed = s.failed,
         x.stream = s.stream, x.mode = s.mode, x.inReady = s.inReady,
         x.timer = s.timer, x.pending = s.pending
  PROVE  Told(Head(s.bus), x)
<1> DEFINE m == Head(s.bus)
<1>1. Worker(s) /\ OnBus(s)
  BY DEF WorkerTyped, Inv
<1>2. m \in Messages
  <2>1. s.bus \in Seq(Messages)
    BY <1>1 DEF Worker
  <2> QED
    BY <2>1
<1>3. /\ OnBus(x)
      /\ Has(s, "pause") => NoSeeks(x)
      /\ Follows(m, s.st, x.st)
      /\ s.prerolling => x.st # "PLAYING"
      /\ Has(s, "pause") /\ ~Has(s, "buffer") =>
           IsSeek(m) \/ Between(s.st, x.st, s.target)
      /\ Has(s, "pause") /\ IsSeek(m) =>
           s.owner = "Playing" /\ s.target = "PLAYING" /\ ~s.report
      /\ Has(s, "buffer") /\ s.owner = "Paused" /\ s.stay =>
           s.target = "PAUSED" /\ s.st = "PAUSED" /\ x.st = "PAUSED"
      /\ m.kind = "buffering" => Has(s, "buffer")
      /\ m.kind \in {"error", "eos"} => Has(s, "errors")
      /\ IsSeek(m) => Has(s, "seek")
      /\ IsState(m, "PAUSED", "READY") => Has(s, "pause") /\ Has(s, "ready")
      /\ IsState(m, "PLAYING", "PAUSED") => Has(s, "pause") \/ ~s.report
  BY <1>1, Taken
<1> HIDE DEF m
<1>4. Told(m, x)
  BY <1>2, <1>3 DEF Told, Took, m
<1> QED
  BY <1>4 DEF m

\* x: the state told of is noted
LEMMA StateNoted ==
  ASSUME WorkerTyped, Inv(s), s.bus # <<>>, NEW m, m = Head(s.bus),
         m.kind = "state", NEW x, x = [Popped(s) EXCEPT !.st = m.new]
  PROVE  Told(m, x) /\ x.st = m.new /\ x.buffering = s.buffering
         /\ Popped(s).st = s.st /\ s.parsed
<1> DEFINE p == Popped(s)
<1>1. Worker(s) /\ s.parsed
  BY DEF WorkerTyped, Inv, Core, Located, Fresh
<1>2. m \in Messages /\ m.new \in States
  <2>1. s.bus \in Seq(Messages) /\ m \in Messages
    BY <1>1 DEF Worker
  <2> QED
    BY <2>1 DEF Messages
<1>3. /\ Worker(p) /\ p.bus = Tail(s.bus) /\ p.kinds = s.kinds
      /\ p.gst = s.gst /\ p.low = s.low /\ p.live = s.live
      /\ p.target = s.target /\ p.owner = s.owner /\ p.report = s.report
      /\ p.stay = s.stay /\ p.prerolling = s.prerolling
      /\ p.parsed = s.parsed /\ p.watch = s.watch /\ p.failed = s.failed
      /\ p.stream = s.stream /\ p.mode = s.mode /\ p.inReady = s.inReady
      /\ p.timer = s.timer /\ p.pending = s.pending /\ p.st = s.st
      /\ p.buffering = s.buffering
  <2>1. Worker(p)
    BY <1>1, PoppedTyped DEF Typed
  <2> QED
    BY <1>1, <2>1 DEF Popped, Worker, Fields
<1> HIDE DEF p
<1>4. x = [p EXCEPT !.st = m.new]
  BY DEF p
<1>5. /\ Worker(x) /\ x.bus = p.bus /\ x.kinds = p.kinds
      /\ x.gst = p.gst /\ x.low = p.low /\ x.live = p.live
      /\ x.target = p.target /\ x.owner = p.owner /\ x.report = p.report
      /\ x.stay = p.stay /\ x.prerolling = p.prerolling
      /\ x.parsed = p.parsed /\ x.watch = p.watch /\ x.failed = p.failed
      /\ x.stream = p.stream /\ x.mode = p.mode /\ x.inReady = p.inReady
      /\ x.timer = p.timer /\ x.pending = p.pending /\ x.st = m.new
      /\ x.buffering = p.buffering
  <2> DEFINE new == m.new
  <2>1. Worker(p) /\ new \in States /\ x = [p EXCEPT !.st = new]
    BY <1>2, <1>3, <1>4
  <2> HIDE DEF new
  <2>2. Worker(x) /\ x.bus = p.bus
    BY <2>1 DEF Worker, Fields
  <2>3. /\ x.kinds = p.kinds /\ x.gst = p.gst /\ x.low = p.low
        /\ x.live = p.live /\ x.target = p.target /\ x.owner = p.owner
        /\ x.report = p.report /\ x.stay = p.stay
        /\ x.prerolling = p.prerolling
    BY <2>1 DEF Worker, Fields
  <2>4. /\ x.parsed = p.parsed /\ x.watch = p.watch /\ x.failed = p.failed
        /\ x.stream = p.stream /\ x.mode = p.mode /\ x.inReady = p.inReady
        /\ x.timer = p.timer /\ x.pending = p.pending /\ x.st = new
        /\ x.buffering = p.buffering
    BY <2>1 DEF Worker, Fields
  <2> QED
    BY <2>2, <2>3, <2>4 DEF new
<1>6. Took(s, x)
  BY <1>3, <1>5 DEF Took, LowAfter
<1>7. Told(m, x)
  BY <1>3, <1>5, <1>6, TakenTold
<1> QED
  BY <1>1, <1>3, <1>5, <1>7 DEF p

LEMMA PoppedFields ==
  ASSUME WorkerTyped, Inv(s), s.bus # <<>>, NEW m, m = Head(s.bus),
         NEW p, p = Popped(s)
  PROVE  /\ Worker(p) /\ p.bus = Tail(s.bus) /\ p.kinds = s.kinds
         /\ p.gst = s.gst /\ p.low = s.low /\ p.live = s.live
         /\ p.target = s.target /\ p.owner = s.owner /\ p.report = s.report
         /\ p.stay = s.stay /\ p.prerolling = s.prerolling
         /\ p.parsed = s.parsed /\ p.watch = s.watch /\ p.failed = s.failed
         /\ p.stream = s.stream /\ p.mode = s.mode /\ p.inReady = s.inReady
         /\ p.timer = s.timer /\ p.pending = s.pending /\ p.st = s.st
         /\ p.buffering = s.buffering /\ p.more = s.more
         /\ m \in Messages /\ s.parsed /\ Worker(s)
<1>1. Worker(s) /\ s.parsed
  BY DEF WorkerTyped, Inv, Core, Located, Fresh
<1>2. m \in Messages
  <2>1. s.bus \in Seq(Messages)
    BY <1>1 DEF Worker
  <2> QED
    BY <2>1
<1>3. Worker(p)
  BY <1>1, PoppedTyped DEF Typed
<1> QED
  BY <1>1, <1>2, <1>3 DEF Popped, Worker, Fields

\* what no handler changes of the core
LEMMA CoreAfterMessage ==
  ASSUME NEW m, NEW x, Told(m, x), Core(s), s.parsed, NEW y, Light(x, y),
         y.owner # "Stopped", y.target # "NULL", y.stay => s.stay,
         y.buffering => Has(s, "buffer") /\ (s.buffering \/ ~s.live),
         y.owner = "Paused" => s.owner = "Paused" \/ Has(s, "pause"),
         \/ Has(s, "pause") /\ Has(s, "ready")
         \/ /\ y.timer \in {"off", s.timer} /\ (y.inReady => s.inReady)
            /\ y.target = "READY" => s.target = "READY"
  PROVE  Located(y) /\ Allowed(y)
<1> USE DEF Light, Still, Core, Told
<1>1. Located(y)
  BY DEF Located
<1>2. Allowed(y)
  BY DEF Allowed, Has
<1> QED
  BY <1>1, <1>2

LEMMA SeekKeeps ==
  ASSUME WorkerTyped, Inv(s), NoClash(s), s.bus # <<>>,
         NEW m, m = Head(s.bus), IsSeek(m), NEW q \in {"yes", "no"}
  PROVE  Inv(StateChanged(Popped(s), m.old, m.new, q))
<1> DEFINE p == Popped(s)
           x == [p EXCEPT !.st = m.new]
<1>1. m.kind = "state" /\ m.old = "PAUSED" /\ m.new = "PAUSED"
  BY DEF IsSeek, IsState
<1>2. Told(m, x) /\ x.st = "PAUSED" /\ x.buffering = s.buffering
      /\ p.st = s.st /\ s.parsed /\ Core(s)
  BY <1>1, StateNoted DEF Inv
<1>3. s.st = "PLAYING"
  BY <1>2 DEF Told, Follows
<1>4. StateChanged(p, m.old, m.new, q) = x
  BY <1>1, <1>2, <1>3 DEF StateChanged
<1> HIDE DEF p, x
<1>5. s.owner = "Playing" /\ ~s.prerolling
  BY <1>2, <1>3 DEF Core, Playing, Starting
<1>6. Light(x, x)
  BY <1>2 DEF Told, Light, Still
<1>7. Located(x) /\ Allowed(x)
  BY <1>2, <1>5, <1>6, CoreAfterMessage DEF Core, Located, Allowed, Told
<1>8. ~(Has(s, "hasty") /\ Has(s, "pause"))
  BY <1>2 DEF NoClash, Clashes, Has, Told
<1>9. ~(s.target = "PAUSED" /\ ~s.buffering)
  BY <1>2, <1>5 DEF Core, Playing, Told, Has
<1>10. Starting(x) /\ Waiting(x) /\ Playing(x) /\ Pausing(x) /\ Timed(x)
       /\ Falling(x)
  BY <1>2, <1>5, <1>8, <1>9 DEF Core, Starting, Waiting, Playing, Pausing, Timed,
                                Falling, Told, Has
<1> QED
  BY <1>2, <1>4, <1>7, <1>10 DEF Inv, Core, Told, p

Noted(m, p, x, a, b) ==
  /\ Told(m, x) /\ x.st = b /\ x.buffering = s.buffering
  /\ p.st = a /\ s.st = a /\ s.parsed /\ Core(s) /\ Worker(x)
  /\ Light(x, x) /\ ~IsSeek(m) /\ s.owner # "Stopped"
  /\ s.target # "NULL" /\ <<a, b>> \in Moves /\ p.inReady = x.inReady

LEMMA MoveNoted ==
  ASSUME WorkerTyped, Inv(s), s.bus # <<>>, NEW m, m = Head(s.bus), NEW a, NEW b,
         IsState(m, a, b), a # b, NEW x, x = [Popped(s) EXCEPT !.st = b]
  PROVE  Noted(m, Popped(s), x, a, b)
<1> USE DEF Noted
<1>1. Told(m, x) /\ x.st = b /\ x.buffering = s.buffering
      /\ Popped(s).st = s.st /\ s.parsed
  BY StateNoted DEF IsState
<1>2. ~IsSeek(m)
  BY DEF IsState, IsSeek
<1>3. s.st = a /\ <<a, b>> \in Moves
  BY <1>1, <1>2 DEF Told, Follows, IsState
<1>4. Core(s) /\ Worker(x) /\ Light(x, x) /\ s.owner # "Stopped"
      /\ s.target # "NULL"
  BY <1>1 DEF Told, Light, Still, Inv, Core, Located
<1>5. Popped(s).inReady = x.inReady
  BY <1>1, PoppedFields DEF Told
<1> QED
  BY <1>1, <1>2, <1>3, <1>4, <1>5

LEMMA ToReadyKeeps ==
  ASSUME WorkerTyped, Inv(s), NoClash(s), s.bus # <<>>,
         NEW m, m = Head(s.bus), IsState(m, "NULL", "READY"),
         NEW q \in {"yes", "no"}
  PROVE  Inv(StateChanged(Popped(s), "NULL", "READY", q))
<1> DEFINE p == Popped(s)
           x == [p EXCEPT !.st = "READY"]
<1>1. /\ Told(m, x) /\ x.st = "READY" /\ x.buffering = s.buffering
      /\ p.st = "NULL" /\ s.st = "NULL" /\ s.parsed /\ Core(s) /\ Worker(x)
      /\ Light(x, x) /\ s.owner # "Stopped" /\ s.target # "NULL"
  <2>1. Noted(m, p, x, "NULL", "READY")
    BY MoveNoted
  <2> QED
    BY <2>1 DEF Noted
<1>2. StateChanged(p, "NULL", "READY", q) = x
  BY <1>1 DEF StateChanged
<1> HIDE DEF p, x
<1>3. s.prerolling /\ s.owner \in {"Transitioning", "Playing"}
      /\ ~(s.owner = "Playing" /\ Has(s, "hasty") /\ Has(s, "pause"))
  BY <1>1 DEF Core, Starting, Waiting, Playing, Pausing, WorkerTyped, Worker,
              Owners
<1>4. Located(x) /\ Allowed(x)
  BY <1>1, <1>3, CoreAfterMessage DEF Core, Allowed, Told
<1>5. Starting(x) /\ Waiting(x) /\ Playing(x) /\ Pausing(x) /\ Timed(x)
      /\ Falling(x)
  BY <1>1, <1>3 DEF Core, Starting, Waiting, WillTell, Playing, Pausing, Timed,
                    Falling, Told, Has
<1> QED
  BY <1>1, <1>2, <1>4, <1>5 DEF Inv, Core, Told, p

LEMMA BackToReadyKeeps ==
  ASSUME WorkerTyped, Inv(s), NoClash(s), s.bus # <<>>,
         NEW m, m = Head(s.bus), IsState(m, "PAUSED", "READY"),
         NEW q \in {"yes", "no"}
  PROVE  Inv(StateChanged(Popped(s), "PAUSED", "READY", q))
<1> DEFINE p == Popped(s)
           x == [p EXCEPT !.st = "READY"]
<1>1. /\ Told(m, x) /\ x.st = "READY" /\ x.buffering = s.buffering
      /\ p.st = "PAUSED" /\ s.st = "PAUSED" /\ s.parsed /\ Core(s) /\ Worker(x)
      /\ Light(x, x) /\ ~IsSeek(m) /\ s.owner # "Stopped" /\ s.target # "NULL"
  <2>1. Noted(m, p, x, "PAUSED", "READY")
    BY MoveNoted
  <2> QED
    BY <2>1 DEF Noted
<1>2. Has(s, "pause") /\ Has(s, "ready")
  BY <1>1 DEF Told
<1>3. ~Has(s, "buffer")
  BY <1>2 DEF NoClash, Clashes, Has
<1>4. ~s.buffering
  BY <1>1, <1>3 DEF Core, Allowed
<1>5. StateChanged(p, "PAUSED", "READY", q) = x
  BY <1>1, <1>4 DEF StateChanged
<1> HIDE DEF p, x
<1>6. s.target = "READY"
  <2>1. Between("PAUSED", "READY", s.target) /\ s.target \in States
    BY <1>1, <1>2, <1>3 DEF Told, WorkerTyped, Worker
  <2> QED
    BY <1>1, <2>1, Ranks DEF Between, States
<1>7. s.owner = "Paused" /\ ~s.prerolling
  BY <1>1, <1>6 DEF Core, Starting, Waiting, Playing, WorkerTyped, Worker,
                    Owners
<1>8. Located(x) /\ Allowed(x)
  BY <1>1, <1>2, <1>7, <1>4, CoreAfterMessage DEF Told
<1>9. Starting(x) /\ Waiting(x) /\ Playing(x) /\ Pausing(x) /\ Timed(x)
      /\ Falling(x)
  BY <1>1, <1>2, <1>6, <1>7 DEF Core, Starting, Waiting, WillTell, Playing,
                         Pausing, Timed, Falling, Told, Has
<1> QED
  BY <1>1, <1>5, <1>8, <1>9 DEF Inv, Core, Told, p

LEMMA WokenUpLight ==
  ASSUME NEW x, Worker(x), x.st = "PAUSED", x.gst = "PAUSED", ~x.stream,
         NEW q \in {"yes", "no"}
  PROVE  LET y == WokenUp(x, q) IN
         /\ Light(x, y) /\ y.owner = x.owner /\ y.stay = x.stay
         /\ y.inReady = x.inReady /\ y.prerolling = x.prerolling
         /\ y.pending = x.pending /\ y.report = TRUE
         /\ x.stay => y.target = x.target /\ TimerAfter(x, y)
         /\ ~x.stay => y.timer = x.timer /\ y.target = "PLAYING"
<1> DEFINE z == [x EXCEPT !.seekable = q]
           d == IF q # "no" THEN DoSeek(z, z.seek) ELSE z
           e == IF x.seek > 0 THEN d ELSE x
           y == WokenUp(x, q)
<1> DEFINE Sits(w) ==
             /\ Light(x, w) /\ w.owner = x.owner /\ w.stay = x.stay
             /\ w.inReady = x.inReady /\ w.prerolling = x.prerolling
             /\ w.pending = x.pending /\ w.timer = x.timer
             /\ w.target = x.target /\ w.st = "PAUSED" /\ w.gst = "PAUSED"
             /\ Worker(w)
<1>1. Sits(z) /\ Sits(x)
  BY DEF Worker, Fields, Light, Still
<1> HIDE DEF z
<1>2. Sits(DoSeek(z, z.seek))
  <2>1. CASE z.eos \/ z.seekable = "no"
    BY <1>1, <2>1 DEF DoSeek
  <2>2. CASE ~(z.eos \/ z.seekable = "no")
    <3> DEFINE pos == z.seek
               w == [z EXCEPT !.seek = pos, !.report = FALSE]
    <3>1. pos \in -1 .. 1
      BY <1>1 DEF Worker
    <3> HIDE DEF pos
    <3>2. /\ Light(z, w) /\ w.owner = z.owner /\ w.stay = z.stay
          /\ w.inReady = z.inReady /\ w.prerolling = z.prerolling
          /\ w.pending = z.pending /\ w.timer = z.timer
          /\ w.target = z.target /\ w.st = z.st /\ w.gst = z.gst /\ Worker(w)
      BY <1>1, <3>1 DEF Worker, Fields, Light, Still
    <3>3. DoSeek(z, z.seek) = IF w.inReady /\ w.st = "READY"
                              THEN SetState(w, "PAUSED") ELSE GstSeek(w)
      BY <2>2 DEF DoSeek, pos
    <3> HIDE DEF w
    <3>4. DoSeek(z, z.seek) = w
      BY <1>1, <3>2, <3>3 DEF GstSeek
    <3> QED
      BY <1>1, <3>2, <3>4, LightTwice
  <2> QED
    BY <2>1, <2>2
<1>3. Sits(e)
  BY <1>1, <1>2
<1> HIDE DEF d
<1>4. y = DoPlay(e)
  <2>1. ~e.stream
    BY <1>3 DEF Light
  <2>2. y = IF ~e.stream \/ e.live THEN DoPlay(e) ELSE e
    BY DEF WokenUp, z, d
  <2> QED
    BY <2>1, <2>2
<1> HIDE DEF e
<1>5. DoPlayTo(e, y) /\ e.kinds = x.kinds
  BY <1>3, <1>4, DoPlayLight DEF Light, Still
<1> HIDE DEF y
<1>6. Light(x, y)
  BY <1>3, <1>5, LightTwice DEF DoPlayTo
<1>7. /\ y.owner = x.owner /\ y.stay = x.stay
      /\ y.inReady = x.inReady /\ y.prerolling = x.prerolling
      /\ y.pending = x.pending /\ y.report = TRUE
  BY <1>3, <1>5 DEF DoPlayTo
<1>8. x.stay => y.target = x.target /\ TimerAfter(x, y)
  BY <1>3, <1>5 DEF DoPlayTo, TimerAfter, Has
<1>9. ~x.stay => y.timer = x.timer /\ y.target = "PLAYING"
  BY <1>3, <1>5 DEF DoPlayTo
<1> QED
  BY <1>6, <1>7, <1>8, <1>9 DEF y

\* the pipeline was woken up, buffers already, or is ready to play
LEMMA ToPausedKeeps ==
  ASSUME WorkerTyped, Inv(s), NoClash(s), s.bus # <<>>,
         NEW m, m = Head(s.bus), IsState(m, "READY", "PAUSED"),
         NEW q \in {"yes", "no"}
  PROVE  Inv(StateChanged(Popped(s), "READY", "PAUSED", q))
<1> DEFINE p == Popped(s)
           x == [p EXCEPT !.st = "PAUSED"]
           y == StateChanged(p, "READY", "PAUSED", q)
<1>1. /\ Told(m, x) /\ x.st = "PAUSED" /\ x.buffering = s.buffering
      /\ p.st = "READY" /\ s.st = "READY" /\ s.parsed /\ Core(s) /\ Worker(x)
      /\ Light(x, x) /\ ~IsSeek(m) /\ s.owner # "Stopped" /\ s.target # "NULL"
      /\ OnBus(x) /\ p.inReady = x.inReady
  <2>1. Noted(m, p, x, "READY", "PAUSED")
    BY MoveNoted
  <2> QED
    BY <2>1 DEF Noted, Told
<1>2. y = IF x.inReady THEN WokenUp(x, q)
          ELSE IF x.buffering THEN x
          ELSE IF x.prerolling /\ x.report
               THEN IF Prerolled(x, q).stay
                    THEN PauseProcessing(Prerolled(x, q)) ELSE Prerolled(x, q)
               ELSE x
  BY <1>1 DEF StateChanged
<1> HIDE DEF p, x, y
<1>3. s.owner \in {"Transitioning", "Playing", "Paused"}
  BY <1>1 DEF WorkerTyped, Worker, Owners
<1>4. ~(s.owner = "Playing" /\ Has(s, "hasty") /\ Has(s, "pause"))
  BY <1>1 DEF Core, Playing
<1>5. CASE s.inReady
  <2>1. s.owner = "Paused" /\ Has(s, "pause") /\ Has(s, "ready")
        /\ s.timer = "off" /\ s.target \in {"READY", "PAUSED"} /\ ~s.prerolling
    BY <1>1, <1>5 DEF Core, Timed, Allowed, Pausing, Starting
  <2>2. ~Has(s, "buffer")
    BY <2>1 DEF NoClash, Clashes, Has
  <2>3. s.target = "PAUSED"
    <3>1. Between("READY", "PAUSED", s.target)
      BY <1>1, <2>1, <2>2 DEF Told
    <3> QED
      BY <2>1, <3>1, Ranks DEF Between, States
  <2>4. x.bus = <<>> /\ x.gst = "PAUSED" /\ NoSeeks(x)
    BY <1>1, <2>1, <2>2, <2>3, Arrived DEF Told, NoClash, Has
  <2>5. ~x.stream /\ x.inReady
    BY <1>1, <1>5, <2>2 DEF Told, Core, Allowed
  <2>6. y = WokenUp(x, q)
    BY <1>2, <2>5
  <2>7. /\ Light(x, y) /\ y.owner = x.owner /\ y.stay = x.stay
        /\ y.inReady = x.inReady /\ y.prerolling = x.prerolling
        /\ y.pending = x.pending /\ y.report = TRUE
        /\ x.stay => y.target = x.target /\ TimerAfter(x, y)
        /\ ~x.stay => y.timer = x.timer /\ y.target = "PLAYING"
    <3>1. LET w == WokenUp(x, q) IN
         /\ Light(x, w) /\ w.owner = x.owner /\ w.stay = x.stay
         /\ w.inReady = x.inReady /\ w.prerolling = x.prerolling
         /\ w.pending = x.pending /\ w.report = TRUE
         /\ x.stay => w.target = x.target /\ TimerAfter(x, w)
         /\ ~x.stay => w.timer = x.timer /\ w.target = "PLAYING"
      BY <1>1, <2>4, <2>5, WokenUpLight
    <3> QED
      BY <2>6, <3>1
  <2>8. y.target \in {"PAUSED", "PLAYING"} /\ y.timer \in {"off", "on"}
        /\ y.owner = "Paused" /\ ~y.prerolling /\ y.stay = s.stay
        /\ y.st = "PAUSED" /\ ~y.buffering /\ y.kinds = s.kinds
        /\ y.mode = s.mode
    BY <1>1, <2>1, <2>2, <2>3, <2>7 DEF Told, Light, Still, TimerAfter, Core,
                                        Allowed
  <2>9. x.stay => y.target = "PAUSED"
    BY <1>1, <2>3, <2>7 DEF Told
  <2>10. Located(y) /\ Allowed(y)
    BY <1>1, <2>1, <2>7, <2>8, CoreAfterMessage
  <2>11. s.stay \/ WillTell(y)
    BY <1>1, <2>1, <2>3, <2>7, <2>8 DEF Core, Pausing, WillTell, Told
  <2>12. y.target = "PLAYING" => WillTell(y)
    BY <1>1, <2>9, <2>11 DEF Told
  <2>13. Starting(y) /\ Waiting(y) /\ Playing(y) /\ Pausing(y) /\ Timed(y)
         /\ Falling(y)
    BY <2>1, <2>7, <2>8, <2>12 DEF Starting, Waiting, Playing,
         Pausing, Timed, Falling, Has
  <2>14. OnBus(y)
    <3>1. Has(x, "pause") /\ ~Has(x, "buffer") /\ Worker(y) /\ Still(x, y)
      BY <1>1, <2>1, <2>2, <2>7 DEF Told, Has, Light
    <3> QED
      BY <1>1, <2>4, <2>7, <3>1, Held
  <2> QED
    BY <2>10, <2>13, <2>14 DEF Inv, Core, y, p
<1>6. CASE ~s.inReady
  <2>1. s.prerolling /\ s.report /\ s.owner \in {"Transitioning", "Playing"}
        /\ s.target = "PAUSED"
    BY <1>1, <1>3, <1>6 DEF Core, Starting, Waiting, Playing, Pausing
  <2>2. s.timer = "off"
    BY <1>1, <2>1 DEF Core, Timed
  <2>3. CASE s.buffering
    <3>1. y = x
      BY <1>1, <1>2, <1>6, <2>3 DEF Told
    <3>2. Located(x) /\ Allowed(x)
      BY <1>1, <2>1, <2>3, CoreAfterMessage DEF Told, Core, Allowed
    <3>3. Starting(x) /\ Waiting(x) /\ Playing(x) /\ Pausing(x) /\ Timed(x)
          /\ Falling(x)
      BY <1>1, <1>4, <2>1, <2>3 DEF Core, Starting, Waiting, WillTell, Playing,
                    Pausing, Timed, Falling, Told, Has
    <3> QED
      BY <1>1, <3>1, <3>2, <3>3 DEF Inv, Core, y, p
  <2>4. CASE ~s.buffering
    <3> DEFINE z == Prerolled(x, q)
    <3>1. y = IF z.stay THEN PauseProcessing(z) ELSE z
      BY <1>1, <1>2, <1>6, <2>1, <2>4 DEF Told
    <3>2. PrerolledTo(x, z)
      BY <1>1, PrerolledLight
    <3> HIDE DEF z
    <3>3. Worker(z) /\ z.st = "PAUSED" /\ z.stay = s.stay
          /\ z.kinds = s.kinds /\ z.owner = s.owner /\ z.inReady = s.inReady
          /\ z.prerolling = FALSE /\ z.report = TRUE /\ z.pending = s.pending
          /\ z.buffering = s.buffering /\ z.mode = s.mode /\ Light(x, z)
      BY <1>1, <3>2 DEF PrerolledTo, Light, Still, Told
    <3>4. CASE s.stay
      <4>1. Has(s, "pause") /\ s.owner = "Transitioning"
        <5>1. Has(s, "pause")
          BY <1>1, <3>4 DEF Core, Allowed
        <5>2. ~Has(s, "errors")
          BY <5>1 DEF NoClash, Clashes, Has
        <5> QED
          BY <1>1, <2>1, <5>1, <5>2 DEF Core, Starting
      <4>2. PauseProcessingTo(z, y)
        BY <3>1, <3>3, <3>4, PauseProcessingLight
      <4>3. Light(x, y)
        BY <3>3, <4>2, LightTwice DEF PauseProcessingTo
      <4>4. /\ y.target = "PAUSED" /\ y.owner = "Paused" /\ y.stay = FALSE
            /\ y.inReady = s.inReady /\ y.prerolling = FALSE
            /\ y.report = TRUE /\ y.kinds = s.kinds /\ y.st = "PAUSED"
            /\ (y.timer = "off" \/ (y.timer = "on" /\ Has(s, "ready")))
            /\ y.buffering = s.buffering /\ y.mode = s.mode
        <5>1. z.target = "PAUSED"
          BY <1>1, <2>1, <3>2, <3>4 DEF PrerolledTo, Told
        <5>2. z.timer = "off" \/ (z.timer = "on" /\ Has(s, "ready"))
          <6>1. x.stay /\ x.timer = "off" /\ x.kinds = s.kinds
            BY <1>1, <2>2, <3>4 DEF Told
          <6>2. TimerAfter(x, z)
            BY <3>2, <6>1 DEF PrerolledTo
          <6> QED
            BY <6>1, <6>2 DEF TimerAfter, Has
        <5>3. /\ y.owner = "Paused" /\ y.stay = FALSE /\ y.target = z.target
              /\ y.inReady = z.inReady /\ y.prerolling = z.prerolling
              /\ y.report = z.report /\ TimerAfter(z, y) /\ Light(z, y)
          BY <3>3, <4>1, <4>2 DEF PauseProcessingTo
        <5>4. y.timer = "off" \/ (y.timer = "on" /\ Has(s, "ready"))
          BY <3>3, <5>2, <5>3 DEF TimerAfter, Has
        <5>5. y.kinds = s.kinds /\ y.st = "PAUSED"
              /\ y.buffering = s.buffering /\ y.mode = s.mode
          BY <3>3, <5>3 DEF Light, Still
        <5> QED
          BY <3>3, <5>1, <5>3, <5>4, <5>5
      <4>5. Located(y) /\ Allowed(y)
        BY <1>1, <1>6, <2>2, <2>4, <4>1, <4>3, <4>4, CoreAfterMessage
      <4>6. Starting(y) /\ Waiting(y) /\ Playing(y) /\ Pausing(y) /\ Timed(y)
            /\ Falling(y)
        BY <1>6, <4>1, <4>4 DEF Starting, Waiting, Playing, Pausing, Timed,
                                Falling, Has
      <4>7. OnBus(y)
        <5>1. Has(x, "pause") /\ Worker(y) /\ Still(x, y) /\ NoSeeks(x)
              /\ y.target = x.target
          BY <1>1, <2>1, <4>1, <4>3, <4>4 DEF Told, Has, Light
        <5> QED
          BY <1>1, <4>4, <5>1, Held
      <4> QED
        BY <4>5, <4>6, <4>7 DEF Inv, Core, y, p
    <3>5. CASE ~s.stay
      <4>1. y = z
        BY <3>1, <3>3, <3>5
      <4>2. y.target = "PLAYING" /\ y.timer = "off"
        BY <1>1, <2>2, <3>2, <3>5, <4>1 DEF PrerolledTo, Told
      <4>3. Located(y) /\ Allowed(y)
        BY <1>1, <1>3, <1>6, <2>1, <2>2, <2>4, <3>3, <4>1, <4>2, CoreAfterMessage
      <4>4. WillTell(y) \/ s.owner # "Transitioning"
        BY <1>1, <3>3, <4>1 DEF Core, Waiting, WillTell
      <4>5. Starting(y) /\ Waiting(y) /\ Playing(y) /\ Pausing(y) /\ Timed(y)
            /\ Falling(y)
        BY <1>4, <1>6, <2>1, <3>3, <3>5, <4>1, <4>2, <4>4 DEF Starting, Waiting,
             Playing, Pausing, Timed, Falling, Has
      <4>6. OnBus(y)
        <5>1. Worker(y) /\ Still(x, y) /\ x.report /\ (Has(x, "pause") => NoSeeks(x))
              /\ y.owner # "Paused" /\ x.st = x.target
          BY <1>1, <2>1, <3>3, <4>1, <4>2 DEF Told, Has, Light
        <5>2. Has(x, "pause") /\ ~Has(x, "buffer") => x.bus = <<>>
          BY <1>1, <5>1, Arrived DEF NoClash, Told
        <5> QED
          BY <1>1, <3>3, <4>1, <5>1, <5>2, Held
      <4> QED
        BY <4>3, <4>5, <4>6 DEF Inv, Core, y, p
    <3> QED
      BY <3>4, <3>5
  <2> QED
    BY <2>3, <2>4
<1> QED
  BY <1>5, <1>6

LEMMA ToPlayingKeeps ==
  ASSUME WorkerTyped, Inv(s), NoClash(s), s.bus # <<>>,
         NEW m, m = Head(s.bus), IsState(m, "PAUSED", "PLAYING"),
         NEW q \in {"yes", "no"}
  PROVE  Inv(StateChanged(Popped(s), "PAUSED", "PLAYING", q))
<1> DEFINE p == Popped(s)
           x == [p EXCEPT !.st = "PLAYING"]
           w == [x EXCEPT !.seek = -1, !.eos = FALSE]
           y == StateChanged(p, "PAUSED", "PLAYING", q)
<1>1. /\ Told(m, x) /\ x.st = "PLAYING" /\ x.buffering = s.buffering
      /\ p.st = "PAUSED" /\ s.st = "PAUSED" /\ s.parsed /\ Core(s) /\ Worker(x)
      /\ Light(x, x) /\ ~IsSeek(m) /\ s.owner # "Stopped" /\ s.target # "NULL"
      /\ OnBus(x)
  <2>1. Noted(m, p, x, "PAUSED", "PLAYING")
    BY MoveNoted
  <2> QED
    BY <2>1 DEF Noted, Told
<1>2. y = IF x.buffering THEN ReportPlaying(x)
          ELSE RemoveTimer(ReportPlaying(w))
  BY <1>1 DEF StateChanged
<1> HIDE DEF p, x, y
<1>3. s.owner \in {"Transitioning", "Playing", "Paused"} /\ s.target \in States
      /\ s.inReady \in BOOLEAN
  BY <1>1 DEF WorkerTyped, Worker, Owners
<1>4. ~s.prerolling /\ s.prerolling \in BOOLEAN
  BY <1>1 DEF Told, WorkerTyped, Worker
<1>5. s.owner = "Transitioning" =>
        /\ s.report /\ WillTell(s) /\ s.target = "PLAYING"
        /\ Has(s, "buffer") => ~s.stay
  BY <1>1, <1>4 DEF Core, Waiting
<1>6. s.owner = "Paused" =>
        /\ s.report /\ WillTell(s) /\ s.target \in {"PAUSED", "PLAYING"}
        /\ Has(s, "pause") /\ (Has(s, "buffer") => ~s.stay)
  <2> SUFFICES ASSUME s.owner = "Paused"
               PROVE  /\ s.report /\ WillTell(s)
                      /\ s.target \in {"PAUSED", "PLAYING"}
                      /\ Has(s, "pause") /\ (Has(s, "buffer") => ~s.stay)
    OBVIOUS
  <2>1. Has(s, "pause") /\ ~Has(s, "errors")
    <3>1. Has(s, "pause")
      BY <1>1 DEF Core, Allowed
    <3> QED
      BY <3>1 DEF NoClash, Clashes, Has
  <2>2. CASE Has(s, "buffer")
    <3>1. ~Has(s, "items") /\ ~Has(s, "ready")
      BY <2>1, <2>2 DEF NoClash, Clashes, Has
    <3>2. s.mode = "single" /\ s.target # "READY"
      BY <1>1, <2>1, <3>1 DEF Core, Allowed
    <3>3. ~s.stay
      BY <1>1, <2>2 DEF Told
    <3> QED
      BY <1>1, <1>3, <2>1, <3>2, <3>3 DEF Core, Pausing, WillTell, States
  <2>3. CASE ~Has(s, "buffer")
    <3>1. Between("PAUSED", "PLAYING", s.target)
      BY <1>1, <2>1, <2>3 DEF Told
    <3>2. s.target = "PLAYING"
      BY <1>3, <3>1, Ranks DEF Between, States
    <3> QED
      BY <1>1, <2>1, <2>3, <3>2 DEF Core, Pausing
  <2> QED
    BY <2>2, <2>3
<1>7. s.owner = "Playing" =>
        /\ s.target \in {"PAUSED", "PLAYING"} /\ (Has(s, "buffer") => ~s.stay)
        /\ ~(s.target = "PAUSED" /\ ~s.buffering)
  BY <1>1, <1>4 DEF Core, Playing
<1>8. /\ Light(x, y) /\ y.target = s.target /\ y.prerolling = FALSE
      /\ y.stay = s.stay /\ y.report = s.report /\ y.owner = "Playing"
      /\ y.timer = "off" /\ y.inReady = FALSE
  <2>1. CASE s.buffering
    <3>1. ReportPlayingTo(x, y)
      BY <1>1, <1>2, <2>1, ReportPlayingLight
    <3>2. y.owner = "Playing"
      BY <1>1, <1>3, <1>5, <1>6, <3>1 DEF ReportPlayingTo, Told, WillTell
    <3>3. Has(s, "buffer")
      BY <1>1, <2>1 DEF Core, Allowed
    <3>4. ~(Has(s, "pause") /\ Has(s, "ready"))
      BY <3>3 DEF NoClash, Clashes, Has
    <3>5. s.timer = "off" /\ s.inReady = FALSE
      BY <1>1, <1>3, <3>4 DEF Core, Allowed
    <3> QED
      BY <1>1, <1>4, <3>1, <3>2, <3>5 DEF ReportPlayingTo, Told
  <2>2. CASE ~s.buffering
    <3> DEFINE z == ReportPlaying(w)
    <3>1. y = RemoveTimer(z)
      BY <1>1, <1>2, <2>2
    <3>2. /\ Light(x, w) /\ w.target = x.target /\ w.timer = x.timer
          /\ w.inReady = x.inReady /\ w.prerolling = x.prerolling
          /\ w.stay = x.stay /\ w.report = x.report /\ w.owner = x.owner
          /\ w.pending = x.pending /\ w.mode = x.mode /\ Worker(w)
      <4>1. -1 \in -1 .. 1
        OBVIOUS
      <4> QED
        BY <1>1, <4>1 DEF Worker, Fields, Light, Still
    <3> HIDE DEF w
    <3>3. ReportPlayingTo(w, z)
      BY <3>2, ReportPlayingLight
    <3> HIDE DEF z
    <3>4. RemoveTimerTo(z, y)
      BY <3>1, <3>3, RemoveTimerLight DEF ReportPlayingTo, Light
    <3>5. z.owner = "Playing"
      BY <1>1, <1>3, <1>5, <1>6, <3>2, <3>3 DEF ReportPlayingTo, Told, WillTell
    <3>6. Light(x, y)
      BY <3>2, <3>3, <3>4, LightTwice DEF ReportPlayingTo, RemoveTimerTo
    <3> QED
      BY <1>1, <1>4, <3>2, <3>3, <3>4, <3>5, <3>6
         DEF ReportPlayingTo, RemoveTimerTo, Told
  <2> QED
    BY <2>1, <2>2
<1>9. y.kinds = s.kinds /\ y.buffering = s.buffering /\ y.st = "PLAYING"
  BY <1>1, <1>8 DEF Light, Still, Told
<1>10. s.target \in {"PAUSED", "PLAYING"} /\ (Has(s, "buffer") => ~s.stay)
       /\ (s.target = "PAUSED" /\ ~s.buffering => Has(s, "pause") /\ s.report)
  BY <1>3, <1>5, <1>6, <1>7
<1>11. Located(y) /\ Allowed(y)
  <2>1. y.buffering => Has(s, "buffer")
    BY <1>1, <1>9 DEF Core, Allowed
  <2> QED
    BY <1>1, <1>3, <1>8, <1>9, <1>10, <2>1, CoreAfterMessage
<1>12. Starting(y) /\ Waiting(y) /\ Playing(y) /\ Pausing(y) /\ Timed(y)
  BY <1>8, <1>9, <1>10 DEF Starting, Waiting, Playing, Pausing, Timed, Has
<1>13. Falling(y)
  BY <1>1, <1>4, <1>8, <1>9 DEF Core, Falling, Has
<1>14. OnBus(y)
  <2>1. Worker(y) /\ Still(x, y) /\ (Has(x, "pause") => NoSeeks(x))
        /\ y.target = x.target /\ y.report = x.report
    BY <1>1, <1>8 DEF Told, Has, Light
  <2> QED
    BY <1>1, <1>8, <2>1, Held
<1> QED
  BY <1>11, <1>12, <1>13, <1>14 DEF Inv, Core, y, p

LEMMA FromPlayingKeeps ==
  ASSUME WorkerTyped, Inv(s), NoClash(s), s.bus # <<>>,
         NEW m, m = Head(s.bus), IsState(m, "PLAYING", "PAUSED"),
         NEW q \in {"yes", "no"}
  PROVE  Inv(StateChanged(Popped(s), "PLAYING", "PAUSED", q))
<1> DEFINE p == Popped(s)
           x == [p EXCEPT !.st = "PAUSED"]
           y == StateChanged(p, "PLAYING", "PAUSED", q)
<1>1. /\ Told(m, x) /\ x.st = "PAUSED" /\ x.buffering = s.buffering
      /\ p.st = "PLAYING" /\ s.st = "PLAYING" /\ s.parsed /\ Core(s)
      /\ Worker(x) /\ Light(x, x) /\ ~IsSeek(m) /\ s.owner # "Stopped"
      /\ s.target # "NULL" /\ OnBus(x)
  <2>1. Noted(m, p, x, "PLAYING", "PAUSED")
    BY MoveNoted
  <2> QED
    BY <2>1 DEF Noted, Told
<1>2. y = IF x.buffering \/ ~x.report THEN x ELSE PauseProcessing(x)
  BY <1>1 DEF StateChanged
<1> HIDE DEF p, x, y
<1>3. s.owner = "Playing" /\ ~s.prerolling /\ s.timer = "off" /\ ~s.inReady
      /\ s.target \in {"PAUSED", "PLAYING"} /\ (Has(s, "buffer") => ~s.stay)
      /\ (s.buffering => Has(s, "buffer"))
  <2>1. s.owner = "Playing"
    BY <1>1 DEF Core, Playing
  <2> QED
    BY <1>1, <2>1 DEF Core, Playing, Starting, Timed, Allowed
<1>4. Has(s, "pause") /\ ~Has(s, "buffer") => s.target = "PAUSED"
  <2> SUFFICES ASSUME Has(s, "pause"), ~Has(s, "buffer")
               PROVE  s.target = "PAUSED"
    OBVIOUS
  <2>1. Between("PLAYING", "PAUSED", s.target)
    BY <1>1 DEF Told
  <2> QED
    BY <1>3, <2>1, Ranks DEF Between, States
<1>5. CASE s.buffering \/ ~s.report
  <2>1. y = x
    BY <1>1, <1>2, <1>5 DEF Told
  <2>2. ~(s.target = "PAUSED" /\ ~s.buffering)
    BY <1>1, <1>3, <1>5 DEF Core, Playing
  <2>3. ~(Has(s, "hasty") /\ Has(s, "pause"))
    <3>1. Has(s, "hasty") /\ Has(s, "pause") => ~Has(s, "buffer")
      BY DEF NoClash, Clashes, Has
    <3> QED
      BY <1>3, <1>4, <2>2, <3>1
  <2>4. Located(x) /\ Allowed(x)
    BY <1>1, <1>3, CoreAfterMessage DEF Told, Core, Allowed
  <2>5. Starting(x) /\ Waiting(x) /\ Playing(x) /\ Pausing(x) /\ Timed(x)
        /\ Falling(x)
    BY <1>1, <1>3, <2>2, <2>3 DEF Core, Starting, Waiting, Playing, Pausing,
                                  Timed, Falling, Told, Has
  <2> QED
    BY <1>1, <2>1, <2>4, <2>5 DEF Inv, Core, y, p
<1>6. CASE ~s.buffering /\ s.report
  <2>1. Has(s, "pause") /\ ~Has(s, "errors")
    <3>1. Has(s, "pause")
      BY <1>1, <1>6 DEF Told
    <3> QED
      BY <3>1 DEF NoClash, Clashes, Has
  <2>2. PauseProcessingTo(x, y)
    BY <1>1, <1>2, <1>6, PauseProcessingLight DEF Told
  <2>3. /\ Light(x, y) /\ y.target = s.target /\ y.inReady = s.inReady
        /\ y.prerolling = s.prerolling /\ y.pending = s.pending
        /\ y.report = s.report /\ y.owner = "Paused" /\ y.stay = s.stay
        /\ y.kinds = s.kinds /\ y.st = "PAUSED" /\ y.buffering = s.buffering
        /\ y.mode = s.mode
    BY <1>1, <1>3, <2>2 DEF PauseProcessingTo, Told, Light, Still
  <2>4. y.timer = "off" \/ (y.timer = "on" /\ Has(s, "ready"))
    <3>1. TimerAfter(x, y) /\ x.timer = "off" /\ x.kinds = s.kinds
      BY <1>1, <1>3, <2>2 DEF PauseProcessingTo, Told
    <3> QED
      BY <3>1 DEF TimerAfter, Has
  <2>5. s.target = "PLAYING" => WillTell(s)
    <3>1. Has(s, "buffer") => s.mode = "single"
      <4>1. Has(s, "buffer") => ~Has(s, "items")
        BY <2>1 DEF NoClash, Clashes, Has
      <4> QED
        BY <1>1, <2>1, <4>1 DEF Core, Allowed
    <3> QED
      BY <1>4, <2>1, <3>1 DEF WillTell
  <2>6. Located(y) /\ Allowed(y)
    BY <1>1, <1>3, <1>6, <2>1, <2>3, <2>4, CoreAfterMessage
  <2>7. Starting(y) /\ Waiting(y) /\ Playing(y) /\ Pausing(y) /\ Timed(y)
        /\ Falling(y)
    BY <1>3, <1>6, <2>1, <2>3, <2>4, <2>5 DEF Starting, Waiting, WillTell,
         Playing, Pausing, Timed, Falling, Has
  <2>8. OnBus(y)
    <3>1. Worker(y) /\ Still(x, y) /\ NoSeeks(x) /\ y.target = x.target
          /\ y.report = x.report
      BY <1>1, <2>1, <2>3 DEF Told, Has, Light
    <3>2. ~(Has(x, "buffer") /\ y.stay)
      BY <1>1, <1>3, <2>3 DEF Told, Has
    <3> QED
      BY <1>1, <1>3, <2>3, <3>1, <3>2, Held DEF Told
  <2> QED
    BY <2>6, <2>7, <2>8 DEF Inv, Core, y, p
<1> QED
  BY <1>5, <1>6

\* x: the level told of is noted
LEMMA LevelNoted ==
  ASSUME WorkerTyped, Inv(s), s.bus # <<>>, NEW m, m = Head(s.bus),
         m.kind = "buffering", ~s.live, NEW low \in BOOLEAN, low = ~m.full,
         NEW x, x = [Popped(s) EXCEPT !.buffering = low]
  PROVE  Told(m, x) /\ x.buffering = low /\ x.st = s.st /\ Light(x, x)
<1> DEFINE p == Popped(s)
<1>1. /\ Worker(p) /\ p.bus = Tail(s.bus) /\ p.kinds = s.kinds
      /\ p.gst = s.gst /\ p.low = s.low /\ p.live = s.live
      /\ p.target = s.target /\ p.owner = s.owner /\ p.report = s.report
      /\ p.stay = s.stay /\ p.prerolling = s.prerolling
      /\ p.parsed = s.parsed /\ p.watch = s.watch /\ p.failed = s.failed
      /\ p.stream = s.stream /\ p.mode = s.mode /\ p.inReady = s.inReady
      /\ p.timer = s.timer /\ p.pending = s.pending /\ p.st = s.st
  BY PoppedFields
<1> HIDE DEF p
<1>2. x = [p EXCEPT !.buffering = low]
  BY DEF p
<1>3. Worker(x) /\ x.bus = p.bus /\ x.buffering = low
  BY <1>1, <1>2 DEF Worker, Fields
<1>4. /\ x.kinds = p.kinds /\ x.gst = p.gst /\ x.low = p.low
      /\ x.live = p.live /\ x.target = p.target /\ x.owner = p.owner
      /\ x.report = p.report /\ x.stay = p.stay
      /\ x.prerolling = p.prerolling /\ x.st = p.st
  BY <1>1, <1>2 DEF Worker, Fields
<1>5. /\ x.parsed = p.parsed /\ x.watch = p.watch /\ x.failed = p.failed
      /\ x.stream = p.stream /\ x.mode = p.mode /\ x.inReady = p.inReady
      /\ x.timer = p.timer /\ x.pending = p.pending
  BY <1>1, <1>2 DEF Worker, Fields
<1>6. Took(s, x)
  BY <1>1, <1>3, <1>4 DEF Took, LowAfter
<1>7. Told(m, x)
  BY <1>1, <1>3, <1>5, <1>6, TakenTold
<1> QED
  BY <1>1, <1>3, <1>4, <1>7 DEF Light, Still

LEMMA LiveKeeps ==
  ASSUME WorkerTyped, Inv(s), NoClash(s), s.bus # <<>>,
         NEW m, m = Head(s.bus), m.kind = "buffering", s.live
  PROVE  Inv(Popped(s))
<1> DEFINE p == Popped(s)
<1>1. /\ Worker(p) /\ p.bus = Tail(s.bus) /\ p.kinds = s.kinds
      /\ p.gst = s.gst /\ p.low = s.low /\ p.live = s.live
      /\ p.target = s.target /\ p.owner = s.owner /\ p.report = s.report
      /\ p.stay = s.stay /\ p.prerolling = s.prerolling
      /\ p.parsed = s.parsed /\ p.watch = s.watch /\ p.failed = s.failed
      /\ p.stream = s.stream /\ p.mode = s.mode /\ p.inReady = s.inReady
      /\ p.timer = s.timer /\ p.pending = s.pending /\ p.st = s.st
      /\ p.buffering = s.buffering /\ s.parsed
  BY PoppedFields
<1> HIDE DEF p
<1>2. Took(s, p)
  BY <1>1 DEF Took
<1>3. Told(m, p) /\ Light(p, p) /\ Core(s)
  BY <1>1, <1>2, TakenTold DEF Light, Still, Inv
<1>4. Located(p) /\ Allowed(p)
  BY <1>1, <1>3 DEF Located, Allowed, Core, Has
<1>5. Starting(p) /\ Waiting(p) /\ Playing(p) /\ Pausing(p) /\ Timed(p)
      /\ Falling(p)
  BY <1>1, <1>3 DEF Core, Starting, Waiting, WillTell, Playing, Pausing, Timed,
                    Falling, Has
<1> QED
  BY <1>3, <1>4, <1>5 DEF Inv, Core, Told, p

LEMMA BufferLowKeeps ==
  ASSUME WorkerTyped, Inv(s), NoClash(s), s.bus # <<>>,
         NEW m, m = Head(s.bus), m.kind = "buffering", ~s.live, ~m.full
  PROVE  Inv(BufferLow(Popped(s)))
<1> DEFINE p == Popped(s)
           x == [p EXCEPT !.buffering = TRUE]
           y == BufferLow(p)
<1>1. Told(m, x) /\ x.buffering = TRUE /\ x.st = s.st /\ Light(x, x)
      /\ Core(s) /\ s.parsed /\ Has(s, "buffer") /\ OnBus(x) /\ Worker(x)
  <2>1. Told(m, x) /\ x.buffering = TRUE /\ x.st = s.st /\ Light(x, x)
    BY LevelNoted
  <2>2. s.parsed /\ Core(s)
    BY PoppedFields DEF Inv
  <2> QED
    BY <2>1, <2>2 DEF Told
<1>2. s.target # "NULL" /\ s.owner # "Stopped"
  BY <1>1 DEF Core, Located
<1>3. y = IF x.st = "PLAYING" THEN SetState([x EXCEPT !.report = FALSE], "PAUSED")
          ELSE x
  BY DEF BufferLow
<1> HIDE DEF p, x, y
<1>4. Located(x) /\ Allowed(x)
  BY <1>1, <1>2, CoreAfterMessage DEF Told, Core, Allowed
<1>5. CASE s.st # "PLAYING"
  <2>1. y = x
    BY <1>1, <1>3, <1>5
  <2>2. Starting(x) /\ Waiting(x) /\ Playing(x) /\ Pausing(x) /\ Timed(x)
        /\ Falling(x)
    BY <1>1 DEF Core, Starting, Waiting, WillTell, Playing, Pausing, Timed,
                Falling, Told, Has
  <2> QED
    BY <1>1, <1>4, <2>1, <2>2 DEF Inv, Core, y, p
<1>6. CASE s.st = "PLAYING"
  <2> DEFINE z == [x EXCEPT !.report = FALSE]
  <2>1. /\ Light(x, z) /\ z.target = x.target /\ z.timer = x.timer
        /\ z.inReady = x.inReady /\ z.prerolling = x.prerolling
        /\ z.stay = x.stay /\ z.report = FALSE /\ z.owner = x.owner
        /\ Worker(z)
    BY <1>1 DEF Worker, Fields, Light, Still
  <2>2. y = [z EXCEPT !.target = "PAUSED"]
    BY <1>1, <1>3, <1>6 DEF SetState
  <2> HIDE DEF z
  <2>3. /\ Light(z, y) /\ y.target = "PAUSED" /\ y.timer = z.timer
        /\ y.inReady = z.inReady /\ y.prerolling = z.prerolling
        /\ y.stay = z.stay /\ y.report = z.report /\ y.owner = z.owner
    BY <2>1, <2>2 DEF Worker, Fields, Light, Still, States
  <2>4. s.owner = "Playing" /\ ~s.prerolling /\ s.timer = "off" /\ ~s.inReady
        /\ ~s.stay
    <3>1. s.owner = "Playing"
      BY <1>1, <1>6 DEF Core, Playing
    <3> QED
      BY <1>1, <1>6, <3>1 DEF Core, Playing, Starting, Timed
  <2>5. /\ Light(x, y) /\ y.target = "PAUSED" /\ y.timer = "off"
        /\ ~y.inReady /\ ~y.prerolling /\ y.stay = s.stay /\ ~y.report
        /\ y.owner = "Playing" /\ y.kinds = s.kinds /\ y.st = "PLAYING"
        /\ y.buffering = TRUE
    <3>1. Light(x, y)
      BY <2>1, <2>3, LightTwice
    <3> QED
      BY <1>1, <1>6, <2>1, <2>3, <2>4, <3>1 DEF Told, Light, Still
  <2>6. Located(y) /\ Allowed(y)
    BY <1>1, <2>4, <2>5, CoreAfterMessage DEF Told
  <2>7. Starting(y) /\ Waiting(y) /\ Playing(y) /\ Pausing(y) /\ Timed(y)
        /\ Falling(y)
    BY <1>1, <2>4, <2>5 DEF Starting, Waiting, Playing, Pausing, Timed, Falling,
                            Has
  <2>8. OnBus(y)
    <3>1. Worker(y) /\ Still(x, y) /\ (Has(x, "pause") => NoSeeks(x))
          /\ Has(x, "buffer")
      BY <1>1, <2>5 DEF Told, Has, Light
    <3> QED
      BY <1>1, <2>5, <3>1, Held
  <2> QED
    BY <2>6, <2>7, <2>8 DEF Inv, Core, y, p
<1> QED
  BY <1>5, <1>6

\* the pipeline is asked to play on: y differs in its target at most
LEMMA PlaysOnInv ==
  ASSUME WorkerTyped, NoClash(s), NEW m, NEW x, NEW y, Told(m, x), Core(s),
         s.parsed, Has(s, "buffer"), Light(x, y), s.st = x.st, ~x.buffering,
         y.target = "PLAYING", y.owner = s.owner, y.stay = s.stay,
         y.report = s.report, y.prerolling = FALSE, y.inReady = s.inReady,
         y.timer = s.timer, y.pending = s.pending, s.owner # "Stopped",
         ~s.prerolling, x.st \in {"PAUSED", "PLAYING"}, ~s.stay
  PROVE  Inv(y)
<1>1. y.kinds = s.kinds /\ y.st = x.st /\ ~y.buffering /\ y.mode = s.mode
  BY DEF Light, Still, Told
<1>2. Located(y) /\ Allowed(y)
  BY <1>1, CoreAfterMessage
<1>3. s.owner = "Paused" => s.report /\ WillTell(y) /\ x.st = "PAUSED"
  <2> SUFFICES ASSUME s.owner = "Paused"
               PROVE  s.report /\ WillTell(y) /\ x.st = "PAUSED"
    OBVIOUS
  <2>1. Has(s, "pause")
    BY DEF Core, Allowed
  <2>2. ~Has(s, "items") /\ ~Has(s, "errors") /\ ~Has(s, "ready")
    BY <2>1 DEF NoClash, Clashes, Has
  <2>3. s.mode = "single"
    BY <2>2 DEF Core, Allowed
  <2> QED
    BY <1>1, <2>3 DEF Core, Pausing, WillTell
<1>4. Starting(y) /\ Waiting(y) /\ Playing(y)
  BY <1>1 DEF Core, Starting, Waiting, WillTell, Playing, Has
<1>5. Pausing(y) /\ Timed(y) /\ Falling(y)
  BY <1>1, <1>3 DEF Core, Pausing, Timed, Falling, Has
<1>6. OnBus(y)
  <2>1. Worker(y) /\ Still(x, y) /\ (Has(x, "pause") => NoSeeks(x))
        /\ Has(x, "buffer") /\ y.report = x.report /\ OnBus(x) /\ Worker(x)
    BY DEF Told, Has, Light
  <2> QED
    BY <2>1, Held
<1> QED
  BY <1>2, <1>4, <1>5, <1>6 DEF Inv, Core

LEMMA BufferFullKeeps ==
  ASSUME WorkerTyped, Inv(s), NoClash(s), s.bus # <<>>,
         NEW m, m = Head(s.bus), m.kind = "buffering", ~s.live, m.full,
         NEW q \in {"yes", "no"}
  PROVE  Inv(BufferFull(Popped(s), q))
<1> DEFINE p == Popped(s)
           x == [p EXCEPT !.buffering = FALSE]
           y == BufferFull(p, q)
<1>1. Told(m, x) /\ x.buffering = FALSE /\ x.st = s.st /\ Light(x, x)
      /\ Core(s) /\ s.parsed /\ Has(s, "buffer") /\ OnBus(x) /\ Worker(x)
  <2>1. Told(m, x) /\ x.buffering = FALSE /\ x.st = s.st /\ Light(x, x)
    BY LevelNoted
  <2>2. s.parsed /\ Core(s)
    BY PoppedFields DEF Inv
  <2> QED
    BY <2>1, <2>2 DEF Told
<1>2. s.target # "NULL" /\ s.owner # "Stopped"
      /\ s.owner \in {"Transitioning", "Playing", "Paused"}
      /\ x.st \in States
  BY <1>1 DEF Core, Located, WorkerTyped, Worker, Owners
<1>3. y = CASE x.st = "PAUSED" /\ x.prerolling ->
                 LET z == Prerolled(x, q) IN IF z.stay THEN NotifyPause(z) ELSE z
            [] x.st = "PAUSED" /\ ~x.prerolling /\ x.inReady -> DoPlay(x)
            [] x.st = "PAUSED" /\ ~x.prerolling /\ ~x.inReady ->
                 IF x.stay THEN x ELSE SetState(x, "PLAYING")
            [] x.st = "PLAYING" ->
                 LET z == SetState(x, "PLAYING") IN
                 IF z.report THEN NotifyPlay(z) ELSE z
            [] OTHER -> x
  BY DEF BufferFull
<1>4. ~s.inReady /\ s.timer = "off"
  <2>1. ~(Has(s, "pause") /\ Has(s, "ready"))
    BY <1>1 DEF NoClash, Clashes, Has
  <2> QED
    BY <1>1, <2>1 DEF Core, Allowed
<1> HIDE DEF p, x, y
<1>5. Located(x) /\ Allowed(x)
  BY <1>1, <1>2, CoreAfterMessage DEF Told, Core, Allowed
<1>6. CASE y = x /\ (s.st \notin {"PAUSED", "PLAYING"} \/ (s.stay /\ ~s.prerolling))
             /\ (s.st # "PAUSED" \/ ~s.prerolling)
  <2>1. s.stay /\ ~s.prerolling => s.owner = "Paused"
    BY <1>1, <1>2 DEF Core, Waiting, Playing
  <2>2. s.owner = "Playing" => s.prerolling
    BY <1>1, <1>2, <1>6, <2>1 DEF Core, Playing, States
  <2>3. Starting(x) /\ Waiting(x) /\ Playing(x) /\ Pausing(x) /\ Timed(x)
        /\ Falling(x)
    BY <1>1, <1>6, <2>2 DEF Core, Starting, Waiting, WillTell, Playing, Pausing,
                Timed, Falling, Told, Has
  <2> QED
    BY <1>1, <1>5, <1>6, <2>3 DEF Inv, Core, y, p
<1>7. CASE s.st = "PAUSED" /\ s.prerolling
  <2> DEFINE z == Prerolled(x, q)
  <2>1. y = IF z.stay THEN NotifyPause(z) ELSE z
    BY <1>1, <1>3, <1>7 DEF Told
  <2>2. PrerolledTo(x, z)
    BY <1>1, PrerolledLight
  <2> HIDE DEF z
  <2>3. Worker(z) /\ z.st = "PAUSED" /\ z.stay = s.stay
        /\ z.kinds = s.kinds /\ z.owner = s.owner /\ z.inReady = s.inReady
        /\ z.prerolling = FALSE /\ z.report = TRUE /\ z.pending = s.pending
        /\ z.buffering = FALSE /\ z.mode = s.mode /\ Light(x, z)
    BY <1>1, <1>7, <2>2 DEF PrerolledTo, Light, Still, Told
  <2>4. s.owner \in {"Transitioning", "Playing"} /\ s.target = "PAUSED"
    BY <1>1, <1>7 DEF Core, Starting
  <2>5. NoFalls(x)
    BY <1>1, <1>7, NoFallsYet DEF Told
  <2>6. CASE s.stay
    <3>1. Has(s, "pause") /\ s.owner = "Transitioning"
      <4>1. Has(s, "pause")
        BY <1>1, <2>6 DEF Core, Allowed
      <4>2. ~Has(s, "errors")
        BY <4>1 DEF NoClash, Clashes, Has
      <4> QED
        BY <1>1, <1>7, <2>4, <4>1, <4>2 DEF Core, Starting
    <3>2. ~Has(s, "ready")
      BY <1>1, <3>1 DEF NoClash, Clashes, Has
    <3>3. NotifyPauseTo(z, y)
      BY <2>1, <2>3, <2>6, NotifyPauseLight
    <3>4. Light(x, y)
      BY <2>3, <3>3, LightTwice DEF NotifyPauseTo
    <3>5. z.target = "PAUSED" /\ z.timer = "off"
      <4>1. x.stay /\ x.timer = "off" /\ x.kinds = s.kinds /\ x.target = "PAUSED"
        BY <1>1, <1>4, <2>4, <2>6 DEF Told
      <4>2. TimerAfter(x, z) /\ z.target = x.target
        BY <2>2, <4>1 DEF PrerolledTo
      <4> QED
        BY <3>2, <4>1, <4>2 DEF TimerAfter, Has
    <3>6. /\ y.target = "PAUSED" /\ y.owner = "Paused" /\ y.stay = FALSE
          /\ y.inReady = s.inReady /\ y.prerolling = FALSE
          /\ y.report = TRUE /\ y.timer = "off"
      BY <2>3, <3>1, <3>3, <3>5 DEF NotifyPauseTo
    <3>7. y.kinds = s.kinds /\ y.st = "PAUSED" /\ ~y.buffering
          /\ y.mode = s.mode
      BY <1>1, <1>7, <3>4 DEF Told, Light, Still
    <3>8. Located(y) /\ Allowed(y)
      BY <1>1, <1>4, <3>1, <3>4, <3>6, <3>7, CoreAfterMessage
    <3>9. Starting(y) /\ Waiting(y) /\ Playing(y) /\ Pausing(y) /\ Timed(y)
          /\ Falling(y)
      BY <1>4, <3>1, <3>6, <3>7 DEF Starting, Waiting, Playing, Pausing, Timed,
                                    Falling, Has
    <3>10. OnBus(y)
      <4>1. Has(x, "pause") /\ Worker(y) /\ Still(x, y) /\ NoSeeks(x)
            /\ y.target = x.target /\ OnBus(x)
        BY <1>1, <2>4, <3>1, <3>4, <3>6 DEF Told, Has, Light
      <4> QED
        BY <1>1, <3>6, <4>1, Held
    <3> QED
      BY <3>8, <3>9, <3>10 DEF Inv, Core, y, p
  <2>7. CASE ~s.stay
    <3>1. y = z
      BY <2>1, <2>3, <2>7
    <3>2. y.target = "PLAYING" /\ y.timer = "off"
      BY <1>1, <1>4, <1>7, <2>2, <2>7, <3>1 DEF PrerolledTo, Told
    <3>3. Located(y) /\ Allowed(y)
      BY <1>1, <1>2, <1>4, <2>3, <2>4, <3>1, <3>2, CoreAfterMessage
    <3>4. WillTell(y) \/ s.owner # "Transitioning"
      BY <1>1, <2>3, <3>1 DEF Core, Waiting, WillTell
    <3>5. ~(Has(s, "hasty") /\ Has(s, "pause"))
      BY <1>1 DEF NoClash, Clashes, Has
    <3>6. Starting(y) /\ Waiting(y) /\ Playing(y) /\ Pausing(y) /\ Timed(y)
          /\ Falling(y)
      BY <1>4, <2>3, <2>4, <2>7, <3>1, <3>2, <3>4, <3>5 DEF Starting, Waiting,
           Playing, Pausing, Timed, Falling, Has
    <3>7. OnBus(y)
      <4>1. Worker(y) /\ Still(x, y) /\ (Has(x, "pause") => NoSeeks(x))
            /\ y.owner # "Paused" /\ Has(x, "buffer") /\ OnBus(x)
        BY <1>1, <2>3, <2>4, <3>1 DEF Told, Has, Light
      <4> QED
        BY <1>1, <2>3, <2>5, <3>1, <4>1, Held
    <3> QED
      BY <3>3, <3>6, <3>7 DEF Inv, Core, y, p
  <2> QED
    BY <2>6, <2>7
<1>8. CASE s.st \in {"PAUSED", "PLAYING"} /\ ~s.prerolling
             /\ (s.st = "PAUSED" => ~s.stay)
  <2> DEFINE z == SetState(x, "PLAYING")
  <2>1. /\ Light(x, z) /\ z.target = "PLAYING" /\ z.timer = s.timer
        /\ z.inReady = s.inReady /\ z.prerolling = s.prerolling
        /\ z.stay = s.stay /\ z.report = s.report /\ z.owner = s.owner
        /\ z.pending = s.pending /\ Worker(z)
    <3>1. /\ Light(x, z) /\ z.target = "PLAYING" /\ z.timer = x.timer
          /\ z.inReady = x.inReady /\ z.prerolling = x.prerolling
          /\ z.stay = x.stay /\ z.report = x.report /\ z.owner = x.owner
          /\ z.pending = x.pending /\ Worker(z)
      BY <1>1 DEF SetState, Worker, Fields, Light, Still, States
    <3> QED
      BY <1>1, <3>1 DEF Told
  <2>2. s.st = "PLAYING" => s.owner = "Playing" /\ ~s.stay
    BY <1>1 DEF Core, Playing
  <2>3. y = z
    <3>1. CASE s.st = "PAUSED"
      BY <1>1, <1>3, <1>4, <1>8, <3>1 DEF Told
    <3>2. CASE s.st = "PLAYING"
      <4>1. NotifyPlay(z) = z
        BY <2>1, <2>2, <3>2 DEF NotifyPlay
      <4>2. y = IF z.report THEN NotifyPlay(z) ELSE z
        BY <1>1, <1>3, <3>2
      <4> QED
        BY <4>1, <4>2
    <3> QED
      BY <1>8, <3>1, <3>2
  <2> HIDE DEF z
  <2>4. s.prerolling = FALSE /\ x.st = s.st
    BY <1>1, <1>8 DEF WorkerTyped, Worker
  <2>5. Inv(y)
    BY <1>1, <1>2, <1>8, <2>1, <2>2, <2>3, <2>4, PlaysOnInv
  <2> QED
    BY <2>5 DEF y, p
<1>9. CASE s.st = "PAUSED" /\ ~s.prerolling /\ s.stay
  <2>1. y = x
    BY <1>1, <1>3, <1>4, <1>9 DEF Told
  <2> QED
    BY <1>6, <1>9, <2>1
<1>10. CASE s.st \notin {"PAUSED", "PLAYING"}
  <2>1. y = x
    BY <1>1, <1>3, <1>10 DEF Told
  <2> QED
    BY <1>6, <1>10, <2>1
<1>11. s.st = "PLAYING" => ~s.prerolling
  BY <1>1 DEF Core, Starting
<1> QED
  BY <1>7, <1>8, <1>9, <1>10, <1>11

(* Errors and ends of stream: what is started or stopped then.             *)
LEMMA PlayNextItemInv ==
  ASSUME NEW x, Worker(x), x.parsed, NoClash(x), x.more > 0,
         x.owner \in {"Transitioning", "Playing"}, Has(x, "errors"),
         x.owner = "Transitioning" => WillTell(x), ~x.stay,
         x.live => x.stream, x.stream => Has(x, "buffer")
  PROVE  Inv(PlayNextItem(x))
<1> DEFINE b == WorkerStop(x)
           n == x.more - 1
           c == [b EXCEPT !.more = n]
<1>1. Worker(b) /\ Fresh(b) /\ b.kinds = x.kinds /\ b.owner = x.owner
      /\ b.mode = x.mode /\ b.pending = x.pending /\ b.stay = x.stay
  BY FreshAfterStop
<1>2. n \in 0 .. MaxMore /\ x.stream \in BOOLEAN /\ x.live \in BOOLEAN
  BY BoundAssumption DEF Worker
<1>3. PlayNextItem(x) = StartPlay(c, x.stream, x.live)
  BY DEF PlayNextItem
<1> HIDE DEF b, n
<1>4. Worker(c) /\ Fresh(c) /\ c.kinds = b.kinds /\ c.owner = b.owner
      /\ c.mode = b.mode /\ c.pending = b.pending /\ c.stay = b.stay
  BY <1>1, <1>2 DEF Worker, Fields, Fresh
<1> HIDE DEF c
<1>5. /\ NoClash(c) /\ Has(c, "errors") /\ (c.owner = "Transitioning" => WillTell(c))
      /\ ~c.stay /\ (x.stream => Has(c, "buffer"))
      /\ c.owner \in {"Transitioning", "Playing"}
  BY <1>1, <1>4 DEF NoClash, Has, WillTell
<1> QED
  BY <1>2, <1>3, <1>4, <1>5, StartedInv

LEMMA PlayItemsInv ==
  ASSUME NEW x, Worker(x), x.parsed, NoClash(x), NEW n \in 0 .. MaxMore,
         x.owner \in {"Transitioning", "Playing"}, Has(x, "errors"), ~x.stay,
         x.live => x.stream, x.stream => Has(x, "buffer")
  PROVE  Inv(PlayItems(x, n))
<1> DEFINE b == WorkerStop(x)
           c == [b EXCEPT !.mode = "playlist", !.more = n, !.pending = TRUE]
<1>1. Worker(b) /\ Fresh(b) /\ b.kinds = x.kinds /\ b.owner = x.owner
      /\ b.stay = x.stay
  BY FreshAfterStop
<1>2. x.stream \in BOOLEAN /\ x.live \in BOOLEAN
  BY DEF Worker
<1>3. PlayItems(x, n) = StartPlay(c, x.stream, x.live)
  BY DEF PlayItems
<1> HIDE DEF b
<1>4. Worker(c) /\ Fresh(c) /\ c.kinds = b.kinds /\ c.owner = b.owner
      /\ c.pending = TRUE /\ c.stay = b.stay
  BY <1>1 DEF Worker, Fields, Fresh
<1> HIDE DEF c
<1>5. /\ NoClash(c) /\ Has(c, "errors") /\ WillTell(c)
      /\ ~c.stay /\ (x.stream => Has(c, "buffer"))
      /\ c.owner \in {"Transitioning", "Playing"}
  BY <1>1, <1>4 DEF NoClash, Has, WillTell
<1> QED
  BY <1>2, <1>3, <1>4, <1>5, StartedInv

\* an error or the end of the stream finds no pause and nobody paused
LEMMA ErrorsMeans ==
  ASSUME WorkerTyped, Inv(s), NoClash(s), s.bus # <<>>,
         NEW m, m = Head(s.bus), m.kind \in {"error", "eos"}
  PROVE  LET p == Popped(s) IN
         /\ Worker(p) /\ p.parsed /\ NoClash(p) /\ Has(p, "errors")
         /\ p.owner \in {"Transitioning", "Playing"} /\ ~p.stay
         /\ p.owner = "Transitioning" => WillTell(p)
         /\ p.live => p.stream
         /\ p.stream => Has(p, "buffer")
         /\ p.kinds = s.kinds /\ p.mode = s.mode /\ p.watch
         /\ m.kind = "eos" => p.owner = "Playing"
<1> DEFINE p == Popped(s)
<1>1. /\ Worker(p) /\ p.bus = Tail(s.bus) /\ p.kinds = s.kinds
      /\ p.gst = s.gst /\ p.low = s.low /\ p.live = s.live
      /\ p.target = s.target /\ p.owner = s.owner /\ p.report = s.report
      /\ p.stay = s.stay /\ p.prerolling = s.prerolling
      /\ p.parsed = s.parsed /\ p.watch = s.watch /\ p.failed = s.failed
      /\ p.stream = s.stream /\ p.mode = s.mode /\ p.inReady = s.inReady
      /\ p.timer = s.timer /\ p.pending = s.pending /\ p.st = s.st
      /\ p.buffering = s.buffering /\ s.parsed /\ Worker(s)
  BY PoppedFields
<1> HIDE DEF p
<1>2. Took(s, p)
  BY <1>1 DEF Took, LowAfter
<1>3. Told(m, p) /\ Core(s)
  BY <1>1, <1>2, TakenTold DEF Inv
<1>4. Has(s, "errors") /\ ~Has(s, "pause")
  <2>1. Has(s, "errors")
    BY <1>3 DEF Told
  <2> QED
    BY <2>1 DEF NoClash, Clashes, Has
<1>5. s.owner \in {"Transitioning", "Playing"} /\ ~s.stay /\ s.watch
      /\ (s.live => s.stream) /\ (s.stream => Has(s, "buffer"))
  BY <1>1, <1>3, <1>4 DEF Core, Located, Allowed, Worker, Owners
<1>6. m.kind = "eos" => s.owner = "Playing"
  <2>1. m.kind = "eos" => s.st = "PLAYING"
    BY <1>1, <1>3 DEF Told, Follows
  <2> QED
    BY <1>3, <2>1 DEF Core, Playing
<1>7. s.owner = "Transitioning" => WillTell(p)
  BY <1>1, <1>3 DEF Core, Waiting, WillTell
<1>8. NoClash(p) /\ Has(p, "errors") /\ (p.stream => Has(p, "buffer"))
  BY <1>1, <1>4, <1>5 DEF NoClash, Has
<1> QED
  BY <1>1, <1>5, <1>6, <1>7, <1>8 DEF p

LEMMA NormalModeFields ==
  ASSUME NEW x, Worker(x)
  PROVE  LET y == NormalMode(x) IN
         /\ Worker(y) /\ y.mode = "single" /\ y.parsed = x.parsed
         /\ y.kinds = x.kinds /\ y.stay = x.stay /\ y.owner = x.owner
         /\ Fresh(x) => Fresh(y)
<1> DEFINE y == NormalMode(x)
<1>1. 0 \in 0 .. MaxMore
  BY BoundAssumption
<1>2. y = [x EXCEPT !.mode = "single", !.more = 0, !.pending = TRUE]
  BY DEF NormalMode
<1> HIDE DEF y
<1>3. /\ Worker(y) /\ y.mode = "single" /\ y.parsed = x.parsed
      /\ y.kinds = x.kinds /\ y.stay = x.stay /\ y.owner = x.owner
      /\ Fresh(x) => Fresh(y)
  BY <1>1, <1>2 DEF Worker, Fields, Fresh
<1> QED
  BY <1>3 DEF y

LEMMA ErrorKeeps ==
  ASSUME WorkerTyped, Inv(s), NoClash(s), s.bus # <<>>,
         NEW m, m = Head(s.bus), m.kind = "error",
         NEW why \in {"nospace", "playlist", "other"}, NEW n \in 0 .. MaxMore
  PROVE  Inv(Error(Popped(s), why, n))
<1> DEFINE p == Popped(s)
<1>1. /\ Worker(p) /\ p.parsed /\ NoClash(p) /\ Has(p, "errors")
      /\ p.owner \in {"Transitioning", "Playing"} /\ ~p.stay
      /\ p.owner = "Transitioning" => WillTell(p)
      /\ p.live => p.stream
      /\ p.stream => Has(p, "buffer")
  BY ErrorsMeans
<1> HIDE DEF p
<1>2. p.more > 0 => Inv(PlayNextItem(p))
  BY <1>1, PlayNextItemInv
<1>3. Inv(PlayItems(p, n))
  BY <1>1, PlayItemsInv
<1>4. Inv(SendError(p))
  BY <1>1, SendErrorInv
<1>5. Inv(SendError(NormalMode(p)))
  <2> DEFINE y == NormalMode(p)
  <2>1. Worker(y) /\ y.mode = "single" /\ y.parsed /\ ~y.stay
    BY <1>1, NormalModeFields
  <2> HIDE DEF y
  <2>2. Inv(SendError(y))
    BY <2>1, SendErrorInv
  <2> QED
    BY <2>2 DEF y
<1>6. Inv(Error(p, why, n))
  <2>1. CASE p.mode # "single" /\ p.more > 0
    <3>1. Error(p, why, n) = IF why = "nospace" THEN SendError(p)
                             ELSE PlayNextItem(p)
      BY <2>1 DEF Error, HasNext
    <3> QED
      BY <1>2, <1>4, <2>1, <3>1
  <2>2. CASE p.mode # "single" /\ ~(p.more > 0)
    <3>1. Error(p, why, n) = SendError(NormalMode(p))
      BY <2>2 DEF Error, HasNext
    <3> QED
      BY <1>5, <3>1
  <2>3. CASE p.mode = "single"
    <3>1. Error(p, why, n) = IF why = "playlist" THEN PlayItems(p, n)
                             ELSE SendError(p)
      BY <2>3 DEF Error
    <3> QED
      BY <1>3, <1>4, <3>1
  <2> QED
    BY <2>1, <2>2, <2>3
<1> QED
  BY <1>6 DEF p

LEMMA EosKeeps ==
  ASSUME WorkerTyped, Inv(s), NoClash(s), s.bus # <<>>,
         NEW m, m = Head(s.bus), m.kind = "eos"
  PROVE  Inv(Eos(Popped(s)))
<1> DEFINE p == Popped(s)
           x == [p EXCEPT !.eos = TRUE]
           v == IF x.mode = "playlist" THEN NormalMode(x) ELSE x
           w == NotifyEos(v)
           y == Unwatched(w)
           z == IF y.mode = "redundant" THEN NormalMode(y) ELSE y
<1>1. /\ Worker(p) /\ p.parsed /\ NoClash(p) /\ Has(p, "errors")
      /\ p.owner = "Playing" /\ ~p.stay /\ (p.live => p.stream)
      /\ (p.stream => Has(p, "buffer"))
  <2>1. /\ Worker(p) /\ p.parsed /\ NoClash(p) /\ Has(p, "errors")
        /\ p.owner \in {"Transitioning", "Playing"} /\ ~p.stay
        /\ p.owner = "Transitioning" => WillTell(p)
        /\ p.live => p.stream
        /\ p.stream => Has(p, "buffer")
        /\ p.kinds = s.kinds /\ p.mode = s.mode /\ p.watch
        /\ m.kind = "eos" => p.owner = "Playing"
    BY ErrorsMeans
  <2> QED
    BY <2>1
<1>2. Eos(p) = IF x.mode = "playlist" /\ x.more > 0 THEN PlayNextItem(x) ELSE z
  BY DEF Eos, HasNext
<1> HIDE DEF p
<1>3. /\ Worker(x) /\ x.parsed /\ NoClash(x) /\ Has(x, "errors")
      /\ x.owner = "Playing" /\ ~x.stay /\ (x.live => x.stream)
      /\ (x.stream => Has(x, "buffer"))
  <2>1. /\ Worker(x) /\ x.parsed = p.parsed /\ x.kinds = p.kinds
        /\ x.owner = p.owner /\ x.stay = p.stay /\ x.live = p.live
        /\ x.stream = p.stream
    BY <1>1 DEF Worker, Fields
  <2> QED
    BY <1>1, <2>1 DEF NoClash, Has
<1> HIDE DEF x
<1>4. x.more > 0 => Inv(PlayNextItem(x))
  BY <1>3, PlayNextItemInv
<1>5. Worker(v) /\ v.parsed /\ Has(v, "errors") /\ v.owner = "Playing" /\ ~v.stay
  <2>1. Worker(NormalMode(x)) /\ NormalMode(x).parsed = x.parsed
        /\ NormalMode(x).kinds = x.kinds /\ NormalMode(x).stay = x.stay
        /\ NormalMode(x).owner = x.owner
    BY <1>3, NormalModeFields
  <2> QED
    BY <1>3, <2>1 DEF Has
<1> HIDE DEF v
<1>6. Worker(w) /\ Fresh(w) /\ ~w.parsed /\ w.owner = "Stopped"
      /\ Has(w, "errors") /\ ~w.stay
  <2> DEFINE b == WorkerStop(v)
  <2>1. Worker(b) /\ Fresh(b) /\ ~b.parsed /\ b.kinds = v.kinds
        /\ b.stay = v.stay
    BY <1>5, FreshAfterStop
  <2>2. w = [b EXCEPT !.owner = "Stopped"]
    BY <1>5 DEF NotifyEos
  <2> HIDE DEF b, w
  <2>3. Worker(w) /\ Fresh(w) /\ w.parsed = b.parsed /\ w.owner = "Stopped"
        /\ w.kinds = b.kinds /\ w.stay = b.stay
    BY <2>1, <2>2 DEF Worker, Fields, Fresh, Owners
  <2> QED
    BY <1>5, <2>1, <2>3 DEF Has
<1> HIDE DEF w
<1>7. Worker(y) /\ Fresh(y) /\ ~y.parsed /\ y.owner = "Stopped"
      /\ Has(y, "errors") /\ ~y.stay
  <2>1. Worker(y) /\ Fresh(y) /\ y.parsed = w.parsed /\ y.owner = w.owner
        /\ y.kinds = w.kinds /\ y.stay = w.stay
    BY <1>6 DEF Unwatched, Worker, Fields, Fresh
  <2> QED
    BY <1>6, <2>1 DEF Has
<1> HIDE DEF y
<1>8. Worker(z) /\ Fresh(z) /\ ~z.parsed /\ z.owner = "Stopped"
      /\ Has(z, "errors") /\ ~z.stay
  <2>1. Worker(NormalMode(y)) /\ NormalMode(y).parsed = y.parsed
        /\ NormalMode(y).kinds = y.kinds /\ NormalMode(y).stay = y.stay
        /\ NormalMode(y).owner = y.owner /\ Fresh(NormalMode(y))
    BY <1>7, NormalModeFields
  <2> QED
    BY <1>7, <2>1 DEF Has
<1> HIDE DEF z
<1>9. Inv(z)
  BY <1>8, StoppedInv
<1> QED
  BY <1>2, <1>4, <1>9 DEF p

LEMMA StateMessageKeeps ==
  ASSUME WorkerTyped, Inv(s), NoClash(s), s.bus # <<>>,
         NEW m, m = Head(s.bus), m.kind = "state", NEW q \in {"yes", "no"}
  PROVE  Inv(StateChanged(Popped(s), m.old, m.new, q))
<1>1. CASE IsSeek(m)
  BY <1>1, SeekKeeps
<1>2. CASE ~IsSeek(m)
  <2> DEFINE x == [Popped(s) EXCEPT !.st = m.new]
  <2>1. Told(m, x)
    BY StateNoted
  <2> HIDE DEF x
  <2>2. <<m.old, m.new>> \in Moves
    BY <1>2, <2>1 DEF Told, Follows
  <2>3. \/ IsState(m, "NULL", "READY") \/ IsState(m, "READY", "PAUSED")
        \/ IsState(m, "PAUSED", "PLAYING") \/ IsState(m, "PAUSED", "READY")
        \/ IsState(m, "PLAYING", "PAUSED")
    BY <2>2 DEF Moves, IsState
  <2>4. CASE IsState(m, "NULL", "READY")
    <3>1. Inv(StateChanged(Popped(s), "NULL", "READY", q))
      BY <2>4, ToReadyKeeps
    <3> QED
      BY <2>4, <3>1 DEF IsState
  <2>5. CASE IsState(m, "READY", "PAUSED")
    <3>1. Inv(StateChanged(Popped(s), "READY", "PAUSED", q))
      BY <2>5, ToPausedKeeps
    <3> QED
      BY <2>5, <3>1 DEF IsState
  <2>6. CASE IsState(m, "PAUSED", "PLAYING")
    <3>1. Inv(StateChanged(Popped(s), "PAUSED", "PLAYING", q))
      BY <2>6, ToPlayingKeeps
    <3> QED
      BY <2>6, <3>1 DEF IsState
  <2>7. CASE IsState(m, "PAUSED", "READY")
    <3>1. Inv(StateChanged(Popped(s), "PAUSED", "READY", q))
      BY <2>7, BackToReadyKeeps
    <3> QED
      BY <2>7, <3>1 DEF IsState
  <2>8. CASE IsState(m, "PLAYING", "PAUSED")
    <3>1. Inv(StateChanged(Popped(s), "PLAYING", "PAUSED", q))
      BY <2>8, FromPlayingKeeps
    <3> QED
      BY <2>8, <3>1 DEF IsState
  <2> QED
    BY <2>3, <2>4, <2>5, <2>6, <2>7, <2>8
<1> QED
  BY <1>1, <1>2

LEMMA BufferingKeeps ==
  ASSUME WorkerTyped, Inv(s), NoClash(s), s.bus # <<>>,
         NEW m, m = Head(s.bus), m.kind = "buffering", NEW q \in {"yes", "no"}
  PROVE  Inv(Buffering(Popped(s), m.full, q))
<1>1. Popped(s).live = s.live
  BY PoppedFields
<1>2. CASE s.live
  <2>1. Inv(Popped(s))
    BY <1>2, LiveKeeps
  <2> QED
    BY <1>1, <1>2, <2>1 DEF Buffering
<1>3. CASE ~s.live /\ m.full
  <2>1. Inv(BufferFull(Popped(s), q))
    BY <1>3, BufferFullKeeps
  <2> QED
    BY <1>1, <1>3, <2>1 DEF Buffering
<1>4. CASE ~s.live /\ ~m.full
  <2>1. Inv(BufferLow(Popped(s)))
    BY <1>4, BufferLowKeeps
  <2> QED
    BY <1>1, <1>4, <2>1 DEF Buffering
<1> QED
  BY <1>2, <1>3, <1>4

LEMMA HandleKeeps ==
  ASSUME WorkerTyped, Inv(s), NoClash(s), Handle PROVE Inv(s')
<1> DEFINE m == Head(s.bus)
           x == Popped(s)
<1>1. s.bus # <<>> /\ ~s.failed
  BY DEF Handle, Inv, Core, Allowed
<1> HIDE DEF m, x
<1>2. \/ m.kind = "state" /\ \E q \in {"yes", "no"} :
           s' = StateChanged(x, m.old, m.new, q)
      \/ m.kind = "buffering" /\ \E q \in {"yes", "no"} :
           s' = Buffering(x, m.full, q)
      \/ m.kind = "error" /\ \E why \in {"nospace", "playlist", "other"},
                                n \in 0 .. MaxMore : s' = Error(x, why, n)
      \/ m.kind = "eos" /\ s' = Eos(x)
  BY <1>1 DEF Handle, x, m, Popped
<1>3. m.kind = "state" =>
        \A q \in {"yes", "no"} : Inv(StateChanged(x, m.old, m.new, q))
  BY <1>1, StateMessageKeeps DEF x, m
<1>4. m.kind = "buffering" => \A q \in {"yes", "no"} : Inv(Buffering(x, m.full, q))
  BY <1>1, BufferingKeeps DEF x, m
<1>5. m.kind = "error" =>
        \A why \in {"nospace", "playlist", "other"}, n \in 0 .. MaxMore :
          Inv(Error(x, why, n))
  BY <1>1, ErrorKeeps DEF x, m
<1>6. m.kind = "eos" => Inv(Eos(x))
  BY <1>1, EosKeeps DEF x, m
<1> QED
  BY <1>2, <1>3, <1>4, <1>5, <1>6

LEMMA InitInv ==
  ASSUME Init PROVE Inv(s)
<1>1. Worker(s)
  BY InitTyped DEF WorkerTyped
<1>2. Fresh(s) /\ ~s.parsed /\ s.owner = "Stopped" /\ s.mode = "single" /\ ~s.stay
  BY DEF Init, Fresh
<1> QED
  BY <1>1, <1>2, StoppedInv

\* with nothing on its way, the worker knows where the pipeline is
LEMMA InvAgrees ==
  ASSUME WorkerTyped, Inv(s) PROVE Agrees
<1> SUFFICES ASSUME Settled, ~s.low
             PROVE  /\ s.owner # "Transitioning"
                    /\ s.owner = "Playing" => s.gst = "PLAYING"
                    /\ s.owner = "Paused" => s.gst \in {"PAUSED", "READY"}
  BY DEF Agrees
<1>1. s.st = s.target /\ s.gst = s.st /\ s.bus = <<>> /\ Core(s)
  BY EmptyMeans DEF Settled, Inv
<1>2. ~s.buffering
  <2>1. s.live => ~s.buffering
    BY <1>1 DEF Core, Allowed
  <2>2. ASSUME ~s.live PROVE ~s.buffering
    <3>1. PICK g \in [Places(s) -> BOOLEAN] : Levelled(s, g)
      BY <2>2 DEF Inv, OnBus
    <3>2. Len(s.bus) = 0
      BY <1>1
    <3> QED
      BY <3>1, <3>2 DEF Levelled
  <2> QED
    BY <2>1, <2>2
<1>3. ~s.prerolling
  BY <1>1, <1>2 DEF Core, Starting
<1>4. s.owner # "Transitioning"
  BY <1>1, <1>3 DEF Core, Waiting
<1>5. s.owner = "Playing" => s.gst = "PLAYING"
  BY <1>1, <1>2, <1>3 DEF Core, Playing
<1>6. s.owner = "Paused" => s.gst \in {"PAUSED", "READY"}
  BY <1>1 DEF Core, Pausing
<1> QED
  BY <1>4, <1>5, <1>6

(* Whatever the pipeline tells, and in whatever order its messages and the *)
(* user's commands are handled: once nothing is on its way any more, the   *)
(* renderer and the pipeline agree on what is played, for every length of  *)
(* the bus and of a playlist, in all scenarios without a clash.            *)
THEOREM RendererAgrees ==
  ASSUME \A k \in Scenarios : \A bad \in Clashes : ~(bad \subseteq k)
  PROVE  Spec => []Agrees
<1> DEFINE I == WorkerTyped /\ Inv(s)
<1>1. Init => I
  BY InitTyped, InitInv
<1>2. I /\ [Next]_s => I'
  <2> SUFFICES ASSUME I, [Next]_s PROVE I'
    OBVIOUS
  <2>1. NoClash(s)
    BY DEF NoClash, WorkerTyped
  <2>2. WorkerTyped'
    <3>1. CASE UNCHANGED s
      BY <3>1 DEF WorkerTyped
    <3> QED
      BY <3>1, PipelineTyped, HandleTyped, GoToReadyTyped, CommandTyped DEF Next
  <2>3. Inv(s')
    <3>1. CASE Pipeline
      BY <3>1, AdvancesKeeps, OthersKeep DEF Pipeline
    <3>2. CASE Handle
      BY <2>1, <3>2, HandleKeeps
    <3>3. CASE GoToReady
      BY <2>1, <3>3, GoToReadyKeeps
    <3>4. CASE Command
      BY <2>1, <3>4, PlayKeeps, StopKeeps, PauseKeeps, ResumeKeeps,
         SetPositionKeeps DEF Command
    <3>5. CASE UNCHANGED s
      <4>1. s' = s
        BY <3>5
      <4> QED
        BY <4>1
    <3> QED
      BY <3>1, <3>2, <3>3, <3>4, <3>5 DEF Next
  <2> QED
    BY <2>2, <2>3
<1>3. I => Agrees
  BY InvAgrees
<1> QED
  BY <1>1, <1>2, <1>3, PTL DEF Spec

=============================================================================
