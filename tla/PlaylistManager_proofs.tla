----------------------- MODULE PlaylistManager_proofs -----------------------
(***************************************************************************)
(* Proofs about PlaylistManager, for any number of applications, names,    *)
(* playlists found on disk and calls, until the daemon is restarted.       *)
(***************************************************************************)
EXTENDS PlaylistManager, TLAPS, SequenceTheorems, FiniteSetTheorems,
        WellFoundedInduction

-----------------------------------------------------------------------------
(* What is on its way to an application.                                   *)

Message ==
  [what : {"created", "destroyed", "failed"}, id : Nat]
    \cup [what : {"imported"}, import : Nat, id : Nat \cup {NoList}]
    \cup [what : {"reply"}, ok : BOOLEAN, ids : Seq(Nat)]

LEMMA Kinds ==
  /\ \A p : /\ Created(p).what = "created" /\ Created(p).id = p
            /\ Destroyed(p).what = "destroyed" /\ Destroyed(p).id = p
            /\ DestructionFailed(p).what = "failed" /\ DestructionFailed(p).id = p
  /\ \A i, p : /\ Imported(i, p).what = "imported" /\ Imported(i, p).import = i
               /\ Imported(i, p).id = p
  /\ \A ids : Reply(ids).what = "reply" /\ Reply(ids).ids = ids
  /\ ErrorReply.what = "reply" /\ ErrorReply.ids = <<>>
BY DEF Created, Destroyed, DestructionFailed, Imported, Reply, ErrorReply

LEMMA Messages ==
  /\ \A p \in Nat : /\ Created(p) \in Message /\ Destroyed(p) \in Message
                    /\ DestructionFailed(p) \in Message
  /\ \A i \in Nat, p \in Nat \cup {NoList} : Imported(i, p) \in Message
  /\ \A ids \in Seq(Nat) : Reply(ids) \in Message
  /\ ErrorReply \in Message
<1>1. <<>> \in Seq(Nat)
  OBVIOUS
<1> QED
  BY <1>1 DEF Message, Created, Destroyed, DestructionFailed, Imported, Reply, ErrorReply

LEMMA Appended ==
  ASSUME NEW S, NEW box \in Seq(S), NEW m \in S
  PROVE  /\ Append(box, m) \in Seq(S)
         /\ Len(box) \in Nat /\ DOMAIN box = 1 .. Len(box)
         /\ DOMAIN Append(box, m) = 1 .. Len(box) + 1
         /\ \A k \in DOMAIN box : Append(box, m)[k] = box[k]
         /\ Append(box, m)[Len(box) + 1] = m
         /\ Range(Append(box, m)) = Range(box) \cup {m}
<1>1. /\ Append(box, m) \in Seq(S)
      /\ Len(box) \in Nat /\ DOMAIN box = 1 .. Len(box)
      /\ DOMAIN Append(box, m) = 1 .. Len(box) + 1
      /\ \A k \in DOMAIN box : Append(box, m)[k] = box[k]
      /\ Append(box, m)[Len(box) + 1] = m
  BY AppendProperties
<1>2. Range(Append(box, m)) = Range(box) \cup {m}
  <2>1. \A k \in DOMAIN Append(box, m) : k \in DOMAIN box \/ k = Len(box) + 1
    BY <1>1
  <2>2. DOMAIN box \subseteq DOMAIN Append(box, m) /\ Len(box) + 1 \in DOMAIN Append(box, m)
    BY <1>1
  <2> HIDE <1>1
  <2>3. ASSUME NEW x \in Range(Append(box, m)) PROVE x \in Range(box) \cup {m}
    <3>1. PICK k \in DOMAIN Append(box, m) : x = Append(box, m)[k]
      BY DEF Range
    <3> QED
      BY <1>1, <2>1, <3>1 DEF Range
  <2>4. ASSUME NEW x \in Range(box) \cup {m} PROVE x \in Range(Append(box, m))
    <3>1. CASE x = m
      BY <1>1, <2>2, <3>1 DEF Range
    <3>2. CASE x \in Range(box)
      <4>1. PICK k \in DOMAIN box : x = box[k]
        BY <3>2 DEF Range
      <4>2. k \in DOMAIN Append(box, m) /\ x = Append(box, m)[k]
        BY <1>1, <2>2, <4>1
      <4> QED
        BY <4>2 DEF Range
    <3> QED
      BY <3>1, <3>2
  <2> QED
    BY <2>3, <2>4
<1> QED
  BY <1>1, <1>2

LEMMA Removed ==
  ASSUME NEW S, NEW s \in Seq(S), NEW i \in DOMAIN s
  PROVE  LET r == RemoveAt(s, i) IN
         /\ r \in Seq(S) /\ Len(s) \in Nat /\ DOMAIN s = 1 .. Len(s)
         /\ Len(r) = Len(s) - 1 /\ DOMAIN r = 1 .. Len(s) - 1
         /\ \A k \in 1 .. Len(s) - 1 : r[k] = IF k < i THEN s[k] ELSE s[k + 1]
<1> DEFINE u == SubSeq(s, 1, i - 1)
           v == SubSeq(s, i + 1, Len(s))
<1>1. Len(s) \in Nat /\ DOMAIN s = 1 .. Len(s) /\ i \in 1 .. Len(s)
  OBVIOUS
<1>2. /\ u \in Seq(S) /\ Len(u) = i - 1
      /\ \A k \in 1 .. i - 1 : u[k] = s[1 + k - 1]
  BY <1>1, SubSeqProperties
<1>3. /\ v \in Seq(S) /\ Len(v) = Len(s) - i
      /\ \A k \in 1 .. Len(s) - i : v[k] = s[i + 1 + k - 1]
  BY <1>1, SubSeqProperties
<1> HIDE DEF u, v
<1>4. /\ u \o v \in Seq(S) /\ Len(u \o v) = Len(u) + Len(v)
      /\ \A k \in 1 .. Len(u) + Len(v) : (u \o v)[k] = IF k <= Len(u) THEN u[k] ELSE v[k - Len(u)]
  BY <1>2, <1>3, ConcatProperties
<1>5. Len(u \o v) = Len(s) - 1 /\ DOMAIN (u \o v) = 1 .. Len(s) - 1
  <2>1. Len(u \o v) = Len(s) - 1
    BY <1>1, <1>2, <1>3, <1>4
  <2>2. \A w \in Seq(S) : DOMAIN w = 1 .. Len(w)
    OBVIOUS
  <2> QED
    BY <1>4, <2>1, <2>2
<1>6. ASSUME NEW k \in 1 .. Len(s) - 1
      PROVE  (u \o v)[k] = IF k < i THEN s[k] ELSE s[k + 1]
  <2>1. (u \o v)[k] = IF k <= i - 1 THEN u[k] ELSE v[k - (i - 1)]
    BY <1>1, <1>2, <1>3, <1>4
  <2>2. CASE k < i
    <3>1. k <= i - 1 /\ k \in 1 .. i - 1 /\ 1 + k - 1 = k
      BY <1>1, <2>2
    <3> QED
      BY <1>2, <2>1, <2>2, <3>1
  <2>3. CASE ~ (k < i)
    <3>1. /\ ~ (k <= i - 1) /\ k - (i - 1) \in 1 .. Len(s) - i
          /\ i + 1 + (k - (i - 1)) - 1 = k + 1
      BY <1>1, <2>3
    <3> QED
      BY <1>3, <2>1, <2>3, <3>1
  <2> QED
    BY <2>2, <2>3
<1>7. RemoveAt(s, i) = u \o v
  BY DEF RemoveAt, u, v
<1> QED
  BY <1>1, <1>4, <1>5, <1>6, <1>7

LEMMA RemovedRange ==
  ASSUME NEW S, NEW s \in Seq(S), NEW i \in DOMAIN s
  PROVE  Range(s) = Range(RemoveAt(s, i)) \cup {s[i]}
<1> DEFINE r == RemoveAt(s, i)
<1>1. /\ Len(s) \in Nat /\ DOMAIN s = 1 .. Len(s) /\ DOMAIN r = 1 .. Len(s) - 1
      /\ \A k \in 1 .. Len(s) - 1 : r[k] = IF k < i THEN s[k] ELSE s[k + 1]
  BY Removed
<1> HIDE DEF r
<1>2. ASSUME NEW x \in Range(s) PROVE x \in Range(r) \cup {s[i]}
  <2>1. PICK k \in DOMAIN s : x = s[k]
    BY DEF Range
  <2>2. CASE k < i
    <3>1. k \in DOMAIN r /\ r[k] = x
      BY <1>1, <2>1, <2>2
    <3> QED
      BY <3>1 DEF Range
  <2>3. CASE k = i
    BY <2>1, <2>3
  <2>4. CASE k > i
    <3>1. k - 1 \in DOMAIN r /\ ~ (k - 1 < i) /\ (k - 1) + 1 = k
      BY <1>1, <2>1, <2>4
    <3>2. r[k - 1] = x
      BY <1>1, <2>1, <3>1
    <3> QED
      BY <3>1, <3>2 DEF Range
  <2> QED
    BY <1>1, <2>2, <2>3, <2>4
<1>3. ASSUME NEW x \in Range(r) PROVE x \in Range(s)
  <2>1. PICK k \in DOMAIN r : x = r[k]
    BY DEF Range
  <2>2. k \in DOMAIN s /\ k + 1 \in DOMAIN s /\ (x = s[k] \/ x = s[k + 1])
    BY <1>1, <2>1
  <2> QED
    BY <2>2 DEF Range
<1>4. s[i] \in Range(s)
  BY DEF Range
<1> QED
  BY <1>2, <1>3, <1>4 DEF r

LEMMA TailRange ==
  ASSUME NEW S, NEW s \in Seq(S), s # <<>>
  PROVE  /\ Tail(s) \in Seq(S) /\ Head(s) \in S /\ Head(s) = s[1]
         /\ Len(s) \in Nat \ {0} /\ DOMAIN s = 1 .. Len(s)
         /\ DOMAIN Tail(s) = 1 .. Len(s) - 1
         /\ \A k \in 1 .. Len(s) - 1 : Tail(s)[k] = s[k + 1]
         /\ Range(s) = Range(Tail(s)) \cup {Head(s)}
<1>1. /\ Tail(s) \in Seq(S) /\ Head(s) \in S /\ Head(s) = s[1]
      /\ Len(s) \in Nat \ {0} /\ DOMAIN s = 1 .. Len(s)
      /\ Len(Tail(s)) = Len(s) - 1
      /\ \A k \in 1 .. Len(s) - 1 : Tail(s)[k] = s[k + 1]
  BY HeadTailProperties, EmptySeq
<1>2. DOMAIN Tail(s) = 1 .. Len(s) - 1
  BY <1>1
<1>3. ASSUME NEW x \in Range(s) PROVE x \in Range(Tail(s)) \cup {Head(s)}
  <2>1. PICK k \in DOMAIN s : x = s[k]
    BY DEF Range
  <2>2. CASE k = 1
    BY <1>1, <2>1, <2>2
  <2>3. CASE k # 1
    <3>1. k - 1 \in DOMAIN Tail(s) /\ Tail(s)[k - 1] = s[(k - 1) + 1] /\ (k - 1) + 1 = k
      BY <1>1, <1>2, <2>1, <2>3
    <3> QED
      BY <2>1, <3>1 DEF Range
  <2> QED
    BY <2>2, <2>3
<1>4. ASSUME NEW x \in Range(Tail(s)) PROVE x \in Range(s)
  <2>1. PICK k \in DOMAIN Tail(s) : x = Tail(s)[k]
    BY DEF Range
  <2>2. k + 1 \in DOMAIN s /\ x = s[k + 1]
    BY <1>1, <1>2, <2>1
  <2> QED
    BY <2>2 DEF Range
<1>5. Head(s) \in Range(s)
  <2>1. 1 \in DOMAIN s
    BY <1>1
  <2> QED
    BY <1>1, <2>1 DEF Range
<1> QED
  BY <1>1, <1>2, <1>3, <1>4, <1>5

-----------------------------------------------------------------------------
(* The word of one playlist on its way to one application: alive is the    *)
(* set of playlists of the daemon, next the id it issues next.  What says  *)
(* that p is there comes before what says that it is gone.                 *)

Names(m, p) == m = Created(p) \/ (m.what = "imported" /\ m.id = p)

Ordered(p, alive, next, box) ==
  /\ p \in alive => p < next
  /\ \A k \in DOMAIN box : Names(box[k], p) \/ box[k] = Destroyed(p) => p < next
  /\ \A j, k \in DOMAIN box : box[j] = Created(p) /\ box[k] = Created(p) => j = k
  /\ \A j, k \in DOMAIN box : box[j] = Destroyed(p) /\ box[k] = Destroyed(p) => j = k
  /\ Destroyed(p) \in Range(box) => p \notin alive
  /\ \A k \in DOMAIN box : Names(box[k], p) =>
       p \in alive \/ \E j \in DOMAIN box : j > k /\ box[j] = Destroyed(p)

(* Something that does not name p, or names it while it is alive.          *)
LEMMA OrderedMore ==
  ASSUME NEW p, NEW alive, NEW next, NEW box \in Seq(Message), NEW m \in Message,
         Ordered(p, alive, next, box), m # Destroyed(p),
         Names(m, p) => p \in alive,
         m = Created(p) => m \notin Range(box)
  PROVE  Ordered(p, alive, next, Append(box, m))
<1> DEFINE b == Append(box, m)
           e == Len(box) + 1
<1>1. /\ Len(box) \in Nat /\ DOMAIN box = 1 .. Len(box) /\ DOMAIN b = 1 .. e
      /\ \A k \in DOMAIN box : b[k] = box[k]
      /\ b[e] = m /\ Range(b) = Range(box) \cup {m}
  BY Appended
<1>2. e \in DOMAIN b /\ \A k \in DOMAIN b : k \in DOMAIN box \/ k = e
  BY <1>1
<1>3. \A k \in DOMAIN box : k \in DOMAIN b /\ k < e /\ box[k] \in Range(box)
  BY <1>1 DEF Range
<1> HIDE DEF b, e
<1>4. \A k \in DOMAIN b : Names(b[k], p) \/ b[k] = Destroyed(p) => p < next
  BY <1>1, <1>2 DEF Ordered
<1>5. \A j, k \in DOMAIN b : b[j] = Created(p) /\ b[k] = Created(p) => j = k
  BY <1>1, <1>2, <1>3 DEF Ordered
<1>6. \A j, k \in DOMAIN b : b[j] = Destroyed(p) /\ b[k] = Destroyed(p) => j = k
  BY <1>1, <1>2 DEF Ordered
<1>7. Destroyed(p) \in Range(b) => p \notin alive
  BY <1>1 DEF Ordered
<1>8. ASSUME NEW k \in DOMAIN b, Names(b[k], p), p \notin alive
      PROVE  \E j \in DOMAIN b : j > k /\ b[j] = Destroyed(p)
  <2>1. k \in DOMAIN box
    BY <1>1, <1>2, <1>8
  <2>2. PICK j \in DOMAIN box : j > k /\ box[j] = Destroyed(p)
    BY <1>1, <1>8, <2>1 DEF Ordered
  <2> QED
    BY <1>1, <1>3, <2>2
<1> QED
  BY <1>4, <1>5, <1>6, <1>7, <1>8 DEF Ordered, b

LEMMA OrderedDestroyed ==
  ASSUME NEW p \in Nat, NEW alive, NEW next, NEW box \in Seq(Message),
         Ordered(p, alive, next, box), p \in alive
  PROVE  Ordered(p, alive \ {p}, next, Append(box, Destroyed(p)))
<1> DEFINE m == Destroyed(p)
           b == Append(box, m)
           e == Len(box) + 1
<1>1. /\ Len(box) \in Nat /\ DOMAIN box = 1 .. Len(box) /\ DOMAIN b = 1 .. e
      /\ \A k \in DOMAIN box : b[k] = box[k]
      /\ b[e] = m /\ Range(b) = Range(box) \cup {m}
  BY Messages, Appended
<1>2. e \in DOMAIN b /\ \A k \in DOMAIN b : k \in DOMAIN box \/ k = e
  BY <1>1
<1>3. \A k \in DOMAIN box : k \in DOMAIN b /\ e > k /\ box[k] \in Range(box)
  BY <1>1 DEF Range
<1>4. m = Destroyed(p) /\ ~ Names(m, p) /\ m # Created(p) /\ m \notin Range(box)
  BY Kinds DEF Names, Ordered
<1> HIDE DEF b, e, m
<1>5. p < next
  BY DEF Ordered
<1>6. \A j, k \in DOMAIN b : b[j] = Created(p) /\ b[k] = Created(p) => j = k
  BY <1>1, <1>2, <1>4 DEF Ordered
<1>7. \A j, k \in DOMAIN b : b[j] = Destroyed(p) /\ b[k] = Destroyed(p) => j = k
  BY <1>1, <1>2, <1>3, <1>4
<1>8. \A k \in DOMAIN b : Names(b[k], p) => e > k
  BY <1>1, <1>2, <1>3, <1>4
<1> QED
  BY <1>1, <1>2, <1>4, <1>5, <1>6, <1>7, <1>8 DEF Ordered, b

LEMMA OrderedTail ==
  ASSUME NEW p, NEW alive, NEW next, NEW box \in Seq(Message), box # <<>>,
         Ordered(p, alive, next, box)
  PROVE  Ordered(p, alive, next, Tail(box))
<1> DEFINE b == Tail(box)
<1>1. /\ Len(box) \in Nat \ {0} /\ DOMAIN box = 1 .. Len(box)
      /\ DOMAIN b = 1 .. Len(box) - 1
      /\ \A k \in 1 .. Len(box) - 1 : b[k] = box[k + 1]
      /\ Range(box) = Range(b) \cup {Head(box)}
  BY TailRange
<1>2. \A k \in DOMAIN b : k \in Int /\ k + 1 \in DOMAIN box /\ b[k] = box[k + 1]
  BY <1>1
<1>3. \A j \in DOMAIN box, k \in DOMAIN b : j > k + 1 =>
        j - 1 \in DOMAIN b /\ j - 1 > k /\ b[j - 1] = box[j]
  BY <1>1
<1>4. \A j, k \in DOMAIN b : j + 1 = k + 1 => j = k
  BY <1>2
<1> HIDE DEF b
<1>5. \A k \in DOMAIN b : Names(b[k], p) \/ b[k] = Destroyed(p) => p < next
  BY <1>2 DEF Ordered
<1>6. \A j, k \in DOMAIN b : b[j] = Created(p) /\ b[k] = Created(p) => j = k
  BY <1>2, <1>4 DEF Ordered
<1>7. \A j, k \in DOMAIN b : b[j] = Destroyed(p) /\ b[k] = Destroyed(p) => j = k
  BY <1>2, <1>4 DEF Ordered
<1>8. Destroyed(p) \in Range(b) => p \notin alive
  BY <1>1 DEF Ordered
<1>9. ASSUME NEW k \in DOMAIN b, Names(b[k], p), p \notin alive
      PROVE  \E j \in DOMAIN b : j > k /\ b[j] = Destroyed(p)
  <2>1. k + 1 \in DOMAIN box /\ Names(box[k + 1], p)
    BY <1>2, <1>9
  <2>2. PICK j \in DOMAIN box : j > k + 1 /\ box[j] = Destroyed(p)
    BY <1>9, <2>1 DEF Ordered
  <2> QED
    BY <1>3, <2>2
<1> QED
  BY <1>5, <1>6, <1>7, <1>8, <1>9 DEF Ordered, b

(* A blocked application takes the reply from between the rest.            *)
LEMMA OrderedRemoved ==
  ASSUME NEW p, NEW alive, NEW next, NEW box \in Seq(Message), NEW i \in DOMAIN box,
         box[i].what = "reply", Ordered(p, alive, next, box)
  PROVE  Ordered(p, alive, next, RemoveAt(box, i))
<1> DEFINE b == RemoveAt(box, i)
           At(k) == IF k < i THEN k ELSE k + 1
<1>1. /\ Len(box) \in Nat /\ DOMAIN box = 1 .. Len(box)
      /\ DOMAIN b = 1 .. Len(box) - 1
      /\ \A k \in 1 .. Len(box) - 1 : b[k] = IF k < i THEN box[k] ELSE box[k + 1]
      /\ Range(box) = Range(b) \cup {box[i]}
  BY Removed, RemovedRange
<1>2. \A k \in DOMAIN b : At(k) \in DOMAIN box /\ b[k] = box[At(k)]
  BY <1>1
<1>3. \A j \in DOMAIN box, k \in DOMAIN b : j > At(k) /\ j # i =>
        \E n \in DOMAIN b : n > k /\ At(n) = j
  <2> SUFFICES ASSUME NEW j \in DOMAIN box, NEW k \in DOMAIN b, j > At(k), j # i
               PROVE  \E n \in DOMAIN b : n > k /\ At(n) = j
    OBVIOUS
  <2>1. CASE j < i
    <3>1. j \in DOMAIN b /\ j > k /\ At(j) = j
      BY <1>1, <2>1
    <3> QED
      BY <3>1
  <2>2. CASE j > i
    <3>1. j - 1 \in DOMAIN b /\ j - 1 > k /\ At(j - 1) = j
      BY <1>1, <2>2
    <3> QED
      BY <3>1
  <2> QED
    BY <1>1, <2>1, <2>2
<1>4. \A j, k \in DOMAIN b : At(j) = At(k) => j = k
  BY <1>1
<1> HIDE DEF b, At
<1>5. \A k \in DOMAIN b : Names(b[k], p) \/ b[k] = Destroyed(p) => p < next
  BY <1>2 DEF Ordered
<1>6. \A j, k \in DOMAIN b : b[j] = Created(p) /\ b[k] = Created(p) => j = k
  BY <1>2, <1>4 DEF Ordered
<1>7. \A j, k \in DOMAIN b : b[j] = Destroyed(p) /\ b[k] = Destroyed(p) => j = k
  BY <1>2, <1>4 DEF Ordered
<1>8. Destroyed(p) \in Range(b) => p \notin alive
  BY <1>1 DEF Ordered
<1>9. ASSUME NEW k \in DOMAIN b, Names(b[k], p), p \notin alive
      PROVE  \E j \in DOMAIN b : j > k /\ b[j] = Destroyed(p)
  <2>1. At(k) \in DOMAIN box /\ Names(box[At(k)], p)
    BY <1>2, <1>9
  <2>2. PICK j \in DOMAIN box : j > At(k) /\ box[j] = Destroyed(p)
    BY <1>9, <2>1 DEF Ordered
  <2>3. j # i
    BY <2>2, Kinds
  <2>4. PICK n \in DOMAIN b : n > k /\ At(n) = j
    BY <1>3, <2>2, <2>3
  <2> QED
    BY <1>2, <2>2, <2>4
<1> QED
  BY <1>5, <1>6, <1>7, <1>8, <1>9 DEF Ordered, b

-----------------------------------------------------------------------------
(* All that is on its way to an application: w is the call it waits in.    *)

Registering == {"create", "dup", "get", "list"}
IsReply(m) == m.what = "reply"
Silent(box) == \A m \in Range(box) : ~ IsReply(m)

Box(alive, next, w, box) ==
  /\ next \in Nat /\ alive \in SUBSET Nat /\ box \in Seq(Message)
  /\ \A p \in Nat : Ordered(p, alive, next, box)
  /\ \A j, k \in DOMAIN box : IsReply(box[j]) /\ IsReply(box[k]) => j = k
  /\ \A m \in Range(box) : IsReply(m) =>
       /\ w # NoCall
       /\ w \in Registering =>
            \A p \in Range(m.ids) : p \in alive \/ Destroyed(p) \in Range(box)

LEMMA ReplyIds == \A m \in Message : IsReply(m) => m.ids \in Seq(Nat) /\ Range(m.ids) \subseteq Nat
<1> SUFFICES ASSUME NEW m \in Message, IsReply(m)
             PROVE  m.ids \in Seq(Nat) /\ Range(m.ids) \subseteq Nat
  OBVIOUS
<1>1. m.ids \in Seq(Nat)
  BY DEF IsReply, Message
<1>2. \A k \in DOMAIN m.ids : m.ids[k] \in Nat
  BY <1>1, ElementOfSeq
<1> QED
  BY <1>1, <1>2 DEF Range

LEMMA InBox == ASSUME NEW S, NEW box \in Seq(S) PROVE Range(box) \subseteq S
<1>1. \A k \in DOMAIN box : box[k] \in S
  BY ElementOfSeq
<1> QED
  BY <1>1 DEF Range

LEMMA BoxMade ==
  ASSUME NEW alive, NEW next, NEW w, NEW box, Box(alive, next, w, box)
  PROVE  Box(alive \cup {next}, next + 1, w, box)
<1> DEFINE more == alive \cup {next}
<1>1. next \in Nat /\ next + 1 \in Nat /\ more \in SUBSET Nat
  BY DEF Box
<1>2. ASSUME NEW p \in Nat PROVE Ordered(p, more, next + 1, box)
  <2>1. Ordered(p, alive, next, box)
    BY DEF Box
  <2>2. CASE p = next
    <3>1. ~ (p < next) /\ p < next + 1
      BY <1>1, <2>2
    <3>2. \A k \in DOMAIN box : ~ Names(box[k], p) /\ box[k] # Destroyed(p)
      BY <2>1, <3>1 DEF Ordered
    <3>3. Destroyed(p) \notin Range(box)
      BY <3>2 DEF Range
    <3> QED
      BY <2>1, <3>1, <3>2, <3>3 DEF Ordered
  <2>3. CASE p # next
    <3>1. (p \in more <=> p \in alive) /\ (p < next => p < next + 1)
      BY <1>1, <2>3
    <3> HIDE DEF more
    <3> QED
      BY <2>1, <3>1 DEF Ordered
  <2> QED
    BY <2>2, <2>3
<1> QED
  BY <1>1, <1>2 DEF Box

LEMMA BoxMore ==
  ASSUME NEW alive, NEW next, NEW w, NEW box, NEW m \in Message,
         Box(alive, next, w, box), ~ IsReply(m),
         \A p \in Nat : /\ m # Destroyed(p) /\ (Names(m, p) => p \in alive)
                        /\ (m = Created(p) => m \notin Range(box))
  PROVE  Box(alive, next, w, Append(box, m))
<1> DEFINE b == Append(box, m)
<1>1. /\ box \in Seq(Message) /\ b \in Seq(Message)
      /\ \A k \in DOMAIN b : k \in DOMAIN box \/ b[k] = m
      /\ \A k \in DOMAIN box : b[k] = box[k]
      /\ Range(b) = Range(box) \cup {m}
  <2>1. box \in Seq(Message)
    BY DEF Box
  <2>2. /\ Len(box) \in Nat /\ DOMAIN box = 1 .. Len(box) /\ DOMAIN b = 1 .. Len(box) + 1
        /\ b[Len(box) + 1] = m /\ b \in Seq(Message)
        /\ \A k \in DOMAIN box : b[k] = box[k]
        /\ Range(b) = Range(box) \cup {m}
    BY <2>1, Appended
  <2> QED
    BY <2>1, <2>2
<1>2. \A p \in Nat : Ordered(p, alive, next, b)
  BY <1>1, OrderedMore DEF Box
<1> HIDE DEF b
<1>3. \A j, k \in DOMAIN b : IsReply(b[j]) /\ IsReply(b[k]) => j = k
  BY <1>1 DEF Box
<1>4. \A x \in Range(b) : IsReply(x) => x \in Range(box)
  BY <1>1
<1> QED
  BY <1>1, <1>2, <1>3, <1>4 DEF Box, b

LEMMA BoxDestroyed ==
  ASSUME NEW alive, NEW next, NEW w, NEW box, NEW q \in alive,
         Box(alive, next, w, box)
  PROVE  Box(alive \ {q}, next, w, Append(box, Destroyed(q)))
<1> DEFINE m == Destroyed(q)
           b == Append(box, m)
           less == alive \ {q}
<1>1. q \in Nat /\ m \in Message /\ ~ IsReply(m) /\ less \in SUBSET Nat
  BY Messages, Kinds DEF Box, IsReply
<1>2. /\ box \in Seq(Message) /\ b \in Seq(Message)
      /\ \A k \in DOMAIN b : k \in DOMAIN box \/ b[k] = m
      /\ \A k \in DOMAIN box : b[k] = box[k]
      /\ Range(b) = Range(box) \cup {m}
  <2>1. box \in Seq(Message)
    BY DEF Box
  <2>2. /\ Len(box) \in Nat /\ DOMAIN box = 1 .. Len(box) /\ DOMAIN b = 1 .. Len(box) + 1
        /\ b[Len(box) + 1] = m /\ b \in Seq(Message)
        /\ \A k \in DOMAIN box : b[k] = box[k]
        /\ Range(b) = Range(box) \cup {m}
    BY <1>1, <2>1, Appended
  <2> QED
    BY <2>1, <2>2
<1>3. ASSUME NEW p \in Nat PROVE Ordered(p, less, next, b)
  <2>1. Ordered(p, alive, next, box)
    BY DEF Box
  <2>2. CASE p = q
    BY <1>2, <2>1, <2>2, OrderedDestroyed
  <2>3. CASE p # q
    <3>1. m # Destroyed(p) /\ ~ Names(m, p) /\ m # Created(p)
      BY <2>3, Kinds DEF Names
    <3>2. Ordered(p, alive, next, b)
      BY <1>1, <1>2, <2>1, <3>1, OrderedMore
    <3>3. p \in less <=> p \in alive
      BY <2>3
    <3> HIDE DEF less, b
    <3> QED
      BY <3>2, <3>3 DEF Ordered
  <2> QED
    BY <2>2, <2>3
<1> HIDE DEF b
<1>4. \A j, k \in DOMAIN b : IsReply(b[j]) /\ IsReply(b[k]) => j = k
  BY <1>1, <1>2 DEF Box
<1>5. ASSUME NEW x \in Range(b), IsReply(x)
      PROVE  /\ w # NoCall
             /\ w \in Registering =>
                  \A p \in Range(x.ids) : p \in less \/ Destroyed(p) \in Range(b)
  <2>1. x \in Range(box)
    BY <1>1, <1>2, <1>5
  <2> QED
    BY <1>2, <1>5, <2>1 DEF Box
<1> QED
  BY <1>1, <1>2, <1>3, <1>4, <1>5 DEF Box, b

LEMMA BoxReplied ==
  ASSUME NEW alive, NEW next, NEW w, NEW box, NEW m \in Message,
         Box(alive, next, w, box), IsReply(m), Silent(box), w # NoCall,
         w \in Registering => Range(m.ids) \subseteq alive
  PROVE  Box(alive, next, w, Append(box, m))
<1> DEFINE b == Append(box, m)
<1>1. /\ box \in Seq(Message) /\ b \in Seq(Message)
      /\ \A k \in DOMAIN b : k \in DOMAIN box \/ k = Len(box) + 1
      /\ \A k \in DOMAIN box : b[k] = box[k] /\ box[k] \in Range(box)
      /\ Range(b) = Range(box) \cup {m}
  <2>1. box \in Seq(Message)
    BY DEF Box
  <2>2. /\ Len(box) \in Nat /\ DOMAIN box = 1 .. Len(box) /\ DOMAIN b = 1 .. Len(box) + 1
        /\ b[Len(box) + 1] = m /\ b \in Seq(Message)
        /\ \A k \in DOMAIN box : b[k] = box[k]
        /\ Range(b) = Range(box) \cup {m}
    BY <2>1, Appended
  <2>3. \A k \in DOMAIN b : k \in DOMAIN box \/ k = Len(box) + 1
    BY <2>2
  <2>4. \A k \in DOMAIN box : box[k] \in Range(box)
    BY DEF Range
  <2> QED
    BY <2>1, <2>2, <2>3, <2>4
<1>2. ASSUME NEW p \in Nat PROVE Ordered(p, alive, next, b)
  <2>1. m # Destroyed(p) /\ ~ Names(m, p) /\ m # Created(p)
    BY Kinds DEF Names, IsReply
  <2> QED
    BY <1>1, <2>1, OrderedMore DEF Box
<1> HIDE DEF b
<1>3. \A j, k \in DOMAIN b : IsReply(b[j]) /\ IsReply(b[k]) => j = k
  BY <1>1 DEF Silent
<1>4. \A x \in Range(b) : IsReply(x) => x = m
  BY <1>1 DEF Silent
<1> QED
  BY <1>1, <1>2, <1>3, <1>4 DEF Box, b

LEMMA BoxTail ==
  ASSUME NEW alive, NEW next, NEW box, box # <<>>, Box(alive, next, NoCall, box)
  PROVE  Silent(box) /\ Box(alive, next, NoCall, Tail(box))
<1>1. Silent(box)
  BY DEF Silent, Box
<1>2. /\ box \in Seq(Message) /\ Tail(box) \in Seq(Message)
      /\ Range(box) = Range(Tail(box)) \cup {Head(box)}
  <2>1. box \in Seq(Message)
    BY DEF Box
  <2> QED
    BY <2>1, TailRange
<1>3. \A p \in Nat : Ordered(p, alive, next, Tail(box))
  BY <1>2, OrderedTail DEF Box
<1>4. \A x \in Range(Tail(box)) : ~ IsReply(x)
  BY <1>1, <1>2 DEF Silent
<1>5. \A k \in DOMAIN Tail(box) : Tail(box)[k] \in Range(Tail(box))
  BY DEF Range
<1> QED
  BY <1>1, <1>2, <1>3, <1>4, <1>5 DEF Box

LEMMA BoxRemoved ==
  ASSUME NEW alive, NEW next, NEW w, NEW box, NEW i \in DOMAIN box,
         IsReply(box[i]), Box(alive, next, w, box)
  PROVE  /\ Silent(RemoveAt(box, i))
         /\ \A v : Box(alive, next, v, RemoveAt(box, i))
<1> DEFINE b == RemoveAt(box, i)
<1>1. /\ box \in Seq(Message) /\ b \in Seq(Message)
      /\ \A k \in DOMAIN b : \E j \in DOMAIN box : j # i /\ b[k] = box[j]
  <2>1. box \in Seq(Message)
    BY DEF Box
  <2>2. /\ b \in Seq(Message) /\ Len(box) \in Nat /\ DOMAIN box = 1 .. Len(box)
        /\ DOMAIN b = 1 .. Len(box) - 1
        /\ \A k \in 1 .. Len(box) - 1 : b[k] = IF k < i THEN box[k] ELSE box[k + 1]
    BY <2>1, Removed
  <2> HIDE DEF b
  <2>3. ASSUME NEW k \in DOMAIN b PROVE \E j \in DOMAIN box : j # i /\ b[k] = box[j]
    <3>1. CASE k < i
      <4>1. k \in DOMAIN box /\ k # i /\ b[k] = box[k]
        BY <2>2, <3>1
      <4> QED
        BY <4>1
    <3>2. CASE ~ (k < i)
      <4>1. k + 1 \in DOMAIN box /\ k + 1 # i /\ b[k] = box[k + 1]
        BY <2>2, <3>2
      <4> QED
        BY <4>1
    <3> QED
      BY <3>1, <3>2
  <2> QED
    BY <2>1, <2>2, <2>3
<1>2. \A p \in Nat : Ordered(p, alive, next, b)
  BY <1>1, OrderedRemoved DEF Box, IsReply
<1> HIDE DEF b
<1>3. \A k \in DOMAIN b : ~ IsReply(b[k])
  BY <1>1 DEF Box
<1>4. Silent(b)
  BY <1>3 DEF Silent, Range
<1> QED
  BY <1>1, <1>2, <1>3, <1>4 DEF Box, Silent, b

LEMMA BoxWaits ==
  ASSUME NEW alive, NEW next, NEW w, NEW v, NEW box, Silent(box),
         Box(alive, next, w, box)
  PROVE  Box(alive, next, v, box)
BY DEF Box, Silent

-----------------------------------------------------------------------------
(* The table of an application.                                            *)

Table(t) == t \in Seq(Nat) /\ IsInjective(t)

LEMMA RegisteredOne ==
  ASSUME NEW t, NEW p \in Nat, Table(t)
  PROVE  /\ Table(register_playlist(t, p))
         /\ Range(register_playlist(t, p)) = Range(t) \cup {p}
<1>1. CASE p \in Range(t)
  BY <1>1 DEF register_playlist
<1>2. CASE p \notin Range(t)
  <2> DEFINE r == Append(t, p)
  <2>1. register_playlist(t, p) = r
    BY <1>2 DEF register_playlist
  <2>2. /\ r \in Seq(Nat) /\ Len(t) \in Nat /\ DOMAIN t = 1 .. Len(t)
        /\ DOMAIN r = 1 .. Len(t) + 1 /\ \A k \in DOMAIN t : r[k] = t[k]
        /\ r[Len(t) + 1] = p /\ Range(r) = Range(t) \cup {p}
    BY Appended DEF Table
  <2> HIDE DEF r
  <2>3. \A k \in DOMAIN r : (k \in DOMAIN t /\ r[k] = t[k] /\ r[k] # p) \/ (k = Len(t) + 1)
    <3>1. \A k \in DOMAIN t : t[k] # p
      BY <1>2 DEF Range
    <3> QED
      BY <2>2, <3>1
  <2>4. IsInjective(r)
    BY <2>2, <2>3 DEF Table, IsInjective
  <2> QED
    BY <2>1, <2>2, <2>4 DEF Table
<1> QED
  BY <1>1, <1>2

(* The tables after each of the first n of the ids.                        *)
Progress(t, ids, n, f) ==
  f = [i \in 0 .. n |-> IF i = 0 THEN t ELSE register_playlist(f[i - 1], ids[i])]

LEMMA RegisteringExists ==
  ASSUME NEW t, NEW ids, NEW n \in Nat
  PROVE  \E f : Progress(t, ids, n, f)
<1> DEFINE T == {m \in Nat : ~ \E f : Progress(t, ids, m, f)}
<1> SUFFICES ASSUME T # {} PROVE FALSE
  OBVIOUS
<1>1. T \subseteq Nat
  OBVIOUS
<1>2. \E m \in T : \A k \in T : <<k, m>> \notin OpToRel(<, Nat)
  BY <1>1, WFMin, NatLessThanWellFounded
<1>3. PICK m \in T : \A k \in T : ~ (k < m)
  BY <1>1, <1>2 DEF OpToRel
<1>4. m \in Nat /\ ~ \E f : Progress(t, ids, m, f)
  OBVIOUS
<1>5. CASE m = 0
  <2> DEFINE f == [i \in 0 .. 0 |-> t]
  <2>1. f = [i \in 0 .. 0 |-> IF i = 0 THEN t ELSE register_playlist(f[i - 1], ids[i])]
    OBVIOUS
  <2> QED
    BY <1>4, <1>5, <2>1 DEF Progress
<1>6. CASE m # 0
  <2>1. m - 1 \in Nat /\ m - 1 \notin T
    BY <1>3, <1>4, <1>6
  <2>2. PICK g : Progress(t, ids, m - 1, g)
    BY <2>1
  <2> DEFINE f == [i \in 0 .. m |-> IF i = 0 THEN t ELSE register_playlist(g[i - 1], ids[i])]
  <2>3. ASSUME NEW i \in 0 .. m, i # 0 PROVE f[i - 1] = g[i - 1]
    <3>1. i - 1 \in 0 .. m /\ i - 1 \in 0 .. (m - 1)
      BY <1>4, <2>3
    <3>2. g[i - 1] = IF i - 1 = 0 THEN t
                     ELSE register_playlist(g[(i - 1) - 1], ids[i - 1])
      BY <2>2, <3>1 DEF Progress
    <3>3. f[i - 1] = IF i - 1 = 0 THEN t
                     ELSE register_playlist(g[(i - 1) - 1], ids[i - 1])
      BY <3>1
    <3> QED
      BY <3>2, <3>3
  <2>4. f = [i \in 0 .. m |-> IF i = 0 THEN t ELSE register_playlist(f[i - 1], ids[i])]
    BY <2>3
  <2> QED
    BY <1>4, <2>4 DEF Progress
<1> QED
  BY <1>5, <1>6

LEMMA RegisteredAll ==
  ASSUME NEW t, NEW ids \in Seq(Nat), Table(t)
  PROVE  /\ Table(Registered(t, ids))
         /\ Range(Registered(t, ids)) = Range(t) \cup Range(ids)
<1> DEFINE f == CHOOSE f : Progress(t, ids, Len(ids), f)
           First(n) == {ids[k] : k \in 1 .. n}
           T == {n \in 0 .. Len(ids) : ~ (/\ Table(f[n])
                                          /\ Range(f[n]) = Range(t) \cup First(n))}
<1>1. Len(ids) \in Nat /\ DOMAIN ids = 1 .. Len(ids)
  OBVIOUS
<1>2. Progress(t, ids, Len(ids), f)
  <2>1. \E g : Progress(t, ids, Len(ids), g)
    BY <1>1, RegisteringExists
  <2> QED
    BY <2>1, Zenon
<1>3. Registered(t, ids) = f[Len(ids)]
  BY DEF Registered, Progress
<1> HIDE DEF f
<1>4. \A n \in 0 .. Len(ids) : f[n] = IF n = 0 THEN t ELSE register_playlist(f[n - 1], ids[n])
  BY <1>2 DEF Progress
<1>5. T = {}
  <2> SUFFICES ASSUME T # {} PROVE FALSE
    OBVIOUS
  <2>1. T \subseteq Nat
    BY <1>1
  <2>2. \E m \in T : \A k \in T : <<k, m>> \notin OpToRel(<, Nat)
    BY <2>1, WFMin, NatLessThanWellFounded
  <2>3. PICK m \in T : \A k \in T : ~ (k < m)
    BY <2>1, <2>2 DEF OpToRel
  <2>4. m \in 0 .. Len(ids) /\ ~ (Table(f[m]) /\ Range(f[m]) = Range(t) \cup First(m))
    OBVIOUS
  <2>5. CASE m = 0
    <3>1. f[m] = t /\ First(m) = {}
      BY <1>1, <1>4, <2>4, <2>5
    <3> QED
      BY <2>4, <3>1
  <2>6. CASE m # 0
    <3>1. m - 1 \in 0 .. Len(ids) /\ m - 1 < m /\ m \in 1 .. Len(ids)
      BY <1>1, <2>4, <2>6
    <3>2. Table(f[m - 1]) /\ Range(f[m - 1]) = Range(t) \cup First(m - 1)
      BY <2>3, <3>1
    <3>3. f[m] = register_playlist(f[m - 1], ids[m]) /\ ids[m] \in Nat
      BY <1>1, <1>4, <2>4, <2>6, <3>1, ElementOfSeq
    <3>4. First(m) = First(m - 1) \cup {ids[m]}
      <4>1. \A k : k \in 1 .. m <=> k \in 1 .. m - 1 \/ k = m
        BY <3>1, <1>1
      <4> QED
        BY <4>1
    <3>5. Table(f[m]) /\ Range(f[m]) = Range(f[m - 1]) \cup {ids[m]}
      BY <3>2, <3>3, RegisteredOne
    <3> HIDE DEF First
    <3> QED
      BY <2>4, <3>2, <3>4, <3>5
  <2> QED
    BY <2>5, <2>6
<1>6. Len(ids) \in 0 .. Len(ids)
  BY <1>1
<1>7. Table(f[Len(ids)]) /\ Range(f[Len(ids)]) = Range(t) \cup First(Len(ids))
  BY <1>5, <1>6
<1>8. First(Len(ids)) = Range(ids)
  BY <1>1 DEF Range
<1> QED
  BY <1>3, <1>7, <1>8

LEMMA UnregisteredOne ==
  ASSUME NEW t, NEW p \in Nat, Table(t)
  PROVE  /\ Table(Unregistered(t, p))
         /\ Range(Unregistered(t, p)) = Range(t) \ {p}
<1>1. CASE p \notin Range(t)
  BY <1>1 DEF Unregistered
<1>2. CASE p \in Range(t)
  <2>1. PICK i \in DOMAIN t : t[i] = p
    BY <1>2 DEF Range
  <2>2. \A k \in DOMAIN t : t[k] = p => k = i
    BY <2>1 DEF Table, IsInjective
  <2>3. {k \in DOMAIN t : t[k] = p} = {i}
    BY <2>1, <2>2
  <2> DEFINE r == RemoveAt(t, i)
  <2>4. /\ r \in Seq(Nat) /\ Len(t) \in Nat /\ DOMAIN t = 1 .. Len(t)
        /\ DOMAIN r = 1 .. Len(t) - 1
        /\ \A k \in 1 .. Len(t) - 1 : r[k] = IF k < i THEN t[k] ELSE t[k + 1]
        /\ Range(t) = Range(r) \cup {p}
    BY <2>1, Removed, RemovedRange DEF Table
  <2>5. Min({i}) = i
    <3>1. i <= i
      BY <2>4
    <3>2. (CHOOSE x \in {i} : \A y \in {i} : x <= y) = i
      BY <3>1
    <3> QED
      BY <3>2 DEF Min
  <2>6. Unregistered(t, p) = r
    BY <1>2, <2>3, <2>5 DEF Unregistered
  <2> DEFINE At(k) == IF k < i THEN k ELSE k + 1
  <2> HIDE DEF r
  <2>9. i \in 1 .. Len(t)
    BY <2>1, <2>4
  <2>10. \A k \in DOMAIN r : At(k) \in DOMAIN t /\ At(k) # i /\ r[k] = t[At(k)]
    BY <2>4, <2>9
  <2>11. \A j, k \in DOMAIN r : At(j) = At(k) => j = k
    BY <2>4, <2>9
  <2> HIDE DEF At
  <2>7. IsInjective(r)
    BY <2>10, <2>11 DEF Table, IsInjective
  <2>8. p \notin Range(r)
    BY <2>2, <2>10 DEF Range
  <2> QED
    BY <2>4, <2>6, <2>7, <2>8 DEF Table
<1> QED
  BY <1>1, <1>2

-----------------------------------------------------------------------------
(* The invariant, until the daemon is restarted.                           *)

Arg  == Nat \cup {NoList} \cup Base \cup Name \cup [id : Nat, name : Name]
Call == [app : App, op : Blocking \cup {"destroy"}, arg : Arg, reply : BOOLEAN]
Work == [app : App, uri : Arg, st : {"metadata", "dropped", "browse", "stopped"}]

Typed ==
  /\ lastId \in Nat /\ lastImport \in Nat
  /\ DOMAIN lists \in SUBSET Nat /\ DOMAIN imports \in SUBSET (0 .. lastImport)
  /\ \A i \in DOMAIN imports : imports[i] \in Work
  /\ calls \in Seq(Call) /\ inbox \in [App -> Seq(Message)]
  /\ waiting \in [App -> Blocking \cup {NoCall}]
  /\ table \in [App -> Seq(Nat)] /\ held \in [App -> SUBSET Nat]
  /\ requests \in [App -> SUBSET Nat] /\ cancelled \in [App -> SUBSET Nat]
  /\ told \in [App -> [{"created", "destroyed"} -> [Id -> Nat]]]
  /\ answers \in [App -> [ImportId -> Nat]]

Boxes == \A a \in App : Box(DOMAIN lists, lastId, waiting[a], inbox[a])

(* An application is answered the call it waits in, once.                  *)
Blocked ==
  /\ \A k \in DOMAIN calls : calls[k].reply =>
       /\ calls[k].op \in Blocking /\ waiting[calls[k].app] = calls[k].op
       /\ Silent(inbox[calls[k].app])
  /\ \A j, k \in DOMAIN calls :
       calls[j].reply /\ calls[k].reply /\ calls[j].app = calls[k].app => j = k

KeepsAlive(alive, box, t) ==
  Table(t) /\ \A p \in Range(t) : p \in alive \/ Destroyed(p) \in box
Kept == \A a \in App : KeepsAlive(DOMAIN lists, Range(inbox[a]), table[a])

(* c and d: how often the application was told that p was made and gone;   *)
(* what it has a reference to is in its table, or it was told.             *)
Heard(p, c, d, alive, next, box, t, h) ==
  /\ c \in {0, 1} /\ (c = 1 => p < next /\ Created(p) \notin box)
  /\ p \in alive \ DOMAIN Loaded => c = 1 \/ Created(p) \in box
  /\ d \in {0, 1} /\ (d = 1 => p < next /\ p \notin alive /\ Destroyed(p) \notin box)
  /\ p \in h => p \in t \/ d = 1
ToldRight == \A a \in App, p \in Id :
  Heard(p, told[a]["created"][p], told[a]["destroyed"][p], DOMAIN lists, lastId,
        Range(inbox[a]), Range(table[a]), held[a])

(* An import is asked for by the application that has its id or is about   *)
(* to be given it, and by no other.                                        *)
Offers(box, i)  == \E m \in box : IsReply(m) /\ i \in Range(m.ids)
Tells(box, i)   == \E m \in box : m.what = "imported" /\ m.import = i
Promised(w, box, i) == w = "import" /\ Offers(box, i)
Asks(a, i)      == i \in requests[a] \/ Promised(waiting[a], Range(inbox[a]), i)
Knows(a, i)     == Asks(a, i) \/ i \in cancelled[a]
WorkedOn(a, i)  == i \in DOMAIN imports /\ imports[i].app = a /\ imports[i].st \in {"metadata", "browse"}

Owned ==
  /\ \A a \in App, i \in Nat : Knows(a, i) => i <= lastImport
  /\ \A a, b \in App : \A i \in Nat : Knows(a, i) /\ Knows(b, i) => a = b
  /\ \A k \in DOMAIN calls : calls[k].op = "cancel" => calls[k].arg \in cancelled[calls[k].app]
Awaited == \A a \in App, i \in Nat :
  /\ Asks(a, i) => i \notin cancelled[a] /\ (WorkedOn(a, i) \/ Tells(Range(inbox[a]), i))
  /\ i \in requests[a] => ~ Promised(waiting[a], Range(inbox[a]), i)
Counted == \A a \in App, i \in ImportId :
  /\ answers[a][i] <= 1 /\ (answers[a][i] # 0 => i <= lastImport)
  /\ Knows(a, i) => answers[a][i] = 0

Orderly ==
  Typed /\ Boxes /\ Blocked /\ Kept /\ ToldRight /\ Owned /\ Awaited /\ Counted
Inv == starts \in Nat /\ (starts = 0 => Orderly)

-----------------------------------------------------------------------------
(* Lemmas about the parts.                                                 *)

LEMMA Constants ==
  /\ MaxCalls \in Nat /\ NoList \notin Nat /\ NoCall \notin Blocking
  /\ Id \subseteq Nat /\ ImportId \subseteq Nat
<1>1. \A m : 1 .. m \subseteq Nat
  OBVIOUS
<1> QED
  BY <1>1, ManagerConstants DEF Id, ImportId

LEMMA MinOfTwo == Min({0 + 1, 2}) = 1
<1>1. 0 + 1 = 1 /\ {0 + 1, 2} = {1, 2} /\ 1 <= 2 /\ 1 <= 1 /\ ~ (2 <= 1)
  OBVIOUS
<1>2. (CHOOSE x \in {1, 2} : \A y \in {1, 2} : x <= y) = 1
  BY <1>1
<1> QED
  BY <1>1, <1>2 DEF Min

(* The playlist with the next id is made.                                  *)
LEMMA KeepsMore ==
  ASSUME NEW alive, NEW more, NEW box, NEW crate, NEW t, KeepsAlive(alive, box, t),
         alive \subseteq more, box \subseteq crate
  PROVE  KeepsAlive(more, crate, t)
BY DEF KeepsAlive

LEMMA HeardSame ==
  ASSUME NEW p, NEW c, NEW d, NEW alive, NEW more, NEW next, NEW later \in Nat, NEW box, NEW crate,
         NEW t, NEW h, Heard(p, c, d, alive, next, box, t, h),
         p \in more <=> p \in alive, next \in Nat, p \in Nat, next <= later,
         Created(p) \in crate <=> Created(p) \in box,
         Destroyed(p) \in crate <=> Destroyed(p) \in box
  PROVE  Heard(p, c, d, more, later, crate, t, h)
<1>1. p < next => p < later
  OBVIOUS
<1> QED
  BY <1>1 DEF Heard

LEMMA HeardMade ==
  ASSUME NEW p \in Nat, NEW c, NEW d, NEW alive, NEW more, NEW box, NEW crate,
         NEW t, NEW h, Heard(p, c, d, alive, p, box, t, h), Created(p) \in crate
  PROVE  Heard(p, c, d, more, p + 1, crate, t, h)
<1>1. ~ (p < p) /\ p < p + 1
  OBVIOUS
<1> QED
  BY <1>1 DEF Heard

LEMMA HeardDestroyed ==
  ASSUME NEW p \in Nat, NEW c, NEW d, NEW alive, NEW next, NEW box, NEW crate,
         NEW t, NEW h, Heard(p, c, d, alive, next, box, t, h), p \in alive,
         Created(p) \in crate <=> Created(p) \in box
  PROVE  Heard(p, c, d, alive \ {p}, next, crate, t, h)
BY DEF Heard

-----------------------------------------------------------------------------
(* What the daemon sends.                                                  *)

Mailboxes == [App -> Seq(Message)]

LEMMA BroadcastTo ==
  ASSUME NEW boxes \in Mailboxes, NEW m \in Message
  PROVE  /\ Broadcast(boxes, m) \in Mailboxes
         /\ \A a \in App : /\ Broadcast(boxes, m)[a] = Append(boxes[a], m)
                           /\ Range(Broadcast(boxes, m)[a]) = Range(boxes[a]) \cup {m}
<1>1. \A a \in App : boxes[a] \in Seq(Message)
  BY DEF Mailboxes
<1>2. \A a \in App : Append(boxes[a], m) \in Seq(Message)
                     /\ Range(Append(boxes[a], m)) = Range(boxes[a]) \cup {m}
  BY <1>1, Appended
<1>3. Broadcast(boxes, m) = [a \in App |-> Append(boxes[a], m)]
  BY DEF Broadcast
<1> QED
  BY <1>2, <1>3 DEF Mailboxes

LEMMA SentTo ==
  ASSUME NEW boxes \in Mailboxes, NEW m \in Message, NEW b
  PROVE  /\ ToApp(boxes, b, m) \in Mailboxes
         /\ \A a \in App : a # b => ToApp(boxes, b, m)[a] = boxes[a]
         /\ b \in App => /\ ToApp(boxes, b, m)[b] = Append(boxes[b], m)
                         /\ Range(ToApp(boxes, b, m)[b]) = Range(boxes[b]) \cup {m}
<1>1. \A a \in App : boxes[a] \in Seq(Message)
  BY DEF Mailboxes
<1>2. \A a \in App : Append(boxes[a], m) \in Seq(Message)
                     /\ Range(Append(boxes[a], m)) = Range(boxes[a]) \cup {m}
  BY <1>1, Appended
<1>3. ToApp(boxes, b, m) = [boxes EXCEPT ![b] = Append(boxes[b], m)]
  BY DEF ToApp
<1> QED
  BY <1>1, <1>2, <1>3 DEF Mailboxes

LEMMA AnswerTo ==
  ASSUME NEW boxes \in Mailboxes, NEW m \in Message, NEW c \in Call
  PROVE  /\ Answer(boxes, c, m) \in Mailboxes
         /\ \A a \in App : ~ (c.reply /\ a = c.app) => Answer(boxes, c, m)[a] = boxes[a]
         /\ c.reply => /\ Answer(boxes, c, m)[c.app] = Append(boxes[c.app], m)
                       /\ Range(Answer(boxes, c, m)[c.app]) = Range(boxes[c.app]) \cup {m}
<1>1. c.app \in App /\ c.reply \in BOOLEAN
  BY DEF Call
<1>2. CASE c.reply
  <2>1. Answer(boxes, c, m) = ToApp(boxes, c.app, m)
    BY <1>2 DEF Answer
  <2>2. ToApp(boxes, c.app, m) \in Mailboxes
    BY SentTo
  <2>3. \A a \in App : a # c.app => ToApp(boxes, c.app, m)[a] = boxes[a]
    BY SentTo
  <2>4. ToApp(boxes, c.app, m)[c.app] = Append(boxes[c.app], m)
    BY <1>1, SentTo
  <2>5. Range(ToApp(boxes, c.app, m)[c.app]) = Range(boxes[c.app]) \cup {m}
    BY <1>1, SentTo
  <2> QED
    BY <1>2, <2>1, <2>2, <2>3, <2>4, <2>5
<1>3. CASE ~ c.reply
  BY <1>3 DEF Answer
<1> QED
  BY <1>2, <1>3

LEMMA HeadOfCalls ==
  ASSUME Orderly, calls # <<>>
  PROVE  LET c == Head(calls) IN
         /\ c \in Call /\ c = calls[1] /\ 1 \in DOMAIN calls
         /\ c.reply => /\ c.op \in Blocking /\ waiting[c.app] = c.op /\ waiting[c.app] # NoCall
                       /\ Silent(inbox[c.app])
<1>1. calls \in Seq(Call)
  BY DEF Orderly, Typed
<1>2. Head(calls) \in Call /\ Head(calls) = calls[1] /\ 1 \in DOMAIN calls
  <2>1. /\ Head(calls) \in Call /\ Head(calls) = calls[1]
        /\ Len(calls) \in Nat \ {0} /\ DOMAIN calls = 1 .. Len(calls)
    BY <1>1, TailRange
  <2> QED
    BY <2>1
<1> QED
  BY <1>2, Constants DEF Orderly, Blocked

(* An answer to the call that is served.                                   *)
LEMMA BoxAnswered ==
  ASSUME Orderly, calls # <<>>, NEW alive, NEW next, NEW boxes \in Mailboxes,
         NEW m \in Message, IsReply(m),
         Head(calls).op \in Registering => Range(m.ids) \subseteq alive,
         \A a \in App : /\ Box(alive, next, waiting[a], boxes[a])
                        /\ Silent(inbox[a]) => Silent(boxes[a]),
         NEW a \in App
  PROVE  Box(alive, next, waiting[a], Answer(boxes, Head(calls), m)[a])
<1> DEFINE c == Head(calls)
<1>1. /\ c \in Call
      /\ c.reply => /\ waiting[c.app] = c.op /\ waiting[c.app] # NoCall
                    /\ Silent(inbox[c.app])
  BY HeadOfCalls
<1> HIDE DEF c
<1>2. CASE c.reply /\ a = c.app
  <2>1. Answer(boxes, c, m)[a] = Append(boxes[a], m)
    BY <1>1, <1>2, AnswerTo
  <2> QED
    BY <1>1, <1>2, <2>1, BoxReplied DEF c
<1>3. CASE ~ (c.reply /\ a = c.app)
  BY <1>1, <1>3, AnswerTo DEF c
<1> QED
  BY <1>2, <1>3

LEMMA BlockedServed ==
  ASSUME Orderly, calls # <<>>, calls' = Tail(calls), waiting' = waiting,
         \A a \in App : Silent(inbox[a]) /\ ~ (Head(calls).reply /\ Head(calls).app = a)
                          => Silent(inbox'[a])
  PROVE  Blocked' /\ calls' \in Seq(Call) /\ Range(calls') \subseteq Range(calls)
<1>1. calls \in Seq(Call)
  BY DEF Orderly, Typed
<1>2. /\ Tail(calls) \in Seq(Call) /\ Head(calls) = calls[1]
      /\ Len(calls) \in Nat \ {0} /\ DOMAIN calls = 1 .. Len(calls)
      /\ DOMAIN Tail(calls) = 1 .. Len(calls) - 1
      /\ \A k \in 1 .. Len(calls) - 1 : Tail(calls)[k] = calls[k + 1]
      /\ Range(calls) = Range(Tail(calls)) \cup {Head(calls)}
  BY <1>1, TailRange
<1>3. \A k \in DOMAIN calls' : /\ k + 1 \in DOMAIN calls /\ calls'[k] = calls[k + 1]
                               /\ k + 1 # 1
  BY <1>2
<1>4. \A j, k \in DOMAIN calls' : j + 1 = k + 1 => j = k
  BY <1>2
<1>5. 1 \in DOMAIN calls /\ \A k \in DOMAIN calls : calls[k].app \in App
  <2>1. \A k \in DOMAIN calls : calls[k] \in Call
    BY <1>1, ElementOfSeq
  <2> QED
    BY <1>2, <2>1 DEF Call
<1>6. ASSUME NEW k \in DOMAIN calls', calls'[k].reply
      PROVE  /\ calls'[k].op \in Blocking /\ waiting'[calls'[k].app] = calls'[k].op
             /\ Silent(inbox'[calls'[k].app])
  <2>1. /\ k + 1 \in DOMAIN calls /\ calls[k + 1].reply /\ k + 1 # 1
        /\ calls'[k] = calls[k + 1]
    BY <1>3, <1>6
  <2>2. /\ calls[k + 1].op \in Blocking /\ waiting[calls[k + 1].app] = calls[k + 1].op
        /\ Silent(inbox[calls[k + 1].app])
    BY <2>1 DEF Orderly, Blocked
  <2>3. ~ (Head(calls).reply /\ Head(calls).app = calls[k + 1].app)
    BY <1>2, <1>5, <2>1 DEF Orderly, Blocked
  <2> QED
    BY <1>5, <2>1, <2>2, <2>3
<1>7. ASSUME NEW j \in DOMAIN calls', NEW k \in DOMAIN calls',
             calls'[j].reply, calls'[k].reply, calls'[j].app = calls'[k].app
      PROVE  j = k
  BY <1>3, <1>4, <1>7 DEF Orderly, Blocked
<1> QED
  BY <1>2, <1>6, <1>7 DEF Blocked

-----------------------------------------------------------------------------
(* What a step of the daemon means to the applications.                    *)

(* Created(p) and Destroyed(p) are on their way where they were before, and *)
(* those of more and less besides.                                         *)
Word(more, less) ==
  \A a \in App, p \in Nat :
    /\ Created(p) \in Range(inbox'[a]) <=> Created(p) \in Range(inbox[a]) \/ p \in more
    /\ Destroyed(p) \in Range(inbox'[a]) <=> Destroyed(p) \in Range(inbox[a]) \/ p \in less

LEMMA WordQuiet ==
  ASSUME Orderly, Word({}, {}), UNCHANGED <<lists, lastId, table, held, told>>
  PROVE  Kept' /\ ToldRight'
<1>1. /\ lastId \in Nat /\ lastId <= lastId /\ \A a \in App : Range(table[a]) \subseteq Nat
  BY InBox DEF Orderly, Typed
<1>2. \A a \in App : KeepsAlive(DOMAIN lists, Range(inbox'[a]), table[a])
  BY <1>1 DEF Orderly, Kept, KeepsAlive, Word
<1>3. ASSUME NEW a \in App, NEW p \in Id
      PROVE  Heard(p, told[a]["created"][p], told[a]["destroyed"][p], DOMAIN lists, lastId,
                   Range(inbox'[a]), Range(table[a]), held[a])
  <2>1. p \in Nat
    BY Constants
  <2>2. /\ Created(p) \in Range(inbox'[a]) <=> Created(p) \in Range(inbox[a])
        /\ Destroyed(p) \in Range(inbox'[a]) <=> Destroyed(p) \in Range(inbox[a])
    BY <2>1 DEF Word
  <2>3. Heard(p, told[a]["created"][p], told[a]["destroyed"][p], DOMAIN lists, lastId,
              Range(inbox[a]), Range(table[a]), held[a])
    BY DEF Orderly, ToldRight
  <2> QED
    BY <1>1, <2>1, <2>2, <2>3, HeardSame
<1> QED
  BY <1>2, <1>3 DEF Kept, ToldRight

LEMMA WordMade ==
  ASSUME Orderly, Word({lastId}, {}), DOMAIN lists' = DOMAIN lists \cup {lastId},
         lastId' = lastId + 1, UNCHANGED <<table, held, told>>
  PROVE  Kept' /\ ToldRight'
<1>1. /\ lastId \in Nat /\ lastId + 1 \in Nat /\ lastId <= lastId + 1
      /\ \A a \in App : Range(table[a]) \subseteq Nat
  BY InBox DEF Orderly, Typed
<1>2. \A a \in App : KeepsAlive(DOMAIN lists', Range(inbox'[a]), table[a])
  BY <1>1 DEF Orderly, Kept, KeepsAlive, Word
<1>3. ASSUME NEW a \in App, NEW p \in Id
      PROVE  Heard(p, told[a]["created"][p], told[a]["destroyed"][p], DOMAIN lists', lastId + 1,
                   Range(inbox'[a]), Range(table[a]), held[a])
  <2>1. p \in Nat
    BY Constants
  <2>2. Heard(p, told[a]["created"][p], told[a]["destroyed"][p], DOMAIN lists, lastId,
              Range(inbox[a]), Range(table[a]), held[a])
    BY DEF Orderly, ToldRight
  <2>3. CASE p = lastId
    <3>1. Created(p) \in Range(inbox'[a])
      BY <2>1, <2>3 DEF Word
    <3> QED
      BY <2>1, <2>2, <2>3, <3>1, HeardMade
  <2>4. CASE p # lastId
    <3>1. /\ Created(p) \in Range(inbox'[a]) <=> Created(p) \in Range(inbox[a])
          /\ Destroyed(p) \in Range(inbox'[a]) <=> Destroyed(p) \in Range(inbox[a])
          /\ p \in DOMAIN lists' <=> p \in DOMAIN lists
      BY <2>1, <2>4 DEF Word
    <3> QED
      BY <1>1, <2>1, <2>2, <3>1, HeardSame
  <2> QED
    BY <2>3, <2>4
<1> QED
  BY <1>2, <1>3 DEF Kept, ToldRight

LEMMA WordDestroyed ==
  ASSUME Orderly, NEW q \in DOMAIN lists, Word({}, {q}),
         DOMAIN lists' = DOMAIN lists \ {q}, UNCHANGED <<lastId, table, held, told>>
  PROVE  Kept' /\ ToldRight'
<1>1. /\ lastId \in Nat /\ lastId <= lastId /\ q \in Nat
      /\ \A a \in App : Range(table[a]) \subseteq Nat
  BY InBox DEF Orderly, Typed
<1>2. \A a \in App : KeepsAlive(DOMAIN lists', Range(inbox'[a]), table[a])
  BY <1>1 DEF Orderly, Kept, KeepsAlive, Word
<1>3. ASSUME NEW a \in App, NEW p \in Id
      PROVE  Heard(p, told[a]["created"][p], told[a]["destroyed"][p], DOMAIN lists', lastId,
                   Range(inbox'[a]), Range(table[a]), held[a])
  <2>1. p \in Nat
    BY Constants
  <2>2. Heard(p, told[a]["created"][p], told[a]["destroyed"][p], DOMAIN lists, lastId,
              Range(inbox[a]), Range(table[a]), held[a])
    BY DEF Orderly, ToldRight
  <2>3. Created(p) \in Range(inbox'[a]) <=> Created(p) \in Range(inbox[a])
    BY <2>1 DEF Word
  <2>4. CASE p = q
    BY <2>1, <2>2, <2>3, <2>4, HeardDestroyed
  <2>5. CASE p # q
    <3>1. /\ Destroyed(p) \in Range(inbox'[a]) <=> Destroyed(p) \in Range(inbox[a])
          /\ p \in DOMAIN lists' <=> p \in DOMAIN lists
      BY <2>1, <2>5 DEF Word
    <3> QED
      BY <1>1, <2>1, <2>2, <2>3, <3>1, HeardSame
  <2> QED
    BY <2>4, <2>5
<1> QED
  BY <1>2, <1>3 DEF Kept, ToldRight

(* No import is promised to anybody, and none is forgotten unanswered.     *)
LEMMA ImportsGoOn ==
  ASSUME Orderly, UNCHANGED <<requests, cancelled, waiting, answers>>,
         lastImport' \in Nat, lastImport <= lastImport', Range(calls') \subseteq Range(calls),
         \A a \in App, i \in Nat :
           /\ Promised(waiting[a], Range(inbox'[a]), i) => Promised(waiting[a], Range(inbox[a]), i)
           /\ Tells(Range(inbox[a]), i) => Tells(Range(inbox'[a]), i)
           /\ Asks(a, i) /\ WorkedOn(a, i) => WorkedOn(a, i)' \/ Tells(Range(inbox'[a]), i)
  PROVE  Owned' /\ Awaited' /\ Counted'
<1>1. \A a \in App, i \in Nat : (Asks(a, i)' => Asks(a, i)) /\ (Knows(a, i)' => Knows(a, i))
  BY DEF Asks, Knows
<1>2. lastImport \in Nat /\ ImportId \subseteq Nat
  BY Constants DEF Orderly, Typed
<1>3. \A i \in Nat : i <= lastImport => i <= lastImport'
  BY <1>2
<1>4. Owned'
  <2>1. \A a \in App, i \in Nat : Knows(a, i)' => i <= lastImport'
    BY <1>1, <1>3 DEF Orderly, Owned
  <2>2. \A a, b \in App : \A i \in Nat : Knows(a, i)' /\ Knows(b, i)' => a = b
    BY <1>1 DEF Orderly, Owned
  <2>3. ASSUME NEW k \in DOMAIN calls', calls'[k].op = "cancel"
        PROVE  calls'[k].arg \in cancelled'[calls'[k].app]
    <3>1. PICK j \in DOMAIN calls : calls[j] = calls'[k]
      BY DEF Range
    <3> QED
      BY <2>3, <3>1 DEF Orderly, Owned
  <2> QED
    BY <2>1, <2>2, <2>3 DEF Owned
<1>5. Awaited'
  <2> SUFFICES ASSUME NEW a \in App, NEW i \in Nat
               PROVE  /\ Asks(a, i)' => i \notin cancelled[a] /\ (WorkedOn(a, i)' \/ Tells(Range(inbox'[a]), i))
                      /\ i \in requests[a] => ~ Promised(waiting[a], Range(inbox'[a]), i)
    BY DEF Awaited
  <2> QED
    BY <1>1 DEF Orderly, Awaited
<1>6. Counted'
  BY <1>1, <1>2, <1>3 DEF Orderly, Counted
<1> QED
  BY <1>4, <1>5, <1>6

LEMMA BoxOf ==
  ASSUME Orderly, NEW a \in App
  PROVE  /\ Box(DOMAIN lists, lastId, waiting[a], inbox[a])
         /\ inbox \in Mailboxes /\ inbox[a] \in Seq(Message)
         /\ waiting[a] \in Blocking \cup {NoCall}
         /\ lastId \in Nat /\ DOMAIN lists \subseteq Nat /\ lastId \notin DOMAIN lists
<1>1. /\ Box(DOMAIN lists, lastId, waiting[a], inbox[a])
      /\ inbox \in Mailboxes /\ inbox[a] \in Seq(Message)
      /\ waiting[a] \in Blocking \cup {NoCall}
      /\ lastId \in Nat /\ DOMAIN lists \subseteq Nat
  BY DEF Orderly, Typed, Boxes, Mailboxes
<1>2. Ordered(lastId, DOMAIN lists, lastId, inbox[a]) /\ ~ (lastId < lastId)
  BY <1>1 DEF Box
<1>3. lastId \notin DOMAIN lists
  BY <1>2 DEF Ordered
<1> QED
  BY <1>1, <1>3

(* Nothing on its way names the next playlist.                             *)
LEMMA NextUnknown ==
  ASSUME NEW alive, NEW next, NEW w, NEW box, Box(alive, next, w, box)
  PROVE  \A x \in Range(box) : ~ Names(x, next) /\ x # Destroyed(next)
<1>1. next \in Nat /\ Ordered(next, alive, next, box) /\ ~ (next < next)
  BY DEF Box
<1>2. \A k \in DOMAIN box : ~ Names(box[k], next) /\ box[k] # Destroyed(next)
  BY <1>1 DEF Ordered
<1> QED
  BY <1>2 DEF Range

(* A playlist is made, and its application hears of the import first.      *)
LEMMA MadeBoxes ==
  ASSUME Orderly, NEW start \in Mailboxes, NEW a \in App,
         start[a] = inbox[a]
           \/ \E i \in Nat : start[a] = Append(inbox[a], Imported(i, lastId))
  PROVE  LET boxes == Broadcast(start, Created(lastId)) IN
         /\ Box(DOMAIN lists \cup {lastId}, lastId + 1, waiting[a], boxes[a])
         /\ Silent(inbox[a]) => Silent(boxes[a])
         /\ Range(boxes[a]) = Range(start[a]) \cup {Created(lastId)}
<1> DEFINE boxes == Broadcast(start, Created(lastId))
           more == DOMAIN lists \cup {lastId}
<1>1. /\ Box(DOMAIN lists, lastId, waiting[a], inbox[a]) /\ inbox[a] \in Seq(Message)
      /\ lastId \in Nat /\ DOMAIN lists \subseteq Nat
  BY BoxOf
<1>2. Box(more, lastId + 1, waiting[a], inbox[a])
  BY <1>1, BoxMade
<1>3. Created(lastId) \in Message /\ ~ IsReply(Created(lastId))
  BY <1>1, Messages, Kinds DEF IsReply
<1>4. boxes[a] = Append(start[a], Created(lastId))
      /\ Range(boxes[a]) = Range(start[a]) \cup {Created(lastId)}
  BY <1>3, BroadcastTo
<1>5. Created(lastId) \notin Range(inbox[a])
  <2>1. \A x \in Range(inbox[a]) : ~ Names(x, lastId)
    BY <1>1, NextUnknown
  <2> QED
    BY <2>1 DEF Names
<1>6. /\ Box(more, lastId + 1, waiting[a], start[a])
      /\ Created(lastId) \notin Range(start[a])
      /\ Silent(inbox[a]) => Silent(start[a])
  <2>1. CASE start[a] = inbox[a]
    BY <1>2, <1>5, <2>1
  <2>2. CASE \E i \in Nat : start[a] = Append(inbox[a], Imported(i, lastId))
    <3>1. PICK i \in Nat : start[a] = Append(inbox[a], Imported(i, lastId))
      BY <2>2
    <3> DEFINE m == Imported(i, lastId)
    <3>2. m \in Message /\ ~ IsReply(m) /\ m # Created(lastId)
      BY <1>1, Messages, Kinds DEF IsReply
    <3>3. \A p \in Nat : /\ m # Destroyed(p) /\ m # Created(p)
                         /\ Names(m, p) => p = lastId
      BY Kinds DEF Names
    <3> HIDE DEF m
    <3>4. \A p \in Nat : Names(m, p) => p \in more
      BY <3>3
    <3>5. Range(start[a]) = Range(inbox[a]) \cup {m}
      BY <1>1, <3>1, <3>2, Appended DEF m
    <3>6. Box(more, lastId + 1, waiting[a], Append(inbox[a], m))
      BY <1>2, <3>2, <3>3, <3>4, BoxMore
    <3> QED
      BY <1>5, <3>1, <3>2, <3>5, <3>6 DEF m, Silent
  <2> QED
    BY <2>1, <2>2
<1>7. \A p \in Nat : /\ Created(lastId) # Destroyed(p)
                     /\ Names(Created(lastId), p) => p \in more
  BY Kinds DEF Names
<1>8. Box(more, lastId + 1, waiting[a], Append(start[a], Created(lastId)))
  <2> DEFINE m == Created(lastId)
             box == start[a]
  <2>1. \A p \in Nat : /\ m # Destroyed(p) /\ (Names(m, p) => p \in more)
                       /\ (m = Created(p) => m \notin Range(box))
    BY <1>6, <1>7
  <2>2. m \in Message /\ ~ IsReply(m) /\ Box(more, lastId + 1, waiting[a], box)
    BY <1>3, <1>6
  <2> HIDE DEF m, box, more
  <2> QED
    BY <2>1, <2>2, BoxMore DEF m, box
<1> QED
  BY <1>3, <1>4, <1>6, <1>8 DEF Silent

(* The daemon answers the call it serves, after what it sent to boxes.     *)
LEMMA AnswerSent ==
  ASSUME Orderly, calls # <<>>, calls' = Tail(calls), waiting' = waiting,
         NEW boxes \in Mailboxes, NEW m \in Message, IsReply(m),
         inbox' = Answer(boxes, Head(calls), m),
         Head(calls).op \in Registering => Range(m.ids) \subseteq DOMAIN lists',
         \A a \in App : /\ Box(DOMAIN lists', lastId', waiting[a], boxes[a])
                        /\ Silent(inbox[a]) => Silent(boxes[a])
  PROVE  /\ inbox' \in Mailboxes /\ Boxes' /\ Blocked'
         /\ calls' \in Seq(Call) /\ Range(calls') \subseteq Range(calls)
         /\ \A a \in App : \/ Range(inbox'[a]) = Range(boxes[a])
                           \/ /\ Range(inbox'[a]) = Range(boxes[a]) \cup {m}
                              /\ Head(calls).reply /\ a = Head(calls).app
                              /\ waiting[a] = Head(calls).op
<1> DEFINE c == Head(calls)
<1>1. /\ c \in Call
      /\ c.reply => /\ waiting[c.app] = c.op /\ waiting[c.app] # NoCall
                    /\ Silent(inbox[c.app])
  BY HeadOfCalls
<1>2. /\ inbox' \in Mailboxes
      /\ \A a \in App : ~ (c.reply /\ a = c.app) => inbox'[a] = boxes[a]
      /\ c.reply => Range(inbox'[c.app]) = Range(boxes[c.app]) \cup {m}
  <2>1. c \in Call /\ inbox' = Answer(boxes, c, m)
    BY <1>1
  <2> HIDE DEF c
  <2>2. inbox' \in Mailboxes
    BY <2>1, AnswerTo
  <2>3. \A a \in App : ~ (c.reply /\ a = c.app) => inbox'[a] = boxes[a]
    BY <2>1, AnswerTo
  <2>4. c.reply => Range(Answer(boxes, c, m)[c.app]) = Range(boxes[c.app]) \cup {m}
    BY <2>1, AnswerTo, Zenon
  <2> QED
    BY <2>1, <2>2, <2>3, <2>4
<1>3. ASSUME NEW a \in App PROVE Box(DOMAIN lists', lastId', waiting[a], inbox'[a])
  BY BoxAnswered
<1>4. Boxes'
  BY <1>3 DEF Boxes
<1>5. \A a \in App : Silent(inbox[a]) /\ ~ (c.reply /\ c.app = a) => Silent(inbox'[a])
  BY <1>2
<1>6. Blocked' /\ calls' \in Seq(Call) /\ Range(calls') \subseteq Range(calls)
  BY <1>5, BlockedServed
<1> QED
  BY <1>1, <1>2, <1>4, <1>6

LEMMA AnswerWord ==
  ASSUME NEW box, NEW next, NEW m, IsReply(m), next = box \/ next = box \cup {m}
  PROVE  /\ \A p : /\ Created(p) \in next <=> Created(p) \in box
                   /\ Destroyed(p) \in next <=> Destroyed(p) \in box
         /\ \A i : /\ Tells(next, i) <=> Tells(box, i)
                   /\ Offers(next, i) => Offers(box, i) \/ (next = box \cup {m} /\ i \in Range(m.ids))
<1>1. \A p : Created(p) # m /\ Destroyed(p) # m
  BY Kinds DEF IsReply
<1>2. m.what # "imported"
  BY DEF IsReply
<1>3. \A p : /\ Created(p) \in next <=> Created(p) \in box
             /\ Destroyed(p) \in next <=> Destroyed(p) \in box
  BY <1>1
<1>4. \A i : Tells(next, i) <=> Tells(box, i)
  BY <1>2 DEF Tells
<1>5. \A i : Offers(next, i) => Offers(box, i) \/ (next = box \cup {m} /\ i \in Range(m.ids))
  BY DEF Offers
<1> QED
  BY <1>3, <1>4, <1>5

LEMMA NewListed ==
  ASSUME NEW name, NewList(name)
  PROVE  DOMAIN lists' = DOMAIN lists \cup {lastId} /\ lastId' = lastId + 1
BY DEF NewList, With

(* In m application a is given import i, which it is blocked in asking for. *)
Given(m, a, i) ==
  /\ i \in Range(m.ids) /\ Head(calls).reply /\ a = Head(calls).app
  /\ waiting[a] = Head(calls).op

(* The daemon answers and makes no playlist.                               *)
LEMMA AnsweredOnly ==
  ASSUME Orderly, calls # <<>>, NEW m \in Message, IsReply(m),
         calls' = Tail(calls), inbox' = Answer(inbox, Head(calls), m),
         UNCHANGED <<lists, lastId, waiting, table, held, told>>,
         Head(calls).op \in Registering => Range(m.ids) \subseteq DOMAIN lists
  PROVE  /\ inbox' \in Mailboxes /\ calls' \in Seq(Call) /\ Range(calls') \subseteq Range(calls)
         /\ Boxes' /\ Blocked' /\ Kept' /\ ToldRight'
         /\ \A a \in App, i \in Nat :
              /\ Tells(Range(inbox'[a]), i) <=> Tells(Range(inbox[a]), i)
              /\ Promised(waiting[a], Range(inbox'[a]), i) =>
                   Promised(waiting[a], Range(inbox[a]), i) \/ Given(m, a, i)
<1>1. inbox \in Mailboxes
  BY DEF Orderly, Typed, Mailboxes
<1>2. \A a \in App : Box(DOMAIN lists', lastId', waiting[a], inbox[a])
  BY BoxOf
<1>3. /\ inbox' \in Mailboxes /\ Boxes' /\ Blocked'
      /\ calls' \in Seq(Call) /\ Range(calls') \subseteq Range(calls)
      /\ \A a \in App : \/ Range(inbox'[a]) = Range(inbox[a])
                        \/ /\ Range(inbox'[a]) = Range(inbox[a]) \cup {m}
                           /\ Head(calls).reply /\ a = Head(calls).app
                           /\ waiting[a] = Head(calls).op
  BY <1>1, <1>2, AnswerSent
<1>4. ASSUME NEW a \in App
      PROVE  /\ \A p : /\ Created(p) \in Range(inbox'[a]) <=> Created(p) \in Range(inbox[a])
                       /\ Destroyed(p) \in Range(inbox'[a]) <=> Destroyed(p) \in Range(inbox[a])
             /\ \A i : /\ Tells(Range(inbox'[a]), i) <=> Tells(Range(inbox[a]), i)
                       /\ Promised(waiting[a], Range(inbox'[a]), i) =>
                            Promised(waiting[a], Range(inbox[a]), i) \/ Given(m, a, i)
  <2> DEFINE box == Range(inbox[a])
             next == Range(inbox'[a])
  <2>1. \/ next = box
        \/ /\ next = box \cup {m} /\ Head(calls).reply /\ a = Head(calls).app
           /\ waiting[a] = Head(calls).op
    BY <1>3
  <2> HIDE DEF box, next
  <2>2. /\ \A p : /\ Created(p) \in next <=> Created(p) \in box
                  /\ Destroyed(p) \in next <=> Destroyed(p) \in box
        /\ \A i : /\ Tells(next, i) <=> Tells(box, i)
                  /\ Offers(next, i) => Offers(box, i) \/ (next = box \cup {m} /\ i \in Range(m.ids))
    BY <2>1, AnswerWord
  <2>3. ASSUME NEW i, Promised(waiting[a], next, i), ~ Promised(waiting[a], box, i)
        PROVE  Given(m, a, i)
    <3>1. ~ Offers(box, i) /\ Offers(next, i)
      BY <2>3 DEF Promised
    <3>2. i \in Range(m.ids) /\ next # box
      BY <2>2, <3>1
    <3> QED
      BY <2>1, <3>2 DEF Given
  <2> QED
    BY <2>2, <2>3 DEF box, next
<1>5. Word({}, {})
  BY <1>4 DEF Word
<1>6. Kept' /\ ToldRight'
  BY <1>5, WordQuiet
<1> QED
  BY <1>3, <1>4, <1>6

(* What an application is sent when a playlist is made: start has besides  *)
(* what was on its way, if anything, that its import is that playlist.     *)
LEMMA MadeWord ==
  ASSUME Orderly, NEW start \in Mailboxes, NEW a \in App,
         start[a] = inbox[a]
           \/ \E i \in Nat : start[a] = Append(inbox[a], Imported(i, lastId))
  PROVE  LET box == Range(start[a]) \cup {Created(lastId)} IN
         /\ \A p : /\ Created(p) \in box <=> Created(p) \in Range(inbox[a]) \/ p = lastId
                   /\ Destroyed(p) \in box <=> Destroyed(p) \in Range(inbox[a])
         /\ \A i : Tells(box, i) <=> Tells(Range(start[a]), i)
         /\ \A i : Tells(Range(inbox[a]), i) => Tells(Range(start[a]), i)
         /\ \A i : Offers(box, i) => Offers(Range(inbox[a]), i)
<1> DEFINE box == Range(start[a]) \cup {Created(lastId)}
<1>1. lastId \in Nat /\ inbox[a] \in Seq(Message)
  BY BoxOf
<1>2. /\ \A x : IsReply(x) \/ x = Destroyed(x.id) \/ x = Created(x.id) =>
                  (x \in Range(start[a]) <=> x \in Range(inbox[a]))
      /\ Range(inbox[a]) \subseteq Range(start[a])
  <2>1. CASE start[a] = inbox[a]
    BY <2>1
  <2>2. CASE \E i \in Nat : start[a] = Append(inbox[a], Imported(i, lastId))
    <3>1. PICK i \in Nat : start[a] = Append(inbox[a], Imported(i, lastId))
      BY <2>2
    <3> DEFINE y == Imported(i, lastId)
    <3>2. y \in Message
      BY <1>1, Messages
    <3>3. Range(start[a]) = Range(inbox[a]) \cup {y}
      BY <1>1, <3>1, <3>2, Appended
    <3>4. y.what = "imported" /\ ~ IsReply(y) /\ \A p : y # Created(p) /\ y # Destroyed(p)
      BY Kinds DEF IsReply
    <3> HIDE DEF y
    <3> QED
      BY <3>3, <3>4
  <2> QED
    BY <2>1, <2>2
<1>3. /\ \A p : Created(p) = Created(lastId) => p = lastId
      /\ \A p : Created(lastId) # Destroyed(p) /\ Destroyed(p) = Destroyed(Destroyed(p).id)
      /\ \A p : Created(p) = Created(Created(p).id)
      /\ ~ IsReply(Created(lastId)) /\ Created(lastId).what # "imported"
  BY Kinds DEF IsReply
<1>4. \A p : /\ Created(p) \in box <=> Created(p) \in Range(inbox[a]) \/ p = lastId
             /\ Destroyed(p) \in box <=> Destroyed(p) \in Range(inbox[a])
  BY <1>2, <1>3
<1>5. \A i : Tells(box, i) <=> Tells(Range(start[a]), i)
  BY <1>3 DEF Tells
<1>6. \A i : Offers(box, i) => Offers(Range(inbox[a]), i)
  BY <1>2, <1>3 DEF Offers
<1>7. \A i : Tells(Range(inbox[a]), i) => Tells(Range(start[a]), i)
  BY <1>2 DEF Tells
<1> QED
  BY <1>4, <1>5, <1>6, <1>7

(* The daemon makes a playlist, perhaps of an import, and answers.         *)
LEMMA MadeAnswered ==
  ASSUME Orderly, calls # <<>>, NEW m \in Message, IsReply(m), NEW name, NewList(name),
         NEW start \in Mailboxes,
         \A a \in App : \/ start[a] = inbox[a]
                        \/ \E i \in Nat : start[a] = Append(inbox[a], Imported(i, lastId)),
         calls' = Tail(calls), UNCHANGED <<waiting, table, held, told>>,
         inbox' = Answer(Broadcast(start, Created(lastId)), Head(calls), m),
         Head(calls).op \in Registering => Range(m.ids) \subseteq DOMAIN lists \cup {lastId}
  PROVE  /\ inbox' \in Mailboxes /\ calls' \in Seq(Call) /\ Range(calls') \subseteq Range(calls)
         /\ Boxes' /\ Blocked' /\ Kept' /\ ToldRight'
         /\ \A a \in App, i \in Nat :
              /\ Tells(Range(inbox'[a]), i) <=> Tells(Range(start[a]), i)
              /\ Tells(Range(inbox[a]), i) => Tells(Range(inbox'[a]), i)
              /\ Promised(waiting[a], Range(inbox'[a]), i) =>
                   Promised(waiting[a], Range(inbox[a]), i) \/ Given(m, a, i)
<1> DEFINE boxes == Broadcast(start, Created(lastId))
<1>1. /\ DOMAIN lists' = DOMAIN lists \cup {lastId} /\ lastId' = lastId + 1
      /\ lastId \in Nat
  BY NewListed DEF Orderly, Typed
<1>2. Created(lastId) \in Message
  BY <1>1, Messages
<1>3. boxes \in Mailboxes
  BY <1>2, BroadcastTo
<1>4. \A a \in App : /\ Box(DOMAIN lists', lastId', waiting[a], boxes[a])
                     /\ Silent(inbox[a]) => Silent(boxes[a])
                     /\ Range(boxes[a]) = Range(start[a]) \cup {Created(lastId)}
  BY <1>1, MadeBoxes
<1> HIDE DEF boxes
<1>5. inbox' = Answer(boxes, Head(calls), m)
  BY DEF boxes
<1>6. Head(calls).op \in Registering => Range(m.ids) \subseteq DOMAIN lists'
  BY <1>1
<1>7. /\ inbox' \in Mailboxes /\ Boxes' /\ Blocked'
      /\ calls' \in Seq(Call) /\ Range(calls') \subseteq Range(calls)
      /\ \A a \in App : \/ Range(inbox'[a]) = Range(boxes[a])
                        \/ /\ Range(inbox'[a]) = Range(boxes[a]) \cup {m}
                           /\ Head(calls).reply /\ a = Head(calls).app
                           /\ waiting[a] = Head(calls).op
  BY <1>3, <1>4, <1>5, <1>6, AnswerSent
<1>9. ASSUME NEW a \in App
      PROVE  /\ \A p : /\ Created(p) \in Range(inbox'[a]) <=> Created(p) \in Range(inbox[a]) \/ p = lastId
                       /\ Destroyed(p) \in Range(inbox'[a]) <=> Destroyed(p) \in Range(inbox[a])
             /\ \A i \in Nat :
                  /\ Tells(Range(inbox'[a]), i) <=> Tells(Range(start[a]), i)
                  /\ Tells(Range(inbox[a]), i) => Tells(Range(inbox'[a]), i)
                  /\ Promised(waiting[a], Range(inbox'[a]), i) =>
                       Promised(waiting[a], Range(inbox[a]), i) \/ Given(m, a, i)
  <2> DEFINE box == Range(boxes[a])
             next == Range(inbox'[a])
  <2>1. box = Range(start[a]) \cup {Created(lastId)}
    BY <1>4
  <2>2. \/ next = box
        \/ /\ next = box \cup {m} /\ Head(calls).reply /\ a = Head(calls).app
           /\ waiting[a] = Head(calls).op
    BY <1>7
  <2> HIDE DEF box, next
  <2>3. /\ \A p : /\ Created(p) \in next <=> Created(p) \in box
                  /\ Destroyed(p) \in next <=> Destroyed(p) \in box
        /\ \A i : /\ Tells(next, i) <=> Tells(box, i)
                  /\ Offers(next, i) => Offers(box, i) \/ (next = box \cup {m} /\ i \in Range(m.ids))
    BY <2>2, AnswerWord
  <2>5. /\ \A p : /\ Created(p) \in box <=> Created(p) \in Range(inbox[a]) \/ p = lastId
                  /\ Destroyed(p) \in box <=> Destroyed(p) \in Range(inbox[a])
        /\ \A i : Tells(box, i) <=> Tells(Range(start[a]), i)
        /\ \A i : Tells(Range(inbox[a]), i) => Tells(Range(start[a]), i)
        /\ \A i : Offers(box, i) => Offers(Range(inbox[a]), i)
    BY <2>1, MadeWord
  <2>8. ASSUME NEW i, Promised(waiting[a], next, i), ~ Promised(waiting[a], Range(inbox[a]), i)
        PROVE  Given(m, a, i)
    <3>1. ~ Offers(box, i) /\ Offers(next, i)
      BY <2>5, <2>8 DEF Promised
    <3>2. next = box \cup {m} /\ i \in Range(m.ids) /\ next # box
      BY <2>3, <3>1
    <3> QED
      BY <2>2, <3>2 DEF Given
  <2> QED
    BY <2>3, <2>5, <2>8 DEF next
<1>10. Word({lastId}, {})
  BY <1>9 DEF Word
<1>11. Kept' /\ ToldRight'
  BY <1>1, <1>10, WordMade
<1> QED
  BY <1>7, <1>9, <1>11

(* An import with the next number is promised to application b at most, and *)
(* is worked on or done.                                                   *)
LEMMA ImportAdded ==
  ASSUME Orderly, UNCHANGED <<requests, cancelled, waiting, answers>>,
         NEW n \in Nat, n = lastImport + 1, lastImport' = n,
         Range(calls') \subseteq Range(calls), NEW b \in App,
         WorkedOn(b, n)' \/ Tells(Range(inbox'[b]), n),
         \A a \in App, i \in Nat :
           /\ Promised(waiting[a], Range(inbox'[a]), i) =>
                Promised(waiting[a], Range(inbox[a]), i) \/ (a = b /\ i = n)
           /\ Tells(Range(inbox[a]), i) => Tells(Range(inbox'[a]), i)
           /\ WorkedOn(a, i) => WorkedOn(a, i)' \/ Tells(Range(inbox'[a]), i)
  PROVE  Owned' /\ Awaited' /\ Counted'
<1>1. \A a \in App, i \in Nat :
        /\ Asks(a, i)' => Asks(a, i) \/ (a = b /\ i = n)
        /\ Knows(a, i)' => Knows(a, i) \/ (a = b /\ i = n)
  BY DEF Asks, Knows
<1>2. /\ lastImport \in Nat /\ ImportId \subseteq Nat
      /\ ~ (n <= lastImport) /\ \A i \in Nat : i <= lastImport => i <= n
      /\ n <= n
  BY Constants DEF Orderly, Typed
<1>3. \A a \in App : ~ Knows(a, n)
  BY <1>2 DEF Orderly, Owned
<1>4. Owned'
  <2>1. \A a \in App, i \in Nat : Knows(a, i)' => i <= lastImport'
    BY <1>1, <1>2 DEF Orderly, Owned
  <2>2. \A a, c \in App : \A i \in Nat : Knows(a, i)' /\ Knows(c, i)' => a = c
    BY <1>1, <1>3 DEF Orderly, Owned
  <2>3. ASSUME NEW k \in DOMAIN calls', calls'[k].op = "cancel"
        PROVE  calls'[k].arg \in cancelled'[calls'[k].app]
    <3>1. PICK j \in DOMAIN calls : calls[j] = calls'[k]
      BY DEF Range
    <3> QED
      BY <2>3, <3>1 DEF Orderly, Owned
  <2> QED
    BY <2>1, <2>2, <2>3 DEF Owned
<1>5. Awaited'
  <2> SUFFICES ASSUME NEW a \in App, NEW i \in Nat
               PROVE  /\ Asks(a, i)' => i \notin cancelled[a] /\ (WorkedOn(a, i)' \/ Tells(Range(inbox'[a]), i))
                      /\ i \in requests[a] => ~ Promised(waiting[a], Range(inbox'[a]), i)
    BY DEF Awaited
  <2>1. CASE i = n
    <3>1. ~ Knows(a, i)
      BY <1>3, <2>1
    <3>2. i \notin requests[a] /\ i \notin cancelled[a] /\ ~ Asks(a, i)
      BY <3>1 DEF Knows, Asks
    <3> QED
      BY <1>1, <2>1, <3>2
  <2>2. CASE i # n
    BY <1>1, <2>2 DEF Orderly, Awaited
  <2> QED
    BY <2>1, <2>2
<1>6. Counted'
  <2> SUFFICES ASSUME NEW a \in App, NEW i \in ImportId
               PROVE  /\ answers[a][i] <= 1 /\ (answers[a][i] # 0 => i <= lastImport')
                      /\ Knows(a, i)' => answers[a][i] = 0
    BY DEF Counted
  <2>1. CASE i = n
    BY <1>2, <2>1 DEF Orderly, Counted
  <2>2. CASE i # n
    BY <1>1, <1>2, <2>2 DEF Orderly, Counted
  <2> QED
    BY <2>1, <2>2
<1> QED
  BY <1>4, <1>5, <1>6

-----------------------------------------------------------------------------
(* The daemon serves a call.                                               *)

(* The call is answered and nothing else is done.                          *)
LEMMA OnlyAnswered ==
  ASSUME Orderly, calls # <<>>, NEW m \in Message, IsReply(m),
         Served(Answer(inbox, Head(calls), m)), UNCHANGED daemon,
         Head(calls).op \in Registering => Range(m.ids) \subseteq DOMAIN lists,
         Head(calls).op # "import"
  PROVE  Orderly'
<1>1. /\ calls' = Tail(calls) /\ inbox' = Answer(inbox, Head(calls), m)
      /\ UNCHANGED <<waiting, table, held, requests, told, answers, cancelled>>
      /\ UNCHANGED <<lists, lastId, imports, lastImport>>
  BY DEF Served, client, story, daemon
<1>2. /\ inbox' \in Mailboxes /\ calls' \in Seq(Call) /\ Range(calls') \subseteq Range(calls)
      /\ Boxes' /\ Blocked' /\ Kept' /\ ToldRight'
      /\ \A a \in App, i \in Nat :
           /\ Tells(Range(inbox'[a]), i) <=> Tells(Range(inbox[a]), i)
           /\ Promised(waiting[a], Range(inbox'[a]), i) =>
                Promised(waiting[a], Range(inbox[a]), i) \/ Given(m, a, i)
  BY <1>1, AnsweredOnly
<1>3. \A a, i : ~ Given(m, a, i) \/ ~ Promised(waiting[a], Range(inbox'[a]), i)
  BY DEF Given, Promised
<1>4. \A a, i : WorkedOn(a, i)' <=> WorkedOn(a, i)
  BY <1>1 DEF WorkedOn
<1>5. lastImport \in Nat /\ lastImport <= lastImport
  BY DEF Orderly, Typed
<1>6. Owned' /\ Awaited' /\ Counted'
  BY <1>1, <1>2, <1>3, <1>4, <1>5, ImportsGoOn
<1>7. Typed'
  BY <1>1, <1>2 DEF Orderly, Typed, Mailboxes
<1> QED
  BY <1>2, <1>6, <1>7 DEF Orderly

(* A playlist is made on request.                                          *)
LEMMA MadeOnRequest ==
  ASSUME Orderly, calls # <<>>, NEW name, NewList(name), Head(calls).op # "import",
         Served(Answer(Broadcast(inbox, Created(lastId)), Head(calls), Reply(<<lastId>>))),
         UNCHANGED <<imports, lastImport>>
  PROVE  Orderly'
<1> DEFINE m == Reply(<<lastId>>)
<1>1. /\ calls' = Tail(calls)
      /\ inbox' = Answer(Broadcast(inbox, Created(lastId)), Head(calls), m)
      /\ UNCHANGED <<waiting, table, held, requests, told, answers, cancelled>>
  BY DEF Served, client, story
<1>2. lastId \in Nat /\ inbox \in Mailboxes /\ lastImport \in Nat /\ lastImport <= lastImport
  BY DEF Orderly, Typed, Mailboxes
<1>3. m \in Message /\ IsReply(m) /\ Range(m.ids) = {lastId}
  <2>1. <<lastId>> \in Seq(Nat)
    BY <1>2
  <2>2. m \in Message /\ IsReply(m) /\ m.ids = <<lastId>>
    BY <2>1, Messages, Kinds DEF IsReply
  <2>3. Range(<<lastId>>) = {lastId}
    BY DEF Range
  <2> QED
    BY <2>2, <2>3
<1> HIDE DEF m
<1>4. /\ inbox' \in Mailboxes /\ calls' \in Seq(Call) /\ Range(calls') \subseteq Range(calls)
      /\ Boxes' /\ Blocked' /\ Kept' /\ ToldRight'
      /\ \A a \in App, i \in Nat :
           /\ Tells(Range(inbox'[a]), i) <=> Tells(Range(inbox[a]), i)
           /\ Promised(waiting[a], Range(inbox'[a]), i) =>
                Promised(waiting[a], Range(inbox[a]), i) \/ Given(m, a, i)
  BY <1>1, <1>2, <1>3, MadeAnswered
<1>5. \A a, i : ~ Given(m, a, i) \/ ~ Promised(waiting[a], Range(inbox'[a]), i)
  BY DEF Given, Promised
<1>6. \A a, i : WorkedOn(a, i)' <=> WorkedOn(a, i)
  BY DEF WorkedOn
<1>7. Owned' /\ Awaited' /\ Counted'
  BY <1>1, <1>2, <1>4, <1>5, <1>6, ImportsGoOn
<1>8. /\ DOMAIN lists' = DOMAIN lists \cup {lastId} /\ lastId' = lastId + 1
  BY NewListed
<1>9. Typed'
  BY <1>1, <1>2, <1>4, <1>8 DEF Orderly, Typed, Mailboxes
<1> QED
  BY <1>4, <1>7, <1>9 DEF Orderly

LEMMA OneId ==
  ASSUME NEW p \in Nat
  PROVE  /\ Reply(<<p>>) \in Message /\ IsReply(Reply(<<p>>))
         /\ Reply(<<p>>).ids = <<p>> /\ Range(<<p>>) = {p}
<1>1. <<p>> \in Seq(Nat)
  OBVIOUS
<1>2. Reply(<<p>>) \in Message /\ IsReply(Reply(<<p>>)) /\ Reply(<<p>>).ids = <<p>>
  BY <1>1, Messages, Kinds DEF IsReply
<1>3. Range(<<p>>) = {p}
  BY DEF Range
<1> QED
  BY <1>2, <1>3

LEMMA NoId ==
  /\ ErrorReply \in Message /\ IsReply(ErrorReply) /\ Range(ErrorReply.ids) = {}
  /\ Reply(<<>>) \in Message /\ IsReply(Reply(<<>>)) /\ Range(Reply(<<>>).ids) = {}
<1>1. <<>> \in Seq(Nat) /\ Range(<<>>) = {}
  BY DEF Range
<1> QED
  BY <1>1, Messages, Kinds DEF IsReply

LEMMA Creates == ASSUME Orderly, HandleCreate PROVE Orderly'
<1> DEFINE c == Head(calls)
           same == Named(c.arg)
<1>1. /\ calls # <<>> /\ c.op = "create" /\ UNCHANGED <<imports, lastImport>>
  BY DEF HandleCreate, Serves
<1>2. CASE same # {}
  <2>1. PICK p \in same : Served(Answer(inbox, c, Reply(<<p>>))) /\ UNCHANGED <<lists, lastId>>
    BY <1>2 DEF HandleCreate
  <2>2. p \in DOMAIN lists /\ p \in Nat
    BY DEF Named, Orderly, Typed
  <2>3. UNCHANGED daemon
    BY <1>1, <2>1 DEF daemon
  <2>4. /\ Reply(<<p>>) \in Message /\ IsReply(Reply(<<p>>))
        /\ Range(Reply(<<p>>).ids) \subseteq DOMAIN lists
    BY <2>2, OneId
  <2> QED
    BY <1>1, <2>1, <2>3, <2>4, OnlyAnswered
<1>3. CASE same = {}
  <2>1. /\ Served(Answer(Broadcast(inbox, Created(lastId)), c, Reply(<<lastId>>)))
        /\ NewList(c.arg)
    BY <1>3 DEF HandleCreate
  <2> QED
    BY <1>1, <2>1, MadeOnRequest
<1> QED
  BY <1>2, <1>3

LEMMA Dups == ASSUME Orderly, HandleDup PROVE Orderly'
<1> DEFINE c == Head(calls)
           no == Named(c.arg.name) # {} \/ c.arg.id \notin DOMAIN lists
<1>1. /\ calls # <<>> /\ c.op = "dup" /\ UNCHANGED <<imports, lastImport>>
  BY DEF HandleDup, Serves
<1>2. CASE no
  <2>1. Served(Answer(inbox, c, ErrorReply)) /\ UNCHANGED daemon
    BY <1>1, <1>2 DEF HandleDup, daemon
  <2>2. Range(ErrorReply.ids) \subseteq DOMAIN lists
    BY NoId
  <2> QED
    BY <1>1, <2>1, <2>2, NoId, OnlyAnswered
<1>3. CASE ~ no
  <2>1. /\ Served(Answer(Broadcast(inbox, Created(lastId)), c, Reply(<<lastId>>)))
        /\ NewList(c.arg.name)
    BY <1>3 DEF HandleDup
  <2> QED
    BY <1>1, <2>1, MadeOnRequest
<1> QED
  BY <1>2, <1>3

LEMMA InOrderIds ==
  ASSUME NEW alive \in SUBSET Nat, IsFiniteSet(alive), NEW ids \in InOrder(alive)
  PROVE  ids \in Seq(Nat) /\ Range(ids) \subseteq alive
<1>1. Cardinality(alive) \in Nat
  BY FS_CardinalityType
<1>2. ids \in [1 .. Cardinality(alive) -> alive]
  BY DEF InOrder
<1>3. ids \in [1 .. Cardinality(alive) -> Nat]
  BY <1>2
<1>4. ids \in Seq(Nat)
  BY <1>1, <1>3, SeqDef
<1>5. \A k \in DOMAIN ids : ids[k] \in alive
  BY <1>2
<1> QED
  BY <1>4, <1>5 DEF Range

LEMMA FiniteLists == ASSUME Orderly, App # {} PROVE IsFiniteSet(DOMAIN lists)
<1>1. PICK a \in App : TRUE
  OBVIOUS
<1>2. Box(DOMAIN lists, lastId, waiting[a], inbox[a]) /\ lastId \in Nat /\ DOMAIN lists \subseteq Nat
  BY BoxOf
<1>3. \A p \in DOMAIN lists : p \in Nat /\ p < lastId
  BY <1>2 DEF Box, Ordered
<1>4. DOMAIN lists \subseteq 0 .. lastId
  BY <1>2, <1>3
<1>5. IsFiniteSet(0 .. lastId)
  BY <1>2, FS_Interval
<1> QED
  BY <1>4, <1>5, FS_Subset

LEMMA ListsOrGets == ASSUME Orderly, HandleList PROVE Orderly'
<1> DEFINE c == Head(calls)
<1>1. calls # <<>> /\ UNCHANGED daemon
  BY DEF HandleList, Serves
<1>2. c \in Call /\ c.app \in App
  BY <1>1, HeadOfCalls DEF Call
<1>3. CASE Serves("list") /\ \E ids \in InOrder(DOMAIN lists) : Served(Answer(inbox, c, Reply(ids)))
  <2>1. PICK ids \in InOrder(DOMAIN lists) : Served(Answer(inbox, c, Reply(ids)))
    BY <1>3
  <2>2. DOMAIN lists \in SUBSET Nat /\ IsFiniteSet(DOMAIN lists)
    BY <1>2, FiniteLists DEF Orderly, Typed
  <2>3. ids \in Seq(Nat) /\ Range(ids) \subseteq DOMAIN lists
    BY <2>2, InOrderIds
  <2>4. Reply(ids) \in Message /\ IsReply(Reply(ids)) /\ Range(Reply(ids).ids) \subseteq DOMAIN lists
    BY <2>3, Messages, Kinds DEF IsReply
  <2>5. c.op # "import"
    BY <1>3 DEF Serves
  <2> QED
    BY <1>1, <2>1, <2>4, <2>5, OnlyAnswered
<1>4. CASE /\ Serves("get")
           /\ Served(Answer(inbox, c, Reply(IF c.arg \in DOMAIN lists THEN <<c.arg>> ELSE <<>>)))
  <2>1. c.op # "import"
    BY <1>4 DEF Serves
  <2>2. CASE c.arg \in DOMAIN lists
    <3>1. c.arg \in Nat
      BY <2>2 DEF Orderly, Typed
    <3>2. /\ Reply(<<c.arg>>) \in Message /\ IsReply(Reply(<<c.arg>>))
          /\ Range(Reply(<<c.arg>>).ids) \subseteq DOMAIN lists
      BY <2>2, <3>1, OneId
    <3> QED
      BY <1>1, <1>4, <2>1, <2>2, <3>2, OnlyAnswered
  <2>3. CASE c.arg \notin DOMAIN lists
    <3>1. Range(Reply(<<>>).ids) \subseteq DOMAIN lists
      BY NoId
    <3> QED
      BY <1>1, <1>4, <2>1, <2>3, <3>1, NoId, OnlyAnswered
  <2> QED
    BY <2>2, <2>3
<1> QED
  BY <1>3, <1>4 DEF HandleList

(* What the daemon says of a playlist is no reply, and says nothing of an  *)
(* import.                                                                 *)
LEMMA SaidToAll ==
  ASSUME Orderly, NEW m \in Message, m.what \notin {"reply", "imported"},
         inbox' = Broadcast(inbox, m), NEW a \in App
  PROVE  /\ inbox' \in Mailboxes /\ inbox'[a] = Append(inbox[a], m)
         /\ Range(inbox'[a]) = Range(inbox[a]) \cup {m}
         /\ Silent(inbox[a]) => Silent(inbox'[a])
         /\ \A i : /\ Tells(Range(inbox'[a]), i) <=> Tells(Range(inbox[a]), i)
                   /\ Offers(Range(inbox'[a]), i) <=> Offers(Range(inbox[a]), i)
<1>1. inbox \in Mailboxes
  BY DEF Orderly, Typed, Mailboxes
<1>2. /\ inbox' \in Mailboxes /\ inbox'[a] = Append(inbox[a], m)
      /\ Range(inbox'[a]) = Range(inbox[a]) \cup {m}
  BY <1>1, BroadcastTo
<1>3. ~ IsReply(m) /\ m.what # "imported"
  BY DEF IsReply
<1>4. Silent(inbox[a]) => Silent(inbox'[a])
  BY <1>2, <1>3 DEF Silent
<1>5. \A i : Tells(Range(inbox'[a]), i) <=> Tells(Range(inbox[a]), i)
  BY <1>2, <1>3 DEF Tells
<1>6. \A i : Offers(Range(inbox'[a]), i) <=> Offers(Range(inbox[a]), i)
  BY <1>2, <1>3 DEF Offers
<1> QED
  BY <1>2, <1>4, <1>5, <1>6

(* A call nobody waits for is served.                                      *)
LEMMA DestroyServed ==
  ASSUME Orderly, Serves("destroy"), calls' = Tail(calls),
         UNCHANGED <<lastId, imports, lastImport, client, story>>,
         DOMAIN lists' \subseteq DOMAIN lists, inbox' \in Mailboxes,
         Boxes', Kept', ToldRight',
         \A a \in App :
           /\ Silent(inbox[a]) => Silent(inbox'[a])
           /\ \A i : /\ Tells(Range(inbox'[a]), i) <=> Tells(Range(inbox[a]), i)
                     /\ Offers(Range(inbox'[a]), i) <=> Offers(Range(inbox[a]), i)
  PROVE  Orderly'
<1>1. UNCHANGED <<table, held, requests, waiting, told, answers, cancelled>>
  BY DEF client, story
<1>2. calls # <<>>
  BY DEF Serves
<1>3. Blocked' /\ calls' \in Seq(Call) /\ Range(calls') \subseteq Range(calls)
  BY <1>1, <1>2, BlockedServed
<1>4. \A a, i : WorkedOn(a, i)' <=> WorkedOn(a, i)
  BY DEF WorkedOn
<1>5. lastImport \in Nat /\ lastImport <= lastImport
  BY DEF Orderly, Typed
<1>6. Owned' /\ Awaited' /\ Counted'
  <2>1. \A a \in App, i \in Nat :
           /\ Promised(waiting[a], Range(inbox'[a]), i) => Promised(waiting[a], Range(inbox[a]), i)
           /\ Tells(Range(inbox[a]), i) => Tells(Range(inbox'[a]), i)
           /\ Asks(a, i) /\ WorkedOn(a, i) => WorkedOn(a, i)' \/ Tells(Range(inbox'[a]), i)
    BY <1>4 DEF Promised
  <2> QED
    BY <1>1, <1>3, <1>5, <2>1, ImportsGoOn
<1>7. Typed'
  BY <1>1, <1>3 DEF Orderly, Typed, Mailboxes
<1> QED
  BY <1>3, <1>6, <1>7 DEF Orderly

LEMMA Destroys == ASSUME Orderly, HandleDestroy PROVE Orderly'
<1> DEFINE c == Head(calls)
           p == c.arg
<1>1. Serves("destroy") /\ UNCHANGED <<lastId, imports, lastImport>>
  BY DEF HandleDestroy
<1>2. inbox \in Mailboxes /\ DOMAIN lists \subseteq Nat
  BY DEF Orderly, Typed, Mailboxes
<1>3. CASE Served(inbox) /\ UNCHANGED lists
  <2>1. calls' = Tail(calls) /\ inbox' = inbox /\ UNCHANGED <<client, story>>
    BY <1>3 DEF Served
  <2>2. Boxes' /\ Kept' /\ ToldRight'
    BY <1>1, <1>3, <2>1 DEF Orderly, Boxes, Kept, ToldRight, client, story
  <2> QED
    BY <1>1, <1>2, <1>3, <2>1, <2>2, DestroyServed
<1>4. CASE p \in DOMAIN lists /\ Served(Broadcast(inbox, DestructionFailed(p))) /\ UNCHANGED lists
  <2> DEFINE m == DestructionFailed(p)
  <2>1. /\ calls' = Tail(calls) /\ inbox' = Broadcast(inbox, m) /\ UNCHANGED <<client, story>>
        /\ UNCHANGED <<table, held, waiting, told>>
    BY <1>4 DEF Served, client, story
  <2>2. /\ m \in Message /\ m.what \notin {"reply", "imported"} /\ ~ IsReply(m)
        /\ \A q : m # Created(q) /\ m # Destroyed(q) /\ ~ Names(m, q)
    BY <1>2, <1>4, Messages, Kinds DEF IsReply, Names
  <2> HIDE DEF m
  <2>3. ASSUME NEW a \in App
        PROVE  /\ inbox' \in Mailboxes /\ inbox'[a] = Append(inbox[a], m)
               /\ Range(inbox'[a]) = Range(inbox[a]) \cup {m}
               /\ Silent(inbox[a]) => Silent(inbox'[a])
               /\ \A i : /\ Tells(Range(inbox'[a]), i) <=> Tells(Range(inbox[a]), i)
                         /\ Offers(Range(inbox'[a]), i) <=> Offers(Range(inbox[a]), i)
    BY <2>1, <2>2, SaidToAll
  <2>4. Boxes'
    <3> SUFFICES ASSUME NEW a \in App
                 PROVE  Box(DOMAIN lists, lastId, waiting[a], inbox'[a])
      BY <1>1, <1>4, <2>1 DEF Boxes
    <3>1. Box(DOMAIN lists, lastId, waiting[a], inbox[a])
      BY BoxOf
    <3>2. Box(DOMAIN lists, lastId, waiting[a], Append(inbox[a], m))
      BY <2>2, <3>1, BoxMore
    <3> QED
      BY <2>3, <3>2
  <2>5. Word({}, {})
    BY <2>2, <2>3 DEF Word
  <2>6. Kept' /\ ToldRight'
    BY <1>1, <1>4, <2>1, <2>5, WordQuiet
  <2>7. inbox' \in Mailboxes
    BY <1>2, <2>1, <2>2, BroadcastTo
  <2> QED
    BY <1>1, <1>4, <2>1, <2>3, <2>4, <2>6, <2>7, DestroyServed
<1>5. CASE /\ p \in DOMAIN lists /\ Served(Broadcast(inbox, Destroyed(p)))
           /\ lists' = Restrict(lists, DOMAIN lists \ {p})
  <2> DEFINE m == Destroyed(p)
  <2>1. /\ calls' = Tail(calls) /\ inbox' = Broadcast(inbox, m) /\ UNCHANGED <<client, story>>
        /\ UNCHANGED <<table, held, waiting, told>>
    BY <1>5 DEF Served, client, story
  <2>2. /\ m \in Message /\ m.what \notin {"reply", "imported"}
        /\ \A q : m # Created(q) /\ (m = Destroyed(q) <=> p = q)
    BY <1>2, <1>5, Messages, Kinds
  <2>3. DOMAIN lists' = DOMAIN lists \ {p} /\ p \in DOMAIN lists
    BY <1>5 DEF Restrict
  <2> HIDE DEF p, m
  <2>4. ASSUME NEW a \in App
        PROVE  /\ inbox' \in Mailboxes /\ inbox'[a] = Append(inbox[a], m)
               /\ Range(inbox'[a]) = Range(inbox[a]) \cup {m}
               /\ Silent(inbox[a]) => Silent(inbox'[a])
               /\ \A i : /\ Tells(Range(inbox'[a]), i) <=> Tells(Range(inbox[a]), i)
                         /\ Offers(Range(inbox'[a]), i) <=> Offers(Range(inbox[a]), i)
    BY <2>1, <2>2, SaidToAll
  <2>5. Boxes'
    <3> SUFFICES ASSUME NEW a \in App
                 PROVE  Box(DOMAIN lists \ {p}, lastId, waiting[a], inbox'[a])
      BY <1>1, <2>1, <2>3 DEF Boxes
    <3>1. Box(DOMAIN lists, lastId, waiting[a], inbox[a])
      BY BoxOf
    <3>2. Box(DOMAIN lists \ {p}, lastId, waiting[a], Append(inbox[a], Destroyed(p)))
      BY <2>3, <3>1, BoxDestroyed
    <3> QED
      BY <2>4, <3>2 DEF m
  <2>6. Word({}, {p})
    BY <2>2, <2>4 DEF Word
  <2>7. Kept' /\ ToldRight'
    BY <1>1, <2>1, <2>3, <2>6, WordDestroyed
  <2>8. inbox' \in Mailboxes
    BY <1>2, <2>1, <2>2, BroadcastTo
  <2> QED
    BY <1>1, <2>1, <2>3, <2>4, <2>5, <2>7, <2>8, DestroyServed
<1> QED
  BY <1>3, <1>4, <1>5 DEF HandleDestroy

LEMMA Cancels == ASSUME Orderly, HandleCancelImport PROVE Orderly'
<1> DEFINE c == Head(calls)
           n == c.arg
<1>1. /\ calls # <<>> /\ c.op = "cancel" /\ UNCHANGED <<lists, lastId, lastImport>>
  BY DEF HandleCancelImport, Serves
<1>2. CASE Served(Answer(inbox, c, ErrorReply)) /\ UNCHANGED imports
  <2>1. UNCHANGED daemon /\ Range(ErrorReply.ids) \subseteq DOMAIN lists
    BY <1>1, <1>2, NoId DEF daemon
  <2> QED
    BY <1>1, <1>2, <2>1, NoId, OnlyAnswered
<1>3. CASE /\ n \in DOMAIN imports /\ Served(Answer(inbox, c, Reply(<<n>>)))
           /\ imports' = [imports EXCEPT ![n].st =
                            IF @ = "browse" THEN "stopped"
                            ELSE IF @ = "metadata" THEN "dropped" ELSE @]
  <2> DEFINE m == Reply(<<n>>)
  <2>1. /\ calls' = Tail(calls) /\ inbox' = Answer(inbox, c, m)
        /\ UNCHANGED <<waiting, table, held, requests, told, answers, cancelled>>
    BY <1>3 DEF Served, client, story
  <2>2. lastImport \in Nat /\ lastImport <= lastImport /\ n \in Nat
    BY <1>3 DEF Orderly, Typed
  <2>3. m \in Message /\ IsReply(m)
    BY <2>2, OneId
  <2>4. c.op \notin Registering
    BY <1>1 DEF Registering
  <2> HIDE DEF m
  <2>5. /\ inbox' \in Mailboxes /\ calls' \in Seq(Call) /\ Range(calls') \subseteq Range(calls)
        /\ Boxes' /\ Blocked' /\ Kept' /\ ToldRight'
        /\ \A a \in App, i \in Nat :
             /\ Tells(Range(inbox'[a]), i) <=> Tells(Range(inbox[a]), i)
             /\ Promised(waiting[a], Range(inbox'[a]), i) =>
                  Promised(waiting[a], Range(inbox[a]), i) \/ Given(m, a, i)
    BY <1>1, <2>1, <2>3, <2>4, AnsweredOnly
  <2>6. \A a, i : ~ Given(m, a, i) \/ ~ Promised(waiting[a], Range(inbox'[a]), i)
    BY <1>1 DEF Given, Promised
  <2>7. n \in cancelled[c.app] /\ c.app \in App
    <3>1. c \in Call /\ c = calls[1] /\ 1 \in DOMAIN calls
      BY <1>1, HeadOfCalls
    <3>2. calls[1].arg \in cancelled[calls[1].app]
      BY <1>1, <3>1 DEF Orderly, Owned
    <3> QED
      BY <3>1, <3>2 DEF Call
  <2>8. ASSUME NEW a \in App, NEW i \in Nat, Asks(a, i), WorkedOn(a, i) PROVE WorkedOn(a, i)'
    <3>1. i # n
      <4> SUFFICES ASSUME i = n PROVE FALSE
        OBVIOUS
      <4>1. Knows(c.app, i) /\ Knows(a, i)
        BY <2>7, <2>8 DEF Knows
      <4>2. a = c.app
        BY <2>7, <4>1 DEF Orderly, Owned
      <4>3. i \notin cancelled[a]
        BY <2>8 DEF Orderly, Awaited
      <4> QED
        BY <2>7, <4>2, <4>3
    <3>2. DOMAIN imports' = DOMAIN imports /\ imports'[i] = imports[i]
      BY <1>3, <2>8, <3>1 DEF WorkedOn
    <3> QED
      BY <2>8, <3>2 DEF WorkedOn
  <2>9. Owned' /\ Awaited' /\ Counted'
    BY <1>1, <2>1, <2>2, <2>5, <2>6, <2>8, ImportsGoOn
  <2>10. DOMAIN imports' = DOMAIN imports /\ \A i \in DOMAIN imports : imports'[i] \in Work
    <3>1. DOMAIN imports' = DOMAIN imports
      BY <1>3
    <3>2. ASSUME NEW i \in DOMAIN imports PROVE imports'[i] \in Work
      <4>1. imports[i] \in Work
        BY DEF Orderly, Typed
      <4>2. CASE i # n
        BY <1>3, <4>1, <4>2
      <4>3. CASE i = n
        <5>1. imports'[i] = [imports[i] EXCEPT !.st =
                               IF imports[i].st = "browse" THEN "stopped"
                               ELSE IF imports[i].st = "metadata" THEN "dropped" ELSE imports[i].st]
          BY <1>3, <4>3
        <5> QED
          BY <4>1, <5>1 DEF Work
      <4> QED
        BY <4>2, <4>3
    <3> QED
      BY <3>1, <3>2
  <2>11. Typed'
    BY <1>1, <2>1, <2>5, <2>10 DEF Orderly, Typed, Mailboxes
  <2> QED
    BY <2>5, <2>9, <2>11 DEF Orderly
<1> QED
  BY <1>1, <1>2, <1>3 DEF HandleCancelImport

LEMMA Imports == ASSUME Orderly, HandleImport PROVE Orderly'
<1> SUFFICES ASSUME NEW c, c = Head(calls), NEW n, n = lastImport + 1
             PROVE  Orderly'
  OBVIOUS
<1>1. /\ calls # <<>> /\ c.op = "import" /\ calls' = Tail(calls) /\ lastImport' = n
      /\ UNCHANGED <<waiting, table, held, requests, told, answers, cancelled>>
  BY DEF HandleImport, Serves, client, story
<1>2. /\ lastImport \in Nat /\ n \in Nat /\ lastImport <= n /\ lastId \in Nat
      /\ inbox \in Mailboxes /\ DOMAIN imports \subseteq 0 .. lastImport
      /\ n \notin DOMAIN imports /\ DOMAIN imports \cup {n} \subseteq 0 .. n
      /\ n = lastImport + 1
  BY DEF Orderly, Typed, Mailboxes
<1>3. c \in Call /\ c.app \in App /\ c.arg \in Arg
  BY <1>1, HeadOfCalls DEF Call
<1>4. c.op \notin Registering
  BY <1>1 DEF Registering
<1>5. /\ Reply(<<n>>) \in Message /\ IsReply(Reply(<<n>>))
      /\ \A a, i : Given(Reply(<<n>>), a, i) => a = c.app /\ i = n
  BY <1>2, OneId DEF Given
<1>6. CASE /\ imports' = With(imports, n, [app |-> c.app, uri |-> c.arg, st |-> "metadata"])
           /\ inbox' = Answer(inbox, c, Reply(<<n>>)) /\ UNCHANGED <<lists, lastId>>
  <2> DEFINE m == Reply(<<n>>)
             w == [app |-> c.app, uri |-> c.arg, st |-> "metadata"]
  <2>1. /\ inbox' \in Mailboxes /\ calls' \in Seq(Call) /\ Range(calls') \subseteq Range(calls)
        /\ Boxes' /\ Blocked' /\ Kept' /\ ToldRight'
        /\ \A a \in App, i \in Nat :
             /\ Tells(Range(inbox'[a]), i) <=> Tells(Range(inbox[a]), i)
             /\ Promised(waiting[a], Range(inbox'[a]), i) =>
                  Promised(waiting[a], Range(inbox[a]), i) \/ Given(m, a, i)
    BY <1>1, <1>4, <1>5, <1>6, AnsweredOnly
  <2>2. /\ DOMAIN imports' = DOMAIN imports \cup {n} /\ imports'[n] = w
        /\ \A i \in DOMAIN imports : imports'[i] = imports[i]
    BY <1>2, <1>6 DEF With
  <2>3. w \in Work /\ w.app = c.app /\ w.st = "metadata"
    BY <1>3 DEF Work
  <2> HIDE DEF m, w
  <2>4. WorkedOn(c.app, n)' /\ \A a, i : WorkedOn(a, i) => WorkedOn(a, i)'
    BY <2>2, <2>3 DEF WorkedOn
  <2>5. \A a \in App, i \in Nat : Given(m, a, i) => a = c.app /\ i = n
    BY <1>5 DEF m
  <2>6. Owned' /\ Awaited' /\ Counted'
    BY <1>1, <1>2, <1>3, <2>1, <2>4, <2>5, ImportAdded
  <2>7. DOMAIN imports' \in SUBSET (0 .. lastImport') /\ \A i \in DOMAIN imports' : imports'[i] \in Work
    BY <1>1, <1>2, <2>2, <2>3 DEF Orderly, Typed
  <2>8. Typed'
    BY <1>1, <1>2, <1>6, <2>1, <2>7 DEF Orderly, Typed, Mailboxes
  <2> QED
    BY <2>1, <2>6, <2>8 DEF Orderly
<1>7. CASE inbox' = Answer(inbox, c, ErrorReply) /\ UNCHANGED <<lists, lastId, imports>>
  <2> DEFINE m == ErrorReply
  <2>1. /\ inbox' \in Mailboxes /\ calls' \in Seq(Call) /\ Range(calls') \subseteq Range(calls)
        /\ Boxes' /\ Blocked' /\ Kept' /\ ToldRight'
        /\ \A a \in App, i \in Nat :
             /\ Tells(Range(inbox'[a]), i) <=> Tells(Range(inbox[a]), i)
             /\ Promised(waiting[a], Range(inbox'[a]), i) =>
                  Promised(waiting[a], Range(inbox[a]), i) \/ Given(m, a, i)
    BY <1>1, <1>4, <1>7, NoId, AnsweredOnly
  <2>2. \A a, i : ~ Given(m, a, i)
    BY NoId DEF Given
  <2>3. \A a, i : WorkedOn(a, i) => WorkedOn(a, i)'
    BY <1>7 DEF WorkedOn
  <2> HIDE DEF m
  <2>4. Owned' /\ Awaited' /\ Counted'
    BY <1>1, <1>2, <2>1, <2>2, <2>3, ImportsGoOn
  <2>5. DOMAIN imports' \in SUBSET (0 .. lastImport')
    BY <1>1, <1>2, <1>7
  <2>6. Typed'
    BY <1>1, <1>2, <1>7, <2>1, <2>5 DEF Orderly, Typed, Mailboxes
  <2> QED
    BY <2>1, <2>4, <2>6 DEF Orderly
<1>8. CASE /\ NewList(FreeName(c.arg)) /\ UNCHANGED imports
           /\ inbox' = Answer(Broadcast(ToApp(inbox, c.app, Imported(n, lastId)), Created(lastId)),
                              c, Reply(<<n>>))
  <2> DEFINE m == Reply(<<n>>)
             y == Imported(n, lastId)
             start == ToApp(inbox, c.app, y)
  <2>1. y \in Message /\ y.what = "imported" /\ y.import = n
    BY <1>2, Messages, Kinds
  <2>2. /\ start \in Mailboxes /\ \A a \in App : a # c.app => start[a] = inbox[a]
        /\ start[c.app] = Append(inbox[c.app], y)
        /\ Range(start[c.app]) = Range(inbox[c.app]) \cup {y}
    <3> HIDE DEF y
    <3>1. start \in Mailboxes
      BY <1>2, <2>1, SentTo
    <3>2. \A a \in App : a # c.app => start[a] = inbox[a]
      BY <1>2, <2>1, SentTo
    <3>3. PICK b \in App : b = c.app
      BY <1>3
    <3>4. /\ ToApp(inbox, b, y)[b] = Append(inbox[b], y)
          /\ Range(ToApp(inbox, b, y)[b]) = Range(inbox[b]) \cup {y}
      BY <1>2, <2>1, SentTo
    <3> QED
      BY <3>1, <3>2, <3>3, <3>4
  <2>3. \A a \in App : \/ start[a] = inbox[a]
                       \/ \E i \in Nat : start[a] = Append(inbox[a], Imported(i, lastId))
    BY <1>2, <2>2
  <2>4. /\ m \in Message /\ IsReply(m) /\ inbox' = Answer(Broadcast(start, Created(lastId)), c, m)
    BY <1>5, <1>8
  <2> HIDE DEF m, start
  <2>5. /\ inbox' \in Mailboxes /\ calls' \in Seq(Call) /\ Range(calls') \subseteq Range(calls)
        /\ Boxes' /\ Blocked' /\ Kept' /\ ToldRight'
        /\ \A a \in App, i \in Nat :
             /\ Tells(Range(inbox'[a]), i) <=> Tells(Range(start[a]), i)
             /\ Tells(Range(inbox[a]), i) => Tells(Range(inbox'[a]), i)
             /\ Promised(waiting[a], Range(inbox'[a]), i) =>
                  Promised(waiting[a], Range(inbox[a]), i) \/ Given(m, a, i)
    BY <1>1, <1>4, <1>8, <2>2, <2>3, <2>4, MadeAnswered
  <2>6. Tells(Range(inbox'[c.app]), n)
    <3>1. Tells(Range(start[c.app]), n)
      BY <2>1, <2>2 DEF Tells
    <3> QED
      BY <1>2, <1>3, <2>5, <3>1
  <2>7. \A a, i : WorkedOn(a, i) => WorkedOn(a, i)'
    BY <1>8 DEF WorkedOn
  <2>8. \A a \in App, i \in Nat : Given(m, a, i) => a = c.app /\ i = n
    BY <1>5 DEF m
  <2>9. Owned' /\ Awaited' /\ Counted'
    BY <1>1, <1>2, <1>3, <2>5, <2>6, <2>7, <2>8, ImportAdded
  <2>10. DOMAIN imports' \in SUBSET (0 .. lastImport')
    BY <1>1, <1>2, <1>8
  <2>11. DOMAIN lists' \in SUBSET Nat /\ lastId' \in Nat
    <3>1. DOMAIN lists' = DOMAIN lists \cup {lastId} /\ lastId' = lastId + 1
      BY <1>8, NewListed
    <3> QED
      BY <1>2, <3>1 DEF Orderly, Typed
  <2>12. Typed'
    BY <1>1, <1>2, <1>8, <2>5, <2>10, <2>11 DEF Orderly, Typed, Mailboxes
  <2> QED
    BY <2>5, <2>9, <2>12 DEF Orderly
<1> QED
  BY <1>6, <1>7, <1>8 DEF HandleImport

-----------------------------------------------------------------------------
(* A source answers.                                                       *)

LEMMA BlockedKept ==
  ASSUME Orderly, UNCHANGED <<calls, waiting>>,
         \A a \in App : Silent(inbox[a]) => Silent(inbox'[a])
  PROVE  Blocked'
<1>1. \A k \in DOMAIN calls : calls[k].app \in App
  <2>1. calls \in Seq(Call)
    BY DEF Orderly, Typed
  <2>2. \A k \in DOMAIN calls : calls[k] \in Call
    BY <2>1, ElementOfSeq
  <2> QED
    BY <2>2 DEF Call
<1> QED
  BY <1>1 DEF Orderly, Blocked

LEMMA SourceAnswered ==
  ASSUME Orderly, Aside, DOMAIN lists' \in SUBSET Nat, lastId' \in Nat,
         DOMAIN imports' \subseteq DOMAIN imports,
         \A i \in DOMAIN imports' : imports'[i] \in Work,
         inbox' \in Mailboxes, Boxes', Kept', ToldRight',
         \A a \in App :
           /\ Silent(inbox[a]) => Silent(inbox'[a])
           /\ \A i \in Nat :
                /\ Offers(Range(inbox'[a]), i) => Offers(Range(inbox[a]), i)
                /\ Tells(Range(inbox[a]), i) => Tells(Range(inbox'[a]), i)
                /\ WorkedOn(a, i) => WorkedOn(a, i)' \/ Tells(Range(inbox'[a]), i)
  PROVE  Orderly'
<1>1. UNCHANGED <<table, held, requests, waiting, told, answers, cancelled, calls, lastImport>>
  BY DEF client, story, Aside
<1>2. Blocked'
  BY <1>1, BlockedKept
<1>3. lastImport \in Nat /\ lastImport <= lastImport /\ calls \in Seq(Call)
  BY DEF Orderly, Typed
<1>4. Owned' /\ Awaited' /\ Counted'
  <2>1. \A a \in App, i \in Nat :
           /\ Promised(waiting[a], Range(inbox'[a]), i) => Promised(waiting[a], Range(inbox[a]), i)
           /\ Tells(Range(inbox[a]), i) => Tells(Range(inbox'[a]), i)
           /\ Asks(a, i) /\ WorkedOn(a, i) => WorkedOn(a, i)' \/ Tells(Range(inbox'[a]), i)
    BY DEF Promised
  <2>2. Range(calls') \subseteq Range(calls)
    BY <1>1
  <2> QED
    BY <1>1, <1>3, <2>1, <2>2, ImportsGoOn
<1>5. Typed'
  BY <1>1, <1>3 DEF Orderly, Typed, Mailboxes
<1> QED
  BY <1>2, <1>4, <1>5 DEF Orderly

LEMMA Forgotten ==
  ASSUME Orderly, NEW i, Forget(i)
  PROVE  /\ DOMAIN imports' \subseteq DOMAIN imports
         /\ \A j \in DOMAIN imports' : imports'[j] \in Work
         /\ \A a, j : WorkedOn(a, j) => WorkedOn(a, j)' \/ (j = i /\ a = imports[i].app)
<1>1. DOMAIN imports' = DOMAIN imports \ {i} /\ \A j \in DOMAIN imports' : imports'[j] = imports[j]
  BY DEF Forget, Restrict
<1>2. \A j \in DOMAIN imports : imports[j] \in Work
  BY DEF Orderly, Typed
<1>3. \A a, j : WorkedOn(a, j) => WorkedOn(a, j)' \/ (j = i /\ a = imports[i].app)
  BY <1>1 DEF WorkedOn
<1> QED
  BY <1>1, <1>2, <1>3

LEMMA Fails ==
  ASSUME Orderly, NEW i \in DOMAIN imports, Forget(i),
         ImportFailed(inbox, imports[i].app, i), Aside
  PROVE  Orderly'
<1> SUFFICES ASSUME NEW b, b = imports[i].app PROVE Orderly'
  OBVIOUS
<1> DEFINE m == Imported(i, NoList)
<1>1. /\ UNCHANGED <<lists, lastId, waiting, table, held, told>> /\ inbox' = ToApp(inbox, b, m)
  BY DEF ImportFailed, Aside, client, story
<1>2. /\ inbox \in Mailboxes /\ DOMAIN lists \in SUBSET Nat /\ lastId \in Nat
      /\ i \in Nat /\ b \in App
  BY DEF Orderly, Typed, Mailboxes, Work
<1>3. /\ m \in Message /\ ~ IsReply(m) /\ m.what = "imported" /\ m.import = i
      /\ \A p : m # Created(p) /\ m # Destroyed(p)
      /\ \A p \in Nat : ~ Names(m, p)
  <2>1. m \in Message
    BY <1>2, Messages
  <2>2. /\ ~ IsReply(m) /\ m.what = "imported" /\ m.import = i /\ m.id = NoList
        /\ \A p : m # Created(p) /\ m # Destroyed(p)
    BY Kinds DEF IsReply
  <2>3. \A p \in Nat : ~ Names(m, p)
    BY <2>2, Constants DEF Names
  <2> QED
    BY <2>1, <2>2, <2>3
<1> HIDE DEF m
<1>4. inbox' \in Mailboxes
  BY <1>1, <1>2, <1>3, SentTo
<1>5. /\ \A a \in App : a # b => inbox'[a] = inbox[a]
      /\ inbox'[b] = Append(inbox[b], m) /\ Range(inbox'[b]) = Range(inbox[b]) \cup {m}
  <2>1. \A a \in App : a # b => ToApp(inbox, b, m)[a] = inbox[a]
    BY <1>2, <1>3, SentTo
  <2>2. /\ ToApp(inbox, b, m)[b] = Append(inbox[b], m)
        /\ Range(ToApp(inbox, b, m)[b]) = Range(inbox[b]) \cup {m}
    BY <1>2, <1>3, SentTo
  <2> QED
    BY <1>1, <2>1, <2>2
<1>6. Boxes'
  <2> SUFFICES ASSUME NEW a \in App PROVE Box(DOMAIN lists, lastId, waiting[a], inbox'[a])
    BY <1>1 DEF Boxes
  <2>1. Box(DOMAIN lists, lastId, waiting[a], inbox[a])
    BY BoxOf
  <2>2. CASE a = b
    <3>1. Box(DOMAIN lists, lastId, waiting[a], Append(inbox[a], m))
      BY <1>3, <2>1, BoxMore
    <3> QED
      BY <1>5, <2>2, <3>1
  <2> QED
    BY <1>5, <2>1, <2>2
<1>7. Word({}, {})
  BY <1>3, <1>5 DEF Word
<1>8. Kept' /\ ToldRight'
  BY <1>1, <1>7, WordQuiet
<1>9. \A a \in App : Silent(inbox[a]) => Silent(inbox'[a])
  BY <1>3, <1>5 DEF Silent
<1>10. \A a \in App, j \in Nat :
         /\ Offers(Range(inbox'[a]), j) => Offers(Range(inbox[a]), j)
         /\ Tells(Range(inbox[a]), j) => Tells(Range(inbox'[a]), j)
  BY <1>3, <1>5 DEF Offers, Tells
<1>11. Tells(Range(inbox'[b]), i)
  BY <1>3, <1>5 DEF Tells
<1>12. /\ DOMAIN imports' \subseteq DOMAIN imports
       /\ \A j \in DOMAIN imports' : imports'[j] \in Work
       /\ \A a, j : WorkedOn(a, j) => WorkedOn(a, j)' \/ (j = i /\ a = b)
  BY Forgotten
<1> QED
  BY <1>1, <1>2, <1>4, <1>6, <1>8, <1>9, <1>10, <1>11, <1>12, SourceAnswered

LEMMA Done ==
  ASSUME Orderly, NEW i \in DOMAIN imports, Forget(i),
         ImportDone(inbox, imports[i].app, i, imports[i].uri), Aside
  PROVE  Orderly'
<1> SUFFICES ASSUME NEW b, b = imports[i].app PROVE Orderly'
  OBVIOUS
<1> DEFINE y == Imported(i, lastId)
           start == ToApp(inbox, b, y)
<1>1. /\ UNCHANGED <<waiting, table, held, told>>
      /\ inbox' = Broadcast(start, Created(lastId)) /\ NewList(FreeName(imports[i].uri))
  BY DEF ImportDone, Aside, client, story
<1>2. /\ inbox \in Mailboxes /\ DOMAIN lists \in SUBSET Nat /\ lastId \in Nat
      /\ i \in Nat /\ b \in App
  BY DEF Orderly, Typed, Mailboxes, Work
<1>3. DOMAIN lists' = DOMAIN lists \cup {lastId} /\ lastId' = lastId + 1
  BY <1>1, NewListed
<1>4. y \in Message /\ y.what = "imported" /\ y.import = i
  BY <1>2, Messages, Kinds
<1>5. /\ start \in Mailboxes /\ \A a \in App : a # b => start[a] = inbox[a]
      /\ start[b] = Append(inbox[b], y) /\ Range(start[b]) = Range(inbox[b]) \cup {y}
  <2> HIDE DEF y
  <2>1. start \in Mailboxes
    BY <1>2, <1>4, SentTo
  <2>2. \A a \in App : a # b => start[a] = inbox[a]
    BY <1>2, <1>4, SentTo
  <2>3. /\ start[b] = Append(inbox[b], y) /\ Range(start[b]) = Range(inbox[b]) \cup {y}
    BY <1>2, <1>4, SentTo
  <2> QED
    BY <2>1, <2>2, <2>3
<1>6. \A a \in App : \/ start[a] = inbox[a]
                     \/ \E j \in Nat : start[a] = Append(inbox[a], Imported(j, lastId))
  BY <1>2, <1>5
<1> HIDE DEF start
<1>7. Created(lastId) \in Message
  BY <1>2, Messages
<1>8. inbox' \in Mailboxes
  BY <1>1, <1>5, <1>7, BroadcastTo
<1>9. ASSUME NEW a \in App
      PROVE  /\ Box(DOMAIN lists', lastId', waiting[a], inbox'[a])
             /\ Silent(inbox[a]) => Silent(inbox'[a])
             /\ Range(inbox'[a]) = Range(start[a]) \cup {Created(lastId)}
  BY <1>1, <1>3, <1>5, <1>6, MadeBoxes
<1>10. ASSUME NEW a \in App
       PROVE  /\ \A p : /\ Created(p) \in Range(inbox'[a]) <=> Created(p) \in Range(inbox[a]) \/ p = lastId
                        /\ Destroyed(p) \in Range(inbox'[a]) <=> Destroyed(p) \in Range(inbox[a])
              /\ \A j : Tells(Range(inbox'[a]), j) <=> Tells(Range(start[a]), j)
              /\ \A j : Tells(Range(inbox[a]), j) => Tells(Range(start[a]), j)
              /\ \A j : Offers(Range(inbox'[a]), j) => Offers(Range(inbox[a]), j)
  <2> DEFINE box == Range(start[a]) \cup {Created(lastId)}
  <2>1. /\ \A p : /\ Created(p) \in box <=> Created(p) \in Range(inbox[a]) \/ p = lastId
                  /\ Destroyed(p) \in box <=> Destroyed(p) \in Range(inbox[a])
        /\ \A j : Tells(box, j) <=> Tells(Range(start[a]), j)
        /\ \A j : Tells(Range(inbox[a]), j) => Tells(Range(start[a]), j)
        /\ \A j : Offers(box, j) => Offers(Range(inbox[a]), j)
    BY <1>5, <1>6, MadeWord
  <2>2. Range(inbox'[a]) = box
    BY <1>9
  <2> HIDE DEF box
  <2> QED
    BY <2>1, <2>2
<1>11. Boxes'
  BY <1>1, <1>9 DEF Boxes
<1>12. Word({lastId}, {})
  BY <1>10 DEF Word
<1>13. Kept' /\ ToldRight'
  BY <1>1, <1>3, <1>12, WordMade
<1>14. Tells(Range(inbox'[b]), i)
  <2>1. Tells(Range(start[b]), i)
    BY <1>4, <1>5 DEF Tells
  <2> QED
    BY <1>2, <1>10, <2>1
<1>15. /\ DOMAIN imports' \subseteq DOMAIN imports
       /\ \A j \in DOMAIN imports' : imports'[j] \in Work
       /\ \A a, j : WorkedOn(a, j) => WorkedOn(a, j)' \/ (j = i /\ a = b)
  BY Forgotten
<1>16. DOMAIN lists' \in SUBSET Nat /\ lastId' \in Nat
  BY <1>2, <1>3
<1> QED
  BY <1>8, <1>9, <1>10, <1>11, <1>13, <1>14, <1>15, <1>16, SourceAnswered

LEMMA SourceSteps ==
  ASSUME Orderly, NEW i \in DOMAIN imports,
         MetadataAnswer(i) \/ BrowseEnds(i) \/ StoppedBrowseEnds(i)
  PROVE  Orderly'
<1>1. Aside
  BY DEF MetadataAnswer, BrowseEnds, StoppedBrowseEnds
<1>2. CASE Forget(i) /\ ImportFailed(inbox, imports[i].app, i)
  BY <1>1, <1>2, Fails
<1>3. CASE Forget(i) /\ ImportDone(inbox, imports[i].app, i, imports[i].uri)
  BY <1>1, <1>3, Done
<1>4. /\ inbox \in Mailboxes /\ DOMAIN lists \in SUBSET Nat /\ lastId \in Nat
      /\ \A j \in DOMAIN imports : imports[j] \in Work
  BY DEF Orderly, Typed, Mailboxes
<1>5. ASSUME UNCHANGED <<lists, lastId, inbox>> PROVE Boxes' /\ Kept' /\ ToldRight'
  BY <1>1, <1>5 DEF Orderly, Boxes, Kept, ToldRight, Aside, client, story
<1>6. CASE /\ imports[i].st = "dropped" /\ Forget(i) /\ UNCHANGED <<lists, lastId, inbox>>
  <2>1. /\ DOMAIN imports' \subseteq DOMAIN imports
        /\ \A j \in DOMAIN imports' : imports'[j] \in Work
        /\ \A a, j : WorkedOn(a, j) => WorkedOn(a, j)' \/ (j = i /\ a = imports[i].app)
    BY <1>6, Forgotten
  <2>2. \A a : ~ WorkedOn(a, i)
    BY <1>6 DEF WorkedOn
  <2> QED
    BY <1>1, <1>4, <1>5, <1>6, <2>1, <2>2, SourceAnswered
<1>7. CASE /\ imports[i].st = "metadata" /\ imports' = [imports EXCEPT ![i].st = "browse"]
           /\ UNCHANGED <<lists, lastId, inbox>>
  <2>1. DOMAIN imports' = DOMAIN imports /\ \A j \in DOMAIN imports : j # i => imports'[j] = imports[j]
    BY <1>7
  <2>2. imports'[i] = [imports[i] EXCEPT !.st = "browse"]
    BY <1>7
  <2>3. imports'[i] \in Work /\ imports'[i].app = imports[i].app /\ imports'[i].st = "browse"
    BY <1>4, <2>2 DEF Work
  <2>4. \A j \in DOMAIN imports' : imports'[j] \in Work
    BY <1>4, <2>1, <2>3
  <2>5. \A a, j : WorkedOn(a, j) => WorkedOn(a, j)'
    BY <2>1, <2>3 DEF WorkedOn
  <2> QED
    BY <1>1, <1>4, <1>5, <1>7, <2>1, <2>4, <2>5, SourceAnswered
<1> QED
  BY <1>2, <1>3, <1>6, <1>7 DEF MetadataAnswer, BrowseEnds, StoppedBrowseEnds

-----------------------------------------------------------------------------
(* An application makes a call.                                            *)

(* No reply is on its way to an application that waits for none.           *)
LEMMA NotBlocked ==
  ASSUME Orderly, NEW a \in App, waiting[a] = NoCall
  PROVE  /\ Silent(inbox[a]) /\ \A w, i : ~ Promised(w, Range(inbox[a]), i)
         /\ \A k \in DOMAIN calls : calls[k].reply => calls[k].app # a
<1>1. Silent(inbox[a])
  BY BoxOf DEF Box, Silent
<1>2. \A w, i : ~ Promised(w, Range(inbox[a]), i)
  BY <1>1 DEF Promised, Offers, Silent
<1>3. \A k \in DOMAIN calls : calls[k].reply => calls[k].app # a
  BY Constants DEF Orderly, Blocked
<1> QED
  BY <1>1, <1>2, <1>3

LEMMA HeardLess ==
  ASSUME NEW p, NEW c, NEW d, NEW alive, NEW next, NEW box, NEW t, NEW u, NEW h, NEW g,
         Heard(p, c, d, alive, next, box, t, h), p \in g => p \in h \/ p \in u,
         p \in t => p \in u
  PROVE  Heard(p, c, d, alive, next, box, u, g)
BY DEF Heard

LEMMA CallMade ==
  ASSUME Orderly, NEW a \in App, NEW op \in Blocking \cup {"destroy"}, NEW arg \in Arg,
         NEW reply \in BOOLEAN, reply => op \in Blocking, Calls(a, op, arg, reply),
         held' \in [App -> SUBSET Nat], \A b \in App : held'[b] \subseteq held[b],
         requests' \in [App -> SUBSET Nat], cancelled' \in [App -> SUBSET Nat]
  PROVE  Typed' /\ Boxes' /\ Blocked' /\ Kept' /\ ToldRight'
<1> DEFINE c == [app |-> a, op |-> op, arg |-> arg, reply |-> reply]
           w == IF reply THEN op ELSE NoCall
<1>1. /\ waiting[a] = NoCall /\ calls' = Append(calls, c) /\ waiting' = [waiting EXCEPT ![a] = w]
      /\ UNCHANGED <<lists, lastId, imports, lastImport, table, inbox, told, answers>>
  BY DEF Calls, daemon
<1>2. c \in Call /\ c.app = a /\ c.reply = reply /\ c.op = op /\ calls \in Seq(Call)
  BY DEF Call, Orderly, Typed
<1>3. w \in Blocking \cup {NoCall} /\ (reply => w = op)
  OBVIOUS
<1>4. waiting \in [App -> Blocking \cup {NoCall}]
  BY DEF Orderly, Typed
<1>5. Silent(inbox[a]) /\ \A k \in DOMAIN calls : calls[k].reply => calls[k].app # a
  BY <1>1, NotBlocked
<1> HIDE DEF c, w
<1>6. /\ calls' \in Seq(Call) /\ calls'[Len(calls) + 1] = c
      /\ \A k \in DOMAIN calls' : k \in DOMAIN calls \/ k = Len(calls) + 1
      /\ \A k \in DOMAIN calls : calls'[k] = calls[k]
  <2>1. /\ Append(calls, c) \in Seq(Call) /\ Len(calls) \in Nat /\ DOMAIN calls = 1 .. Len(calls)
        /\ DOMAIN Append(calls, c) = 1 .. Len(calls) + 1
        /\ \A k \in DOMAIN calls : Append(calls, c)[k] = calls[k]
        /\ Append(calls, c)[Len(calls) + 1] = c
    BY <1>2, Appended
  <2>2. \A k \in 1 .. Len(calls) + 1 : k \in 1 .. Len(calls) \/ k = Len(calls) + 1
    BY <2>1
  <2> QED
    BY <1>1, <2>1, <2>2
<1>7. waiting' \in [App -> Blocking \cup {NoCall}] /\ waiting'[a] = w
      /\ \A b \in App : b # a => waiting'[b] = waiting[b]
  BY <1>1, <1>3, <1>4
<1>8. Typed'
  BY <1>1, <1>6, <1>7 DEF Orderly, Typed
<1>9. Boxes'
  <2> SUFFICES ASSUME NEW b \in App PROVE Box(DOMAIN lists, lastId, waiting'[b], inbox[b])
    BY <1>1 DEF Boxes
  <2>1. Box(DOMAIN lists, lastId, waiting[b], inbox[b])
    BY BoxOf
  <2> QED
    BY <1>5, <1>7, <2>1, BoxWaits
<1>10. Blocked'
  <2>1. ASSUME NEW k \in DOMAIN calls', calls'[k].reply
        PROVE  /\ calls'[k].op \in Blocking /\ waiting'[calls'[k].app] = calls'[k].op
               /\ Silent(inbox'[calls'[k].app])
    <3>1. CASE k \in DOMAIN calls
      <4>1. /\ calls[k].op \in Blocking /\ waiting[calls[k].app] = calls[k].op
            /\ Silent(inbox[calls[k].app]) /\ calls'[k] = calls[k]
        BY <1>6, <2>1, <3>1 DEF Orderly, Blocked
      <4>2. calls[k] \in Call
        BY <1>2, <3>1, ElementOfSeq
      <4>3. calls[k].app \in App /\ calls[k].app # a
        BY <1>5, <2>1, <3>1, <4>1, <4>2 DEF Call
      <4> QED
        BY <1>1, <1>7, <4>1, <4>3
    <3>2. CASE k = Len(calls) + 1
      BY <1>1, <1>2, <1>3, <1>5, <1>6, <1>7, <2>1, <3>2
    <3> QED
      BY <1>6, <3>1, <3>2
  <2>2. ASSUME NEW j \in DOMAIN calls', NEW k \in DOMAIN calls',
               calls'[j].reply, calls'[k].reply, calls'[j].app = calls'[k].app
        PROVE  j = k
    <3>1. j \in DOMAIN calls /\ k \in DOMAIN calls => j = k
      BY <1>6, <2>2 DEF Orderly, Blocked
    <3>2. j \in DOMAIN calls => calls'[j].app # a
      BY <1>5, <1>6, <2>2
    <3>3. k \in DOMAIN calls => calls'[k].app # a
      BY <1>5, <1>6, <2>2
    <3> QED
      BY <1>2, <1>6, <2>2, <3>1, <3>2, <3>3
  <2> QED
    BY <2>1, <2>2 DEF Blocked
<1>11. Kept'
  BY <1>1 DEF Orderly, Kept
<1>12. ToldRight'
  <2> SUFFICES ASSUME NEW b \in App, NEW p \in Id
               PROVE  Heard(p, told[b]["created"][p], told[b]["destroyed"][p], DOMAIN lists, lastId,
                            Range(inbox[b]), Range(table[b]), held'[b])
    BY <1>1 DEF ToldRight
  <2>1. Heard(p, told[b]["created"][p], told[b]["destroyed"][p], DOMAIN lists, lastId,
              Range(inbox[b]), Range(table[b]), held[b])
    BY DEF Orderly, ToldRight
  <2> QED
    BY <2>1, HeardLess
<1> QED
  BY <1>8, <1>9, <1>10, <1>11, <1>12

(* The imports when an application does something, and the daemon nothing. *)
LEMMA ImportsStill ==
  ASSUME Orderly, UNCHANGED <<imports, lastImport>>,
         \A a \in App, i \in Nat :
           /\ Asks(a, i)' => /\ Asks(a, i) /\ i \notin cancelled'[a]
                             /\ Tells(Range(inbox[a]), i) => Tells(Range(inbox'[a]), i)
           /\ Knows(a, i)' => Knows(a, i)
           /\ i \in requests'[a] => ~ Promised(waiting'[a], Range(inbox'[a]), i),
         \A k \in DOMAIN calls' :
           calls'[k].op = "cancel" => calls'[k].arg \in cancelled'[calls'[k].app]
  PROVE  Owned' /\ Awaited' /\ (answers' = answers => Counted')
<1>1. \A a, i : WorkedOn(a, i)' <=> WorkedOn(a, i)
  BY DEF WorkedOn
<1>2. Owned'
  BY DEF Orderly, Owned
<1>3. Awaited'
  BY <1>1 DEF Orderly, Awaited
<1>4. ASSUME answers' = answers PROVE Counted'
  BY <1>4, Constants DEF Orderly, Counted
<1> QED
  BY <1>2, <1>3, <1>4

(* Any call but that to cancel an import.                                  *)
LEMMA CallSteps ==
  ASSUME Orderly, NEW a \in App, NEW op \in (Blocking \cup {"destroy"}) \ {"cancel"},
         NEW arg \in Arg, NEW reply \in BOOLEAN, reply => op \in Blocking,
         Calls(a, op, arg, reply), UNCHANGED <<requests, cancelled>>,
         held' \in [App -> SUBSET Nat], \A b \in App : held'[b] \subseteq held[b]
  PROVE  Orderly'
<1>1. requests \in [App -> SUBSET Nat] /\ cancelled \in [App -> SUBSET Nat] /\ calls \in Seq(Call)
  BY DEF Orderly, Typed
<1>2. Typed' /\ Boxes' /\ Blocked' /\ Kept' /\ ToldRight'
  <2>1. op \in Blocking \cup {"destroy"}
    OBVIOUS
  <2> QED
    BY <1>1, <2>1, CallMade
<1> DEFINE c == [app |-> a, op |-> op, arg |-> arg, reply |-> reply]
           w == IF reply THEN op ELSE NoCall
<1>3. /\ waiting[a] = NoCall /\ calls' = Append(calls, c) /\ waiting' = [waiting EXCEPT ![a] = w]
      /\ UNCHANGED <<imports, lastImport, inbox, answers>>
  BY DEF Calls, daemon
<1>4. \A u, i : ~ Promised(u, Range(inbox[a]), i)
  BY <1>3, NotBlocked
<1>5. \A b \in App, i \in Nat : Promised(waiting'[b], Range(inbox'[b]), i) <=> Promised(waiting[b], Range(inbox[b]), i)
  <2>1. waiting \in [App -> Blocking \cup {NoCall}]
    BY DEF Orderly, Typed
  <2>2. \A b \in App : b # a => waiting'[b] = waiting[b]
    BY <1>3, <2>1
  <2> QED
    BY <1>3, <1>4, <2>2
<1>6. \A b \in App, i \in Nat : (Asks(b, i)' <=> Asks(b, i)) /\ (Knows(b, i)' <=> Knows(b, i))
  BY <1>5 DEF Asks, Knows
<1>7. \A k \in DOMAIN calls' : calls'[k].op = "cancel" => calls'[k].arg \in cancelled'[calls'[k].app]
  <2>1. c \in Call /\ c.op # "cancel"
    BY DEF Call
  <2> HIDE DEF c
  <2>2. /\ DOMAIN calls = 1 .. Len(calls) /\ Len(calls) \in Nat
        /\ DOMAIN Append(calls, c) = 1 .. Len(calls) + 1
        /\ \A k \in DOMAIN calls : Append(calls, c)[k] = calls[k]
        /\ Append(calls, c)[Len(calls) + 1] = c
    BY <1>1, <2>1, Appended
  <2>3. \A k \in DOMAIN calls' : (k \in DOMAIN calls /\ calls'[k] = calls[k]) \/ calls'[k] = c
    BY <1>3, <2>2
  <2> QED
    BY <2>1, <2>3 DEF Orderly, Owned
<1> HIDE DEF c, w
<1>8. Owned' /\ Awaited' /\ Counted'
  <2>1. \A b \in App, i \in Nat :
          /\ Asks(b, i)' => /\ Asks(b, i) /\ i \notin cancelled'[b]
                            /\ Tells(Range(inbox[b]), i) => Tells(Range(inbox'[b]), i)
          /\ Knows(b, i)' => Knows(b, i)
          /\ i \in requests'[b] => ~ Promised(waiting'[b], Range(inbox'[b]), i)
    BY <1>3, <1>5, <1>6 DEF Orderly, Awaited
  <2> QED
    BY <1>3, <1>7, <2>1, ImportsStill
<1> QED
  BY <1>2, <1>8 DEF Orderly

LEMMA CancelStep ==
  ASSUME Orderly, NEW a \in App, CancelImport(a)
  PROVE  Orderly'
<1>1. PICK n \in requests[a] :
        /\ Calls(a, "cancel", n, TRUE)
        /\ requests' = [requests EXCEPT ![a] = @ \ {n}]
        /\ cancelled' = [cancelled EXCEPT ![a] = @ \cup {n}]
        /\ UNCHANGED held
  BY DEF CancelImport
<1>2. /\ requests \in [App -> SUBSET Nat] /\ cancelled \in [App -> SUBSET Nat]
      /\ held \in [App -> SUBSET Nat] /\ calls \in Seq(Call) /\ n \in Nat
  BY DEF Orderly, Typed
<1>3. /\ requests' \in [App -> SUBSET Nat] /\ cancelled' \in [App -> SUBSET Nat]
      /\ requests'[a] = requests[a] \ {n} /\ cancelled'[a] = cancelled[a] \cup {n}
      /\ \A b \in App : b # a => requests'[b] = requests[b] /\ cancelled'[b] = cancelled[b]
  BY <1>1, <1>2
<1>4. Typed' /\ Boxes' /\ Blocked' /\ Kept' /\ ToldRight'
  <2>1. n \in Arg /\ "cancel" \in Blocking
    BY <1>2 DEF Arg, Blocking
  <2>2. held' \in [App -> SUBSET Nat] /\ \A b \in App : held'[b] \subseteq held[b]
    BY <1>1, <1>2
  <2> QED
    BY <1>1, <1>3, <2>1, <2>2, CallMade
<1> DEFINE c == [app |-> a, op |-> "cancel", arg |-> n, reply |-> TRUE]
<1>5. /\ waiting[a] = NoCall /\ calls' = Append(calls, c) /\ waiting' = [waiting EXCEPT ![a] = "cancel"]
      /\ UNCHANGED <<imports, lastImport, inbox, answers>>
  BY <1>1 DEF Calls, daemon
<1>6. \A u, i : ~ Promised(u, Range(inbox[a]), i)
  BY <1>5, NotBlocked
<1>7. \A b \in App, i \in Nat : Promised(waiting'[b], Range(inbox'[b]), i) <=> Promised(waiting[b], Range(inbox[b]), i)
  <2>1. waiting \in [App -> Blocking \cup {NoCall}]
    BY DEF Orderly, Typed
  <2>2. \A b \in App : b # a => waiting'[b] = waiting[b]
    BY <1>5, <2>1
  <2> QED
    BY <1>5, <1>6, <2>2
<1>8. ASSUME NEW b \in App, NEW i \in Nat
      PROVE  /\ Asks(b, i)' => Asks(b, i) /\ i \notin cancelled'[b]
             /\ Knows(b, i)' => Knows(b, i)
             /\ i \in requests'[b] => ~ Promised(waiting'[b], Range(inbox'[b]), i)
  <2>1. /\ Asks(b, i) => i \notin cancelled[b]
        /\ i \in requests[b] => ~ Promised(waiting[b], Range(inbox[b]), i)
    BY DEF Orderly, Awaited
  <2>2. CASE b = a
    BY <1>3, <1>5, <1>6, <2>1, <2>2 DEF Asks, Knows
  <2>3. CASE b # a
    BY <1>3, <1>7, <2>1, <2>3 DEF Asks, Knows
  <2> QED
    BY <2>2, <2>3
<1>9. \A k \in DOMAIN calls' : calls'[k].op = "cancel" => calls'[k].arg \in cancelled'[calls'[k].app]
  <2>1. c \in Call /\ c.app = a /\ c.arg = n
    BY <1>2 DEF Call, Blocking, Arg
  <2> HIDE DEF c
  <2>2. /\ DOMAIN calls = 1 .. Len(calls) /\ Len(calls) \in Nat
        /\ DOMAIN Append(calls, c) = 1 .. Len(calls) + 1
        /\ \A k \in DOMAIN calls : Append(calls, c)[k] = calls[k]
        /\ Append(calls, c)[Len(calls) + 1] = c
    BY <1>2, <2>1, Appended
  <2>3. \A k \in DOMAIN calls' : (k \in DOMAIN calls /\ calls'[k] = calls[k]) \/ calls'[k] = c
    BY <1>5, <2>2
  <2>4. \A k \in DOMAIN calls : calls[k].app \in App
    <3>1. \A k \in DOMAIN calls : calls[k] \in Call
      BY <1>2, ElementOfSeq
    <3> QED
      BY <3>1 DEF Call
  <2>5. \A b \in App : cancelled[b] \subseteq cancelled'[b]
    BY <1>3
  <2>6. \A k \in DOMAIN calls : calls[k].op = "cancel" => calls[k].arg \in cancelled[calls[k].app]
    BY DEF Orderly, Owned
  <2> QED
    BY <1>3, <2>1, <2>3, <2>4, <2>5, <2>6
<1> HIDE DEF c
<1>10. Owned' /\ Awaited' /\ Counted'
  BY <1>5, <1>8, <1>9, ImportsStill
<1> QED
  BY <1>4, <1>10 DEF Orderly

(* The references of an application change, to playlists of its table.     *)
LEMMA HoldsStep ==
  ASSUME Orderly, NEW a \in App, NEW S \in SUBSET Nat, S \subseteq held[a] \cup Range(table[a]),
         held' = [held EXCEPT ![a] = S],
         UNCHANGED <<daemon, table, requests, waiting, calls, inbox, told, answers, cancelled>>
  PROVE  Orderly'
<1>1. /\ held \in [App -> SUBSET Nat]
      /\ UNCHANGED <<lists, lastId, imports, lastImport>>
  BY DEF Orderly, Typed, daemon
<1>2. held' \in [App -> SUBSET Nat] /\ held'[a] = S /\ \A b \in App : b # a => held'[b] = held[b]
  BY <1>1
<1>3. Typed'
  BY <1>1, <1>2 DEF Orderly, Typed
<1>4. Boxes' /\ Blocked' /\ Kept'
  BY <1>1 DEF Orderly, Boxes, Blocked, Kept
<1>5. ToldRight'
  <2> SUFFICES ASSUME NEW b \in App, NEW p \in Id
               PROVE  Heard(p, told[b]["created"][p], told[b]["destroyed"][p], DOMAIN lists, lastId,
                            Range(inbox[b]), Range(table[b]), held'[b])
    BY <1>1 DEF ToldRight
  <2>1. Heard(p, told[b]["created"][p], told[b]["destroyed"][p], DOMAIN lists, lastId,
              Range(inbox[b]), Range(table[b]), held[b])
    BY DEF Orderly, ToldRight
  <2>2. p \in held'[b] => p \in held[b] \/ p \in Range(table[b])
    BY <1>2
  <2> QED
    BY <2>1, <2>2, HeardLess
<1>6. \A b, i : (Asks(b, i)' <=> Asks(b, i)) /\ (Knows(b, i)' <=> Knows(b, i))
                /\ (WorkedOn(b, i)' <=> WorkedOn(b, i))
  BY <1>1 DEF Asks, Knows, WorkedOn
<1>7. Owned' /\ Awaited' /\ Counted'
  BY <1>1, <1>6 DEF Orderly, Owned, Awaited, Counted
<1> QED
  BY <1>3, <1>4, <1>5, <1>7 DEF Orderly

LEMMA AppSteps == ASSUME Orderly, NEW a \in App, AppActs(a) PROVE Orderly'
<1>1. /\ held \in [App -> SUBSET Nat] /\ held[a] \subseteq Nat /\ Range(table[a]) \subseteq Nat
      /\ lastId \in Nat /\ table[a] \in Seq(Nat)
  <2>1. /\ held \in [App -> SUBSET Nat] /\ table[a] \in Seq(Nat) /\ lastId \in Nat
    BY DEF Orderly, Typed
  <2>2. Range(table[a]) \subseteq Nat
    BY <2>1, InBox
  <2> QED
    BY <2>1, <2>2
<1>2. \A b \in Base : <<b, 0>> \in Name
  BY Constants DEF Name
<1>3. CASE CreatePlaylist(a)
  <2>1. PICK b \in Base : Calls(a, "create", <<b, 0>>, TRUE) /\ UNCHANGED <<held, requests, cancelled>>
    BY <1>3 DEF CreatePlaylist
  <2>2. "create" \in (Blocking \cup {"destroy"}) \ {"cancel"} /\ "create" \in Blocking /\ <<b, 0>> \in Arg
    BY <1>2 DEF Blocking, Arg
  <2> QED
    BY <1>1, <2>1, <2>2, CallSteps
<1>4. CASE DestroyPlaylist(a)
  <2>1. PICK p \in held[a] : /\ Calls(a, "destroy", p, FALSE)
                             /\ held' = [held EXCEPT ![a] = @ \ {p}]
                             /\ UNCHANGED <<requests, cancelled>>
    BY <1>4 DEF DestroyPlaylist
  <2>2. "destroy" \in (Blocking \cup {"destroy"}) \ {"cancel"} /\ p \in Arg
    BY <1>1 DEF Blocking, Arg
  <2>3. held' \in [App -> SUBSET Nat] /\ \A b \in App : held'[b] \subseteq held[b]
    BY <1>1, <2>1
  <2> QED
    BY <2>1, <2>2, <2>3, CallSteps
<1>5. CASE DupPlaylist(a)
  <2>1. PICK p \in held[a], b \in Base :
          Calls(a, "dup", [id |-> p, name |-> <<b, 0>>], TRUE) /\ UNCHANGED <<held, requests, cancelled>>
    BY <1>5 DEF DupPlaylist
  <2>2. /\ "dup" \in (Blocking \cup {"destroy"}) \ {"cancel"} /\ "dup" \in Blocking
        /\ [id |-> p, name |-> <<b, 0>>] \in Arg
    BY <1>1, <1>2 DEF Blocking, Arg
  <2> QED
    BY <1>1, <2>1, <2>2, CallSteps
<1>6. CASE GetPlaylists(a)
  <2>1. Calls(a, "list", NoList, TRUE) /\ UNCHANGED <<held, requests, cancelled>>
    BY <1>6 DEF GetPlaylists
  <2>2. "list" \in (Blocking \cup {"destroy"}) \ {"cancel"} /\ "list" \in Blocking /\ NoList \in Arg
    BY DEF Blocking, Arg
  <2> QED
    BY <1>1, <2>1, <2>2, CallSteps
<1>7. CASE GetPlaylist(a)
  <2>1. PICK p \in 1..(lastId - 1) :
          IF p \in Range(table[a])
          THEN /\ Counts /\ waiting[a] = NoCall /\ p \notin held[a]
               /\ held' = [held EXCEPT ![a] = @ \cup {p}]
               /\ UNCHANGED <<daemon, table, requests, waiting, calls, inbox, told, answers, cancelled, starts>>
          ELSE Calls(a, "get", p, TRUE) /\ UNCHANGED <<held, requests, cancelled>>
    BY <1>7 DEF GetPlaylist
  <2>2. p \in Nat
    BY <1>1
  <2>3. CASE p \in Range(table[a])
    <3>1. held' = [held EXCEPT ![a] = held[a] \cup {p}]
      BY <2>1, <2>3
    <3>2. held[a] \cup {p} \in SUBSET Nat /\ held[a] \cup {p} \subseteq held[a] \cup Range(table[a])
      BY <1>1, <2>2, <2>3
    <3> QED
      BY <2>1, <2>3, <3>1, <3>2, HoldsStep
  <2>4. CASE p \notin Range(table[a])
    <3>1. "get" \in (Blocking \cup {"destroy"}) \ {"cancel"} /\ "get" \in Blocking /\ p \in Arg
      BY <2>2 DEF Blocking, Arg
    <3> QED
      BY <1>1, <2>1, <2>4, <3>1, CallSteps
  <2> QED
    BY <2>3, <2>4
<1>8. CASE Import(a)
  <2>1. PICK b \in Base : Calls(a, "import", b, TRUE) /\ UNCHANGED <<held, requests, cancelled>>
    BY <1>8 DEF Import
  <2>2. "import" \in (Blocking \cup {"destroy"}) \ {"cancel"} /\ "import" \in Blocking /\ b \in Arg
    BY DEF Blocking, Arg
  <2> QED
    BY <1>1, <2>1, <2>2, CallSteps
<1>9. CASE CancelImport(a)
  BY <1>9, CancelStep
<1>10. CASE Release(a)
  <2>1. PICK p \in held[a] :
          /\ held' = [held EXCEPT ![a] = held[a] \ {p}]
          /\ UNCHANGED <<daemon, table, requests, waiting, calls, inbox, told, answers, cancelled>>
    BY <1>10 DEF Release
  <2>2. held[a] \ {p} \in SUBSET Nat /\ held[a] \ {p} \subseteq held[a] \cup Range(table[a])
    BY <1>1
  <2> QED
    BY <2>1, <2>2, HoldsStep
<1> QED
  BY <1>3, <1>4, <1>5, <1>6, <1>7, <1>8, <1>9, <1>10 DEF AppActs

LEMMA TimesOutStep == ASSUME Orderly, NEW a \in App, TimesOut(a) PROVE Orderly'
<1>1. PICK k \in DOMAIN calls :
        calls[k].app = a /\ calls[k].reply /\ calls' = [calls EXCEPT ![k].reply = FALSE]
  BY DEF TimesOut
<1>2. /\ waiting' = [waiting EXCEPT ![a] = NoCall]
      /\ UNCHANGED <<lists, lastId, imports, lastImport, table, held, requests, inbox, told, answers, cancelled>>
  BY DEF TimesOut, daemon
<1>3. calls \in Seq(Call) /\ waiting \in [App -> Blocking \cup {NoCall}]
  BY DEF Orderly, Typed
<1>4. Silent(inbox[a])
  BY <1>1 DEF Orderly, Blocked
<1>5. \A w, i : ~ Promised(w, Range(inbox[a]), i)
  BY <1>4 DEF Promised, Offers, Silent
<1>6. /\ waiting' \in [App -> Blocking \cup {NoCall}] /\ waiting'[a] = NoCall
      /\ \A b \in App : b # a => waiting'[b] = waiting[b]
  BY <1>2, <1>3
<1>7. /\ DOMAIN calls' = DOMAIN calls /\ calls' \in Seq(Call) /\ ~ calls'[k].reply
      /\ \A j \in DOMAIN calls : /\ j # k => calls'[j] = calls[j]
                                 /\ calls'[j].op = calls[j].op /\ calls'[j].app = calls[j].app
                                 /\ calls'[j].arg = calls[j].arg /\ calls[j].app \in App
  <2>1. \A j \in DOMAIN calls : calls[j] \in Call
    BY <1>3, ElementOfSeq
  <2>2. DOMAIN calls' = DOMAIN calls /\ \A j \in DOMAIN calls : j # k => calls'[j] = calls[j]
    BY <1>1
  <2>3. calls'[k] = [calls[k] EXCEPT !.reply = FALSE]
    BY <1>1
  <2>4. /\ calls'[k] \in Call /\ ~ calls'[k].reply /\ calls'[k].op = calls[k].op
        /\ calls'[k].app = calls[k].app /\ calls'[k].arg = calls[k].arg
    BY <2>1, <2>3 DEF Call
  <2>5. calls' \in Seq(Call)
    <3>1. Len(calls) \in Nat /\ DOMAIN calls = 1 .. Len(calls)
      BY <1>3
    <3>2. \A j \in 1 .. Len(calls) : calls'[j] \in Call
      BY <2>1, <2>2, <2>4, <3>1
    <3>3. calls' = [j \in DOMAIN calls' |-> calls'[j]]
      BY <1>1
    <3>4. calls' \in [1 .. Len(calls) -> Call]
      BY <2>2, <3>1, <3>2, <3>3
    <3> QED
      BY <3>1, <3>4, SeqDef
  <2> QED
    BY <2>1, <2>2, <2>4, <2>5 DEF Call
<1>8. Typed'
  BY <1>2, <1>6, <1>7 DEF Orderly, Typed
<1>9. Boxes'
  <2> SUFFICES ASSUME NEW b \in App PROVE Box(DOMAIN lists, lastId, waiting'[b], inbox[b])
    BY <1>2 DEF Boxes
  <2>1. Box(DOMAIN lists, lastId, waiting[b], inbox[b])
    BY BoxOf
  <2> QED
    BY <1>4, <1>6, <2>1, BoxWaits
<1>10. Blocked'
  <2>1. \A j \in DOMAIN calls' : calls'[j].reply => j # k /\ calls[j].reply /\ calls[j].app # a
    BY <1>1, <1>7 DEF Orderly, Blocked
  <2>2. ASSUME NEW j \in DOMAIN calls', calls'[j].reply
        PROVE  /\ calls'[j].op \in Blocking /\ waiting'[calls'[j].app] = calls'[j].op
               /\ Silent(inbox'[calls'[j].app])
    <3>1. j # k /\ calls[j].reply /\ calls[j].app # a /\ calls[j].app \in App /\ calls'[j] = calls[j]
      BY <1>7, <2>1, <2>2
    <3>2. /\ calls[j].op \in Blocking /\ waiting[calls[j].app] = calls[j].op
          /\ Silent(inbox[calls[j].app])
      BY <1>7, <3>1 DEF Orderly, Blocked
    <3> QED
      BY <1>2, <1>6, <3>1, <3>2
  <2> QED
    BY <1>7, <2>1, <2>2 DEF Orderly, Blocked
<1>11. Kept' /\ ToldRight'
  BY <1>2 DEF Orderly, Kept, ToldRight
<1>12. \A b \in App, i \in Nat : Promised(waiting'[b], Range(inbox'[b]), i) <=> Promised(waiting[b], Range(inbox[b]), i)
  BY <1>2, <1>5, <1>6
<1>13. \A b \in App, i \in Nat : (Asks(b, i)' <=> Asks(b, i)) /\ (Knows(b, i)' <=> Knows(b, i))
  BY <1>2, <1>12 DEF Asks, Knows
<1>14. \A j \in DOMAIN calls' : calls'[j].op = "cancel" => calls'[j].arg \in cancelled'[calls'[j].app]
  BY <1>2, <1>7 DEF Orderly, Owned
<1>15. \A b \in App, i \in Nat :
         /\ Asks(b, i)' => /\ Asks(b, i) /\ i \notin cancelled'[b]
                           /\ Tells(Range(inbox[b]), i) => Tells(Range(inbox'[b]), i)
         /\ Knows(b, i)' => Knows(b, i)
         /\ i \in requests'[b] => ~ Promised(waiting'[b], Range(inbox'[b]), i)
  BY <1>2, <1>12, <1>13 DEF Orderly, Awaited
<1>16. Owned' /\ Awaited' /\ Counted'
  BY <1>2, <1>14, <1>15, ImportsStill
<1> QED
  BY <1>8, <1>9, <1>10, <1>11, <1>16 DEF Orderly

-----------------------------------------------------------------------------
(* An application takes what came to it.                                   *)

LEMMA Untouched ==
  ASSUME NEW S, NEW T, NEW f \in [S -> T], NEW x
  PROVE  [f EXCEPT ![x] = f[x]] = f
OBVIOUS

(* Of what came to a, rest remains; t, h, r and said are its table, its    *)
(* references, its requests and what it was told from now on.              *)
LEMMA AppTakes ==
  ASSUME Orderly, NEW a \in App, NEW rest, NEW t, NEW h \in SUBSET Nat, NEW r \in SUBSET Nat,
         NEW said \in [{"created", "destroyed"} -> [Id -> Nat]],
         Silent(rest), Box(DOMAIN lists, lastId, NoCall, rest),
         \A k \in DOMAIN calls : calls[k].reply => calls[k].app # a,
         inbox' = [inbox EXCEPT ![a] = rest], waiting' = [waiting EXCEPT ![a] = NoCall],
         table' = [table EXCEPT ![a] = t], held' = [held EXCEPT ![a] = h],
         requests' = [requests EXCEPT ![a] = r], told' = [told EXCEPT ![a] = said],
         UNCHANGED <<daemon, calls, cancelled>>, answers' \in [App -> [ImportId -> Nat]],
         KeepsAlive(DOMAIN lists, Range(rest), t),
         \A p \in Id : Heard(p, said["created"][p], said["destroyed"][p], DOMAIN lists, lastId,
                             Range(rest), Range(t), h),
         \A i \in r : Asks(a, i) /\ (Tells(Range(inbox[a]), i) => Tells(Range(rest), i))
  PROVE  /\ Typed' /\ Boxes' /\ Blocked' /\ Kept' /\ ToldRight' /\ Owned' /\ Awaited'
         /\ answers' = answers => Counted'
         /\ \A b \in App, i \in Nat :
              Knows(b, i)' => Knows(b, i) /\ (b = a => i \in r \/ i \in cancelled[a])
<1>1. /\ inbox \in [App -> Seq(Message)] /\ waiting \in [App -> Blocking \cup {NoCall}]
      /\ table \in [App -> Seq(Nat)] /\ held \in [App -> SUBSET Nat]
      /\ requests \in [App -> SUBSET Nat] /\ calls \in Seq(Call)
      /\ told \in [App -> [{"created", "destroyed"} -> [Id -> Nat]]]
      /\ UNCHANGED <<lists, lastId, imports, lastImport, calls, cancelled>>
  BY DEF Orderly, Typed, daemon
<1>2. rest \in Seq(Message) /\ t \in Seq(Nat)
  BY DEF Box, KeepsAlive, Table
<1>3. /\ inbox' \in [App -> Seq(Message)] /\ inbox'[a] = rest
      /\ waiting' \in [App -> Blocking \cup {NoCall}] /\ waiting'[a] = NoCall
      /\ table' \in [App -> Seq(Nat)] /\ table'[a] = t
      /\ held' \in [App -> SUBSET Nat] /\ held'[a] = h
      /\ requests' \in [App -> SUBSET Nat] /\ requests'[a] = r
      /\ told' \in [App -> [{"created", "destroyed"} -> [Id -> Nat]]] /\ told'[a] = said
  BY <1>1, <1>2
<1>4. \A b \in App : b # a =>
        /\ inbox'[b] = inbox[b] /\ waiting'[b] = waiting[b] /\ table'[b] = table[b]
        /\ held'[b] = held[b] /\ requests'[b] = requests[b] /\ told'[b] = told[b]
  BY <1>1
<1>5. Typed'
  BY <1>1, <1>3 DEF Orderly, Typed
<1>6. Boxes'
  BY <1>1, <1>3, <1>4 DEF Orderly, Boxes
<1>7. Blocked'
  <2>1. \A k \in DOMAIN calls : calls[k].app \in App
    <3>1. \A k \in DOMAIN calls : calls[k] \in Call
      BY <1>1, ElementOfSeq
    <3> QED
      BY <3>1 DEF Call
  <2> QED
    BY <1>1, <1>4, <2>1 DEF Orderly, Blocked
<1>8. Kept'
  BY <1>1, <1>3, <1>4 DEF Orderly, Kept
<1>9. ToldRight'
  <2> SUFFICES ASSUME NEW b \in App, NEW p \in Id
               PROVE  Heard(p, told'[b]["created"][p], told'[b]["destroyed"][p], DOMAIN lists, lastId,
                            Range(inbox'[b]), Range(table'[b]), held'[b])
    BY <1>1 DEF ToldRight
  <2>1. CASE b = a
    BY <1>3, <2>1
  <2>2. CASE b # a
    BY <1>4, <2>2 DEF Orderly, ToldRight
  <2> QED
    BY <2>1, <2>2
<1>10. \A i : ~ Promised(waiting'[a], Range(inbox'[a]), i)
  BY <1>3 DEF Promised, Offers, Silent
<1>11. ASSUME NEW b \in App, NEW i \in Nat
       PROVE  /\ Asks(b, i)' => /\ Asks(b, i) /\ i \notin cancelled'[b]
                                /\ Tells(Range(inbox[b]), i) => Tells(Range(inbox'[b]), i)
              /\ Knows(b, i)' => Knows(b, i) /\ (b = a => i \in r \/ i \in cancelled[a])
              /\ i \in requests'[b] => ~ Promised(waiting'[b], Range(inbox'[b]), i)
  <2>1. CASE b = a
    <3>1. Asks(a, i)' => i \in r
      BY <1>3, <1>10 DEF Asks
    <3>2. i \in r => Asks(a, i) /\ (Tells(Range(inbox[a]), i) => Tells(Range(rest), i))
      OBVIOUS
    <3>3. Asks(a, i) => i \notin cancelled[a]
      BY DEF Orderly, Awaited
    <3> QED
      BY <1>1, <1>3, <1>10, <2>1, <3>1, <3>2, <3>3 DEF Knows
  <2>2. CASE b # a
    <3>1. /\ Asks(b, i) => i \notin cancelled[b]
          /\ i \in requests[b] => ~ Promised(waiting[b], Range(inbox[b]), i)
      BY DEF Orderly, Awaited
    <3> QED
      BY <1>1, <1>4, <2>2, <3>1 DEF Asks, Knows
  <2> QED
    BY <2>1, <2>2
<1>12. \A k \in DOMAIN calls' : calls'[k].op = "cancel" => calls'[k].arg \in cancelled'[calls'[k].app]
  BY <1>1 DEF Orderly, Owned
<1>13. Owned' /\ Awaited' /\ (answers' = answers => Counted')
  BY <1>1, <1>11, <1>12, ImportsStill
<1> QED
  BY <1>5, <1>6, <1>7, <1>8, <1>9, <1>11, <1>13

LEMMA ReturnsStep == ASSUME Orderly, NEW a \in App, Returns(a) PROVE Orderly'
<1>1. PICK k \in DOMAIN inbox[a] :
        LET m == inbox[a][k] IN
        /\ waiting[a] # NoCall /\ m.what = "reply"
        /\ inbox' = [inbox EXCEPT ![a] = RemoveAt(@, k)]
        /\ waiting' = [waiting EXCEPT ![a] = NoCall]
        /\ CASE waiting[a] \in {"create", "dup", "get", "list"} ->
                  /\ table' = [table EXCEPT ![a] = Registered(@, m.ids)]
                  /\ held' = [held EXCEPT ![a] = IF waiting[a] = "list" THEN @ ELSE @ \cup Range(m.ids)]
                  /\ UNCHANGED <<requests, told>>
             [] waiting[a] = "import" ->
                  /\ requests' = [requests EXCEPT ![a] = @ \cup Range(m.ids)]
                  /\ UNCHANGED <<table, held, told>>
             [] waiting[a] = "resync" /\ m.ok ->
                  \E pick \in [DOMAIN table[a] -> BOOLEAN] :
                    LET r == Resync(table[a], m.ids, pick) IN
                    /\ table' = [table EXCEPT ![a] = r.t]
                    /\ Tell(a, "destroyed", r.gone \cap held[a])
                    /\ UNCHANGED <<held, requests>>
             [] OTHER -> UNCHANGED <<table, held, requests, told>>
        /\ UNCHANGED <<daemon, calls, answers, cancelled, made, starts>>
  BY DEF Returns
<1> SUFFICES ASSUME NEW m, m = inbox[a][k], NEW rest, rest = RemoveAt(inbox[a], k),
                    NEW w, w = waiting[a]
             PROVE  Orderly'
  OBVIOUS
<1>2. /\ IsReply(m) /\ inbox' = [inbox EXCEPT ![a] = rest]
      /\ waiting' = [waiting EXCEPT ![a] = NoCall]
      /\ UNCHANGED <<daemon, calls, cancelled, answers>>
  BY <1>1 DEF IsReply
<1>3. /\ inbox[a] \in Seq(Message) /\ w \in Blocking /\ Box(DOMAIN lists, lastId, w, inbox[a])
      /\ table \in [App -> Seq(Nat)] /\ held \in [App -> SUBSET Nat]
      /\ requests \in [App -> SUBSET Nat]
      /\ told \in [App -> [{"created", "destroyed"} -> [Id -> Nat]]]
      /\ answers \in [App -> [ImportId -> Nat]]
  BY <1>1, BoxOf DEF Orderly, Typed
<1>4. m \in Message /\ m \in Range(inbox[a]) /\ m.ids \in Seq(Nat) /\ Range(m.ids) \subseteq Nat
  <2>1. m \in Message
    BY <1>3, ElementOfSeq
  <2> QED
    BY <1>2, <2>1, ReplyIds DEF Range
<1>5. Silent(rest) /\ Box(DOMAIN lists, lastId, NoCall, rest)
  BY <1>2, <1>3, BoxRemoved
<1>6. Range(inbox[a]) = Range(rest) \cup {m}
  BY <1>3, RemovedRange
<1>7. \A x : ~ IsReply(x) => (x \in Range(rest) <=> x \in Range(inbox[a]))
  BY <1>2, <1>6
<1>8. \A p : /\ Created(p) \in Range(rest) <=> Created(p) \in Range(inbox[a])
             /\ Destroyed(p) \in Range(rest) <=> Destroyed(p) \in Range(inbox[a])
  <2>1. \A p : ~ IsReply(Created(p)) /\ ~ IsReply(Destroyed(p))
    BY Kinds DEF IsReply
  <2> QED
    BY <1>7, <2>1
<1>9. \A i : Tells(Range(inbox[a]), i) => Tells(Range(rest), i)
  BY <1>7 DEF Tells, IsReply
<1>10. \A j \in DOMAIN calls : calls[j].reply => calls[j].app # a
  BY <1>2, <1>4 DEF Orderly, Blocked, Silent
<1>11. Table(table[a]) /\ \A p \in Range(table[a]) : p \in DOMAIN lists \/ Destroyed(p) \in Range(rest)
  <2>1. KeepsAlive(DOMAIN lists, Range(inbox[a]), table[a])
    BY DEF Orderly, Kept
  <2> QED
    BY <1>8, <2>1 DEF KeepsAlive
<1>12. \A p \in Id : Heard(p, told[a]["created"][p], told[a]["destroyed"][p], DOMAIN lists, lastId,
                           Range(rest), Range(table[a]), held[a])
  <2> SUFFICES ASSUME NEW p \in Id
               PROVE  Heard(p, told[a]["created"][p], told[a]["destroyed"][p], DOMAIN lists, lastId,
                            Range(rest), Range(table[a]), held[a])
    OBVIOUS
  <2>1. Heard(p, told[a]["created"][p], told[a]["destroyed"][p], DOMAIN lists, lastId,
              Range(inbox[a]), Range(table[a]), held[a])
    BY DEF Orderly, ToldRight
  <2>2. p \in Nat /\ lastId \in Nat /\ lastId <= lastId
    BY Constants DEF Orderly, Typed
  <2> QED
    BY <1>8, <2>1, <2>2, HeardSame
<1>13. told[a] \in [{"created", "destroyed"} -> [Id -> Nat]] /\ told = [told EXCEPT ![a] = told[a]]
  BY <1>3, Untouched
<1>14. CASE w \in Registering
  <2> DEFINE t == Registered(table[a], m.ids)
             h == IF w = "list" THEN held[a] ELSE held[a] \cup Range(m.ids)
  <2>1. /\ table' = [table EXCEPT ![a] = t] /\ held' = [held EXCEPT ![a] = h]
        /\ UNCHANGED <<requests, told>>
    BY <1>1, <1>14 DEF Registering
  <2>2. requests' = [requests EXCEPT ![a] = requests[a]] /\ told' = [told EXCEPT ![a] = told[a]]
    BY <1>3, <1>13, <2>1, Untouched
  <2>3. Table(t) /\ Range(t) = Range(table[a]) \cup Range(m.ids)
    BY <1>4, <1>11, RegisteredAll
  <2>4. h \in SUBSET Nat /\ \A p \in h : p \in held[a] \/ p \in Range(m.ids)
    BY <1>3, <1>4
  <2> HIDE DEF t, h
  <2>5. KeepsAlive(DOMAIN lists, Range(rest), t)
    <3>1. \A p \in Range(m.ids) : p \in DOMAIN lists \/ Destroyed(p) \in Range(inbox[a])
      BY <1>2, <1>3, <1>4, <1>14 DEF Box
    <3> QED
      BY <1>8, <1>11, <2>3, <3>1 DEF KeepsAlive
  <2>6. \A p \in Id : Heard(p, told[a]["created"][p], told[a]["destroyed"][p], DOMAIN lists, lastId,
                            Range(rest), Range(t), h)
    BY <1>12, <2>3, <2>4, HeardLess
  <2>7. \A i \in requests[a] : Asks(a, i) /\ (Tells(Range(inbox[a]), i) => Tells(Range(rest), i))
    BY <1>9 DEF Asks
  <2>8. requests[a] \in SUBSET Nat
    BY <1>3
  <2>9. /\ Typed' /\ Boxes' /\ Blocked' /\ Kept' /\ ToldRight' /\ Owned' /\ Awaited'
        /\ answers' = answers => Counted'
    BY <1>2, <1>3, <1>5, <1>10, <1>13, <2>1, <2>2, <2>4, <2>5, <2>6, <2>7, <2>8, AppTakes
  <2> QED
    BY <1>2, <2>9 DEF Orderly
<1>15. CASE w = "import"
  <2> DEFINE r == requests[a] \cup Range(m.ids)
  <2>1. /\ requests' = [requests EXCEPT ![a] = r] /\ UNCHANGED <<table, held, told>>
    BY <1>1, <1>15
  <2>2. /\ table' = [table EXCEPT ![a] = table[a]] /\ held' = [held EXCEPT ![a] = held[a]]
        /\ told' = [told EXCEPT ![a] = told[a]]
    BY <1>3, <1>13, <2>1, Untouched
  <2>3. r \in SUBSET Nat /\ held[a] \in SUBSET Nat
    BY <1>3, <1>4
  <2>4. \A i \in r : Asks(a, i)
    <3>1. \A i \in Range(m.ids) : Promised(w, Range(inbox[a]), i)
      BY <1>2, <1>4, <1>15 DEF Promised, Offers
    <3> QED
      BY <3>1 DEF Asks
  <2> HIDE DEF r
  <2>5. \A i \in r : Asks(a, i) /\ (Tells(Range(inbox[a]), i) => Tells(Range(rest), i))
    BY <1>9, <2>4
  <2>6. KeepsAlive(DOMAIN lists, Range(rest), table[a])
    BY <1>11 DEF KeepsAlive
  <2>7. /\ Typed' /\ Boxes' /\ Blocked' /\ Kept' /\ ToldRight' /\ Owned' /\ Awaited'
        /\ answers' = answers => Counted'
    BY <1>2, <1>3, <1>5, <1>10, <1>12, <1>13, <2>1, <2>2, <2>3, <2>5, <2>6, AppTakes
  <2> QED
    BY <1>2, <2>7 DEF Orderly
<1>16. CASE w \notin Registering /\ w # "import"
  <2>1. UNCHANGED <<table, held, requests, told>>
    <3>1. w # "resync" /\ w \notin {"create", "dup", "get", "list"}
      BY <1>3, <1>16 DEF Blocking, Registering
    <3> QED
      BY <1>1, <1>16, <3>1
  <2>2. /\ table' = [table EXCEPT ![a] = table[a]] /\ held' = [held EXCEPT ![a] = held[a]]
        /\ told' = [told EXCEPT ![a] = told[a]] /\ requests' = [requests EXCEPT ![a] = requests[a]]
    BY <1>3, <1>13, <2>1, Untouched
  <2>3. requests[a] \in SUBSET Nat /\ held[a] \in SUBSET Nat
    BY <1>3
  <2>4. \A i \in requests[a] : Asks(a, i) /\ (Tells(Range(inbox[a]), i) => Tells(Range(rest), i))
    BY <1>9 DEF Asks
  <2>5. KeepsAlive(DOMAIN lists, Range(rest), table[a])
    BY <1>11 DEF KeepsAlive
  <2>6. /\ Typed' /\ Boxes' /\ Blocked' /\ Kept' /\ ToldRight' /\ Owned' /\ Awaited'
        /\ answers' = answers => Counted'
    BY <1>2, <1>3, <1>5, <1>10, <1>12, <1>13, <2>1, <2>2, <2>3, <2>4, <2>5, AppTakes
  <2> QED
    BY <1>2, <2>6 DEF Orderly
<1> QED
  BY <1>14, <1>15, <1>16

(* The first of what came to an application that is not blocked.           *)
LEMMA Took ==
  ASSUME Orderly, NEW a \in App, NEW what, Gets(a, what)
  PROVE  LET m == Head(inbox[a])
             rest == Tail(inbox[a])
         IN  /\ m \in Message /\ m.what = what /\ waiting = [waiting EXCEPT ![a] = NoCall]
             /\ inbox' = [inbox EXCEPT ![a] = rest]
             /\ Silent(rest) /\ Box(DOMAIN lists, lastId, NoCall, rest)
             /\ \A k \in DOMAIN calls : calls[k].reply => calls[k].app # a
             /\ Range(inbox[a]) = Range(rest) \cup {m}
             /\ \A w, i : ~ Promised(w, Range(inbox[a]), i)
             /\ \A p \in Nat :
                  /\ Names(m, p) => p < lastId /\ (p \in DOMAIN lists \/ Destroyed(p) \in Range(rest))
                  /\ m = Created(p) => Created(p) \notin Range(rest)
                  /\ m = Destroyed(p) => /\ p < lastId /\ p \notin DOMAIN lists
                                         /\ Destroyed(p) \notin Range(rest)
<1> SUFFICES ASSUME NEW box, box = inbox[a], NEW m, m = Head(box), NEW rest, rest = Tail(box)
             PROVE  /\ m \in Message /\ m.what = what /\ waiting = [waiting EXCEPT ![a] = NoCall]
                    /\ inbox' = [inbox EXCEPT ![a] = rest]
                    /\ Silent(rest) /\ Box(DOMAIN lists, lastId, NoCall, rest)
                    /\ \A k \in DOMAIN calls : calls[k].reply => calls[k].app # a
                    /\ Range(box) = Range(rest) \cup {m}
                    /\ \A w, i : ~ Promised(w, Range(box), i)
                    /\ \A p \in Nat :
                         /\ Names(m, p) => p < lastId /\ (p \in DOMAIN lists \/ Destroyed(p) \in Range(rest))
                         /\ m = Created(p) => Created(p) \notin Range(rest)
                         /\ m = Destroyed(p) => /\ p < lastId /\ p \notin DOMAIN lists
                                                /\ Destroyed(p) \notin Range(rest)
  OBVIOUS
<1>1. /\ waiting[a] = NoCall /\ box # <<>> /\ m.what = what
      /\ inbox' = [inbox EXCEPT ![a] = rest]
  BY DEF Gets, MayDispatch
<1>2. box \in Seq(Message) /\ Box(DOMAIN lists, lastId, NoCall, box)
  BY <1>1, BoxOf
<1>3. waiting = [waiting EXCEPT ![a] = NoCall]
  BY <1>1, Untouched DEF Orderly, Typed
<1>4. /\ m \in Message /\ m = box[1] /\ 1 \in DOMAIN box
      /\ Range(box) = Range(rest) \cup {m}
      /\ \A x \in Range(rest) : \E k \in DOMAIN box : k > 1 /\ box[k] = x
      /\ \A k \in DOMAIN box : k > 1 => box[k] \in Range(rest)
  <2>1. /\ m \in Message /\ m = box[1] /\ Range(box) = Range(rest) \cup {m}
        /\ Len(box) \in Nat \ {0} /\ DOMAIN box = 1 .. Len(box)
        /\ DOMAIN rest = 1 .. Len(box) - 1
        /\ \A k \in 1 .. Len(box) - 1 : rest[k] = box[k + 1]
    BY <1>1, <1>2, TailRange
  <2>2. ASSUME NEW x \in Range(rest) PROVE \E k \in DOMAIN box : k > 1 /\ box[k] = x
    <3>1. PICK k \in DOMAIN rest : rest[k] = x
      BY DEF Range
    <3>2. k + 1 \in DOMAIN box /\ k + 1 > 1 /\ box[k + 1] = x
      BY <2>1, <3>1
    <3> QED
      BY <3>2
  <2>3. ASSUME NEW k \in DOMAIN box, k > 1 PROVE box[k] \in Range(rest)
    <3>1. k - 1 \in DOMAIN rest /\ (k - 1) + 1 = k
      BY <2>1, <2>3
    <3>2. rest[k - 1] = box[k]
      BY <2>1, <3>1
    <3> QED
      BY <3>1, <3>2 DEF Range
  <2> QED
    BY <2>1, <2>2, <2>3
<1>5. Silent(box) /\ Box(DOMAIN lists, lastId, NoCall, rest)
  BY <1>1, <1>2, BoxTail
<1>6. Silent(rest)
  BY <1>4, <1>5 DEF Silent
<1>7. /\ \A w, i : ~ Promised(w, Range(box), i)
      /\ \A k \in DOMAIN calls : calls[k].reply => calls[k].app # a
  BY <1>1, NotBlocked
<1>8. ASSUME NEW p \in Nat
      PROVE  /\ Names(m, p) => p < lastId /\ (p \in DOMAIN lists \/ Destroyed(p) \in Range(rest))
             /\ m = Created(p) => Created(p) \notin Range(rest)
             /\ m = Destroyed(p) => /\ p < lastId /\ p \notin DOMAIN lists
                                    /\ Destroyed(p) \notin Range(rest)
  <2>1. Ordered(p, DOMAIN lists, lastId, box)
    BY <1>2 DEF Box
  <2>2. Names(m, p) => p < lastId /\ (p \in DOMAIN lists \/ Destroyed(p) \in Range(rest))
    BY <1>4, <2>1 DEF Ordered
  <2>3. ~ (1 > 1)
    OBVIOUS
  <2>4. m = Created(p) => Created(p) \notin Range(rest)
    BY <1>4, <2>1, <2>3 DEF Ordered
  <2>5. m = Destroyed(p) => p < lastId /\ p \notin DOMAIN lists
    BY <1>4, <2>1 DEF Ordered
  <2>6. m = Destroyed(p) => Destroyed(p) \notin Range(rest)
    BY <1>4, <2>1, <2>3 DEF Ordered
  <2> QED
    BY <2>2, <2>4, <2>5, <2>6
<1> QED
  BY <1>1, <1>3, <1>4, <1>5, <1>6, <1>7, <1>8

(* Application a has now been told said.                                   *)
ToldNow(a, what, ps, said) ==
  /\ said \in [{"created", "destroyed"} -> [Id -> Nat]]
  /\ told' = [told EXCEPT ![a] = said]
  /\ \A p \in Id : said[what][p] = IF p \in ps THEN 1 ELSE told[a][what][p]
  /\ \A u \in {"created", "destroyed"} : u # what => said[u] = told[a][u]

LEMMA TellOnce ==
  ASSUME NEW a \in App, NEW what \in {"created", "destroyed"}, NEW ps, Tell(a, what, ps),
         told \in [App -> [{"created", "destroyed"} -> [Id -> Nat]]],
         \A p \in Id : p \in ps => told[a][what][p] = 0
  PROVE  \E said : ToldNow(a, what, ps, said)
<1> DEFINE f == [p \in Id |-> IF p \in ps THEN Min({told[a][what][p] + 1, 2}) ELSE told[a][what][p]]
           said == [told[a] EXCEPT ![what] = f]
<1>1. told' = [told EXCEPT ![a] = said]
  BY DEF Tell
<1>2. \A p \in Id : f[p] = IF p \in ps THEN 1 ELSE told[a][what][p]
  BY MinOfTwo
<1>3. DOMAIN f = Id
  OBVIOUS
<1>4. f = [p \in Id |-> f[p]]
  OBVIOUS
<1> HIDE DEF f
<1>5. f \in [Id -> Nat]
  <2>1. \A p \in Id : f[p] \in Nat
    BY <1>2
  <2> QED
    BY <1>4, <2>1
<1>6. said \in [{"created", "destroyed"} -> [Id -> Nat]] /\ said[what] = f
      /\ \A u \in {"created", "destroyed"} : u # what => said[u] = told[a][u]
  BY <1>5
<1>7. ToldNow(a, what, ps, said)
  BY <1>1, <1>2, <1>6 DEF ToldNow
<1> QED
  BY <1>7

(* What is left of what came to an application, when it has been told c of *)
(* p once more if it was Created(p) and d if it was Destroyed(p).          *)
LEMMA HeardTaken ==
  ASSUME NEW p \in Nat, NEW c, NEW d, NEW alive, NEW next \in Nat, NEW m, NEW rest, NEW t, NEW h,
         Heard(p, c, d, alive, next, rest \cup {m}, t, h),
         m # Created(p), m # Destroyed(p)
  PROVE  Heard(p, c, d, alive, next, rest, t, h)
BY DEF Heard

LEMMA CreatedStep == ASSUME Orderly, NEW a \in App, OnCreated(a) PROVE Orderly'
<1> SUFFICES ASSUME NEW m, m = Head(inbox[a]), NEW rest, rest = Tail(inbox[a]), NEW q, q = m.id
             PROVE  Orderly'
  OBVIOUS
<1>1. /\ Gets(a, "created") /\ table' = [table EXCEPT ![a] = register_playlist(table[a], q)]
      /\ Tell(a, "created", {q})
      /\ UNCHANGED <<daemon, held, requests, waiting, calls, answers, cancelled>>
  BY DEF OnCreated
<1>2. /\ m \in Message /\ m.what = "created" /\ waiting = [waiting EXCEPT ![a] = NoCall]
      /\ inbox' = [inbox EXCEPT ![a] = rest]
      /\ Silent(rest) /\ Box(DOMAIN lists, lastId, NoCall, rest)
      /\ \A k \in DOMAIN calls : calls[k].reply => calls[k].app # a
      /\ Range(inbox[a]) = Range(rest) \cup {m}
      /\ \A p \in Nat :
           /\ Names(m, p) => p < lastId /\ (p \in DOMAIN lists \/ Destroyed(p) \in Range(rest))
           /\ m = Created(p) => Created(p) \notin Range(rest)
  BY <1>1, Took
<1>3. q \in Nat /\ m = Created(q)
  BY <1>2 DEF Message, Created
<1>4. /\ q < lastId /\ (q \in DOMAIN lists \/ Destroyed(q) \in Range(rest))
      /\ Created(q) \notin Range(rest)
  BY <1>2, <1>3 DEF Names
<1>5. \A p : (p # q => m # Created(p)) /\ m # Destroyed(p)
  BY <1>3, Kinds
<1>6. /\ told \in [App -> [{"created", "destroyed"} -> [Id -> Nat]]] /\ lastId \in Nat
      /\ held \in [App -> SUBSET Nat] /\ requests \in [App -> SUBSET Nat]
      /\ answers \in [App -> [ImportId -> Nat]]
  BY DEF Orderly, Typed
<1> DEFINE t == register_playlist(table[a], q)
<1>7. /\ KeepsAlive(DOMAIN lists, Range(inbox[a]), table[a])
      /\ Table(t) /\ Range(t) = Range(table[a]) \cup {q}
  <2>1. KeepsAlive(DOMAIN lists, Range(inbox[a]), table[a])
    BY DEF Orderly, Kept
  <2> QED
    BY <1>3, <2>1, RegisteredOne DEF KeepsAlive
<1> HIDE DEF t
<1>8. KeepsAlive(DOMAIN lists, Range(rest), t)
  BY <1>2, <1>4, <1>5, <1>7 DEF KeepsAlive
<1>9. \A p \in Id : Heard(p, told[a]["created"][p], told[a]["destroyed"][p], DOMAIN lists, lastId,
                          Range(rest) \cup {m}, Range(table[a]), held[a])
  BY <1>2 DEF Orderly, ToldRight
<1>10. \A p \in Id : p \in {q} => told[a]["created"][p] = 0
  BY <1>3, <1>9 DEF Heard
<1>11. PICK said : ToldNow(a, "created", {q}, said)
  <2>1. /\ "created" \in {"created", "destroyed"}
        /\ \A p \in Id : p \in {q} => told[a]["created"][p] = 0
    BY <1>10
  <2> QED
    BY <1>1, <1>6, <2>1, TellOnce
<1>12. /\ said \in [{"created", "destroyed"} -> [Id -> Nat]]
       /\ told' = [told EXCEPT ![a] = said] /\ said["destroyed"] = told[a]["destroyed"]
       /\ \A p \in Id : said["created"][p] = IF p = q THEN 1 ELSE told[a]["created"][p]
  BY <1>11 DEF ToldNow
<1>13. ASSUME NEW p \in Id
       PROVE  Heard(p, said["created"][p], said["destroyed"][p], DOMAIN lists, lastId,
                    Range(rest), Range(t), held[a])
  <2>1. p \in Nat
    BY Constants
  <2>2. CASE p = q
    <3>1. said["created"][p] = 1 /\ said["destroyed"][p] = told[a]["destroyed"][p]
      BY <1>12, <2>2
    <3>2. Heard(p, told[a]["created"][p], told[a]["destroyed"][p], DOMAIN lists, lastId,
                Range(rest) \cup {m}, Range(table[a]), held[a])
      BY <1>9
    <3> QED
      BY <1>4, <1>7, <2>2, <3>1, <3>2 DEF Heard
  <2>3. CASE p # q
    <3>1. said["created"][p] = told[a]["created"][p] /\ said["destroyed"][p] = told[a]["destroyed"][p]
      BY <1>12, <2>3
    <3>2. Heard(p, told[a]["created"][p], told[a]["destroyed"][p], DOMAIN lists, lastId,
                Range(rest), Range(table[a]), held[a])
      BY <1>5, <1>6, <1>9, <2>1, <2>3, HeardTaken
    <3> QED
      BY <1>7, <3>1, <3>2, HeardLess
  <2> QED
    BY <2>2, <2>3
<1>14. /\ held' = [held EXCEPT ![a] = held[a]] /\ requests' = [requests EXCEPT ![a] = requests[a]]
       /\ waiting' = [waiting EXCEPT ![a] = NoCall] /\ table' = [table EXCEPT ![a] = t]
       /\ answers' = answers
  BY <1>1, <1>2, <1>6, Untouched DEF t
<1>15. \A i \in requests[a] : Asks(a, i) /\ (Tells(Range(inbox[a]), i) => Tells(Range(rest), i))
  BY <1>2 DEF Asks, Tells
<1>16. held[a] \in SUBSET Nat /\ requests[a] \in SUBSET Nat
  BY <1>6
<1>17. /\ Typed' /\ Boxes' /\ Blocked' /\ Kept' /\ ToldRight' /\ Owned' /\ Awaited'
       /\ answers' = answers => Counted'
  <2>1. /\ Silent(rest) /\ Box(DOMAIN lists, lastId, NoCall, rest)
        /\ \A k \in DOMAIN calls : calls[k].reply => calls[k].app # a
        /\ inbox' = [inbox EXCEPT ![a] = rest]
    BY <1>2
  <2>2. UNCHANGED <<daemon, calls, cancelled>> /\ answers' \in [App -> [ImportId -> Nat]]
    BY <1>1, <1>6
  <2>3. said \in [{"created", "destroyed"} -> [Id -> Nat]] /\ told' = [told EXCEPT ![a] = said]
    BY <1>12
  <2> QED
    BY <2>1, <2>2, <2>3, <1>8, <1>13, <1>14, <1>15, <1>16, AppTakes
<1> QED
  BY <1>14, <1>17 DEF Orderly

LEMMA DestroyedStep == ASSUME Orderly, NEW a \in App, OnDestroyed(a) PROVE Orderly'
<1> SUFFICES ASSUME NEW m, m = Head(inbox[a]), NEW rest, rest = Tail(inbox[a]), NEW q, q = m.id
             PROVE  Orderly'
  OBVIOUS
<1> DEFINE ps == {q} \cap Range(table[a]) \cap held[a]
           t == Unregistered(table[a], q)
<1>1. /\ Gets(a, "destroyed") /\ table' = [table EXCEPT ![a] = t]
      /\ Tell(a, "destroyed", ps)
      /\ UNCHANGED <<daemon, held, requests, waiting, calls, answers, cancelled>>
  BY DEF OnDestroyed
<1>2. /\ m \in Message /\ m.what = "destroyed" /\ waiting = [waiting EXCEPT ![a] = NoCall]
      /\ inbox' = [inbox EXCEPT ![a] = rest]
      /\ Silent(rest) /\ Box(DOMAIN lists, lastId, NoCall, rest)
      /\ \A k \in DOMAIN calls : calls[k].reply => calls[k].app # a
      /\ Range(inbox[a]) = Range(rest) \cup {m}
      /\ \A p \in Nat :
           m = Destroyed(p) => /\ p < lastId /\ p \notin DOMAIN lists
                               /\ Destroyed(p) \notin Range(rest)
  BY <1>1, Took
<1>3. q \in Nat /\ m = Destroyed(q)
  BY <1>2 DEF Message, Destroyed
<1>4. q < lastId /\ q \notin DOMAIN lists /\ Destroyed(q) \notin Range(rest)
  BY <1>2, <1>3
<1>5. \A p : (p # q => m # Destroyed(p)) /\ m # Created(p)
  BY <1>3, Kinds
<1>6. /\ told \in [App -> [{"created", "destroyed"} -> [Id -> Nat]]] /\ lastId \in Nat
      /\ held \in [App -> SUBSET Nat] /\ requests \in [App -> SUBSET Nat]
      /\ answers \in [App -> [ImportId -> Nat]]
  BY DEF Orderly, Typed
<1>7. /\ KeepsAlive(DOMAIN lists, Range(inbox[a]), table[a])
      /\ Table(t) /\ Range(t) = Range(table[a]) \ {q}
  <2>1. KeepsAlive(DOMAIN lists, Range(inbox[a]), table[a])
    BY DEF Orderly, Kept
  <2> QED
    BY <1>3, <2>1, UnregisteredOne DEF KeepsAlive
<1>8. \A p : p \in ps <=> p = q /\ p \in Range(table[a]) /\ p \in held[a]
  OBVIOUS
<1> HIDE DEF t, ps
<1>9. KeepsAlive(DOMAIN lists, Range(rest), t)
  BY <1>2, <1>5, <1>7 DEF KeepsAlive
<1>10. \A p \in Id : Heard(p, told[a]["created"][p], told[a]["destroyed"][p], DOMAIN lists, lastId,
                           Range(rest) \cup {m}, Range(table[a]), held[a])
  BY <1>2 DEF Orderly, ToldRight
<1>11. \A p \in Id : p = q => told[a]["destroyed"][p] = 0
  BY <1>3, <1>10 DEF Heard
<1>12. PICK said : ToldNow(a, "destroyed", ps, said)
  <2>1. /\ "destroyed" \in {"created", "destroyed"}
        /\ \A p \in Id : p \in ps => told[a]["destroyed"][p] = 0
    BY <1>8, <1>11
  <2> QED
    BY <1>1, <1>6, <2>1, TellOnce
<1>13. /\ said \in [{"created", "destroyed"} -> [Id -> Nat]]
       /\ told' = [told EXCEPT ![a] = said] /\ said["created"] = told[a]["created"]
       /\ \A p \in Id : said["destroyed"][p] = IF p \in ps THEN 1 ELSE told[a]["destroyed"][p]
  BY <1>12 DEF ToldNow
<1>14. ASSUME NEW p \in Id
       PROVE  Heard(p, said["created"][p], said["destroyed"][p], DOMAIN lists, lastId,
                    Range(rest), Range(t), held[a])
  <2>1. p \in Nat
    BY Constants
  <2>2. Heard(p, told[a]["created"][p], told[a]["destroyed"][p], DOMAIN lists, lastId,
              Range(rest) \cup {m}, Range(table[a]), held[a])
    BY <1>10
  <2>3. CASE p = q
    <3>1. /\ said["created"][p] = told[a]["created"][p] /\ told[a]["destroyed"][p] = 0
          /\ said["destroyed"][p] = IF p \in Range(table[a]) /\ p \in held[a] THEN 1 ELSE 0
      BY <1>8, <1>11, <1>13, <2>3
    <3> QED
      BY <1>4, <1>5, <2>2, <2>3, <3>1 DEF Heard
  <2>4. CASE p # q
    <3>1. said["created"][p] = told[a]["created"][p] /\ said["destroyed"][p] = told[a]["destroyed"][p]
      BY <1>8, <1>13, <2>4
    <3>2. Heard(p, told[a]["created"][p], told[a]["destroyed"][p], DOMAIN lists, lastId,
                Range(rest), Range(table[a]), held[a])
      BY <1>5, <1>6, <2>1, <2>2, <2>4, HeardTaken
    <3> QED
      BY <1>7, <2>4, <3>1, <3>2, HeardLess
  <2> QED
    BY <2>3, <2>4
<1>15. /\ held' = [held EXCEPT ![a] = held[a]] /\ requests' = [requests EXCEPT ![a] = requests[a]]
       /\ waiting' = [waiting EXCEPT ![a] = NoCall] /\ answers' = answers
  BY <1>1, <1>2, <1>6, Untouched
<1>16. \A i \in requests[a] : Asks(a, i) /\ (Tells(Range(inbox[a]), i) => Tells(Range(rest), i))
  BY <1>2 DEF Asks, Tells
<1>17. held[a] \in SUBSET Nat /\ requests[a] \in SUBSET Nat
  BY <1>6
<1>18. /\ Typed' /\ Boxes' /\ Blocked' /\ Kept' /\ ToldRight' /\ Owned' /\ Awaited'
       /\ answers' = answers => Counted'
  <2>1. /\ Silent(rest) /\ Box(DOMAIN lists, lastId, NoCall, rest)
        /\ \A k \in DOMAIN calls : calls[k].reply => calls[k].app # a
        /\ inbox' = [inbox EXCEPT ![a] = rest]
    BY <1>2
  <2>2. UNCHANGED <<daemon, calls, cancelled>> /\ answers' \in [App -> [ImportId -> Nat]]
    BY <1>1, <1>6
  <2>3. said \in [{"created", "destroyed"} -> [Id -> Nat]] /\ told' = [told EXCEPT ![a] = said]
    BY <1>13
  <2> QED
    BY <2>1, <2>2, <2>3, <1>1, <1>9, <1>14, <1>15, <1>16, <1>17, AppTakes
<1> QED
  BY <1>15, <1>18 DEF Orderly

LEMMA FailedStep == ASSUME Orderly, NEW a \in App, OnFailed(a) PROVE Orderly'
<1> SUFFICES ASSUME NEW m, m = Head(inbox[a]), NEW rest, rest = Tail(inbox[a])
             PROVE  Orderly'
  OBVIOUS
<1>1. Gets(a, "failed") /\ UNCHANGED <<daemon, client, calls, story>>
  BY DEF OnFailed
<1>2. /\ m.what = "failed" /\ waiting = [waiting EXCEPT ![a] = NoCall]
      /\ inbox' = [inbox EXCEPT ![a] = rest]
      /\ Silent(rest) /\ Box(DOMAIN lists, lastId, NoCall, rest)
      /\ \A k \in DOMAIN calls : calls[k].reply => calls[k].app # a
      /\ Range(inbox[a]) = Range(rest) \cup {m}
  BY <1>1, Took
<1>3. \A p : m # Created(p) /\ m # Destroyed(p)
  BY <1>2, Kinds
<1>4. /\ told \in [App -> [{"created", "destroyed"} -> [Id -> Nat]]] /\ lastId \in Nat
      /\ held \in [App -> SUBSET Nat] /\ requests \in [App -> SUBSET Nat]
      /\ table \in [App -> Seq(Nat)] /\ answers \in [App -> [ImportId -> Nat]]
  BY DEF Orderly, Typed
<1>5. KeepsAlive(DOMAIN lists, Range(rest), table[a])
  BY <1>2, <1>3 DEF Orderly, Kept, KeepsAlive
<1>6. ASSUME NEW p \in Id
      PROVE  Heard(p, told[a]["created"][p], told[a]["destroyed"][p], DOMAIN lists, lastId,
                   Range(rest), Range(table[a]), held[a])
  <2>1. p \in Nat
    BY Constants
  <2>2. Heard(p, told[a]["created"][p], told[a]["destroyed"][p], DOMAIN lists, lastId,
              Range(rest) \cup {m}, Range(table[a]), held[a])
    BY <1>2 DEF Orderly, ToldRight
  <2> QED
    BY <1>3, <1>4, <2>1, <2>2, HeardTaken
<1>7. /\ UNCHANGED <<daemon, calls, cancelled>> /\ answers' = answers
      /\ held' = held /\ requests' = requests /\ table' = table /\ told' = told
      /\ waiting' = [waiting EXCEPT ![a] = NoCall]
  BY <1>1, <1>2 DEF client, story
<1>8. /\ held' = [held EXCEPT ![a] = held[a]] /\ requests' = [requests EXCEPT ![a] = requests[a]]
      /\ table' = [table EXCEPT ![a] = table[a]] /\ told' = [told EXCEPT ![a] = told[a]]
  BY <1>4, <1>7, Untouched
<1>9. \A i \in requests[a] : Asks(a, i) /\ (Tells(Range(inbox[a]), i) => Tells(Range(rest), i))
  BY <1>2 DEF Asks, Tells
<1>10. /\ held[a] \in SUBSET Nat /\ requests[a] \in SUBSET Nat
       /\ told[a] \in [{"created", "destroyed"} -> [Id -> Nat]]
       /\ answers' \in [App -> [ImportId -> Nat]]
  BY <1>4, <1>7
<1>11. /\ Typed' /\ Boxes' /\ Blocked' /\ Kept' /\ ToldRight' /\ Owned' /\ Awaited'
       /\ answers' = answers => Counted'
  <2>1. /\ Silent(rest) /\ Box(DOMAIN lists, lastId, NoCall, rest)
        /\ \A k \in DOMAIN calls : calls[k].reply => calls[k].app # a
        /\ inbox' = [inbox EXCEPT ![a] = rest]
    BY <1>2
  <2> QED
    BY <1>5, <1>6, <1>7, <1>8, <1>9, <1>10, <2>1, AppTakes
<1> QED
  BY <1>7, <1>11 DEF Orderly

LEMMA ImportedStep == ASSUME Orderly, NEW a \in App, OnImported(a) PROVE Orderly'
<1> SUFFICES ASSUME NEW m, m = Head(inbox[a]), NEW rest, rest = Tail(inbox[a]),
                    NEW n, n = m.import, NEW q, q = m.id
             PROVE  Orderly'
  OBVIOUS
<1>1. /\ Gets(a, "imported")
      /\ UNCHANGED <<daemon, held, waiting, calls, told, cancelled>>
  BY DEF OnImported
<1>2. /\ m \in Message /\ m.what = "imported" /\ waiting = [waiting EXCEPT ![a] = NoCall]
      /\ inbox' = [inbox EXCEPT ![a] = rest]
      /\ Silent(rest) /\ Box(DOMAIN lists, lastId, NoCall, rest)
      /\ \A k \in DOMAIN calls : calls[k].reply => calls[k].app # a
      /\ Range(inbox[a]) = Range(rest) \cup {m}
      /\ \A p \in Nat : Names(m, p) => p \in DOMAIN lists \/ Destroyed(p) \in Range(rest)
  BY <1>1, Took
<1>3. n \in Nat /\ q \in Nat \cup {NoList}
  BY <1>2 DEF Message
<1>4. \A p : m # Created(p) /\ m # Destroyed(p)
  BY <1>2, Kinds
<1>5. /\ told \in [App -> [{"created", "destroyed"} -> [Id -> Nat]]] /\ lastId \in Nat
      /\ held \in [App -> SUBSET Nat] /\ requests \in [App -> SUBSET Nat]
      /\ table \in [App -> Seq(Nat)] /\ answers \in [App -> [ImportId -> Nat]]
  BY DEF Orderly, Typed
<1>6. KeepsAlive(DOMAIN lists, Range(rest), table[a])
  BY <1>2, <1>4 DEF Orderly, Kept, KeepsAlive
<1>7. ASSUME NEW p \in Id
      PROVE  Heard(p, told[a]["created"][p], told[a]["destroyed"][p], DOMAIN lists, lastId,
                   Range(rest), Range(table[a]), held[a])
  <2>1. p \in Nat
    BY Constants
  <2>2. Heard(p, told[a]["created"][p], told[a]["destroyed"][p], DOMAIN lists, lastId,
              Range(rest) \cup {m}, Range(table[a]), held[a])
    BY <1>2 DEF Orderly, ToldRight
  <2> QED
    BY <1>4, <1>5, <2>1, <2>2, HeardTaken
<1>8. /\ held' = [held EXCEPT ![a] = held[a]] /\ told' = [told EXCEPT ![a] = told[a]]
      /\ waiting' = [waiting EXCEPT ![a] = NoCall]
      /\ Silent(rest) /\ Box(DOMAIN lists, lastId, NoCall, rest)
      /\ \A k \in DOMAIN calls : calls[k].reply => calls[k].app # a
      /\ inbox' = [inbox EXCEPT ![a] = rest]
      /\ UNCHANGED <<daemon, calls, cancelled>>
      /\ held[a] \in SUBSET Nat /\ requests[a] \in SUBSET Nat
      /\ told[a] \in [{"created", "destroyed"} -> [Id -> Nat]]
  BY <1>1, <1>2, <1>5, Untouched
<1>9. \A i : Tells(Range(inbox[a]), i) /\ i # n => Tells(Range(rest), i)
  BY <1>2 DEF Tells
<1>10. CASE n \notin requests[a]
  <2>1. UNCHANGED <<table, requests, answers>>
    BY <1>10 DEF OnImported
  <2>2. /\ table' = [table EXCEPT ![a] = table[a]] /\ requests' = [requests EXCEPT ![a] = requests[a]]
        /\ answers' \in [App -> [ImportId -> Nat]]
    BY <1>5, <2>1, Untouched
  <2>3. \A i \in requests[a] : Asks(a, i) /\ (Tells(Range(inbox[a]), i) => Tells(Range(rest), i))
    BY <1>9, <1>10 DEF Asks
  <2>4. /\ Typed' /\ Boxes' /\ Blocked' /\ Kept' /\ ToldRight' /\ Owned' /\ Awaited'
        /\ answers' = answers => Counted'
    BY <1>6, <1>7, <1>8, <2>2, <2>3, AppTakes
  <2> QED
    BY <2>1, <2>4 DEF Orderly
<1>11. CASE n \in requests[a]
  <2> DEFINE t == IF q = NoList THEN table[a] ELSE register_playlist(table[a], q)
             r == requests[a] \ {n}
  <2>1. /\ table' = [table EXCEPT ![a] = t] /\ requests' = [requests EXCEPT ![a] = r]
        /\ answers' = [answers EXCEPT ![a][n] = @ + 1]
    BY <1>11 DEF OnImported
  <2>2. Table(table[a])
    BY <1>6 DEF KeepsAlive
  <2>3. /\ KeepsAlive(DOMAIN lists, Range(rest), t)
        /\ \A p : p \in Range(table[a]) => p \in Range(t)
    <3>1. CASE q = NoList
      BY <1>6, <3>1
    <3>2. CASE q # NoList
      <4>1. q \in Nat /\ Names(m, q)
        BY <1>2, <1>3, <3>2 DEF Names
      <4>2. Table(t) /\ Range(t) = Range(table[a]) \cup {q}
        BY <2>2, <3>2, <4>1, RegisteredOne
      <4>3. q \in DOMAIN lists \/ Destroyed(q) \in Range(rest)
        BY <1>2, <4>1
      <4> HIDE DEF t
      <4> QED
        BY <1>6, <4>2, <4>3 DEF KeepsAlive
    <3> QED
      BY <3>1, <3>2
  <2> HIDE DEF t
  <2>4. \A p \in Id : Heard(p, told[a]["created"][p], told[a]["destroyed"][p], DOMAIN lists, lastId,
                            Range(rest), Range(t), held[a])
    BY <1>7, <2>3, HeardLess
  <2>5. r \in SUBSET Nat /\ \A i \in r : Asks(a, i) /\ (Tells(Range(inbox[a]), i) => Tells(Range(rest), i))
    BY <1>5, <1>9 DEF Asks
  <2> HIDE DEF r
  <2>6. \A b \in App, i \in ImportId :
          answers'[b][i] = IF b = a /\ i = n THEN answers[b][i] + 1 ELSE answers[b][i]
    BY <1>5, <2>1
  <2>7. answers' \in [App -> [ImportId -> Nat]]
    <3> DEFINE f == [answers[a] EXCEPT ![n] = @ + 1]
    <3>1. answers[a] \in [ImportId -> Nat]
      BY <1>5
    <3>2. f \in [ImportId -> Nat]
      <4>1. CASE n \in ImportId
        <5>1. answers[a][n] + 1 \in Nat
          BY <3>1, <4>1
        <5> QED
          BY <3>1, <5>1
      <4>2. CASE n \notin ImportId
        <5>1. f = answers[a]
          BY <3>1, <4>2
        <5> QED
          BY <3>1, <5>1
      <4> QED
        BY <4>1, <4>2
    <3>3. answers' = [answers EXCEPT ![a] = f]
      BY <2>1
    <3> HIDE DEF f
    <3> QED
      BY <1>5, <3>2, <3>3
  <2>8. /\ Typed' /\ Boxes' /\ Blocked' /\ Kept' /\ ToldRight' /\ Owned' /\ Awaited'
        /\ \A b \in App, i \in Nat :
             Knows(b, i)' => Knows(b, i) /\ (b = a => i \in r \/ i \in cancelled[a])
    BY <1>8, <2>1, <2>3, <2>4, <2>5, <2>7, AppTakes
  <2>9. Knows(a, n) /\ n <= lastImport /\ lastImport' = lastImport
    <3>1. Knows(a, n)
      BY <1>11 DEF Knows, Asks
    <3> QED
      BY <1>1, <1>3, <3>1 DEF Orderly, Owned, daemon
  <2>10. \A b \in App : ~ Knows(b, n)'
    <3> SUFFICES ASSUME NEW b \in App, Knows(b, n)' PROVE FALSE
      OBVIOUS
    <3>1. Knows(b, n) /\ (b = a => n \in r \/ n \in cancelled[a])
      BY <1>3, <2>8
    <3>2. b = a
      BY <1>3, <2>9, <3>1 DEF Orderly, Owned
    <3>3. n \notin cancelled[a]
      BY <1>3, <1>11 DEF Orderly, Awaited, Asks
    <3> QED
      BY <3>1, <3>2, <3>3 DEF r
  <2>11. Counted'
    <3> SUFFICES ASSUME NEW b \in App, NEW i \in ImportId
                 PROVE  /\ answers'[b][i] <= 1 /\ (answers'[b][i] # 0 => i <= lastImport')
                        /\ Knows(b, i)' => answers'[b][i] = 0
      BY DEF Counted
    <3>1. /\ answers[b][i] <= 1 /\ (answers[b][i] # 0 => i <= lastImport)
          /\ Knows(b, i) => answers[b][i] = 0
      BY DEF Orderly, Counted
    <3>2. CASE i = n
      <4>1. ~ Knows(b, i)'
        BY <2>10, <3>2
      <4>2. CASE b = a
        <5>1. answers'[b][i] = 0 + 1
          BY <2>6, <2>9, <3>1, <3>2, <4>2
        <5> QED
          BY <2>9, <3>2, <4>1, <5>1
      <4>3. CASE b # a
        BY <2>6, <2>9, <3>1, <4>1, <4>3
      <4> QED
        BY <4>2, <4>3
    <3>3. CASE i # n
      <4>1. answers'[b][i] = answers[b][i] /\ (Knows(b, i)' => Knows(b, i))
        BY <2>6, <2>8, <3>3, Constants
      <4> QED
        BY <2>9, <3>1, <4>1
    <3> QED
      BY <3>2, <3>3
  <2> QED
    BY <2>8, <2>11 DEF Orderly
<1> QED
  BY <1>10, <1>11

LEMMA Dispatches == ASSUME Orderly, NEW a \in App, Dispatch(a) PROVE Orderly'
<1>1. ~ OnOwner(a)
  <2> SUFFICES ASSUME OnOwner(a) PROVE FALSE
    OBVIOUS
  <2>1. Gets(a, "owner")
    BY DEF OnOwner
  <2>2. Head(inbox[a]) \in Message /\ Head(inbox[a]).what = "owner"
    BY <2>1, Took
  <2> QED
    BY <2>2 DEF Message
<1> QED
  BY <1>1, CreatedStep, DestroyedStep, FailedStep, ImportedStep DEF Dispatch

-----------------------------------------------------------------------------
(* The daemon starts.                                                      *)

LEMMA HasMax ==
  ASSUME NEW S \in SUBSET Nat, IsFiniteSet(S), S # {}
  PROVE  \E m \in S : \A x \in S : m >= x
<1> DEFINE Bad(A) == A \in SUBSET Nat /\ IsFiniteSet(A) /\ A # {} /\ ~ \E m \in A : \A x \in A : m >= x
           T == {n \in Nat : \E A : Bad(A) /\ Cardinality(A) = n}
<1> SUFFICES ASSUME Bad(S) PROVE FALSE
  OBVIOUS
<1>1. T \subseteq Nat /\ T # {}
  <2>1. Cardinality(S) \in Nat
    BY FS_CardinalityType
  <2> QED
    BY <2>1
<1>2. PICK n \in T : \A k \in T : ~ (k < n)
  <2>1. \E m \in T : \A k \in T : <<k, m>> \notin OpToRel(<, Nat)
    BY <1>1, WFMin, NatLessThanWellFounded
  <2> QED
    BY <1>1, <2>1 DEF OpToRel
<1>3. PICK A : Bad(A) /\ Cardinality(A) = n
  BY <1>1
<1>4. A \in SUBSET Nat /\ IsFiniteSet(A) /\ A # {} /\ ~ \E m \in A : \A x \in A : m >= x
  BY <1>3
<1>5. PICK y \in A : TRUE
  BY <1>4
<1> DEFINE B == A \ {y}
<1>6. IsFiniteSet(B) /\ Cardinality(B) = Cardinality(A) - 1 /\ Cardinality(A) \in Nat
  BY <1>4, <1>5, FS_RemoveElement, FS_CardinalityType
<1>7. Cardinality(B) \in Nat
  BY <1>6, FS_CardinalityType
<1>8. B # {}
  <2> SUFFICES ASSUME B = {} PROVE FALSE
    OBVIOUS
  <2>1. A = {y} /\ y >= y
    BY <1>4, <1>5
  <2> QED
    BY <1>4, <2>1
<1>9. ~ Bad(B)
  <2>1. n \in Nat /\ \A k \in T : ~ (k < n)
    BY <1>1, <1>2
  <2>2. Cardinality(A) = n
    BY <1>3
  <2> HIDE DEF T, Bad, B
  <2>3. Cardinality(B) < n
    BY <1>6, <2>1, <2>2
  <2>4. Cardinality(B) \notin T
    BY <2>1, <2>3
  <2> QED
    BY <1>7, <2>4 DEF T
<1>10. PICK m \in B : \A x \in B : m >= x
  BY <1>4, <1>6, <1>8, <1>9
<1>11. CASE m >= y
  <2>1. m \in A /\ \A x \in A : m >= x
    BY <1>10, <1>11
  <2> QED
    BY <1>4, <2>1
<1>12. CASE ~ (m >= y)
  <2>1. m \in Nat /\ y \in Nat /\ y >= y /\ \A x \in B : x \in Nat
    BY <1>4, <1>5
  <2>2. \A x \in B : y >= x
    BY <1>10, <1>12, <2>1
  <2>3. \A x \in A : y >= x
    BY <2>1, <2>2
  <2> QED
    BY <1>4, <1>5, <2>3
<1> QED
  BY <1>11, <1>12

LEMMA FirstId ==
  LET next == Max(DOMAIN Loaded \cup {0}) + 1 IN
  next \in Nat /\ \A p \in DOMAIN Loaded : p \in Nat /\ p < next
<1> DEFINE S == DOMAIN Loaded \cup {0}
           top == Max(S)
<1>1. S \in SUBSET Nat /\ S # {} /\ IsFiniteSet(S)
  <2>1. IsFiniteSet({0}) /\ IsFiniteSet(DOMAIN Loaded)
    BY FS_Singleton, ManagerConstants
  <2>2. IsFiniteSet(DOMAIN Loaded \cup {0})
    BY <2>1, FS_Union
  <2>3. DOMAIN Loaded \subseteq Nat
    BY ManagerConstants
  <2> QED
    BY <2>2, <2>3
<1>2. top = CHOOSE x \in S : \A y \in S : x >= y
  BY DEF Max
<1> HIDE DEF S, top
<1>3. \E x \in S : \A y \in S : x >= y
  BY <1>1, HasMax
<1>4. top \in S /\ \A y \in S : top >= y
  BY <1>2, <1>3, Zenon
<1>5. top \in Nat /\ \A p \in S : p \in Nat /\ p < top + 1
  BY <1>1, <1>4
<1> QED
  BY <1>5 DEF S, top

LEMMA Starts == ASSUME Init PROVE Inv
<1>1. /\ lists = Loaded /\ lastId = Max(DOMAIN Loaded \cup {0}) + 1
      /\ imports = <<>> /\ lastImport = 0 /\ table = [a \in App |-> <<>>]
      /\ held = [a \in App |-> {}] /\ requests = [a \in App |-> {}]
      /\ waiting = [a \in App |-> NoCall] /\ calls = <<>> /\ inbox = [a \in App |-> <<>>]
      /\ told = [a \in App |-> [what \in {"created", "destroyed"} |-> [p \in Id |-> 0]]]
      /\ answers = [a \in App |-> [i \in ImportId |-> 0]]
      /\ cancelled = [a \in App |-> {}] /\ starts = 0
  BY DEF Init
<1>2. lastId \in Nat /\ DOMAIN lists \in SUBSET Nat /\ \A p \in DOMAIN lists : p < lastId
  BY <1>1, FirstId
<1>3. <<>> \in Seq(Message) /\ <<>> \in Seq(Nat) /\ <<>> \in Seq(Call) /\ DOMAIN <<>> = {}
      /\ Range(<<>>) = {}
  BY DEF Range
<1>4. Typed
  <2>1. DOMAIN imports = {}
    BY <1>1
  <2>2. \A p \in Id : 0 \in Nat
    OBVIOUS
  <2>3. [p \in Id |-> 0] \in [Id -> Nat] /\ [i \in ImportId |-> 0] \in [ImportId -> Nat]
    OBVIOUS
  <2>4. told \in [App -> [{"created", "destroyed"} -> [Id -> Nat]]]
    BY <1>1, <2>3
  <2>5. answers \in [App -> [ImportId -> Nat]]
    BY <1>1, <2>3
  <2>6. /\ inbox \in [App -> Seq(Message)] /\ waiting \in [App -> Blocking \cup {NoCall}]
        /\ table \in [App -> Seq(Nat)] /\ held \in [App -> SUBSET Nat]
        /\ requests \in [App -> SUBSET Nat] /\ cancelled \in [App -> SUBSET Nat]
    BY <1>1, <1>3
  <2> QED
    BY <1>1, <1>2, <1>3, <2>1, <2>4, <2>5, <2>6 DEF Typed
<1>5. \A a \in App : /\ inbox[a] = <<>> /\ table[a] = <<>> /\ held[a] = {} /\ requests[a] = {}
                     /\ cancelled[a] = {} /\ waiting[a] = NoCall
                     /\ \A p \in Id : told[a]["created"][p] = 0 /\ told[a]["destroyed"][p] = 0
                     /\ \A i \in ImportId : answers[a][i] = 0
  BY <1>1
<1>6. Boxes
  <2>1. ASSUME NEW p \in Nat PROVE Ordered(p, DOMAIN lists, lastId, <<>>)
    BY <1>2, <1>3 DEF Ordered
  <2>2. Box(DOMAIN lists, lastId, NoCall, <<>>)
    BY <1>2, <1>3, <2>1 DEF Box
  <2> QED
    BY <1>5, <2>2 DEF Boxes
<1>7. Blocked
  BY <1>1, <1>3 DEF Blocked
<1>8. Kept
  <2>1. Table(<<>>)
    BY <1>3 DEF Table, IsInjective
  <2> QED
    BY <1>3, <1>5, <2>1 DEF Kept, KeepsAlive
<1>9. ToldRight
  <2> SUFFICES ASSUME NEW a \in App, NEW p \in Id
               PROVE  Heard(p, told[a]["created"][p], told[a]["destroyed"][p], DOMAIN lists, lastId,
                            Range(inbox[a]), Range(table[a]), held[a])
    BY DEF ToldRight
  <2>1. told[a]["created"][p] = 0 /\ told[a]["destroyed"][p] = 0 /\ held[a] = {}
    BY <1>5
  <2>2. p \notin DOMAIN lists \ DOMAIN Loaded
    BY <1>1
  <2> QED
    BY <2>1, <2>2 DEF Heard
<1>10. \A a \in App : \A i : ~ Asks(a, i) /\ ~ Knows(a, i)
  BY <1>3, <1>5 DEF Asks, Knows, Promised, Offers
<1>11. Owned
  BY <1>1, <1>3, <1>10 DEF Owned
<1>12. Awaited
  BY <1>5, <1>10 DEF Awaited
<1>13. Counted
  BY <1>5, <1>10 DEF Counted
<1> QED
  BY <1>1, <1>4, <1>6, <1>7, <1>8, <1>9, <1>11, <1>12, <1>13 DEF Inv, Orderly

-----------------------------------------------------------------------------
(* Every step.                                                             *)

LEMMA DaemonSteps == ASSUME Orderly, DaemonServes PROVE Orderly'
BY Creates, Destroys, Dups, ListsOrGets, Imports, Cancels DEF DaemonServes

LEMMA StartsKept ==
  ASSUME starts \in Nat, [Next]_vars
  PROVE  starts' \in Nat /\ (starts' = 0 => starts = 0 /\ ~ Restart)
<1>1. ASSUME Restart PROVE starts' \in Nat /\ starts' # 0
  BY <1>1 DEF Restart
<1>2. ASSUME ~ Restart PROVE starts' = starts
  <2>1. ASSUME DaemonServes PROVE starts' = starts
    BY <2>1 DEF DaemonServes, HandleCreate, HandleDestroy, HandleDup, HandleList, HandleImport,
                HandleCancelImport, Served, story
  <2>2. ASSUME NEW i \in DOMAIN imports, MetadataAnswer(i) \/ BrowseEnds(i) \/ StoppedBrowseEnds(i)
        PROVE  starts' = starts
    BY <2>2 DEF MetadataAnswer, BrowseEnds, StoppedBrowseEnds, Aside, story
  <2>3. ASSUME NEW a \in App, AppActs(a) \/ TimesOut(a) PROVE starts' = starts
    BY <2>3 DEF AppActs, CreatePlaylist, DestroyPlaylist, DupPlaylist, GetPlaylists, GetPlaylist,
                Import, CancelImport, Release, Calls, TimesOut
  <2>4. ASSUME NEW a \in App, Returns(a) PROVE starts' = starts
    BY <2>4 DEF Returns
  <2>5. ASSUME NEW a \in App, Dispatch(a) PROVE starts' = starts
    BY <2>5 DEF Dispatch, OnCreated, OnDestroyed, OnFailed, OnImported, OnOwner, story
  <2>6. ASSUME UNCHANGED vars PROVE starts' = starts
    BY <2>6 DEF vars, story
  <2> QED
    BY <1>2, <2>1, <2>2, <2>3, <2>4, <2>5, <2>6 DEF Next, SourceAnswers, MainLoop
<1> QED
  BY <1>1, <1>2

(* Nothing happens.                                                        *)
LEMMA Stutters == ASSUME Orderly, UNCHANGED vars PROVE Orderly'
<1>1. UNCHANGED <<lists, lastId, imports, lastImport, table, held, requests, waiting,
                  calls, inbox, told, answers, cancelled>>
  BY DEF vars, daemon, client, story
<1>2. Typed'
  BY <1>1 DEF Orderly, Typed
<1>3. Boxes'
  BY <1>1 DEF Orderly, Boxes
<1>4. Blocked' /\ Kept' /\ ToldRight'
  BY <1>1 DEF Orderly, Blocked, Kept, ToldRight
<1>5. \A a \in App : \A i : /\ Asks(a, i)' = Asks(a, i) /\ Knows(a, i)' = Knows(a, i)
                        /\ WorkedOn(a, i)' = WorkedOn(a, i)
  BY <1>1 DEF Asks, Knows, WorkedOn
<1>6. Owned' /\ Awaited' /\ Counted'
  BY <1>1, <1>5 DEF Orderly, Owned, Awaited, Counted, Asks, Knows, WorkedOn
<1> QED
  BY <1>2, <1>3, <1>4, <1>6 DEF Orderly

LEMMA Keeps == ASSUME Inv, [Next]_vars PROVE Inv'
<1>1. starts' \in Nat /\ (starts' = 0 => starts = 0 /\ ~ Restart)
  BY StartsKept DEF Inv
<1>2. ASSUME starts' = 0 PROVE Orderly'
  <2>1. Orderly /\ ~ Restart
    BY <1>1, <1>2 DEF Inv
  <2>2. CASE DaemonServes
    BY <2>1, <2>2, DaemonSteps
  <2>3. ASSUME NEW i \in DOMAIN imports, MetadataAnswer(i) \/ BrowseEnds(i) \/ StoppedBrowseEnds(i)
        PROVE  Orderly'
    BY <2>1, <2>3, SourceSteps
  <2>4. ASSUME NEW a \in App, AppActs(a) \/ TimesOut(a) \/ MainLoop(a) PROVE Orderly'
    BY <2>1, <2>4, AppSteps, TimesOutStep, ReturnsStep, Dispatches DEF MainLoop
  <2>5. CASE UNCHANGED vars
    BY <2>1, <2>5, Stutters
  <2> QED
    BY <2>1, <2>2, <2>3, <2>4, <2>5 DEF Next, SourceAnswers
<1> QED
  BY <1>1, <1>2 DEF Inv

-----------------------------------------------------------------------------
(* The theorems.                                                           *)

(* The strengthening: until the daemon is restarted, each queue to an      *)
(* application has what names a playlist before the word that it is gone,  *)
(* each of them once; an application waits for one reply at most; and an   *)
(* import has one owner, who is answered once or has cancelled.            *)
THEOREM StaysOrderly == Spec => []Inv
<1> QED
  BY Starts, Keeps, PTL DEF Spec

LEMMA Words ==
  ASSUME NEW a, NEW m, Orderly, a \in App
  PROVE  Coming(a, m) <=> m \in Range(inbox[a])
BY DEF Coming, Range

(* However the signals of the daemon, its replies, its messages and the    *)
(* calls of any number of applications interleave, the playlists in an     *)
(* application's table exist, or playlist_destroyed for them is on its way *)
(* (register_playlist, unregister_playlist in mafw-playlist-manager.c).    *)
THEOREM NoDeadPlaylists == Spec => []NothingDeadKeptYet
<1>1. ASSUME Inv PROVE NothingDeadKeptYet
  <2> SUFFICES ASSUME starts = 0, NEW a \in App, NEW p \in Range(table[a]), p \notin DOMAIN lists
               PROVE  Coming(a, Destroyed(p))
    BY DEF NothingDeadKeptYet, NothingDeadKept
  <2>1. Orderly
    BY <1>1 DEF Inv
  <2>2. Destroyed(p) \in Range(inbox[a])
    BY <2>1 DEF Orderly, Kept, KeepsAlive
  <2> QED
    BY <2>1, <2>2, Words
<1> QED
  BY <1>1, StaysOrderly, PTL

(* Each application is told once that a playlist was made (the reply of    *)
(* create_playlist and the signal register it once), and once that it was  *)
(* destroyed if it refers to it, in that order of the daemon's signals.    *)
THEOREM EachIsTold == Spec => []ToldOnce
<1>1. ASSUME Inv, starts = 0, NEW a \in App, NEW p \in Id
      PROVE  /\ told[a]["created"][p] <= 1 /\ told[a]["destroyed"][p] <= 1
             /\ p \in DOMAIN lists \ DOMAIN Loaded =>
                  (told[a]["created"][p] = 0 <=> Coming(a, Created(p)))
             /\ told[a]["destroyed"][p] = 1 => p \notin DOMAIN lists /\ p \notin Range(table[a])
             /\ p \in held[a] \ DOMAIN lists =>
                  told[a]["destroyed"][p] = 1 \/ Coming(a, Destroyed(p))
  <2> DEFINE c == told[a]["created"][p]
             d == told[a]["destroyed"][p]
  <2>1. Orderly
    BY <1>1 DEF Inv
  <2>2. Heard(p, c, d, DOMAIN lists, lastId, Range(inbox[a]), Range(table[a]), held[a])
    BY <1>1, <2>1 DEF Orderly, ToldRight
  <2>3. \A q \in Range(table[a]) : q \in DOMAIN lists \/ Destroyed(q) \in Range(inbox[a])
    BY <1>1, <2>1 DEF Orderly, Kept, KeepsAlive
  <2>4. /\ Coming(a, Created(p)) <=> Created(p) \in Range(inbox[a])
        /\ Coming(a, Destroyed(p)) <=> Destroyed(p) \in Range(inbox[a])
    BY <1>1, <2>1, Words
  <2> HIDE DEF c, d
  <2>5. c \in {0, 1} /\ (c = 1 => Created(p) \notin Range(inbox[a]))
    BY <2>2 DEF Heard
  <2>6. p \in DOMAIN lists \ DOMAIN Loaded => c = 1 \/ Created(p) \in Range(inbox[a])
    BY <2>2 DEF Heard
  <2>7. d \in {0, 1} /\ (d = 1 => p \notin DOMAIN lists /\ Destroyed(p) \notin Range(inbox[a]))
    BY <2>2 DEF Heard
  <2>8. p \in held[a] => p \in Range(table[a]) \/ d = 1
    BY <2>2 DEF Heard
  <2>9. c <= 1 /\ d <= 1
    BY <2>5, <2>7
  <2>10. p \in DOMAIN lists \ DOMAIN Loaded => (c = 0 <=> Coming(a, Created(p)))
    BY <2>4, <2>5, <2>6
  <2>11. d = 1 => p \notin DOMAIN lists /\ p \notin Range(table[a])
    BY <2>3, <2>7
  <2>12. p \in held[a] \ DOMAIN lists => d = 1 \/ Coming(a, Destroyed(p))
    BY <2>3, <2>4, <2>8
  <2> QED
    BY <2>9, <2>10, <2>11, <2>12 DEF c, d
<1>2. Inv => ToldOnce
  BY <1>1 DEF ToldOnce
<1> QED
  BY <1>2, StaysOrderly, PTL

(* An import that mafw_playlist_manager_import gave an id for is in the    *)
(* daemon's import_requests, or its import_result is on its way; its       *)
(* callback runs once at most, and never after cancel_import.              *)
THEOREM ImportsAnswered == Spec => []ImportComing
<1>1. ASSUME Inv, starts = 0, NEW a \in App, NEW i \in ImportId
      PROVE  /\ i \in requests[a] =>
                  \/ i \in DOMAIN imports /\ imports[i].app = a /\ imports[i].st \in {"metadata", "browse"}
                  \/ \E k \in DOMAIN inbox[a] : inbox[a][k].what = "imported" /\ inbox[a][k].import = i
             /\ answers[a][i] <= 1
             /\ i \in cancelled[a] => answers[a][i] = 0
  <2>1. Orderly /\ i \in Nat
    BY <1>1, Constants DEF Inv
  <2>2. i \in requests[a] => WorkedOn(a, i) \/ Tells(Range(inbox[a]), i)
    BY <1>1, <2>1 DEF Orderly, Awaited, Asks
  <2>3. Tells(Range(inbox[a]), i) =>
          \E k \in DOMAIN inbox[a] : inbox[a][k].what = "imported" /\ inbox[a][k].import = i
    BY DEF Tells, Range
  <2>4. answers[a][i] <= 1 /\ (i \in cancelled[a] => answers[a][i] = 0)
    BY <1>1, <2>1 DEF Orderly, Counted, Knows
  <2> QED
    BY <2>2, <2>3, <2>4 DEF WorkedOn
<1>2. Inv => ImportComing
  BY <1>1 DEF ImportComing
<1> QED
  BY <1>2, StaysOrderly, PTL
=============================================================================
