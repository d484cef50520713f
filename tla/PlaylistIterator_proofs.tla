------------------------ MODULE PlaylistIterator_proofs ------------------------
(* Proofs about PlaylistIterator.  The sizes the playlist had when each of *)
(* the signals on their way was sent (f), the place the current item had   *)
(* then (g), and how many of the signals are older than what the iterator  *)
(* was last told (m) relate what it has to what the playlist is.           *)
EXTENDS MCPlaylistIterator, TLAPS, SequenceTheorems

Signals == [kind : {"contents"}, from : Nat, nremove : Nat, nreplace : Nat]
             \cup [kind : {"moved"}, from : Nat, to : Nat]

(* What a signal says about a playlist of n items, and about place p.      *)
After(n, s) == IF s.kind = "contents" THEN n + s.nreplace - s.nremove ELSE n
Fits(n, s)  == s.kind = "contents" =>
                 s.from + s.nremove <= n /\ (s.nremove = 0 \/ s.nreplace = 0)
Pushed(p, s) == IF p < s.from THEN p ELSE p + s.nreplace - s.nremove
Stays(p, s)  == p < s.from \/ s.from + s.nremove <= p

(* f[i] is the size of the playlist after the i-th signal of q, n its size *)
(* after the last one.                                                     *)
Sizes(f, q, sz, n) ==
  /\ f \in [0 .. Len(q) -> 0 .. MaxLen] /\ f[0] = sz /\ f[Len(q)] = n
  /\ \A i \in 1 .. Len(q) : Fits(f[i - 1], q[i]) /\ f[i] = After(f[i - 1], q[i])

Grown(f, l, n) == [i \in 0 .. l + 1 |-> IF i = l + 1 THEN n ELSE f[i]]
Dropped(f, l)  == [i \in 0 .. l - 1 |-> f[i + 1]]

USE NoOidAssumption, BoundAssumption, AllowedAssumption

-----------------------------------------------------------------------------
(* The sizes, as signals are sent and handled.                             *)

LEMMA SignalTypes ==
  /\ \A a, b, c \in Nat : Contents(a, b, c) \in Signals
  /\ \A a, b \in Nat : Moved(a, b) \in Signals
BY DEF Contents, Moved, Signals

LEMMA SentSizes ==
  ASSUME NEW q \in Seq(Signals), NEW sz, NEW n \in 0 .. MaxLen, NEW f, Sizes(f, q, sz, n),
         NEW s \in Signals, Fits(n, s), After(n, s) \in 0 .. MaxLen
  PROVE  Sizes(Grown(f, Len(q), After(n, s)), Append(q, s), sz, After(n, s))
<1> DEFINE l == Len(q)
           r == Append(q, s)
           h == Grown(f, l, After(n, s))
<1>1. /\ l \in Nat /\ Len(r) = l + 1 /\ r[l + 1] = s
      /\ \A i \in 1 .. l : r[i] = q[i]
  OBVIOUS
<1>2. f \in [0 .. l -> 0 .. MaxLen] /\ f[0] = sz /\ f[l] = n
  BY DEF Sizes
<1>3. \A i \in 1 .. l : Fits(f[i - 1], q[i]) /\ f[i] = After(f[i - 1], q[i])
  BY DEF Sizes
<1> HIDE DEF r, l
<1>4. /\ h \in [0 .. l + 1 -> 0 .. MaxLen]
      /\ \A i \in 0 .. l : h[i] = f[i]
      /\ h[l + 1] = After(n, s)
  BY <1>1, <1>2 DEF Grown
<1> HIDE DEF h
<1>5. \A i \in 1 .. l + 1 : Fits(h[i - 1], r[i]) /\ h[i] = After(h[i - 1], r[i])
  <2> SUFFICES ASSUME NEW i \in 1 .. l + 1
               PROVE  Fits(h[i - 1], r[i]) /\ h[i] = After(h[i - 1], r[i])
    OBVIOUS
  <2>1. CASE i = l + 1
    <3>1. i - 1 = l /\ l \in 0 .. l
      BY <1>1, <2>1
    <3>2. h[i - 1] = n /\ r[i] = s /\ h[i] = After(n, s)
      BY <1>1, <1>2, <1>4, <2>1, <3>1
    <3> QED
      BY <3>2
  <2>2. CASE i # l + 1
    <3>1. i \in 1 .. l /\ i - 1 \in 0 .. l /\ i \in 0 .. l
      BY <1>1, <2>2
    <3>2. h[i - 1] = f[i - 1] /\ r[i] = q[i] /\ h[i] = f[i]
      BY <1>1, <1>4, <3>1
    <3> QED
      BY <1>3, <3>1, <3>2
  <2> QED
    BY <2>1, <2>2
<1>6. h[0] = sz
  BY <1>1, <1>2, <1>4
<1>7. Sizes(h, r, sz, After(n, s))
  BY <1>1, <1>4, <1>5, <1>6 DEF Sizes
<1> QED
  BY <1>7 DEF h, r, l

LEMMA HandledSizes ==
  ASSUME NEW q \in Seq(Signals), q # <<>>, NEW sz, NEW n, NEW f, Sizes(f, q, sz, n)
  PROVE  /\ Sizes(Dropped(f, Len(q)), Tail(q), f[1], n)
         /\ f[1] = After(sz, Head(q)) /\ Fits(sz, Head(q))
         /\ f[1] \in 0 .. MaxLen /\ sz \in 0 .. MaxLen
<1> DEFINE l == Len(q)
           r == Tail(q)
           h == Dropped(f, l)
<1>1. /\ l \in Nat /\ l >= 1 /\ Len(r) = l - 1 /\ Head(q) = q[1]
      /\ \A i \in 1 .. l - 1 : r[i] = q[i + 1]
  OBVIOUS
<1>2. f \in [0 .. l -> 0 .. MaxLen] /\ f[0] = sz /\ f[l] = n
  BY DEF Sizes
<1>3. \A i \in 1 .. l : Fits(f[i - 1], q[i]) /\ f[i] = After(f[i - 1], q[i])
  BY DEF Sizes
<1> HIDE DEF r, l
<1>4. h \in [0 .. l - 1 -> 0 .. MaxLen] /\ \A i \in 0 .. l - 1 : h[i] = f[i + 1]
  BY <1>1, <1>2 DEF Dropped
<1> HIDE DEF h
<1>5. \A i \in 1 .. l - 1 : Fits(h[i - 1], r[i]) /\ h[i] = After(h[i - 1], r[i])
  <2> SUFFICES ASSUME NEW i \in 1 .. l - 1
               PROVE  Fits(h[i - 1], r[i]) /\ h[i] = After(h[i - 1], r[i])
    OBVIOUS
  <2>1. i + 1 \in 1 .. l /\ (i + 1) - 1 = i /\ (i - 1) + 1 = i /\ i - 1 \in 0 .. l - 1
    BY <1>1
  <2>2. h[i - 1] = f[i] /\ h[i] = f[i + 1] /\ r[i] = q[i + 1]
    BY <1>1, <1>4, <2>1
  <2> QED
    BY <1>3, <2>1, <2>2
<1>6. h[0] = f[1] /\ h[l - 1] = n
  <2>1. 0 \in 0 .. l - 1 /\ l - 1 \in 0 .. l - 1 /\ (l - 1) + 1 = l
    BY <1>1
  <2> QED
    BY <1>2, <1>4, <2>1
<1>7. Sizes(h, r, f[1], n)
  BY <1>1, <1>4, <1>5, <1>6 DEF Sizes
<1>8. f[1] = After(sz, Head(q)) /\ Fits(sz, Head(q)) /\ f[1] \in 0 .. MaxLen /\ sz \in 0 .. MaxLen
  <2>1. 1 \in 1 .. l /\ 1 - 1 = 0 /\ 1 \in 0 .. l /\ 0 \in 0 .. l
    BY <1>1
  <2> QED
    BY <1>1, <1>2, <1>3, <2>1
<1> QED
  BY <1>7, <1>8 DEF h, r, l

-----------------------------------------------------------------------------
(* The edits, and what their signals say of them.                          *)

Distinct(a) == \A i, j \in 1 .. Len(a) : a[i] = a[j] => i = j

(* List b is list a edited as the signal s says.                           *)
EditedBy(a, b, s) ==
  /\ \A p \in 0 .. Len(a) - 1 : Stays(p, s) => b[Pushed(p, s) + 1] = a[p + 1]
  /\ \A p \in 0 .. Len(a) - 1 : ~Stays(p, s) => a[p + 1] \notin RangeOf(b)

WithNew(a, at, new) == SubSeq(a, 1, at) \o new \o SubSeq(a, at + 1, Len(a))
WithMoved(a, from, to) ==
  [k \in 1 .. Len(a) |->
     IF k = to + 1 THEN a[from + 1]
     ELSE IF from < k /\ k <= to THEN a[k + 1]
     ELSE IF to + 1 < k /\ k <= from + 1 THEN a[k - 1] ELSE a[k]]

LEMMA Joined ==
  \A s, t \in Seq(Oid) :
    /\ s \o t \in Seq(Oid) /\ Len(s \o t) = Len(s) + Len(t)
    /\ \A i \in 1 .. Len(s) + Len(t) :
         (s \o t)[i] = IF i <= Len(s) THEN s[i] ELSE t[i - Len(s)]
BY ConcatProperties

LEMMA Cut ==
  \A a \in Seq(Oid) : \A k \in 1 .. Len(a) + 1, l \in 0 .. Len(a) : k <= l + 1 =>
    /\ SubSeq(a, k, l) \in Seq(Oid) /\ Len(SubSeq(a, k, l)) = l - k + 1
    /\ \A i \in 1 .. l - k + 1 : SubSeq(a, k, l)[i] = a[k + i - 1]
<1>1. SUFFICES ASSUME NEW a \in Seq(Oid), NEW k \in 1 .. Len(a) + 1, NEW l \in 0 .. Len(a),
                      k <= l + 1
               PROVE  /\ SubSeq(a, k, l) \in Seq(Oid) /\ Len(SubSeq(a, k, l)) = l - k + 1
                      /\ \A i \in 1 .. l - k + 1 : SubSeq(a, k, l)[i] = a[k + i - 1]
  OBVIOUS
<1>2. Len(a) \in Nat /\ \A i \in k .. l : a[i] \in Oid
  OBVIOUS
<1>3. /\ SubSeq(a, k, l) \in Seq(Oid)
      /\ Len(SubSeq(a, k, l)) = IF k <= l THEN l - k + 1 ELSE 0
      /\ \A i \in 1 .. l - k + 1 : SubSeq(a, k, l)[i] = a[k + i - 1]
  BY <1>2, SubSeqProperties
<1>4. k > l => l - k + 1 = 0
  BY <1>1, <1>2
<1> QED
  BY <1>3, <1>4

LEMMA InsertedList ==
  ASSUME NEW a \in Seq(Oid), NEW at \in 0 .. Len(a), NEW n \in Nat,
         NEW new \in [1 .. n -> Oid]
  PROVE  /\ WithNew(a, at, new) \in Seq(Oid) /\ Len(WithNew(a, at, new)) = Len(a) + n
         /\ \A i \in 1 .. Len(a) + n :
              WithNew(a, at, new)[i]
                = IF i <= at THEN a[i] ELSE IF i <= at + n THEN new[i - at] ELSE a[i - n]
<1> DEFINE head  == SubSeq(a, 1, at)
           tail  == SubSeq(a, at + 1, Len(a))
           front == head \o new
           b     == front \o tail
<1>1. Len(a) \in Nat /\ at \in 0 .. Len(a) /\ n \in Nat
  OBVIOUS
<1>2. new \in Seq(Oid) /\ Len(new) = n
  OBVIOUS
<1>3. head \in Seq(Oid) /\ Len(head) = at /\ \A i \in 1 .. at : head[i] = a[i]
  <2>1. 1 \in 1 .. Len(a) + 1 /\ at \in 0 .. Len(a) /\ 1 <= at + 1 /\ at - 1 + 1 = at
    BY <1>1
  <2>2. \A i \in 1 .. at : 1 + i - 1 = i
    BY <1>1
  <2> QED
    BY <2>1, <2>2, Cut
<1>4. /\ tail \in Seq(Oid) /\ Len(tail) = Len(a) - at
      /\ \A i \in 1 .. Len(a) - at : tail[i] = a[at + i]
  <2>1. /\ at + 1 \in 1 .. Len(a) + 1 /\ Len(a) \in 0 .. Len(a) /\ at + 1 <= Len(a) + 1
        /\ Len(a) - (at + 1) + 1 = Len(a) - at
    BY <1>1
  <2>2. \A i \in 1 .. Len(a) - at : at + 1 + i - 1 = at + i
    BY <1>1
  <2>3. /\ tail \in Seq(Oid) /\ Len(tail) = Len(a) - (at + 1) + 1
        /\ \A i \in 1 .. Len(a) - (at + 1) + 1 : tail[i] = a[at + 1 + i - 1]
    BY <2>1, Cut
  <2> HIDE DEF tail
  <2> QED
    BY <2>1, <2>2, <2>3
<1> HIDE DEF head, tail
<1>5. /\ front \in Seq(Oid) /\ Len(front) = at + n
      /\ \A i \in 1 .. at + n : front[i] = IF i <= at THEN a[i] ELSE new[i - at]
  <2>1. /\ front \in Seq(Oid) /\ Len(front) = Len(head) + Len(new)
        /\ \A i \in 1 .. Len(head) + Len(new) :
             front[i] = IF i <= Len(head) THEN head[i] ELSE new[i - Len(head)]
    BY <1>2, <1>3, Joined
  <2> HIDE DEF front
  <2>2. ASSUME NEW i \in 1 .. at + n
        PROVE  front[i] = IF i <= at THEN a[i] ELSE new[i - at]
    <3>1. i <= at => i \in 1 .. at
      BY <1>1
    <3> QED
      BY <1>2, <1>3, <2>1, <3>1
  <2> QED
    BY <1>2, <1>3, <2>1, <2>2
<1> HIDE DEF front
<1>6. /\ b \in Seq(Oid) /\ Len(b) = Len(front) + Len(tail)
      /\ \A i \in 1 .. Len(front) + Len(tail) :
           b[i] = IF i <= Len(front) THEN front[i] ELSE tail[i - Len(front)]
  BY <1>4, <1>5, Joined
<1> HIDE DEF b
<1>7. b \in Seq(Oid) /\ Len(b) = Len(a) + n
  BY <1>1, <1>4, <1>5, <1>6
<1>8. ASSUME NEW i \in 1 .. Len(a) + n
      PROVE  b[i] = IF i <= at THEN a[i] ELSE IF i <= at + n THEN new[i - at] ELSE a[i - n]
  <2>1. i \in 1 .. Len(front) + Len(tail)
    BY <1>1, <1>4, <1>5
  <2>2. CASE i <= at + n
    <3>1. b[i] = front[i] /\ i \in 1 .. at + n
      BY <1>1, <1>5, <1>6, <2>1, <2>2
    <3> QED
      BY <1>5, <2>2, <3>1
  <2>3. CASE ~(i <= at + n)
    <3>1. b[i] = tail[i - (at + n)] /\ i - (at + n) \in 1 .. Len(a) - at
      BY <1>1, <1>5, <1>6, <2>1, <2>3
    <3>2. at + (i - (at + n)) = i - n /\ ~(i <= at)
      BY <1>1, <2>3
    <3> QED
      BY <1>4, <2>3, <3>1, <3>2
  <2> QED
    BY <2>2, <2>3
<1> QED
  BY <1>7, <1>8 DEF WithNew, b, front, head, tail

LEMMA InsertedItems ==
  ASSUME NEW a \in Seq(Oid), Distinct(a), NEW at \in 0 .. Len(a), NEW n \in Nat,
         NEW new \in [1 .. n -> Oid \ RangeOf(a)],
         \A i, j \in 1 .. n : new[i] = new[j] => i = j,
         NEW b \in Seq(Oid), Len(b) = Len(a) + n,
         \A i \in 1 .. Len(a) + n :
           b[i] = IF i <= at THEN a[i] ELSE IF i <= at + n THEN new[i - at] ELSE a[i - n]
  PROVE  Distinct(b) /\ EditedBy(a, b, Contents(at, 0, n))
<1>1. /\ Len(a) \in Nat /\ \A i \in 1 .. Len(a) : a[i] \in RangeOf(a)
      /\ \A i \in 1 .. n : new[i] \notin RangeOf(a)
  <2>1. Len(a) \in Nat /\ \A i \in 1 .. Len(a) : a[i] \in RangeOf(a)
    BY DEF RangeOf
  <2>2. \A i \in 1 .. n : new[i] \notin RangeOf(a)
    OBVIOUS
  <2> QED
    BY <2>1, <2>2
<1>2. \A k, l \in 1 .. Len(a) : a[k] = a[l] => k = l
  BY DEF Distinct
<1> DEFINE old(k) == IF k <= at THEN k ELSE k - n
<1>3. \A k \in 1 .. Len(a) + n :
        \/ ~(at < k /\ k <= at + n) /\ old(k) \in 1 .. Len(a) /\ b[k] = a[old(k)]
        \/ at < k /\ k <= at + n /\ k - at \in 1 .. n /\ b[k] = new[k - at]
  BY <1>1
<1>4. ASSUME NEW i \in 1 .. Len(a) + n, NEW j \in 1 .. Len(a) + n, b[i] = b[j]
      PROVE  i = j
  <2>1. (at < i /\ i <= at + n) <=> (at < j /\ j <= at + n)
    <3> HIDE DEF old
    <3> QED
      BY <1>1, <1>3, <1>4
  <2>2. CASE at < i /\ i <= at + n
    <3>1. i - at \in 1 .. n /\ j - at \in 1 .. n /\ new[i - at] = new[j - at]
      BY <1>3, <1>4, <2>1, <2>2
    <3>2. i - at = j - at
      BY <3>1
    <3> QED
      BY <3>2
  <2>3. CASE ~(at < i /\ i <= at + n)
    <3>1. old(i) = old(j)
      <4> HIDE DEF old
      <4> QED
        BY <1>2, <1>3, <1>4, <2>1, <2>3
    <3> QED
      BY <1>1, <2>1, <2>3, <3>1
  <2> QED
    BY <2>2, <2>3
<1>5. Distinct(b)
  BY <1>4 DEF Distinct
<1>6. ASSUME NEW p \in 0 .. Len(a) - 1
      PROVE  b[Pushed(p, Contents(at, 0, n)) + 1] = a[p + 1] /\ Stays(p, Contents(at, 0, n))
  <2>1. CASE p < at
    <3>1. p + 1 \in 1 .. Len(a) + n /\ p + 1 <= at
      BY <1>1, <2>1
    <3>2. b[p + 1] = a[p + 1]
      BY <3>1
    <3> QED
      BY <2>1, <3>2 DEF Pushed, Stays, Contents
  <2>2. CASE ~(p < at)
    <3>1. /\ p + n - 0 + 1 \in 1 .. Len(a) + n /\ ~(p + n - 0 + 1 <= at)
          /\ ~(p + n - 0 + 1 <= at + n) /\ (p + n - 0 + 1) - n = p + 1 /\ at + 0 <= p
      BY <1>1, <2>2
    <3>2. b[p + n - 0 + 1] = a[p + 1]
      BY <3>1
    <3> QED
      BY <2>2, <3>1, <3>2 DEF Pushed, Stays, Contents
  <2> QED
    BY <2>1, <2>2
<1>7. EditedBy(a, b, Contents(at, 0, n))
  BY <1>6 DEF EditedBy
<1> QED
  BY <1>5, <1>7

LEMMA RemovedList ==
  ASSUME NEW a \in Seq(Oid), NEW at \in 0 .. Len(a) - 1
  PROVE  LET b == SubSeq(a, 1, at) \o SubSeq(a, at + 2, Len(a)) IN
         /\ b \in Seq(Oid) /\ Len(b) = Len(a) - 1
         /\ \A i \in 1 .. Len(a) - 1 : b[i] = IF i <= at THEN a[i] ELSE a[i + 1]
<1> DEFINE head == SubSeq(a, 1, at)
           tail == SubSeq(a, at + 2, Len(a))
           b    == head \o tail
<1>1. Len(a) \in Nat /\ at \in 0 .. Len(a) - 1
  OBVIOUS
<1>2. head \in Seq(Oid) /\ Len(head) = at /\ \A i \in 1 .. at : head[i] = a[i]
  <2>1. 1 \in 1 .. Len(a) + 1 /\ at \in 0 .. Len(a) /\ 1 <= at + 1 /\ at - 1 + 1 = at
    BY <1>1
  <2>2. \A i \in 1 .. at : 1 + i - 1 = i
    BY <1>1
  <2> QED
    BY <2>1, <2>2, Cut
<1>3. /\ tail \in Seq(Oid) /\ Len(tail) = Len(a) - at - 1
      /\ \A i \in 1 .. Len(a) - at - 1 : tail[i] = a[at + 1 + i]
  <2>1. /\ at + 2 \in 1 .. Len(a) + 1 /\ Len(a) \in 0 .. Len(a) /\ at + 2 <= Len(a) + 1
        /\ Len(a) - (at + 2) + 1 = Len(a) - at - 1
    BY <1>1
  <2>2. \A i \in 1 .. Len(a) - at - 1 : at + 2 + i - 1 = at + 1 + i
    BY <1>1
  <2>3. /\ tail \in Seq(Oid) /\ Len(tail) = Len(a) - (at + 2) + 1
        /\ \A i \in 1 .. Len(a) - (at + 2) + 1 : tail[i] = a[at + 2 + i - 1]
    BY <2>1, Cut
  <2> HIDE DEF tail
  <2> QED
    BY <2>1, <2>2, <2>3
<1> HIDE DEF head, tail
<1>4. /\ b \in Seq(Oid) /\ Len(b) = Len(head) + Len(tail)
      /\ \A i \in 1 .. Len(head) + Len(tail) :
           b[i] = IF i <= Len(head) THEN head[i] ELSE tail[i - Len(head)]
  BY <1>2, <1>3, Joined
<1> HIDE DEF b
<1>5. b \in Seq(Oid) /\ Len(b) = Len(a) - 1
  BY <1>1, <1>2, <1>3, <1>4
<1>6. ASSUME NEW i \in 1 .. Len(a) - 1
      PROVE  b[i] = IF i <= at THEN a[i] ELSE a[i + 1]
  <2>1. i \in 1 .. Len(head) + Len(tail)
    BY <1>1, <1>2, <1>3
  <2>2. CASE i <= at
    BY <1>1, <1>2, <1>4, <2>1, <2>2
  <2>3. CASE ~(i <= at)
    <3>1. b[i] = tail[i - at] /\ i - at \in 1 .. Len(a) - at - 1 /\ at + 1 + (i - at) = i + 1
      BY <1>1, <1>2, <1>4, <2>1, <2>3
    <3> QED
      BY <1>3, <2>3, <3>1
  <2> QED
    BY <2>2, <2>3
<1> QED
  BY <1>5, <1>6 DEF b, head, tail

LEMMA RemovedItem ==
  ASSUME NEW a \in Seq(Oid), Distinct(a), NEW at \in 0 .. Len(a) - 1,
         NEW b \in Seq(Oid), Len(b) = Len(a) - 1,
         \A i \in 1 .. Len(a) - 1 : b[i] = IF i <= at THEN a[i] ELSE a[i + 1]
  PROVE  Distinct(b) /\ EditedBy(a, b, Contents(at, 1, 0))
<1>1. Len(a) \in Nat /\ at \in 0 .. Len(a) - 1
  OBVIOUS
<1>2. \A k, l \in 1 .. Len(a) : a[k] = a[l] => k = l
  BY DEF Distinct
<1>3. \A k \in 1 .. Len(a) - 1 :
        \/ k <= at /\ k \in 1 .. Len(a) /\ b[k] = a[k]
        \/ k > at /\ k + 1 \in 1 .. Len(a) /\ b[k] = a[k + 1]
  BY <1>1
<1>4. ASSUME NEW i \in 1 .. Len(a) - 1, NEW j \in 1 .. Len(a) - 1, b[i] = b[j]
      PROVE  i = j
  <2>1. CASE i <= at
    BY <1>1, <1>2, <1>3, <1>4, <2>1
  <2>2. CASE ~(i <= at)
    BY <1>1, <1>2, <1>3, <1>4, <2>2
  <2> QED
    BY <2>1, <2>2
<1>5. Distinct(b)
  BY <1>4 DEF Distinct
<1>6. a[at + 1] \notin RangeOf(b)
  <2>1. \A i \in 1 .. Len(a) - 1 : b[i] # a[at + 1]
    <3>1. at + 1 \in 1 .. Len(a)
      BY <1>1
    <3> QED
      BY <1>1, <1>2, <1>3, <3>1
  <2>2. RangeOf(b) = {b[i] : i \in 1 .. Len(a) - 1}
    BY <1>1 DEF RangeOf
  <2> QED
    BY <2>1, <2>2
<1>7. ASSUME NEW p \in 0 .. Len(a) - 1
      PROVE  /\ Stays(p, Contents(at, 1, 0)) => b[Pushed(p, Contents(at, 1, 0)) + 1] = a[p + 1]
             /\ ~Stays(p, Contents(at, 1, 0)) => a[p + 1] \notin RangeOf(b)
  <2>1. CASE p < at
    <3>1. p + 1 \in 1 .. Len(a) - 1 /\ p + 1 <= at
      BY <1>1, <2>1
    <3>2. b[p + 1] = a[p + 1]
      BY <3>1
    <3> QED
      BY <2>1, <3>2 DEF Pushed, Stays, Contents
  <2>2. CASE p = at
    <3>1. ~(p < at) /\ ~(at + 1 <= p)
      BY <1>1, <2>2
    <3> QED
      BY <1>6, <2>2, <3>1 DEF Stays, Contents
  <2>3. CASE p > at
    <3>1. /\ p + 0 - 1 + 1 \in 1 .. Len(a) - 1 /\ ~(p + 0 - 1 + 1 <= at)
          /\ (p + 0 - 1 + 1) + 1 = p + 1 /\ at + 1 <= p /\ ~(p < at)
      BY <1>1, <2>3
    <3>2. b[p + 0 - 1 + 1] = a[p + 1]
      BY <3>1
    <3> QED
      BY <3>1, <3>2 DEF Pushed, Stays, Contents
  <2> QED
    BY <1>1, <2>1, <2>2, <2>3
<1>8. EditedBy(a, b, Contents(at, 1, 0))
  BY <1>7 DEF EditedBy
<1> QED
  BY <1>5, <1>8

LEMMA ClearedList ==
  ASSUME NEW a \in Seq(Oid)
  PROVE  /\ <<>> \in Seq(Oid) /\ Len(<<>>) = 0 /\ Distinct(<<>>)
         /\ EditedBy(a, <<>>, Contents(0, Len(a), 0))
<1>1. Len(a) \in Nat /\ RangeOf(<<>>) = {} /\ <<>> \in Seq(Oid) /\ Len(<<>>) = 0
  BY DEF RangeOf
<1> QED
  BY <1>1 DEF EditedBy, Stays, Pushed, Contents, Distinct

LEMMA MovedList ==
  ASSUME NEW a \in Seq(Oid), Distinct(a),
         NEW from \in 0 .. Len(a) - 1, NEW to \in 0 .. Len(a) - 1
  PROVE  /\ WithMoved(a, from, to) \in Seq(Oid) /\ Len(WithMoved(a, from, to)) = Len(a)
         /\ Distinct(WithMoved(a, from, to))
<1> DEFINE b == WithMoved(a, from, to)
<1>1. Len(a) \in Nat /\ \A i \in 1 .. Len(a) : a[i] \in Oid
  OBVIOUS
<1>2. \A k, l \in 1 .. Len(a) : a[k] = a[l] => k = l
  BY DEF Distinct
<1>3. \A k \in 1 .. Len(a) :
        b[k] = IF k = to + 1 THEN a[from + 1]
               ELSE IF from < k /\ k <= to THEN a[k + 1]
               ELSE IF to + 1 < k /\ k <= from + 1 THEN a[k - 1] ELSE a[k]
  BY DEF WithMoved
<1>4. b \in [1 .. Len(a) -> Oid]
  BY <1>1 DEF WithMoved
<1> HIDE DEF b
<1>5. b \in Seq(Oid) /\ Len(b) = Len(a)
  BY <1>1, <1>4
<1>6. \A i, j \in 1 .. Len(a) : b[i] = b[j] => i = j
  BY <1>1, <1>2, <1>3
<1> QED
  BY <1>5, <1>6 DEF Distinct, b

-----------------------------------------------------------------------------
(* The sizes: the iterator's own one is the one the playlist had when the  *)
(* first of the signals on their way was sent.                             *)

Typed ==
  /\ items \in Seq(Oid) /\ Len(items) <= MaxLen /\ Distinct(items)
  /\ signals \in Seq(Signals) /\ Len(signals) <= MaxLag
  /\ phase \in {"off", "starting", "on"}
  /\ index \in -1 .. MaxLen - 1 /\ size \in -1 .. MaxLen
  /\ objectid \in Oid \cup {NoOid} /\ told \in Oid \cup {NoOid} /\ kept \in Oid \cup {NoOid}

Sized ==
  /\ phase = "starting" => signals = <<>>
  /\ phase = "on" => \E f : Sizes(f, signals, size, Len(items))

(* What the daemon tells is what it did.                                   *)
Truthful == "refused" \notin Allowed /\ "early" \notin Allowed

LEMMA ItemTypes ==
  ASSUME items \in Seq(Oid)
  PROVE  /\ \A i \in Int : ItemAt(i) \in Oid \cup {NoOid}
         /\ \A i \in Int : i \in Idx <=> ItemAt(i) # NoOid
         /\ Idx = 0 .. Len(items) - 1 /\ Len(items) \in Nat
<1>1. Len(items) \in Nat /\ \A i \in 1 .. Len(items) : items[i] \in Oid
  OBVIOUS
<1>2. \A i \in Int : i \in Idx => i + 1 \in 1 .. Len(items)
  BY <1>1 DEF Idx
<1> QED
  BY <1>1, <1>2 DEF ItemAt, Idx

LEMMA MovesInside ==
  ASSUME items \in Seq(Oid), index \in Int
  PROVE  NextIndex \subseteq Idx /\ PrevIndex \subseteq Idx
<1>1. Len(items) \in Nat /\ Idx = 0 .. Len(items) - 1
  BY DEF Idx
<1>2. index \in Idx => 0 \in Idx /\ Len(items) - 1 \in Idx
  BY <1>1
<1> QED
  BY <1>2 DEF NextIndex, PrevIndex

LEMMA EndsInside ==
  ASSUME items \in Seq(Oid), Len(items) <= MaxLen
  PROVE  /\ StartingIndex \subseteq Idx /\ (StartingIndex = {} => Idx = {})
         /\ LastIndex \subseteq Idx /\ (LastIndex = {} => Idx = {})
         /\ Idx \subseteq -1 .. MaxLen - 1
<1>1. Len(items) \in Nat /\ Idx = 0 .. Len(items) - 1
  BY DEF Idx
<1>2. Idx # {} => 0 \in Idx /\ Len(items) - 1 \in Idx
  BY <1>1
<1>3. Idx \subseteq -1 .. MaxLen - 1
  BY <1>1
<1> QED
  BY <1>2, <1>3 DEF StartingIndex, LastIndex

LEMMA Edits ==
  ASSUME Typed, Edit, Truthful
  PROVE  \E s \in Signals :
           /\ Send(s) /\ items' \in Seq(Oid) /\ Distinct(items')
           /\ Fits(Len(items), s) /\ After(Len(items), s) \in 0 .. MaxLen
           /\ Len(items') = After(Len(items), s)
           /\ s.kind = "contents" => EditedBy(items, items', s)
           /\ "moves" \notin Allowed => s.kind = "contents"
<1>1. Len(items) \in Nat /\ Len(items) <= MaxLen /\ items \in Seq(Oid) /\ Distinct(items)
  BY DEF Typed
<1>2. CASE Insert
  <2>1. PICK at \in 0 .. Len(items), n \in 1 .. MaxLen - Len(items) :
          \E new \in [1 .. n -> Oid \ RangeOf(items)] :
            /\ \A i, j \in 1 .. n : new[i] = new[j] => i = j
            /\ items' = SubSeq(items, 1, at) \o new \o SubSeq(items, at + 1, Len(items))
            /\ Send(Contents(at, 0, n))
    BY <1>2 DEF Insert
  <2>2. PICK new \in [1 .. n -> Oid \ RangeOf(items)] :
          /\ \A i, j \in 1 .. n : new[i] = new[j] => i = j
          /\ items' = SubSeq(items, 1, at) \o new \o SubSeq(items, at + 1, Len(items))
          /\ Send(Contents(at, 0, n))
    BY <2>1
  <2>3. n \in Nat /\ new \in [1 .. n -> Oid]
    OBVIOUS
  <2>4. /\ items' \in Seq(Oid) /\ Len(items') = Len(items) + n
        /\ \A i \in 1 .. Len(items) + n :
             items'[i] = IF i <= at THEN items[i]
                         ELSE IF i <= at + n THEN new[i - at] ELSE items[i - n]
    <3>1. items' = WithNew(items, at, new)
      BY <2>2 DEF WithNew
    <3>2. /\ WithNew(items, at, new) \in Seq(Oid)
          /\ Len(WithNew(items, at, new)) = Len(items) + n
          /\ \A i \in 1 .. Len(items) + n :
               WithNew(items, at, new)[i]
                 = IF i <= at THEN items[i]
                   ELSE IF i <= at + n THEN new[i - at] ELSE items[i - n]
      BY <1>1, <2>3, InsertedList
    <3> QED
      BY <3>1, <3>2
  <2>5. Distinct(items') /\ EditedBy(items, items', Contents(at, 0, n))
    BY <1>1, <2>2, <2>3, <2>4, InsertedItems
  <2>6. Contents(at, 0, n) \in Signals
    BY <1>1, <2>3, SignalTypes
  <2>7. /\ Fits(Len(items), Contents(at, 0, n))
        /\ After(Len(items), Contents(at, 0, n)) = Len(items) + n
        /\ Contents(at, 0, n).kind = "contents"
    BY <1>1, <2>3 DEF Contents, Fits, After
  <2>8. Len(items) + n \in 0 .. MaxLen
    BY <1>1
  <2> QED
    BY <2>2, <2>4, <2>5, <2>6, <2>7, <2>8
<1>3. CASE Remove
  <2>1. PICK at \in Idx :
          /\ items' = SubSeq(items, 1, at) \o SubSeq(items, at + 2, Len(items))
          /\ Send(Contents(at, 1, 0))
    BY <1>3 DEF Remove
  <2>2. at \in 0 .. Len(items) - 1
    BY DEF Idx
  <2>3. /\ items' \in Seq(Oid) /\ Len(items') = Len(items) - 1
        /\ \A i \in 1 .. Len(items) - 1 : items'[i] = IF i <= at THEN items[i] ELSE items[i + 1]
    BY <1>1, <2>1, <2>2, RemovedList
  <2>4. Distinct(items') /\ EditedBy(items, items', Contents(at, 1, 0))
    BY <1>1, <2>2, <2>3, RemovedItem
  <2>5. Contents(at, 1, 0) \in Signals
    BY <1>1, <2>2, SignalTypes
  <2>6. /\ Fits(Len(items), Contents(at, 1, 0))
        /\ After(Len(items), Contents(at, 1, 0)) = Len(items) - 1
        /\ Contents(at, 1, 0).kind = "contents"
    BY <1>1, <2>2 DEF Contents, Fits, After
  <2>7. Len(items) - 1 \in 0 .. MaxLen
    BY <1>1, <2>2
  <2> QED
    BY <2>1, <2>3, <2>4, <2>5, <2>6, <2>7
<1>4. CASE Clear
  <2>1. items' = <<>> /\ Send(Contents(0, Len(items), 0))
    BY <1>4 DEF Clear
  <2>2. /\ <<>> \in Seq(Oid) /\ Len(<<>>) = 0 /\ Distinct(<<>>)
        /\ EditedBy(items, <<>>, Contents(0, Len(items), 0))
    BY <1>1, ClearedList
  <2>3. Contents(0, Len(items), 0) \in Signals
    BY <1>1, SignalTypes
  <2>4. /\ Fits(Len(items), Contents(0, Len(items), 0))
        /\ After(Len(items), Contents(0, Len(items), 0)) = 0
        /\ Contents(0, Len(items), 0).kind = "contents" /\ 0 \in 0 .. MaxLen
    BY <1>1 DEF Contents, Fits, After
  <2> QED
    BY <2>1, <2>2, <2>3, <2>4
<1>5. CASE Move
  <2>1. PICK from \in 0 .. MaxLen, to \in 0 .. MaxLen :
          /\ from = to \/ {from, to} \subseteq Idx
          /\ items' = [k \in 1 .. Len(items) |->
                         IF k = to + 1 THEN items[from + 1]
                         ELSE IF from < k /\ k <= to THEN items[k + 1]
                         ELSE IF to + 1 < k /\ k <= from + 1 THEN items[k - 1] ELSE items[k]]
          /\ Send(Moved(from, to))
    BY <1>5 DEF Move
  <2>2. from \in Nat /\ to \in Nat
    OBVIOUS
  <2>3. items' \in Seq(Oid) /\ Len(items') = Len(items) /\ Distinct(items')
    <3>1. CASE from = to
      <4>1. \A k \in 1 .. Len(items) :
              (IF k = to + 1 THEN items[from + 1]
               ELSE IF from < k /\ k <= to THEN items[k + 1]
               ELSE IF to + 1 < k /\ k <= from + 1 THEN items[k - 1] ELSE items[k]) = items[k]
        BY <1>1, <2>2, <3>1
      <4>2. items' = [k \in 1 .. Len(items) |-> items[k]]
        BY <2>1, <4>1
      <4>3. items = [k \in 1 .. Len(items) |-> items[k]]
        BY <1>1
      <4> QED
        BY <1>1, <4>2, <4>3
    <3>2. CASE {from, to} \subseteq Idx
      <4>1. from \in 0 .. Len(items) - 1 /\ to \in 0 .. Len(items) - 1
        BY <3>2 DEF Idx
      <4>2. items' = WithMoved(items, from, to)
        BY <2>1 DEF WithMoved
      <4> QED
        BY <1>1, <4>1, <4>2, MovedList
    <3> QED
      BY <2>1, <3>1, <3>2
  <2>4. Moved(from, to) \in Signals
    BY <1>1, <2>2, SignalTypes
  <2>5. /\ Fits(Len(items), Moved(from, to)) /\ After(Len(items), Moved(from, to)) = Len(items)
        /\ Moved(from, to).kind # "contents" /\ "moves" \in Allowed
    BY <1>5 DEF Moved, Fits, After, Move
  <2>6. Len(items) \in 0 .. MaxLen
    BY <1>1
  <2> QED
    BY <2>1, <2>3, <2>4, <2>5, <2>6
<1>6. CASE RefusedInsert
  BY <1>6 DEF RefusedInsert, Truthful
<1> QED
  BY <1>2, <1>3, <1>4, <1>5, <1>6 DEF Edit

(* What the iterator does with a signal about the contents.                *)
LEMMA ContentsHandled ==
  ASSUME Typed, size >= 0, NEW s \in Signals, s.kind = "contents", ContentsChanged(s),
         Fits(size, s), NEW k \in 0 .. MaxLen, k = After(size, s)
  PROVE  /\ size' = k /\ told' \in {told, objectid'}
         /\ \/ index' \in 0 .. k - 1 /\ objectid' = ItemAt(index')
            \/ index' \in Idx /\ objectid' = ItemAt(index')
            \/ index' = -1 /\ objectid' = NoOid /\ (k = 0 \/ Idx = {})
            \/ /\ index' = index /\ objectid' = objectid
               /\ (index = -1 /\ k = 0) \/ index >= size \/ index \in 0 .. s.from - 1
         /\ index \in 0 .. size - 1 /\ Stays(index, s) => index' = Pushed(index, s)
<1>1. /\ s.from \in Nat /\ s.nremove \in Nat /\ s.nreplace \in Nat
      /\ s.from + s.nremove <= size /\ (s.nremove = 0 \/ s.nreplace = 0)
  BY DEF Signals, Fits
<1>2. /\ Resized(s) = k /\ k = size + s.nreplace - s.nremove /\ KnownSize(k) = k /\ k \in Nat
      /\ index \in -1 .. MaxLen - 1 /\ size \in Nat /\ index \in Int
  BY <1>1 DEF Resized, After, KnownSize, Typed
<1>3. ASSUME NEW i \in Nat, MoveToIndex(i, k)
      PROVE  /\ size' = k
             /\ i < k => index' = i /\ objectid' = ItemAt(i)
             /\ i >= k => index' = index /\ objectid' = objectid
  BY <1>2, <1>3 DEF MoveToIndex, SetData, Keep
<1>4. CASE /\ s.nremove > 0 /\ index \in s.from .. s.from + s.nremove - 1
           /\ CurrentRemoved(s) /\ told' = objectid'
  <2>1. ~Stays(index, s) /\ index >= 0
    BY <1>1, <1>2, <1>4 DEF Stays
  <2>2. CASE k = 0
    BY <1>2, <1>4, <2>1, <2>2 DEF CurrentRemoved
  <2>3. CASE k > 0 /\ index >= k
    <3>1. MoveToIndex(k - 1, k)
      BY <1>2, <1>4, <2>3 DEF CurrentRemoved
    <3>2. k - 1 \in Nat /\ k - 1 < k /\ k - 1 \in 0 .. k - 1
      BY <1>2, <2>3
    <3>3. size' = k /\ index' = k - 1 /\ objectid' = ItemAt(k - 1)
      BY <1>3, <3>1, <3>2
    <3> QED
      BY <1>4, <2>1, <3>2, <3>3
  <2>4. CASE k > 0 /\ index < k
    <3>1. size' = k /\ index' = index /\ objectid' = ItemAt(index)
      BY <1>2, <1>4, <2>4 DEF CurrentRemoved, SetData
    <3> QED
      BY <1>2, <1>4, <2>1, <2>4, <3>1
  <2> QED
    BY <1>2, <2>2, <2>3, <2>4
<1>5. CASE /\ s.nremove > 0 /\ index \notin s.from .. s.from + s.nremove - 1
           /\ IF Precedes(index, s.from)
              THEN MoveToIndex(IF index < s.nremove THEN 0 ELSE index - s.nremove, Resized(s))
              ELSE size' = Resized(s) /\ Keep
           /\ UNCHANGED told
  <2>1. CASE index = -1
    <3>1. MoveToIndex(0, k)
      BY <1>1, <1>2, <1>5, <2>1 DEF Precedes
    <3>2. 0 \in Nat /\ (0 < k => 0 \in 0 .. k - 1) /\ (0 >= k => k = 0) /\ index \notin 0 .. size - 1
      BY <1>2, <2>1
    <3>3. /\ size' = k
          /\ 0 < k => index' = 0 /\ objectid' = ItemAt(0)
          /\ 0 >= k => index' = index /\ objectid' = objectid
      BY <1>3, <3>1, <3>2
    <3> QED
      BY <1>2, <1>5, <2>1, <3>2, <3>3
  <2>2. CASE index >= 0 /\ s.from < index
    <3>1. index >= s.from + s.nremove /\ ~(index < s.nremove) /\ index - s.nremove \in Nat
      BY <1>1, <1>2, <1>5, <2>2
    <3>2. MoveToIndex(index - s.nremove, k)
      BY <1>2, <1>5, <2>2, <3>1 DEF Precedes
    <3>3. Pushed(index, s) = index - s.nremove
      BY <1>1, <1>2, <1>5, <3>1 DEF Pushed
    <3>4. /\ index - s.nremove < k => index - s.nremove \in 0 .. k - 1
          /\ index - s.nremove >= k => index >= size
          /\ index \in 0 .. size - 1 => index - s.nremove < k
      BY <1>1, <1>2, <1>5, <3>1
    <3>5. /\ size' = k
          /\ index - s.nremove < k => index' = index - s.nremove /\ objectid' = ItemAt(index')
          /\ index - s.nremove >= k => index' = index /\ objectid' = objectid
      BY <1>3, <3>1, <3>2
    <3>6. index - s.nremove < k \/ index - s.nremove >= k
      BY <1>1, <1>2
    <3> QED
      BY <1>5, <3>3, <3>4, <3>5, <3>6
  <2>3. CASE index >= 0 /\ ~(s.from < index)
    <3>1. size' = k /\ index' = index /\ objectid' = objectid
      BY <1>2, <1>5, <2>3 DEF Precedes, Keep
    <3>2. index \in 0 .. s.from - 1
      BY <1>1, <1>2, <1>5, <2>3
    <3>3. Pushed(index, s) = index
      BY <1>1, <3>2 DEF Pushed
    <3> QED
      BY <1>5, <3>1, <3>2, <3>3
  <2> QED
    BY <1>2, <2>1, <2>2, <2>3
<1>6. CASE s.nremove = 0 /\ index = -1 /\ FirstInserted(s)
  <2>1. size' = k /\ told' = objectid' /\ MoveTo(StartingIndex)
    BY <1>2, <1>6 DEF FirstInserted
  <2>2. index \notin 0 .. size - 1
    BY <1>2, <1>6
  <2>3. CASE \E i \in StartingIndex : SetData(i)
    <3>1. index' \in Idx /\ objectid' = ItemAt(index')
      BY <2>3 DEF StartingIndex, SetData
    <3> QED
      BY <2>1, <2>2, <3>1
  <2>4. CASE StartingIndex = {} /\ index' = -1 /\ objectid' = NoOid
    <3>1. Idx = {}
      <4>1. Len(items) \in Nat /\ Idx = 0 .. Len(items) - 1
        BY ItemTypes DEF Typed
      <4>2. Idx # {} => 0 \in Idx
        BY <4>1
      <4> QED
        BY <2>4, <4>2 DEF StartingIndex
    <3> QED
      BY <2>1, <2>2, <2>4, <3>1
  <2> QED
    BY <2>1, <2>3, <2>4 DEF MoveTo
<1>7. CASE /\ s.nremove = 0 /\ index # -1
           /\ IF index >= s.from THEN MoveToIndex(Shifted(s), Resized(s))
              ELSE size' = Resized(s) /\ Keep
           /\ UNCHANGED told
  <2>0. index >= 0
    BY <1>2, <1>7
  <2>1. CASE index >= s.from
    <3>1. MoveToIndex(index + s.nreplace, k) /\ index + s.nreplace \in Nat
      BY <1>1, <1>2, <1>7, <2>0, <2>1 DEF Shifted
    <3>2. Pushed(index, s) = index + s.nreplace
      BY <1>1, <1>2, <1>7, <2>1 DEF Pushed
    <3>3. /\ index + s.nreplace < k => index + s.nreplace \in 0 .. k - 1
          /\ index + s.nreplace >= k => index >= size
          /\ index \in 0 .. size - 1 => index + s.nreplace < k
          /\ index + s.nreplace < k \/ index + s.nreplace >= k
      BY <1>1, <1>2, <1>7, <2>0
    <3>4. /\ size' = k
          /\ index + s.nreplace < k => index' = index + s.nreplace /\ objectid' = ItemAt(index')
          /\ index + s.nreplace >= k => index' = index /\ objectid' = objectid
      BY <1>3, <3>1
    <3> QED
      BY <1>7, <3>2, <3>3, <3>4
  <2>2. CASE ~(index >= s.from)
    <3>1. size' = k /\ index' = index /\ objectid' = objectid
      BY <1>2, <1>7, <2>2 DEF Keep
    <3>2. index \in 0 .. s.from - 1
      BY <1>1, <1>2, <2>0, <2>2
    <3>3. Pushed(index, s) = index
      BY <1>1, <3>2 DEF Pushed
    <3> QED
      BY <1>7, <3>1, <3>2, <3>3
  <2> QED
    BY <2>1, <2>2
<1> QED
  BY <1>4, <1>5, <1>6, <1>7 DEF ContentsChanged

(* ... and with one about a moved item.                                    *)
LEMMA MoveHandled ==
  ASSUME Typed, size >= 0, NEW s \in Signals, s.kind = "moved", ItemMoved(s)
  PROVE  /\ size' = size /\ told' = told /\ index' \in -1 .. MaxLen - 1
         /\ objectid' \in Oid \cup {NoOid}
<1>1. /\ s.from \in Nat /\ s.to \in Nat /\ index \in -1 .. MaxLen - 1 /\ size \in 0 .. MaxLen
      /\ objectid \in Oid \cup {NoOid} /\ told' = told
  BY DEF Signals, Typed, ItemMoved
<1>2. /\ \A i \in Int : ItemAt(i) \in Oid \cup {NoOid}
      /\ \A i \in Idx : i \in -1 .. MaxLen - 1 /\ i \in Int
  BY ItemTypes DEF Typed
<1>3. CASE MoveToIndex(s.to, size)
  BY <1>1, <1>2, <1>3 DEF MoveToIndex, SetData, Keep, KnownSize
<1>4. CASE (MoveToPrev \/ MoveToNext) /\ UNCHANGED size
  <2>1. NextIndex \subseteq Idx /\ PrevIndex \subseteq Idx
    BY MovesInside DEF Typed
  <2> QED
    BY <1>1, <1>2, <1>4, <2>1 DEF MoveToPrev, MoveToNext, SetData, Keep
<1>5. CASE Keep /\ UNCHANGED size
  BY <1>1, <1>5 DEF Keep
<1> QED
  BY <1>3, <1>4, <1>5 DEF ItemMoved

LEMMA RendererMoved ==
  ASSUME Typed, size >= 0, RendererMoves
  PROVE  /\ size' = size /\ told' = objectid'
         /\ \/ index' \in Idx /\ objectid' = ItemAt(index')
            \/ index' \in 0 .. size - 1 /\ objectid' = ItemAt(index')
            \/ index' = -1 /\ objectid' = NoOid /\ Idx = {}
            \/ index' = index /\ objectid' = objectid
<1>1. size \in 0 .. MaxLen /\ told' = objectid' /\ KnownSize(size) = size
  BY DEF Typed, RendererMoves, KnownSize
<1>2. NextIndex \subseteq Idx /\ PrevIndex \subseteq Idx
  BY MovesInside DEF Typed
<1>3. /\ StartingIndex \subseteq Idx /\ (StartingIndex = {} => Idx = {})
      /\ LastIndex \subseteq Idx /\ (LastIndex = {} => Idx = {})
  BY EndsInside DEF Typed
<1>4. CASE (MoveTo(StartingIndex) \/ MoveTo(LastIndex)) /\ UNCHANGED size
  BY <1>1, <1>3, <1>4 DEF MoveTo, SetData
<1>5. CASE (MoveToNext \/ MoveToPrev) /\ UNCHANGED size
  BY <1>1, <1>2, <1>5 DEF MoveToNext, MoveToPrev, SetData, Keep
<1>6. ASSUME NEW i \in 0 .. MaxLen, MoveToIndex(i, size)
      PROVE  /\ size' = size
             /\ \/ index' \in 0 .. size - 1 /\ objectid' = ItemAt(index')
                \/ index' = index /\ objectid' = objectid
  BY <1>1, <1>6 DEF MoveToIndex, SetData, Keep
<1> QED
  BY <1>1, <1>4, <1>5, <1>6 DEF RendererMoves

LEMMA SizedInit ==
  ASSUME Init
  PROVE  Typed /\ Sized
<1>1. <<>> \in Seq(Oid) /\ <<>> \in Seq(Signals) /\ Len(<<>>) = 0
  OBVIOUS
<1>2. -1 \in -1 .. MaxLen - 1 /\ -1 \in -1 .. MaxLen /\ 0 <= MaxLen /\ 0 <= MaxLag
  OBVIOUS
<1> QED
  BY <1>1, <1>2 DEF Init, Typed, Sized, Distinct

LEMMA SizedNext ==
  ASSUME Typed, Sized, Truthful, [Next]_vars
  PROVE  Typed' /\ Sized'
<1>1. CASE Edit
  <2>1. PICK s \in Signals :
          /\ Send(s) /\ items' \in Seq(Oid) /\ Distinct(items')
          /\ Fits(Len(items), s) /\ After(Len(items), s) \in 0 .. MaxLen
          /\ Len(items') = After(Len(items), s)
    BY <1>1, Edits
  <2>2. /\ Len(signals) < MaxLag /\ signals' = Append(signals, s) /\ phase # "starting"
        /\ phase' = phase /\ index' = index /\ objectid' = objectid /\ size' = size /\ told' = told
        /\ kept' \in {objectid, kept, NoOid}
    BY <2>1 DEF Send, iterator, Watched, Truthful
  <2>3. signals' \in Seq(Signals) /\ Len(signals') = Len(signals) + 1 /\ Len(signals) \in Nat
    BY <2>2 DEF Typed
  <2>4. Typed'
    BY <2>1, <2>2, <2>3 DEF Typed
  <2>5. ASSUME phase = "on"
        PROVE  \E f : Sizes(f, signals', size, Len(items'))
    <3>1. PICK f : Sizes(f, signals, size, Len(items))
      BY <2>5 DEF Sized
    <3>2. signals \in Seq(Signals) /\ Len(items) \in 0 .. MaxLen
      BY DEF Typed
    <3>3. Sizes(Grown(f, Len(signals), After(Len(items), s)), Append(signals, s),
                size, After(Len(items), s))
      BY <2>1, <3>1, <3>2, SentSizes
    <3> QED
      BY <2>1, <2>2, <3>3
  <2> QED
    BY <2>2, <2>4, <2>5 DEF Sized
<1>2. CASE HandleSignal
  <2>1. /\ signals # <<>> /\ phase # "starting" /\ signals' = Tail(signals)
        /\ items' = items /\ phase' = phase
        /\ kept' \in {objectid', kept, NoOid}
    BY <1>2 DEF HandleSignal, Watched, iterator
  <2>2. /\ signals' \in Seq(Signals) /\ Len(signals') = Len(signals) - 1
        /\ Head(signals) \in Signals
    BY <2>1 DEF Typed
  <2>3. Len(signals) \in Nat /\ Len(signals') <= MaxLag
    BY <2>2 DEF Typed
  <2>4. CASE phase = "off"
    <3>1. UNCHANGED iterator
      BY <1>2, <2>4 DEF HandleSignal
    <3> QED
      BY <2>1, <2>2, <2>3, <2>4, <3>1 DEF Typed, Sized, iterator
  <2>5. CASE phase = "on"
    <3> DEFINE s == Head(signals)
    <3>1. PICK f : Sizes(f, signals, size, Len(items))
      BY <2>5 DEF Sized
    <3>2. /\ Sizes(Dropped(f, Len(signals)), signals', f[1], Len(items))
          /\ f[1] = After(size, s) /\ Fits(size, s)
          /\ f[1] \in 0 .. MaxLen /\ size \in 0 .. MaxLen
      BY <2>1, <3>1, HandledSizes DEF Typed
    <3>3. /\ s.kind = "contents" \/ s.kind = "moved"
          /\ s.kind = "contents" => ContentsChanged(s)
          /\ s.kind = "moved" => ItemMoved(s)
      BY <1>2, <2>2, <2>5 DEF HandleSignal, Signals
    <3>4. size >= 0 /\ s \in Signals
      BY <2>2, <3>2
    <3> HIDE DEF s
    <3>5. /\ size' = f[1] /\ index' \in -1 .. MaxLen - 1
          /\ objectid' \in Oid \cup {NoOid} /\ told' \in Oid \cup {NoOid}
      <4>1. CASE s.kind = "contents"
        <5>1. /\ size' = f[1] /\ told' \in {told, objectid'}
              /\ \/ index' \in 0 .. f[1] - 1 /\ objectid' = ItemAt(index')
                 \/ index' \in Idx /\ objectid' = ItemAt(index')
                 \/ index' = -1 /\ objectid' = NoOid
                 \/ index' = index /\ objectid' = objectid
          BY <3>2, <3>3, <3>4, <4>1, ContentsHandled
        <5>2. /\ \A i \in Int : ItemAt(i) \in Oid \cup {NoOid}
              /\ Idx \subseteq -1 .. MaxLen - 1 /\ -1 \in -1 .. MaxLen - 1
              /\ index \in -1 .. MaxLen - 1 /\ objectid \in Oid \cup {NoOid}
              /\ told \in Oid \cup {NoOid} /\ 0 .. f[1] - 1 \subseteq -1 .. MaxLen - 1
          <6>1. 0 .. f[1] - 1 \subseteq -1 .. MaxLen - 1 /\ -1 \in -1 .. MaxLen - 1
            BY <3>2
          <6> QED
            BY <6>1, ItemTypes, EndsInside DEF Typed
        <5>3. index' \in -1 .. MaxLen - 1
          BY <5>1, <5>2
        <5>4. objectid' \in Oid \cup {NoOid}
          BY <5>1, <5>2, <5>3
        <5> QED
          BY <5>1, <5>2, <5>3, <5>4
      <4>2. CASE s.kind = "moved"
        <5>1. f[1] = size
          BY <3>2, <4>2 DEF After
        <5> QED
          BY <3>3, <3>4, <4>2, <5>1, MoveHandled DEF Typed
      <4> QED
        BY <3>3, <4>1, <4>2
    <3>6. Typed'
      BY <2>1, <2>2, <2>3, <3>2, <3>5 DEF Typed
    <3>7. Sized'
      BY <2>1, <2>5, <3>2, <3>5 DEF Sized
    <3> QED
      BY <3>6, <3>7
  <2> QED
    BY <2>1, <2>4, <2>5 DEF Typed
<1>3. CASE AskStarting
  <2>1. /\ signals = <<>> /\ phase' = "starting" /\ MoveTo(StartingIndex)
        /\ UNCHANGED <<items, signals, size, told, kept>>
    BY <1>3 DEF AskStarting, Truthful
  <2>2. /\ StartingIndex \subseteq -1 .. MaxLen - 1 /\ -1 \in -1 .. MaxLen - 1
        /\ \A i \in Int : ItemAt(i) \in Oid \cup {NoOid}
    BY ItemTypes, EndsInside DEF Typed
  <2>3. index' \in -1 .. MaxLen - 1 /\ objectid' \in Oid \cup {NoOid}
    BY <2>1, <2>2 DEF MoveTo, SetData
  <2> QED
    BY <2>1, <2>3 DEF Typed, Sized
<1>4. CASE AskSize
  <2>1. /\ signals = <<>> /\ phase' = "on" /\ size' = Len(items) /\ told' = objectid
        /\ UNCHANGED <<items, signals, index, objectid>> /\ kept' \in {objectid, kept, NoOid}
    BY <1>4 DEF AskSize, Sized, Watched
  <2>2. Len(items) \in 0 .. MaxLen
    BY DEF Typed
  <2>3. Sizes([i \in 0 .. 0 |-> Len(items)], <<>>, Len(items), Len(items))
    BY <2>2 DEF Sizes
  <2>4. Sized'
    BY <2>1, <2>3 DEF Sized
  <2> QED
    BY <2>1, <2>2, <2>4 DEF Typed
<1>5. CASE Invalidate
  <2>1. -1 \in -1 .. MaxLen - 1 /\ -1 \in -1 .. MaxLen
    OBVIOUS
  <2> QED
    BY <1>5, <2>1 DEF Invalidate, Typed, Sized
<1>6. CASE RendererMoves
  <2>1. /\ phase = "on" /\ UNCHANGED <<items, signals, phase>>
        /\ kept' \in {objectid', NoOid}
    BY <1>6 DEF RendererMoves
  <2>2. PICK f : Sizes(f, signals, size, Len(items))
    BY <2>1 DEF Sized
  <2>3. size \in 0 .. MaxLen
    BY <2>2 DEF Sizes, Typed
  <2>4. /\ size' = size /\ told' = objectid'
        /\ \/ index' \in Idx /\ objectid' = ItemAt(index')
           \/ index' \in 0 .. size - 1 /\ objectid' = ItemAt(index')
           \/ index' = -1 /\ objectid' = NoOid
           \/ index' = index /\ objectid' = objectid
    BY <1>6, <2>3, RendererMoved
  <2>5. /\ \A i \in Int : ItemAt(i) \in Oid \cup {NoOid}
        /\ Idx \subseteq -1 .. MaxLen - 1 /\ -1 \in -1 .. MaxLen - 1
        /\ index \in -1 .. MaxLen - 1 /\ objectid \in Oid \cup {NoOid}
        /\ 0 .. size - 1 \subseteq -1 .. MaxLen - 1
    BY <2>3, ItemTypes DEF Typed
  <2>6. index' \in -1 .. MaxLen - 1
    BY <2>4, <2>5
  <2>7. objectid' \in Oid \cup {NoOid}
    BY <2>4, <2>5, <2>6
  <2> QED
    BY <2>1, <2>2, <2>4, <2>6, <2>7 DEF Typed, Sized
<1>7. CASE UNCHANGED vars
  BY <1>7 DEF vars, Typed, Sized
<1> QED
  BY <1>1, <1>2, <1>3, <1>4, <1>5, <1>6, <1>7 DEF Next

(* Types, when the daemon's signals tell of what it did.                   *)
THEOREM Types ==
  ASSUME Truthful
  PROVE  Spec => []TypeOK
<1>1. Typed => TypeOK
  BY DEF Typed, TypeOK
<1> QED
  BY <1>1, SizedInit, SizedNext, PTL DEF Spec

(* The size the iterator counts for itself, by the signals, is the size of *)
(* the playlist once they were handled, for playlists, queues of signals   *)
(* and sequences of edits of any length.                                   *)
THEOREM SizeIsRight ==
  ASSUME Truthful
  PROVE  Spec => []SizeSettles
<1>1. ASSUME Typed, Sized
      PROVE  SizeSettles
  <2>1. ASSUME phase = "on", signals = <<>>
        PROVE  size = Len(items)
    <3>1. PICK f : Sizes(f, signals, size, Len(items))
      BY <1>1, <2>1 DEF Sized
    <3> QED
      BY <2>1, <3>1 DEF Sizes
  <2> QED
    BY <2>1 DEF SizeSettles, Settled
<1> QED
  BY <1>1, SizedInit, SizedNext, PTL DEF Spec

-----------------------------------------------------------------------------
(* The place.  What the iterator has is from when the m-th of the signals  *)
(* on their way was sent: there the index is within the list, or it is     *)
(* where the iterator's size ends, and unless a later signal is about an   *)
(* earlier item it is still the place of the item.                         *)

(* The item at place i of list a.                                          *)
ItemOf(a, i) == IF i \in 0 .. Len(a) - 1 THEN a[i + 1] ELSE NoOid

PlaceAt(f, m, q, a, i, o) ==
  /\ m \in 0 .. Len(q)
  /\ \/ i = -1 /\ o = NoOid /\ f[m] = 0
     \/ /\ i >= 0 /\ (i < f[0] \/ i < f[m])
        /\ (\A j \in m + 1 .. Len(q) : i < q[j].from) => o = ItemOf(a, i)

AtAnItem ==
  \/ index = -1 /\ objectid = NoOid /\ Idx = {}
  \/ index \in Idx /\ objectid = ItemAt(index)

Placed ==
  /\ \A i \in 1 .. Len(signals) : signals[i].kind = "contents"
  /\ phase = "starting" => AtAnItem
  /\ phase = "on" => \E f, m : /\ Sizes(f, signals, size, Len(items))
                               /\ PlaceAt(f, m, signals, items, index, objectid)

LEMMA PlacedSent ==
  ASSUME Typed, Sized, Placed, Truthful, "moves" \notin Allowed, Edit
  PROVE  Placed'
<1>1. PICK s \in Signals :
        /\ Send(s) /\ items' \in Seq(Oid)
        /\ Fits(Len(items), s) /\ After(Len(items), s) \in 0 .. MaxLen
        /\ Len(items') = After(Len(items), s)
        /\ s.kind = "contents" /\ EditedBy(items, items', s)
  BY Edits
<1>2. /\ signals' = Append(signals, s) /\ phase # "starting"
      /\ phase' = phase /\ index' = index /\ objectid' = objectid /\ size' = size
  BY <1>1 DEF Send, iterator, Truthful
<1> DEFINE l == Len(signals)
<1>3. /\ l \in Nat /\ Len(signals') = l + 1 /\ signals'[l + 1] = s
      /\ \A j \in 1 .. l : signals'[j] = signals[j]
  BY <1>2 DEF Typed
<1> HIDE DEF l
<1>4. \A i \in 1 .. Len(signals') : signals'[i].kind = "contents"
  BY <1>1, <1>3 DEF Placed, l
<1>5. ASSUME phase = "on"
      PROVE  \E f, m : /\ Sizes(f, signals', size, Len(items'))
                        /\ PlaceAt(f, m, signals', items', index', objectid')
  <2>1. PICK f, m : /\ Sizes(f, signals, size, Len(items))
                   /\ PlaceAt(f, m, signals, items, index, objectid)
    BY <1>5 DEF Placed
  <2> DEFINE n == After(Len(items), s)
             g == Grown(f, l, n)
  <2>2. Sizes(g, signals', size, Len(items'))
    <3>1. signals \in Seq(Signals) /\ Len(items) \in 0 .. MaxLen
      BY DEF Typed
    <3> QED
      BY <1>1, <1>2, <2>1, <3>1, SentSizes DEF l
  <2>3. m \in 0 .. l
    BY <2>1 DEF PlaceAt, l
  <2>4. g[m] = f[m] /\ g[0] = f[0]
    BY <1>3, <2>3 DEF Grown
  <2> HIDE DEF g, n
  <2>5. CASE index = -1 /\ objectid = NoOid /\ f[m] = 0
    <3>1. PlaceAt(g, m, signals', items', index', objectid')
      BY <1>2, <1>3, <2>3, <2>4, <2>5 DEF PlaceAt, l
    <3> QED
      BY <2>2, <3>1
  <2>6. CASE /\ index >= 0 /\ (index < f[0] \/ index < f[m])
             /\ (\A j \in m + 1 .. l : index < signals[j].from) => objectid = ItemOf(items, index)
    <3>1. ASSUME \A j \in m + 1 .. l + 1 : index < signals'[j].from
          PROVE  objectid = ItemOf(items', index')
      <4>1. index < s.from /\ \A j \in m + 1 .. l : index < signals[j].from
        BY <1>3, <2>3, <3>1
      <4>2. objectid = ItemOf(items, index)
        BY <2>6, <4>1
      <4>3. /\ s.from \in Nat /\ s.nremove \in Nat /\ s.nreplace \in Nat
            /\ Len(items) \in Nat /\ index \in Int
            /\ s.from + s.nremove <= Len(items)
            /\ Len(items') = Len(items) + s.nreplace - s.nremove
        BY <1>1 DEF Signals, Typed, Fits, After
      <4>4. index \in 0 .. Len(items) - 1 /\ index \in 0 .. Len(items') - 1
        BY <2>6, <4>1, <4>3
      <4>5. items'[index + 1] = items[index + 1]
        BY <1>1, <4>1, <4>4 DEF EditedBy, Stays, Pushed
      <4> QED
        BY <1>2, <4>2, <4>4, <4>5 DEF ItemOf
    <3>2. PlaceAt(g, m, signals', items', index', objectid')
      BY <1>2, <1>3, <2>3, <2>4, <2>6, <3>1 DEF PlaceAt
    <3> QED
      BY <2>2, <3>2
  <2> QED
    BY <2>1, <2>5, <2>6 DEF PlaceAt, l
<1> QED
  BY <1>2, <1>4, <1>5 DEF Placed

LEMMA PlacedHandled ==
  ASSUME Typed, Sized, Placed, HandleSignal
  PROVE  Placed'
<1> DEFINE l == Len(signals)
           s == Head(signals)
<1>1. signals # <<>> /\ phase # "starting" /\ signals' = Tail(signals) /\ items' = items /\ phase' = phase
  BY DEF HandleSignal, iterator
<1>2. /\ l \in Nat /\ l >= 1 /\ Len(signals') = l - 1 /\ s = signals[1] /\ s \in Signals
      /\ \A j \in 1 .. l - 1 : signals'[j] = signals[j + 1]
  BY <1>1 DEF Typed
<1>3. s.kind = "contents"
  BY <1>2 DEF Placed
<1>4. \A i \in 1 .. Len(signals') : signals'[i].kind = "contents"
  BY <1>2 DEF Placed
<1>5. ASSUME phase = "on"
      PROVE  \E f, m : /\ Sizes(f, signals', size', Len(items))
                        /\ PlaceAt(f, m, signals', items', index', objectid')
  <2>1. PICK f, m : /\ Sizes(f, signals, size, Len(items))
                   /\ PlaceAt(f, m, signals, items, index, objectid)
    BY <1>5 DEF Placed
  <2> DEFINE g == Dropped(f, l)
             k == f[1]
  <2>2. /\ Sizes(g, signals', k, Len(items))
        /\ k = After(size, s) /\ Fits(size, s) /\ k \in 0 .. MaxLen /\ size \in 0 .. MaxLen
    BY <1>1, <2>1, HandledSizes DEF Typed
  <2>3. /\ \A i \in 0 .. l - 1 : g[i] = f[i + 1]
        /\ f[0] = size /\ f[l] = Len(items) /\ f \in [0 .. l -> 0 .. MaxLen]
    BY <2>1 DEF Sizes, Dropped
  <2> HIDE DEF g, l
  <2>4. ContentsChanged(s) /\ size >= 0
    BY <1>3, <1>5, <2>2 DEF HandleSignal
  <2> HIDE DEF s
  <2>5. /\ size' = k
        /\ \/ index' \in 0 .. k - 1 /\ objectid' = ItemAt(index')
           \/ index' \in Idx /\ objectid' = ItemAt(index')
           \/ index' = -1 /\ objectid' = NoOid /\ (k = 0 \/ Idx = {})
           \/ /\ index' = index /\ objectid' = objectid
              /\ (index = -1 /\ k = 0) \/ index >= size \/ index \in 0 .. s.from - 1
    BY <1>2, <1>3, <2>2, <2>4, ContentsHandled
  <2> HIDE DEF k
  <2>6. g[0] = k /\ g[l - 1] = Len(items) /\ l - 1 \in 0 .. l - 1 /\ 0 \in 0 .. l - 1
    <3>1. 0 \in 0 .. l - 1 /\ l - 1 \in 0 .. l - 1 /\ 0 + 1 = 1 /\ (l - 1) + 1 = l
      BY <1>2
    <3> QED
      BY <2>3, <3>1 DEF k
  <2>7. /\ Idx = 0 .. Len(items) - 1 /\ Len(items) \in Nat /\ index \in Int
        /\ \A i \in Int : ItemAt(i) = ItemOf(items', i)
    BY <1>1, ItemTypes DEF Typed, ItemAt, ItemOf, Idx
  <2>8. CASE index' \in 0 .. k - 1 /\ objectid' = ItemAt(index')
    <3>1. index' \in Int /\ index' >= 0 /\ index' < g[0]
      BY <2>2, <2>6, <2>8
    <3>2. objectid' = ItemOf(items', index')
      BY <2>7, <2>8, <3>1
    <3>3. PlaceAt(g, l - 1, signals', items', index', objectid')
      BY <1>2, <2>6, <3>1, <3>2 DEF PlaceAt
    <3> QED
      BY <2>2, <2>5, <3>3
  <2>9. CASE index' \in Idx /\ objectid' = ItemAt(index')
    <3>1. index' \in Int /\ index' >= 0 /\ index' < g[l - 1]
      BY <2>6, <2>7, <2>9
    <3>2. objectid' = ItemOf(items', index')
      BY <2>7, <2>9, <3>1
    <3>3. PlaceAt(g, l - 1, signals', items', index', objectid')
      BY <1>2, <2>6, <3>1, <3>2 DEF PlaceAt
    <3> QED
      BY <2>2, <2>5, <3>3
  <2>10. CASE index' = -1 /\ objectid' = NoOid /\ (k = 0 \/ Idx = {})
    <3>1. Idx = {} => Len(items) = 0
      BY <2>7
    <3>2. \/ PlaceAt(g, 0, signals', items', index', objectid')
          \/ PlaceAt(g, l - 1, signals', items', index', objectid')
      BY <1>2, <2>6, <2>10, <3>1 DEF PlaceAt
    <3> QED
      BY <2>2, <2>5, <3>2
  <2>11. CASE index' = index /\ objectid' = objectid /\ index = -1 /\ k = 0
    <3>1. objectid = NoOid
      BY <2>1, <2>11 DEF PlaceAt
    <3>2. PlaceAt(g, 0, signals', items', index', objectid')
      BY <1>2, <2>6, <2>11, <3>1 DEF PlaceAt
    <3> QED
      BY <2>2, <2>5, <3>2
  <2>12. CASE /\ index' = index /\ objectid' = objectid
              /\ index >= size \/ index \in 0 .. s.from - 1
    <3>1. /\ m \in 0 .. l /\ index >= 0 /\ (index < f[0] \/ index < f[m])
          /\ (\A j \in m + 1 .. l : index < signals[j].from) => objectid = ItemOf(items, index)
      BY <2>1, <2>2, <2>12 DEF PlaceAt, l
    <3>2. index \in 0 .. s.from - 1 => index < k
      <4>1. s.from \in Nat /\ s.nremove \in Nat /\ s.nreplace \in Nat
        BY <1>2, <1>3, <2>2 DEF Signals
      <4>2. /\ s.from + s.nremove <= size /\ k = size + s.nreplace - s.nremove
            /\ size \in Nat
        BY <1>2, <1>3, <2>2, <2>7 DEF Fits, After
      <4>3. index < s.from => index < k
        BY <2>7, <4>1, <4>2
      <4> QED
        BY <2>7, <4>1, <4>3
    <3>3. CASE m = 0
      <4>1. index \in 0 .. s.from - 1 /\ index < g[0]
        BY <2>2, <2>3, <2>6, <2>7, <2>12, <3>1, <3>2, <3>3
      <4>2. ASSUME \A j \in 0 + 1 .. l - 1 : index < signals'[j].from
            PROVE  objectid = ItemOf(items, index)
        <5>1. ASSUME NEW j \in m + 1 .. l
              PROVE  index < signals[j].from
          <6>1. CASE j = 1
            BY <1>2, <2>7, <4>1, <6>1 DEF Signals
          <6>2. CASE j # 1
            <7>1. j - 1 \in 0 + 1 .. l - 1 /\ (j - 1) + 1 = j /\ j - 1 \in 1 .. l - 1
              BY <1>2, <3>3, <6>2
            <7> QED
              BY <1>2, <4>2, <7>1
          <6> QED
            BY <6>1, <6>2
        <5> QED
          BY <3>1, <5>1
      <4>3. PlaceAt(g, 0, signals', items', index', objectid')
        <5>1. ItemOf(items', index') = ItemOf(items, index)
          BY <1>1, <2>12
        <5> QED
          BY <1>2, <2>6, <2>12, <3>1, <4>1, <4>2, <5>1 DEF PlaceAt
      <4> QED
        BY <2>2, <2>5, <4>3
    <3>4. CASE m # 0
      <4>1. m - 1 \in 0 .. l - 1 /\ (m - 1) + 1 = m
        BY <1>2, <3>1, <3>4
      <4>2. g[m - 1] = f[m]
        BY <2>3, <4>1
      <4>3. index < g[0] \/ index < g[m - 1]
        BY <2>2, <2>3, <2>6, <2>7, <2>12, <3>1, <3>2, <4>2
      <4>4. ASSUME \A j \in m - 1 + 1 .. l - 1 : index < signals'[j].from
            PROVE  objectid = ItemOf(items, index)
        <5>1. ASSUME NEW j \in m + 1 .. l
              PROVE  index < signals[j].from
          <6>1. j - 1 \in m - 1 + 1 .. l - 1 /\ (j - 1) + 1 = j /\ j - 1 \in 1 .. l - 1
            BY <1>2, <3>1, <3>4
          <6> QED
            BY <1>2, <4>4, <6>1
        <5> QED
          BY <3>1, <5>1
      <4>5. PlaceAt(g, m - 1, signals', items', index', objectid')
        <5>1. ItemOf(items', index') = ItemOf(items, index)
          BY <1>1, <2>12
        <5> QED
          BY <1>2, <2>12, <3>1, <4>1, <4>3, <4>4, <5>1 DEF PlaceAt
      <4> QED
        BY <2>2, <2>5, <4>5
    <3> QED
      BY <3>3, <3>4
  <2> QED
    BY <2>5, <2>8, <2>9, <2>10, <2>11, <2>12
<1> QED
  BY <1>1, <1>4, <1>5 DEF Placed

LEMMA PlacedMoved ==
  ASSUME Typed, Sized, Placed, RendererMoves
  PROVE  Placed'
<1> DEFINE l == Len(signals)
<1>1. phase = "on" /\ phase' = "on" /\ items' = items /\ signals' = signals
  BY DEF RendererMoves
<1>2. PICK f, m : /\ Sizes(f, signals, size, Len(items))
                  /\ PlaceAt(f, m, signals, items, index, objectid)
  BY <1>1 DEF Placed
<1>3. f[0] = size /\ f[l] = Len(items) /\ size \in 0 .. MaxLen
  BY <1>2 DEF Sizes, Typed
<1>4. /\ size' = size
      /\ \/ index' \in Idx /\ objectid' = ItemAt(index')
         \/ index' \in 0 .. size - 1 /\ objectid' = ItemAt(index')
         \/ index' = -1 /\ objectid' = NoOid /\ Idx = {}
         \/ index' = index /\ objectid' = objectid
  BY <1>3, RendererMoved
<1>5. /\ Idx = 0 .. Len(items) - 1 /\ Len(items) \in Nat
      /\ \A i \in Int : ItemAt(i) = ItemOf(items, i)
      /\ l \in Nat /\ l \in 0 .. l
  BY ItemTypes DEF Typed, ItemAt, ItemOf, Idx
<1> HIDE DEF l
<1>6. \E n : PlaceAt(f, n, signals, items, index', objectid')
  <2>1. CASE /\ index' \in Idx \/ index' \in 0 .. size - 1
             /\ objectid' = ItemAt(index')
    <3>1. index' \in Int /\ index' >= 0 /\ (index' < f[0] \/ index' < f[l])
      BY <1>3, <1>5, <2>1
    <3>2. objectid' = ItemOf(items, index')
      BY <1>5, <2>1, <3>1
    <3>3. PlaceAt(f, l, signals, items, index', objectid')
      BY <1>5, <3>1, <3>2 DEF PlaceAt, l
    <3> QED
      BY <3>3
  <2>2. CASE index' = -1 /\ objectid' = NoOid /\ Idx = {}
    <3>1. f[l] = 0
      BY <1>3, <1>5, <2>2
    <3>2. PlaceAt(f, l, signals, items, index', objectid')
      BY <1>5, <2>2, <3>1 DEF PlaceAt, l
    <3> QED
      BY <3>2
  <2>3. CASE index' = index /\ objectid' = objectid
    BY <1>2, <2>3
  <2> QED
    BY <1>4, <2>1, <2>2, <2>3
<1> QED
  BY <1>1, <1>2, <1>4, <1>6 DEF Placed

LEMMA PlacedInit ==
  ASSUME Init
  PROVE  Placed
BY DEF Init, Placed

LEMMA PlacedNext ==
  ASSUME Typed, Sized, Placed, Truthful, "moves" \notin Allowed, [Next]_vars
  PROVE  Placed'
<1>1. CASE Edit
  BY <1>1, PlacedSent
<1>2. CASE HandleSignal
  BY <1>2, PlacedHandled
<1>3. CASE AskStarting
  <2>1. /\ phase' = "starting" /\ MoveTo(StartingIndex)
        /\ items' = items /\ signals' = signals
    BY <1>3 DEF AskStarting
  <2>2. StartingIndex \subseteq Idx /\ (StartingIndex = {} => Idx = {})
    BY EndsInside DEF Typed
  <2>3. AtAnItem'
    BY <2>1, <2>2 DEF MoveTo, SetData, AtAnItem, ItemAt, Idx
  <2> QED
    BY <2>1, <2>3 DEF Placed
<1>4. CASE AskSize
  <2>1. /\ phase = "starting" /\ phase' = "on" /\ size' = Len(items)
        /\ UNCHANGED <<items, signals, index, objectid>>
    BY <1>4 DEF AskSize
  <2>2. signals = <<>> /\ AtAnItem
    BY <2>1 DEF Sized, Placed
  <2> DEFINE f == [i \in 0 .. 0 |-> Len(items)]
  <2>3. /\ Len(items) \in 0 .. MaxLen /\ Idx = 0 .. Len(items) - 1
        /\ \A i \in Int : ItemAt(i) = ItemOf(items, i)
    BY ItemTypes DEF Typed, ItemAt, ItemOf, Idx
  <2>4. Sizes(f, <<>>, Len(items), Len(items))
    BY <2>3 DEF Sizes
  <2>5. f[0] = Len(items)
    OBVIOUS
  <2> HIDE DEF f
  <2>6. PlaceAt(f, 0, <<>>, items, index, objectid)
    BY <2>2, <2>3, <2>5 DEF PlaceAt, AtAnItem
  <2> QED
    BY <2>1, <2>2, <2>4, <2>6 DEF Placed
<1>5. CASE Invalidate
  BY <1>5 DEF Invalidate, Placed
<1>6. CASE RendererMoves
  BY <1>6, PlacedMoved
<1>7. CASE UNCHANGED vars
  BY <1>7 DEF vars, Placed, AtAnItem, ItemAt, Idx
<1> QED
  BY <1>1, <1>2, <1>3, <1>4, <1>5, <1>6, <1>7 DEF Next

LEMMA PlaceWhenSettled ==
  ASSUME Typed, Placed
  PROVE  PlaceSettles
<1>1. ASSUME phase = "on", signals = <<>>
      PROVE  IF items = <<>> THEN index = -1 /\ objectid = NoOid
             ELSE index \in Idx /\ objectid = ItemAt(index)
  <2>1. PICK f, m : /\ Sizes(f, signals, size, Len(items))
                    /\ PlaceAt(f, m, signals, items, index, objectid)
    BY <1>1 DEF Placed
  <2>2. Len(signals) = 0 /\ m = 0 /\ f[0] = Len(items)
    BY <1>1, <2>1 DEF PlaceAt, Sizes
  <2>3. /\ Len(items) \in Nat /\ index \in Int /\ Idx = 0 .. Len(items) - 1
        /\ (items = <<>> <=> Len(items) = 0)
        /\ \A i \in Int : ItemAt(i) = ItemOf(items, i)
    BY ItemTypes DEF Typed, ItemAt, ItemOf, Idx
  <2>4. \/ index = -1 /\ objectid = NoOid /\ Len(items) = 0
        \/ index >= 0 /\ index < Len(items) /\ objectid = ItemOf(items, index)
    BY <1>1, <2>1, <2>2 DEF PlaceAt
  <2> QED
    BY <2>3, <2>4
<1> QED
  BY <1>1 DEF PlaceSettles, Settled

(* With no items moved, whatever the edits, however late their signals and *)
(* whatever the renderer asks meanwhile: once the signals were handled the *)
(* index is the place of the current item, and only an empty playlist has  *)
(* none.                                                                   *)
THEOREM PlaceIsRight ==
  ASSUME Truthful, "moves" \notin Allowed
  PROVE  Spec => []PlaceSettles
BY SizedInit, SizedNext, PlacedInit, PlacedNext, PlaceWhenSettled, PTL DEF Spec

-----------------------------------------------------------------------------
(* The item.  g[j] is the place of item o after the j-th of the signals    *)
(* on their way; pushed by all of them the index of the iterator ends at   *)
(* the item.                                                               *)

FollowedTo(f, g, q, a, i, o) ==
  /\ g \in [0 .. Len(q) -> Nat] /\ g[0] = i /\ ItemOf(a, g[Len(q)]) = o
  /\ \A j \in 0 .. Len(q) : g[j] < f[j]
  /\ \A j \in 1 .. Len(q) : Stays(g[j - 1], q[j]) /\ g[j] = Pushed(g[j - 1], q[j])

Followed ==
  kept # NoOid =>
    /\ phase = "on"
    /\ \E f, g : /\ Sizes(f, signals, size, Len(items))
                 /\ FollowedTo(f, g, signals, items, index, kept)

LEMMA SettledPlace ==
  ASSUME NEW a \in Seq(Oid), NEW f, NEW sz, Sizes(f, <<>>, sz, Len(a)),
         NEW m, NEW i \in Int, NEW o, PlaceAt(f, m, <<>>, a, i, o)
  PROVE  (i = -1 /\ o = NoOid) \/ (i \in 0 .. Len(a) - 1 /\ o = ItemOf(a, i))
<1>1. Len(<<>>) = 0 /\ m = 0 /\ f[0] = Len(a) /\ Len(a) \in Nat
  BY DEF PlaceAt, Sizes
<1> QED
  BY <1>1 DEF PlaceAt

LEMMA FollowedNow ==
  ASSUME NEW a \in Seq(Oid), Len(a) <= MaxLen, NEW i \in 0 .. Len(a) - 1
  PROVE  \E f, g : /\ Sizes(f, <<>>, Len(a), Len(a))
                   /\ FollowedTo(f, g, <<>>, a, i, ItemOf(a, i))
<1> DEFINE f == [j \in 0 .. 0 |-> Len(a)]
           g == [j \in 0 .. 0 |-> i]
<1>1. Len(a) \in 0 .. MaxLen /\ i \in Nat /\ i < Len(a) /\ Len(<<>>) = 0
  OBVIOUS
<1>2. Sizes(f, <<>>, Len(a), Len(a))
  BY <1>1 DEF Sizes
<1>3. FollowedTo(f, g, <<>>, a, i, ItemOf(a, i))
  BY <1>1 DEF FollowedTo
<1> QED
  BY <1>2, <1>3

LEMMA FollowedSent ==
  ASSUME NEW q \in Seq(Signals), NEW a \in Seq(Oid), NEW b \in Seq(Oid),
         NEW f, NEW g, NEW sz, Sizes(f, q, sz, Len(a)),
         NEW i, NEW o, o # NoOid, FollowedTo(f, g, q, a, i, o),
         NEW s \in Signals, s.kind = "contents", Fits(Len(a), s), Len(b) = After(Len(a), s),
         EditedBy(a, b, s), o \in RangeOf(b)
  PROVE  FollowedTo(Grown(f, Len(q), Len(b)), Grown(g, Len(q), Pushed(g[Len(q)], s)),
                    Append(q, s), b, i, o)
<1> DEFINE l == Len(q)
           r == Append(q, s)
           p == g[l]
           f1 == Grown(f, l, Len(b))
           g1 == Grown(g, l, Pushed(p, s))
<1>1. /\ l \in Nat /\ Len(r) = l + 1 /\ r[l + 1] = s /\ l \in 0 .. l /\ 0 \in 0 .. l
      /\ \A j \in 1 .. l : r[j] = q[j]
  OBVIOUS
<1>2. /\ g \in [0 .. l -> Nat] /\ g[0] = i /\ ItemOf(a, p) = o
      /\ \A j \in 0 .. l : g[j] < f[j]
      /\ \A j \in 1 .. l : Stays(g[j - 1], q[j]) /\ g[j] = Pushed(g[j - 1], q[j])
      /\ f[l] = Len(a)
  BY DEF FollowedTo, Sizes
<1> HIDE DEF l, r
<1>3. p \in Nat /\ p < Len(a) /\ p \in 0 .. Len(a) - 1 /\ a[p + 1] = o
  <2>1. p \in Nat /\ p < Len(a) /\ Len(a) \in Nat
    BY <1>1, <1>2
  <2> QED
    BY <1>2, <2>1 DEF ItemOf
<1>4. Stays(p, s)
  BY <1>3 DEF EditedBy
<1>5. Pushed(p, s) \in 0 .. Len(b) - 1 /\ b[Pushed(p, s) + 1] = o
  <2>1. /\ s.from \in Nat /\ s.nremove \in Nat /\ s.nreplace \in Nat
        /\ s.from + s.nremove <= Len(a) /\ Len(b) = Len(a) + s.nreplace - s.nremove
        /\ Len(a) \in Nat
    BY DEF Signals, Fits, After
  <2>2. Pushed(p, s) \in 0 .. Len(b) - 1
    BY <1>3, <1>4, <2>1 DEF Pushed, Stays
  <2>3. b[Pushed(p, s) + 1] = a[p + 1]
    BY <1>3, <1>4 DEF EditedBy
  <2> QED
    BY <1>3, <2>2, <2>3
<1> HIDE DEF p
<1>6. /\ \A j \in 0 .. l : g1[j] = g[j] /\ f1[j] = f[j]
      /\ g1[l + 1] = Pushed(p, s) /\ f1[l + 1] = Len(b)
  BY <1>1 DEF Grown
<1>7. g1 \in [0 .. l + 1 -> Nat]
  BY <1>1, <1>2, <1>5 DEF Grown
<1> HIDE DEF f1, g1
<1>8. ASSUME NEW j \in 0 .. l + 1
      PROVE  g1[j] < f1[j]
  <2>1. CASE j = l + 1
    BY <1>5, <1>6, <2>1
  <2>2. CASE j \in 0 .. l
    BY <1>2, <1>6, <2>2
  <2> QED
    BY <1>1, <2>1, <2>2
<1>9. ASSUME NEW j \in 1 .. l + 1
      PROVE  Stays(g1[j - 1], r[j]) /\ g1[j] = Pushed(g1[j - 1], r[j])
  <2>1. CASE j = l + 1
    <3>1. j - 1 = l /\ g1[j - 1] = p /\ r[j] = s /\ g1[j] = Pushed(p, s)
      BY <1>1, <1>6, <2>1 DEF p
    <3> QED
      BY <1>4, <3>1
  <2>2. CASE j # l + 1
    <3>1. j \in 1 .. l /\ j - 1 \in 0 .. l /\ j \in 0 .. l
      BY <1>1, <2>2
    <3>2. g1[j - 1] = g[j - 1] /\ g1[j] = g[j] /\ r[j] = q[j]
      BY <1>1, <1>6, <3>1
    <3> QED
      BY <1>2, <3>1, <3>2
  <2> QED
    BY <2>1, <2>2
<1>10. ItemOf(b, g1[l + 1]) = o /\ g1[0] = i
  BY <1>1, <1>2, <1>5, <1>6 DEF ItemOf
<1>11. FollowedTo(f1, g1, r, b, i, o)
  BY <1>1, <1>7, <1>8, <1>9, <1>10 DEF FollowedTo
<1> QED
  BY <1>11 DEF f1, g1, p, r, l

LEMMA FollowedHandled ==
  ASSUME NEW q \in Seq(Signals), q # <<>>, NEW a, NEW f, NEW g, NEW sz, NEW n,
         Sizes(f, q, sz, n), NEW i, NEW o, FollowedTo(f, g, q, a, i, o)
  PROVE  /\ i \in Nat /\ i < sz /\ Stays(i, Head(q)) /\ Pushed(i, Head(q)) \in Nat
         /\ FollowedTo(Dropped(f, Len(q)), Dropped(g, Len(q)), Tail(q), a,
                       Pushed(i, Head(q)), o)
<1> DEFINE l == Len(q)
           r == Tail(q)
           f1 == Dropped(f, l)
           g1 == Dropped(g, l)
<1>1. /\ l \in Nat /\ l >= 1 /\ Len(r) = l - 1 /\ Head(q) = q[1]
      /\ \A j \in 1 .. l - 1 : r[j] = q[j + 1]
  OBVIOUS
<1>2. /\ g \in [0 .. l -> Nat] /\ g[0] = i /\ ItemOf(a, g[l]) = o
      /\ \A j \in 0 .. l : g[j] < f[j]
      /\ \A j \in 1 .. l : Stays(g[j - 1], q[j]) /\ g[j] = Pushed(g[j - 1], q[j])
      /\ f[0] = sz
  BY DEF FollowedTo, Sizes
<1> HIDE DEF l, r
<1>3. /\ 1 \in 1 .. l /\ 1 - 1 = 0 /\ 1 \in 0 .. l /\ 0 \in 0 .. l
      /\ 0 \in 0 .. l - 1 /\ l - 1 \in 0 .. l - 1 /\ (l - 1) + 1 = l /\ 0 + 1 = 1
  BY <1>1
<1>4. /\ i \in Nat /\ i < sz /\ Stays(i, Head(q)) /\ g[1] = Pushed(i, Head(q))
      /\ g[1] \in Nat
  BY <1>1, <1>2, <1>3
<1>5. /\ g1 \in [0 .. l - 1 -> Nat]
      /\ \A j \in 0 .. l - 1 : g1[j] = g[j + 1] /\ f1[j] = f[j + 1]
  BY <1>1, <1>2 DEF Dropped
<1> HIDE DEF f1, g1
<1>6. g1[0] = Pushed(i, Head(q)) /\ ItemOf(a, g1[l - 1]) = o
  BY <1>2, <1>3, <1>4, <1>5
<1>7. ASSUME NEW j \in 0 .. l - 1
      PROVE  g1[j] < f1[j]
  <2>1. j + 1 \in 0 .. l
    BY <1>1
  <2> QED
    BY <1>2, <1>5, <2>1
<1>8. ASSUME NEW j \in 1 .. l - 1
      PROVE  Stays(g1[j - 1], r[j]) /\ g1[j] = Pushed(g1[j - 1], r[j])
  <2>1. j + 1 \in 1 .. l /\ (j + 1) - 1 = j /\ (j - 1) + 1 = j /\ j - 1 \in 0 .. l - 1
    BY <1>1
  <2>2. g1[j - 1] = g[j] /\ g1[j] = g[j + 1] /\ r[j] = q[j + 1]
    <3>1. g1[j - 1] = g[(j - 1) + 1] /\ g1[j] = g[j + 1] /\ r[j] = q[j + 1]
      BY <1>1, <1>5, <2>1
    <3> QED
      BY <2>1, <3>1
  <2> QED
    BY <1>2, <2>1, <2>2
<1>9. FollowedTo(f1, g1, r, a, Pushed(i, Head(q)), o)
  BY <1>1, <1>5, <1>6, <1>7, <1>8 DEF FollowedTo
<1> QED
  BY <1>4, <1>9 DEF f1, g1, r, l

LEMMA FollowedOn ==
  ASSUME Typed, Sized, Placed, Followed, kept # NoOid, HandleSignal
  PROVE  \E f, g : /\ Sizes(f, signals', size', Len(items'))
                   /\ FollowedTo(f, g, signals', items', index', kept)
<1> DEFINE s == Head(signals)
<1>1. /\ phase = "on" /\ signals # <<>> /\ signals' = Tail(signals) /\ items' = items
      /\ signals \in Seq(Signals)
  BY DEF Followed, HandleSignal, Typed
<1>2. PICK f, g : /\ Sizes(f, signals, size, Len(items))
                  /\ FollowedTo(f, g, signals, items, index, kept)
  BY DEF Followed
<1>3. /\ Sizes(Dropped(f, Len(signals)), signals', f[1], Len(items))
      /\ f[1] = After(size, s) /\ Fits(size, s)
      /\ f[1] \in 0 .. MaxLen /\ size \in 0 .. MaxLen
  BY <1>1, <1>2, HandledSizes
<1>4. /\ index \in Nat /\ index < size /\ Stays(index, s)
      /\ FollowedTo(Dropped(f, Len(signals)), Dropped(g, Len(signals)), signals', items,
                    Pushed(index, s), kept)
  BY <1>1, <1>2, FollowedHandled
<1>5. s \in Signals /\ s.kind = "contents"
  <2>1. Len(signals) \in Nat /\ 1 \in 1 .. Len(signals) /\ s = signals[1] /\ s \in Signals
    BY <1>1
  <2> QED
    BY <2>1 DEF Placed
<1>6. ContentsChanged(s)
  BY <1>1, <1>5 DEF HandleSignal
<1> HIDE DEF s
<1>7. size' = f[1] /\ index' = Pushed(index, s)
  <2>1. index \in 0 .. size - 1 /\ size >= 0
    BY <1>3, <1>4
  <2> QED
    BY <1>3, <1>4, <1>5, <1>6, <2>1, ContentsHandled
<1> QED
  BY <1>1, <1>3, <1>4, <1>7

LEMMA FollowedNext ==
  ASSUME Typed, Sized, Placed, Followed, Truthful, "moves" \notin Allowed, [Next]_vars,
         Typed', Sized', Placed'
  PROVE  Followed'
<1>1. ASSUME phase' = "on", signals' = <<>>, kept' = objectid'
      PROVE  Followed'
  <2>1. PICK f, m : /\ Sizes(f, <<>>, size', Len(items'))
                    /\ PlaceAt(f, m, <<>>, items', index', objectid')
    BY <1>1 DEF Placed
  <2>2. items' \in Seq(Oid) /\ Len(items') <= MaxLen /\ index' \in Int
    BY DEF Typed
  <2>3. \/ objectid' = NoOid
        \/ index' \in 0 .. Len(items') - 1 /\ objectid' = ItemOf(items', index')
    BY <2>1, <2>2, SettledPlace
  <2>4. size' = Len(items')
    BY <2>1 DEF Sizes
  <2>5. CASE index' \in 0 .. Len(items') - 1 /\ objectid' = ItemOf(items', index')
    <3>1. \E h, g : /\ Sizes(h, <<>>, Len(items'), Len(items'))
                    /\ FollowedTo(h, g, <<>>, items', index', ItemOf(items', index'))
      BY <2>2, <2>5, FollowedNow
    <3> QED
      BY <1>1, <2>4, <2>5, <3>1 DEF Followed
  <2> QED
    BY <1>1, <2>3, <2>5 DEF Followed
<1>2. ASSUME kept' = NoOid
      PROVE  Followed'
  BY <1>2 DEF Followed
<1>3. CASE Edit
  <2>1. PICK s \in Signals :
          /\ Send(s) /\ items' \in Seq(Oid)
          /\ Fits(Len(items), s) /\ Len(items') = After(Len(items), s)
          /\ s.kind = "contents" /\ EditedBy(items, items', s)
    BY <1>3, Edits
  <2>2. /\ signals' = Append(signals, s) /\ signals' # <<>>
        /\ phase' = phase /\ index' = index /\ objectid' = objectid /\ size' = size
        /\ kept' = IF kept \in RangeOf(items') THEN kept ELSE NoOid
    <3>1. signals' = Append(signals, s) /\ signals \in Seq(Signals)
      BY <2>1 DEF Send, Typed
    <3>2. signals' # <<>>
      BY <3>1
    <3> QED
      BY <2>1, <3>1, <3>2 DEF Send, iterator, Watched
  <2>3. CASE kept # NoOid /\ kept \in RangeOf(items')
    <3>1. PICK f, g : /\ Sizes(f, signals, size, Len(items))
                      /\ FollowedTo(f, g, signals, items, index, kept)
      BY <2>3 DEF Followed
    <3>2. /\ signals \in Seq(Signals) /\ items \in Seq(Oid)
          /\ Len(items) \in 0 .. MaxLen /\ After(Len(items), s) \in 0 .. MaxLen
      BY <2>1 DEF Typed
    <3>3. Sizes(Grown(f, Len(signals), Len(items')), signals', size', Len(items'))
      BY <2>1, <2>2, <3>1, <3>2, SentSizes
    <3>4. FollowedTo(Grown(f, Len(signals), Len(items')),
                     Grown(g, Len(signals), Pushed(g[Len(signals)], s)),
                     signals', items', index', kept)
      BY <2>1, <2>2, <2>3, <3>1, <3>2, FollowedSent
    <3> QED
      BY <2>2, <2>3, <3>3, <3>4 DEF Followed
  <2> QED
    BY <1>2, <2>2, <2>3
<1>4. CASE HandleSignal
  <2>1. /\ signals # <<>> /\ signals' = Tail(signals) /\ items' = items /\ phase' = phase
        /\ kept' = IF phase' = "on" /\ signals' = <<>> THEN objectid'
                   ELSE IF kept \in RangeOf(items') THEN kept ELSE NoOid
    BY <1>4 DEF HandleSignal, Watched, iterator
  <2>2. CASE kept' = kept /\ kept # NoOid
    <3>1. phase = "on" /\ phase' = "on"
      BY <2>1, <2>2 DEF Followed
    <3>2. \E f, g : /\ Sizes(f, signals', size', Len(items'))
                    /\ FollowedTo(f, g, signals', items', index', kept)
      BY <1>4, <2>2, FollowedOn
    <3> QED
      BY <2>2, <3>1, <3>2 DEF Followed
  <2> QED
    BY <1>1, <1>2, <2>1, <2>2
<1>5. CASE AskStarting
  BY <1>2, <1>5 DEF AskStarting, Followed
<1>6. CASE AskSize
  BY <1>1, <1>6 DEF AskSize, Watched, Sized
<1>7. CASE Invalidate
  BY <1>2, <1>7 DEF Invalidate
<1>8. CASE RendererMoves
  <2>1. /\ phase' = "on" /\ signals' = signals
        /\ kept' = IF signals = <<>> THEN objectid' ELSE NoOid
    BY <1>8 DEF RendererMoves
  <2> QED
    BY <1>1, <1>2, <2>1
<1>9. CASE UNCHANGED vars
  BY <1>9 DEF vars, Followed
<1> QED
  BY <1>3, <1>4, <1>5, <1>6, <1>7, <1>8, <1>9 DEF Next

(* No edit and no signal of it takes the current item away from the        *)
(* renderer, as long as it is in the playlist and the renderer does not    *)
(* move on: with no items moved, and for any number of edits the iterator  *)
(* has not heard of yet.                                                   *)
THEOREM ItemIsKept ==
  ASSUME Truthful, "moves" \notin Allowed
  PROVE  Spec => ItemStays
<1>1. Init => Followed
  BY DEF Init, Followed
<1>2. ASSUME Typed, Sized, Placed, Followed, Typed', Sized', Placed',
             HandleSignal, phase = "on", signals' = <<>>, kept # NoOid
      PROVE  kept = objectid'
  <2>1. PICK f, g : /\ Sizes(f, <<>>, size', Len(items'))
                    /\ FollowedTo(f, g, <<>>, items', index', kept)
    BY <1>2, FollowedOn
  <2>2. PICK h, m : /\ Sizes(h, <<>>, size', Len(items'))
                    /\ PlaceAt(h, m, <<>>, items', index', objectid')
    BY <1>2 DEF Placed, HandleSignal, iterator
  <2>3. items' \in Seq(Oid) /\ index' \in Int
    BY <1>2 DEF Typed
  <2>4. \/ index' = -1
        \/ index' \in 0 .. Len(items') - 1 /\ objectid' = ItemOf(items', index')
    BY <2>2, <2>3, SettledPlace
  <2>5. index' \in Nat /\ kept = ItemOf(items', index')
    BY <2>1 DEF FollowedTo
  <2> QED
    BY <2>4, <2>5
<1>3. ASSUME Typed, Sized, Placed, Followed, Typed', Sized', Placed', [Next]_vars
      PROVE  [HandleSignal /\ phase = "on" /\ signals' = <<>> => kept \in {NoOid, objectid'}]_vars
  BY <1>2, <1>3
<1> QED
  BY <1>1, <1>3, SizedInit, SizedNext, PlacedInit, PlacedNext, FollowedNext, PTL
  DEF Spec, ItemStays

-----------------------------------------------------------------------------
(* In step: the instance InStep, whose signals are handled one by one.     *)
(* Moves are allowed here, and edits that are refused but signalled; the   *)
(* iterator's size may then be too large for good.                         *)

(* The iterator has place i, where item o is in list a, and size sz.       *)
AtPlace(a, i, o, sz) ==
  /\ sz \in Nat /\ Len(a) <= sz /\ i \in -1 .. sz - 1
  /\ o = ItemOf(a, i) /\ (i = -1 => Len(a) = 0)

MovedTo(i, from, to) ==
  IF i = from THEN to
  ELSE IF from < i /\ i <= to THEN i - 1
  ELSE IF to <= i /\ i < from THEN i + 1 ELSE i

ContentsTold(a, b, s) ==
  /\ s.kind = "contents"
  /\ s.from \in Nat /\ s.nremove \in Nat /\ s.nreplace \in Nat
  /\ s.nremove = 0 \/ s.nreplace = 0
  /\ s.nremove > 0 => s.from + s.nremove <= Len(a)
  /\ Len(b) <= Len(a) + s.nreplace - s.nremove
  /\ \A i \in Nat : Stays(i, s) => ItemOf(b, Pushed(i, s)) = ItemOf(a, i)
MoveTold(a, b, s) ==
  /\ s.kind = "moved" /\ s.from \in Nat /\ s.to \in Nat /\ Len(b) = Len(a)
  /\ s.from = s.to \/ {s.from, s.to} \subseteq 0 .. Len(a) - 1
  /\ \A i \in Nat : ItemOf(b, MovedTo(i, s.from, s.to)) = ItemOf(a, i)

(* List b is list a after the edit s is about.                             *)
Describes(a, b, s) == ContentsTold(a, b, s) \/ MoveTold(a, b, s)

LEMMA PushedItems ==
  ASSUME NEW a \in Seq(Oid), NEW b \in Seq(Oid), NEW from \in Nat, NEW n \in Nat, NEW m \in Nat,
         n = 0 \/ m = 0, from + n <= Len(a), Len(b) = Len(a) + m - n,
         \A i \in 1 .. Len(a) : i <= from => b[i] = a[i],
         \A i \in 1 .. Len(a) : from + n < i => b[i + m - n] = a[i]
  PROVE  ContentsTold(a, b, Contents(from, n, m))
<1> DEFINE s == Contents(from, n, m)
<1>1. /\ s.kind = "contents" /\ s.from = from /\ s.nremove = n /\ s.nreplace = m
      /\ Len(a) \in Nat /\ Len(b) \in Nat
  BY DEF Contents
<1> HIDE DEF s
<1>2. ASSUME NEW i \in Nat, Stays(i, s)
      PROVE  ItemOf(b, Pushed(i, s)) = ItemOf(a, i)
  <2>1. CASE i < from
    <3>1. Pushed(i, s) = i /\ i \in 0 .. Len(a) - 1 /\ i \in 0 .. Len(b) - 1
      BY <1>1, <2>1 DEF Pushed
    <3>2. i + 1 \in 1 .. Len(a) /\ i + 1 <= from
      BY <1>1, <2>1
    <3>3. b[i + 1] = a[i + 1]
      BY <3>2
    <3> QED
      BY <3>1, <3>3 DEF ItemOf
  <2>2. CASE i >= from /\ i < Len(a)
    <3>1. from + n <= i /\ Pushed(i, s) = i + m - n
      BY <1>1, <1>2, <2>2 DEF Pushed, Stays
    <3>2. /\ i \in 0 .. Len(a) - 1 /\ i + m - n \in 0 .. Len(b) - 1 /\ i + 1 \in 1 .. Len(a)
          /\ from + n < i + 1 /\ (i + 1) + m - n = (i + m - n) + 1
      BY <1>1, <2>2, <3>1
    <3>3. b[(i + m - n) + 1] = a[i + 1]
      BY <3>2
    <3> QED
      BY <3>1, <3>2, <3>3 DEF ItemOf
  <2>3. CASE i >= from /\ i >= Len(a)
    <3>1. from + n <= i /\ Pushed(i, s) = i + m - n
      BY <1>1, <1>2, <2>3 DEF Pushed, Stays
    <3>2. i \notin 0 .. Len(a) - 1 /\ i + m - n \notin 0 .. Len(b) - 1
      BY <1>1, <2>3, <3>1
    <3> QED
      BY <3>1, <3>2 DEF ItemOf
  <2> QED
    BY <1>1, <2>1, <2>2, <2>3
<1> QED
  BY <1>1, <1>2 DEF ContentsTold, s

LEMMA MovedItems ==
  ASSUME NEW a \in Seq(Oid), NEW from \in 0 .. Len(a) - 1, NEW to \in 0 .. Len(a) - 1
  PROVE  MoveTold(a, WithMoved(a, from, to), Moved(from, to))
<1> DEFINE s == Moved(from, to)
           b == WithMoved(a, from, to)
<1>1. /\ s.kind = "moved" /\ s.from = from /\ s.to = to /\ Len(a) \in Nat
      /\ from \in Nat /\ to \in Nat
  BY DEF Moved
<1>2. b \in [1 .. Len(a) -> Oid]
  BY <1>1 DEF WithMoved
<1>3. Len(b) = Len(a)
  BY <1>1, <1>2
<1>4. \A k \in 1 .. Len(a) :
        b[k] = IF k = to + 1 THEN a[from + 1]
               ELSE IF from < k /\ k <= to THEN a[k + 1]
               ELSE IF to + 1 < k /\ k <= from + 1 THEN a[k - 1] ELSE a[k]
  BY DEF WithMoved
<1> HIDE DEF s, b
<1>5. ASSUME NEW i \in Nat
      PROVE  ItemOf(b, MovedTo(i, from, to)) = ItemOf(a, i)
  <2> DEFINE j == MovedTo(i, from, to)
  <2>1. CASE i \in 0 .. Len(a) - 1
    <3>1. j \in 0 .. Len(a) - 1 /\ j + 1 \in 1 .. Len(a) /\ i + 1 \in 1 .. Len(a)
      BY <1>1, <2>1 DEF MovedTo
    <3>2. b[j + 1] = IF j + 1 = to + 1 THEN a[from + 1]
               ELSE IF from < j + 1 /\ j + 1 <= to THEN a[(j + 1) + 1]
               ELSE IF to + 1 < j + 1 /\ j + 1 <= from + 1 THEN a[(j + 1) - 1] ELSE a[j + 1]
      BY <1>4, <3>1
    <3>3. b[j + 1] = a[i + 1]
      <4>1. CASE i = from
        <5>1. j = to
          BY <4>1 DEF MovedTo
        <5> QED
          BY <3>2, <4>1, <5>1
      <4>2. CASE i # from /\ from < i /\ i <= to
        <5>1. j = i - 1
          BY <4>2 DEF MovedTo
        <5>2. j + 1 # to + 1 /\ from < j + 1 /\ j + 1 <= to /\ (j + 1) + 1 = i + 1
          BY <1>1, <4>2, <5>1
        <5> QED
          BY <3>2, <5>2
      <4>3. CASE i # from /\ ~(from < i /\ i <= to) /\ to <= i /\ i < from
        <5>1. j = i + 1
          BY <4>3 DEF MovedTo
        <5>2. /\ j + 1 # to + 1 /\ ~(from < j + 1 /\ j + 1 <= to)
              /\ to + 1 < j + 1 /\ j + 1 <= from + 1 /\ (j + 1) - 1 = i + 1
          BY <1>1, <4>3, <5>1
        <5> QED
          BY <3>2, <5>2
      <4>4. CASE i # from /\ ~(from < i /\ i <= to) /\ ~(to <= i /\ i < from)
        <5>1. j = i
          BY <4>4 DEF MovedTo
        <5>2. /\ j + 1 # to + 1 /\ ~(from < j + 1 /\ j + 1 <= to)
              /\ ~(to + 1 < j + 1 /\ j + 1 <= from + 1)
          BY <1>1, <4>4, <5>1
        <5> QED
          BY <3>2, <5>1, <5>2
      <4> QED
        BY <4>1, <4>2, <4>3, <4>4
    <3> HIDE DEF j
    <3> QED
      BY <1>3, <2>1, <3>1, <3>3 DEF ItemOf, j
  <2>2. CASE i \notin 0 .. Len(a) - 1
    <3>1. j = i
      BY <1>1, <2>2 DEF MovedTo
    <3> QED
      BY <1>3, <2>2, <3>1 DEF ItemOf
  <2> QED
    BY <2>1, <2>2
<1>6. from \in 0 .. Len(a) - 1 /\ to \in 0 .. Len(a) - 1
  OBVIOUS
<1> QED
  BY <1>1, <1>3, <1>5, <1>6 DEF MoveTold, s, b

(* The invariant of InStep: the signal on its way, if there is one, is     *)
(* about the only edit the iterator does not know.                         *)
StepHeld ==
  /\ sitems \in Seq(Oid)
  /\ ssignals = <<>> \/ \E s : ssignals = <<s>>
  /\ sphase = "starting" =>
       ssignals = <<>> /\ AtPlace(sitems, sindex, sobjectid, Len(sitems))
  /\ sphase = "on" =>
       /\ stold = sobjectid
       /\ \/ ssignals = <<>> /\ AtPlace(sitems, sindex, sobjectid, ssize)
          \/ \E s : \E a \in Seq(Oid) :
               /\ ssignals = <<s>> /\ Describes(a, sitems, s)
               /\ AtPlace(a, sindex, sobjectid, ssize)

LEMMA StepItems ==
  ASSUME sitems \in Seq(Oid)
  PROVE  /\ Len(sitems) \in Nat /\ InStep!Idx = 0 .. Len(sitems) - 1
         /\ \A i : InStep!ItemAt(i) = ItemOf(sitems, i)
BY DEF InStep!Idx, InStep!ItemAt, ItemOf

LEMMA StepEdits ==
  ASSUME sitems \in Seq(Oid), InStep!Edit
  PROVE  \E s : InStep!Send(s) /\ sitems' \in Seq(Oid) /\ Describes(sitems, sitems', s)
<1>1. Len(sitems) \in Nat /\ InStep!Idx = 0 .. Len(sitems) - 1 /\ StepLen \in Nat
  BY StepItems, StepAssumption
<1>2. CASE InStep!Insert
  <2>1. PICK at \in 0 .. Len(sitems), n \in 1 .. StepLen - Len(sitems) :
          \E new \in [1 .. n -> Oid \ InStep!RangeOf(sitems)] :
            /\ sitems' = SubSeq(sitems, 1, at) \o new \o SubSeq(sitems, at + 1, Len(sitems))
            /\ InStep!Send(InStep!Contents(at, 0, n))
    BY <1>2 DEF InStep!Insert
  <2>2. PICK new \in [1 .. n -> Oid \ InStep!RangeOf(sitems)] :
          /\ sitems' = SubSeq(sitems, 1, at) \o new \o SubSeq(sitems, at + 1, Len(sitems))
          /\ InStep!Send(InStep!Contents(at, 0, n))
    BY <2>1
  <2>3. n \in Nat /\ new \in [1 .. n -> Oid] /\ at \in Nat /\ at <= Len(sitems)
    BY <1>1
  <2>4. sitems' = WithNew(sitems, at, new)
    BY <2>2 DEF WithNew
  <2>5. /\ sitems' \in Seq(Oid) /\ Len(sitems') = Len(sitems) + n
        /\ \A i \in 1 .. Len(sitems) + n :
             sitems'[i] = IF i <= at THEN sitems[i]
                          ELSE IF i <= at + n THEN new[i - at] ELSE sitems[i - n]
    BY <2>3, <2>4, InsertedList
  <2>6. \A i \in 1 .. Len(sitems) : i <= at => sitems'[i] = sitems[i]
    BY <1>1, <2>3, <2>5
  <2>7. ASSUME NEW i \in 1 .. Len(sitems), at + 0 < i
        PROVE  sitems'[i + n - 0] = sitems[i]
    <3>1. /\ i + n \in 1 .. Len(sitems) + n /\ ~(i + n <= at) /\ ~(i + n <= at + n)
          /\ (i + n) - n = i /\ i + n - 0 = i + n
      BY <1>1, <2>3, <2>7
    <3>2. sitems'[i + n] = sitems[(i + n) - n]
      BY <2>5, <3>1
    <3> QED
      BY <3>1, <3>2
  <2>8. ContentsTold(sitems, sitems', Contents(at, 0, n))
    <3>1. at + 0 <= Len(sitems) /\ Len(sitems') = Len(sitems) + n - 0 /\ 0 \in Nat
      BY <1>1, <2>3, <2>5
    <3> QED
      BY <2>3, <2>5, <2>6, <2>7, <3>1, PushedItems
  <2>9. InStep!Contents(at, 0, n) = Contents(at, 0, n)
    BY DEF InStep!Contents, Contents
  <2> QED
    BY <2>2, <2>5, <2>8, <2>9 DEF Describes
<1>3. CASE InStep!RefusedInsert
  <2>1. sitems' = sitems /\ InStep!Send(InStep!Contents(Len(sitems) + 1, 0, 1))
    BY <1>3 DEF InStep!RefusedInsert
  <2>2. ContentsTold(sitems, sitems, InStep!Contents(Len(sitems) + 1, 0, 1))
    BY <1>1 DEF ContentsTold, InStep!Contents, Pushed, ItemOf
  <2> QED
    BY <2>1, <2>2 DEF Describes
<1>4. CASE InStep!Remove
  <2>1. PICK at \in InStep!Idx :
          /\ sitems' = SubSeq(sitems, 1, at) \o SubSeq(sitems, at + 2, Len(sitems))
          /\ InStep!Send(InStep!Contents(at, 1, 0))
    BY <1>4 DEF InStep!Remove
  <2>2. at \in 0 .. Len(sitems) - 1
    BY <1>1
  <2>3. /\ sitems' \in Seq(Oid) /\ Len(sitems') = Len(sitems) - 1
        /\ \A i \in 1 .. Len(sitems) - 1 :
             sitems'[i] = IF i <= at THEN sitems[i] ELSE sitems[i + 1]
    BY <2>1, <2>2, RemovedList
  <2>4. \A i \in 1 .. Len(sitems) : i <= at => sitems'[i] = sitems[i]
    BY <1>1, <2>2, <2>3
  <2>5. ASSUME NEW i \in 1 .. Len(sitems), at + 1 < i
        PROVE  sitems'[i + 0 - 1] = sitems[i]
    <3>1. /\ i - 1 \in 1 .. Len(sitems) - 1 /\ ~(i - 1 <= at)
          /\ (i - 1) + 1 = i /\ i + 0 - 1 = i - 1
      BY <1>1, <2>2, <2>5
    <3>2. sitems'[i - 1] = sitems[(i - 1) + 1]
      BY <2>3, <3>1
    <3> QED
      BY <3>1, <3>2
  <2>6. ContentsTold(sitems, sitems', Contents(at, 1, 0))
    <3>1. /\ at + 1 <= Len(sitems) /\ Len(sitems') = Len(sitems) + 0 - 1
          /\ 0 \in Nat /\ 1 \in Nat /\ at \in Nat
      BY <1>1, <2>2, <2>3
    <3> QED
      BY <2>3, <2>4, <2>5, <3>1, PushedItems
  <2>7. InStep!Contents(at, 1, 0) = Contents(at, 1, 0)
    BY DEF InStep!Contents, Contents
  <2> QED
    BY <2>1, <2>3, <2>6, <2>7 DEF Describes
<1>5. CASE InStep!Clear
  <2>1. sitems' = <<>> /\ InStep!Send(InStep!Contents(0, Len(sitems), 0))
    BY <1>5 DEF InStep!Clear
  <2>2. <<>> \in Seq(Oid) /\ Len(<<>>) = 0
    OBVIOUS
  <2>3. ContentsTold(sitems, <<>>, InStep!Contents(0, Len(sitems), 0))
    BY <1>1, <2>2 DEF ContentsTold, InStep!Contents, Stays, Pushed, ItemOf
  <2> QED
    BY <2>1, <2>2, <2>3 DEF Describes
<1>6. CASE InStep!Move
  <2>1. PICK from \in 0 .. StepLen, to \in 0 .. StepLen :
          /\ from = to \/ {from, to} \subseteq InStep!Idx
          /\ sitems' = WithMoved(sitems, from, to)
          /\ InStep!Send(InStep!Moved(from, to))
    BY <1>6 DEF InStep!Move, WithMoved
  <2>2. from \in Nat /\ to \in Nat
    BY <1>1
  <2>3. InStep!Moved(from, to) = Moved(from, to)
    BY DEF InStep!Moved, Moved
  <2>4. CASE from = to
    <3>1. \A k \in 1 .. Len(sitems) :
            (IF k = to + 1 THEN sitems[from + 1]
             ELSE IF from < k /\ k <= to THEN sitems[k + 1]
             ELSE IF to + 1 < k /\ k <= from + 1 THEN sitems[k - 1] ELSE sitems[k]) = sitems[k]
      BY <1>1, <2>2, <2>4
    <3>2. sitems' = [k \in 1 .. Len(sitems) |-> sitems[k]]
      BY <2>1, <3>1 DEF WithMoved
    <3>3. sitems = [k \in 1 .. Len(sitems) |-> sitems[k]]
      BY <1>1
    <3>4. sitems' = sitems
      BY <3>2, <3>3
    <3>5. \A i \in Nat : MovedTo(i, from, to) = i
      BY <2>2, <2>4 DEF MovedTo
    <3>6. MoveTold(sitems, sitems, Moved(from, to))
      BY <2>2, <2>4, <3>5 DEF MoveTold, Moved
    <3> QED
      BY <2>1, <2>3, <3>4, <3>6 DEF Describes
  <2>5. CASE {from, to} \subseteq InStep!Idx
    <3>1. from \in 0 .. Len(sitems) - 1 /\ to \in 0 .. Len(sitems) - 1
      BY <1>1, <2>5
    <3>2. MoveTold(sitems, sitems', Moved(from, to))
      BY <2>1, <3>1, MovedItems
    <3>3. sitems' \in Seq(Oid)
      <4>1. \A k \in 1 .. Len(sitems) : WithMoved(sitems, from, to)[k] \in Oid
        BY <1>1, <3>1 DEF WithMoved
      <4>2. WithMoved(sitems, from, to) \in [1 .. Len(sitems) -> Oid]
        BY <4>1 DEF WithMoved
      <4> QED
        BY <1>1, <2>1, <4>2
    <3> QED
      BY <2>1, <2>3, <3>2, <3>3 DEF Describes
  <2> QED
    BY <2>1, <2>4, <2>5
<1> QED
  BY <1>2, <1>3, <1>4, <1>5, <1>6 DEF InStep!Edit

(* The iterator handles the signal of the only edit it does not know.      *)
LEMMA StepContents ==
  ASSUME sitems \in Seq(Oid), NEW a \in Seq(Oid), NEW s,
         AtPlace(a, sindex, sobjectid, ssize), stold = sobjectid,
         ContentsTold(a, sitems, s), InStep!ContentsChanged(s)
  PROVE  stold' = sobjectid' /\ AtPlace(sitems, sindex', sobjectid', ssize')
<1> DEFINE k == ssize + s.nreplace - s.nremove
<1>1. /\ Len(sitems) \in Nat /\ InStep!Idx = 0 .. Len(sitems) - 1
      /\ \A i : InStep!ItemAt(i) = ItemOf(sitems, i)
  BY StepItems
<1>2. /\ s.from \in Nat /\ s.nremove \in Nat /\ s.nreplace \in Nat
      /\ s.nremove = 0 \/ s.nreplace = 0
      /\ s.nremove > 0 => s.from + s.nremove <= Len(a)
      /\ Len(sitems) <= Len(a) + s.nreplace - s.nremove
      /\ \A i \in Nat : Stays(i, s) => ItemOf(sitems, Pushed(i, s)) = ItemOf(a, i)
  BY DEF ContentsTold
<1>3. /\ ssize \in Nat /\ Len(a) \in Nat /\ Len(a) <= ssize /\ sindex \in -1 .. ssize - 1
      /\ sobjectid = ItemOf(a, sindex) /\ (sindex = -1 => Len(a) = 0)
  BY DEF AtPlace
<1>4. k \in Nat /\ Len(sitems) <= k /\ InStep!Resized(s) = k /\ InStep!KnownSize(k) = k
  BY <1>1, <1>2, <1>3 DEF InStep!Resized, InStep!KnownSize
<1>5. /\ ItemOf(sitems, -1) = NoOid
      /\ Len(sitems) = 0 => \A i : ItemOf(sitems, i) = NoOid
  BY <1>1 DEF ItemOf
<1> HIDE DEF k
<1>6. ASSUME NEW i \in 0 .. k - 1, ssize' = k, InStep!SetData(i)
      PROVE  AtPlace(sitems, sindex', sobjectid', ssize')
  BY <1>1, <1>4, <1>6 DEF InStep!SetData, AtPlace
<1>7. CASE /\ s.nremove > 0 /\ sindex \in s.from .. s.from + s.nremove - 1
           /\ InStep!CurrentRemoved(s) /\ stold' = sobjectid'
  <2>1. CASE k = 0
    <3>1. ssize' = 0 /\ sindex' = -1 /\ sobjectid' = NoOid
      BY <1>4, <1>7, <2>1 DEF InStep!CurrentRemoved
    <3>2. Len(sitems) = 0
      BY <1>1, <1>4, <2>1
    <3> QED
      BY <1>5, <1>7, <3>1, <3>2 DEF AtPlace
  <2>2. CASE k > 0 /\ sindex >= k
    <3>1. InStep!MoveToIndex(k - 1, k)
      BY <1>4, <1>7, <2>2 DEF InStep!CurrentRemoved
    <3>2. ssize' = k /\ InStep!SetData(k - 1) /\ k - 1 \in 0 .. k - 1
      BY <1>4, <2>2, <3>1 DEF InStep!MoveToIndex
    <3> QED
      BY <1>6, <1>7, <3>2
  <2>3. CASE k > 0 /\ sindex < k
    <3>1. ssize' = k /\ InStep!SetData(sindex) /\ sindex \in 0 .. k - 1
      BY <1>2, <1>3, <1>4, <1>7, <2>3 DEF InStep!CurrentRemoved
    <3> QED
      BY <1>6, <1>7, <3>1
  <2> QED
    BY <1>3, <1>4, <2>1, <2>2, <2>3
<1>8. ASSUME sindex >= 0, Stays(sindex, s), ssize' = k,
             \/ InStep!SetData(Pushed(sindex, s))
             \/ Pushed(sindex, s) = sindex /\ InStep!Keep
      PROVE  sobjectid' = sobjectid /\ AtPlace(sitems, sindex', sobjectid', ssize')
  <2>1. sindex \in Nat /\ ItemOf(sitems, Pushed(sindex, s)) = sobjectid
    BY <1>2, <1>3, <1>8
  <2>2. Pushed(sindex, s) \in 0 .. k - 1
    <3>1. /\ k = ssize + s.nreplace - s.nremove /\ ssize \in Nat /\ sindex \in 0 .. ssize - 1
          /\ s.from \in Nat /\ s.nremove \in Nat /\ s.nreplace \in Nat
      BY <1>2, <1>3, <1>8 DEF k
    <3>2. CASE sindex < s.from
      <4>1. Pushed(sindex, s) = sindex /\ (s.nremove > 0 => s.from + s.nremove <= ssize)
        BY <1>2, <1>3, <3>2 DEF Pushed
      <4>2. s.nremove = 0 \/ s.nremove > 0
        BY <3>1
      <4> QED
        BY <3>1, <3>2, <4>1, <4>2
    <3>3. CASE ~(sindex < s.from)
      <4>1. Pushed(sindex, s) = sindex + s.nreplace - s.nremove /\ s.from + s.nremove <= sindex
        BY <1>8, <3>3 DEF Pushed, Stays
      <4> QED
        BY <3>1, <4>1
    <3> QED
      BY <3>2, <3>3
  <2>3. sindex' = Pushed(sindex, s) /\ sobjectid' = sobjectid
    BY <1>1, <1>8, <2>1 DEF InStep!SetData, InStep!Keep
  <2> QED
    BY <1>4, <1>8, <2>1, <2>2, <2>3 DEF AtPlace
<1>9. CASE /\ s.nremove > 0 /\ sindex \notin s.from .. s.from + s.nremove - 1
           /\ IF InStep!Precedes(sindex, s.from)
              THEN InStep!MoveToIndex(IF sindex < s.nremove THEN 0 ELSE sindex - s.nremove,
                                      InStep!Resized(s))
              ELSE ssize' = InStep!Resized(s) /\ InStep!Keep
           /\ UNCHANGED stold
  <2>1. sindex >= 0 /\ s.nreplace = 0 /\ (sindex < s.from \/ s.from + s.nremove <= sindex)
    BY <1>2, <1>3, <1>9
  <2>2. Stays(sindex, s)
    BY <1>2, <1>3, <2>1 DEF Stays
  <2>3. CASE sindex < s.from
    <3>1. ~InStep!Precedes(sindex, s.from) /\ Pushed(sindex, s) = sindex
      BY <1>2, <1>3, <2>1, <2>3 DEF InStep!Precedes, Pushed
    <3> QED
      BY <1>4, <1>8, <1>9, <2>1, <2>2, <3>1
  <2>4. CASE s.from + s.nremove <= sindex
    <3>1. /\ InStep!Precedes(sindex, s.from) /\ ~(sindex < s.nremove)
          /\ Pushed(sindex, s) = sindex - s.nremove /\ sindex - s.nremove \in 0 .. k - 1
      <4>1. s.from < sindex /\ ~(sindex < s.nremove) /\ ~(sindex < s.from)
        BY <1>2, <1>3, <1>9, <2>1, <2>4
      <4>2. k = ssize - s.nremove
        BY <1>2, <1>3, <2>1 DEF k
      <4>3. sindex - s.nremove \in 0 .. k - 1
        BY <1>2, <1>3, <2>1, <2>4, <4>2
      <4>4. sindex + s.nreplace - s.nremove = sindex - s.nremove
        BY <1>2, <1>3, <2>1
      <4> QED
        BY <4>1, <4>3, <4>4 DEF InStep!Precedes, Pushed
    <3>2. InStep!MoveToIndex(sindex - s.nremove, k)
      BY <1>4, <1>9, <3>1
    <3>3. ssize' = k /\ InStep!SetData(sindex - s.nremove)
      BY <1>4, <3>1, <3>2 DEF InStep!MoveToIndex
    <3> QED
      BY <1>8, <1>9, <2>1, <2>2, <3>1, <3>3
  <2> QED
    BY <2>1, <2>3, <2>4
<1>10. CASE s.nremove = 0 /\ sindex = -1 /\ InStep!FirstInserted(s)
  <2>1. stold' = sobjectid' /\ ssize' = k /\ InStep!MoveTo(InStep!StartingIndex)
    BY <1>4, <1>10 DEF InStep!FirstInserted
  <2>2. InStep!StartingIndex = InStep!Idx \cap {0}
    BY DEF InStep!StartingIndex
  <2>3. CASE Len(sitems) = 0
    <3>1. sindex' = -1 /\ sobjectid' = NoOid
      BY <1>1, <2>1, <2>2, <2>3 DEF InStep!MoveTo
    <3> QED
      BY <1>4, <1>5, <2>1, <2>3, <3>1 DEF AtPlace
  <2>4. CASE Len(sitems) > 0
    <3>1. InStep!StartingIndex = {0} /\ 0 \in 0 .. k - 1
      BY <1>1, <1>4, <2>2, <2>4
    <3>2. InStep!SetData(0)
      BY <2>1, <3>1 DEF InStep!MoveTo
    <3> QED
      BY <1>6, <2>1, <3>1, <3>2
  <2> QED
    BY <1>1, <2>3, <2>4
<1>11. CASE /\ s.nremove = 0 /\ sindex # -1
            /\ IF sindex >= s.from THEN InStep!MoveToIndex(InStep!Shifted(s), InStep!Resized(s))
               ELSE ssize' = InStep!Resized(s) /\ InStep!Keep
            /\ UNCHANGED stold
  <2>1. sindex >= 0 /\ Stays(sindex, s)
    BY <1>2, <1>3, <1>11 DEF Stays
  <2>2. CASE sindex >= s.from
    <3>1. /\ Pushed(sindex, s) = InStep!Shifted(s) /\ InStep!Shifted(s) \in 0 .. k - 1
      BY <1>2, <1>3, <1>11, <2>1, <2>2 DEF Pushed, InStep!Shifted, k
    <3>2. InStep!MoveToIndex(InStep!Shifted(s), k)
      BY <1>4, <1>11, <2>2
    <3>3. ssize' = k /\ InStep!SetData(InStep!Shifted(s))
      BY <1>4, <3>1, <3>2 DEF InStep!MoveToIndex
    <3> QED
      BY <1>8, <1>11, <2>1, <3>1, <3>3
  <2>3. CASE sindex < s.from
    <3>1. Pushed(sindex, s) = sindex
      BY <1>2, <1>3, <2>3 DEF Pushed
    <3>2. ssize' = k /\ InStep!Keep
      BY <1>2, <1>3, <1>4, <1>11, <2>3
    <3> QED
      BY <1>8, <1>11, <2>1, <3>1, <3>2
  <2> QED
    BY <1>2, <1>3, <2>2, <2>3
<1> QED
  BY <1>7, <1>9, <1>10, <1>11 DEF InStep!ContentsChanged

LEMMA StepMoved ==
  ASSUME sitems \in Seq(Oid), NEW a \in Seq(Oid), NEW s,
         AtPlace(a, sindex, sobjectid, ssize), stold = sobjectid,
         MoveTold(a, sitems, s), InStep!ItemMoved(s)
  PROVE  stold' = sobjectid' /\ AtPlace(sitems, sindex', sobjectid', ssize')
<1>1. /\ Len(sitems) \in Nat /\ InStep!Idx = 0 .. Len(sitems) - 1
      /\ \A i : InStep!ItemAt(i) = ItemOf(sitems, i)
  BY StepItems
<1>2. /\ s.from \in Nat /\ s.to \in Nat /\ Len(sitems) = Len(a)
      /\ s.from = s.to \/ {s.from, s.to} \subseteq 0 .. Len(a) - 1
      /\ \A i \in Nat : ItemOf(sitems, MovedTo(i, s.from, s.to)) = ItemOf(a, i)
  BY DEF MoveTold
<1>3. /\ ssize \in Nat /\ Len(a) \in Nat /\ Len(a) <= ssize /\ sindex \in -1 .. ssize - 1
      /\ sobjectid = ItemOf(a, sindex) /\ (sindex = -1 => Len(a) = 0)
      /\ InStep!KnownSize(ssize) = ssize
  BY DEF AtPlace, InStep!KnownSize
<1>4. stold' = stold
  BY DEF InStep!ItemMoved
<1>5. ASSUME sindex >= 0, ssize' = ssize,
             \/ InStep!SetData(MovedTo(sindex, s.from, s.to))
             \/ MovedTo(sindex, s.from, s.to) = sindex /\ InStep!Keep
      PROVE  stold' = sobjectid' /\ AtPlace(sitems, sindex', sobjectid', ssize')
  <2>1. sindex \in Nat /\ ItemOf(sitems, MovedTo(sindex, s.from, s.to)) = sobjectid
    BY <1>2, <1>3, <1>5
  <2>2. MovedTo(sindex, s.from, s.to) \in 0 .. ssize - 1
    BY <1>2, <1>3, <1>5 DEF MovedTo
  <2>3. sindex' = MovedTo(sindex, s.from, s.to) /\ sobjectid' = sobjectid
    BY <1>1, <1>5, <2>1 DEF InStep!SetData, InStep!Keep
  <2> QED
    BY <1>2, <1>3, <1>4, <1>5, <2>1, <2>2, <2>3 DEF AtPlace
<1>6. CASE sindex = s.from /\ InStep!MoveToIndex(s.to, ssize)
  <2>1. s.to \in 0 .. ssize - 1 /\ MovedTo(sindex, s.from, s.to) = s.to /\ sindex >= 0
    BY <1>2, <1>3, <1>6 DEF MovedTo
  <2>2. ssize' = ssize /\ InStep!SetData(s.to)
    BY <1>3, <1>6, <2>1 DEF InStep!MoveToIndex
  <2> QED
    BY <1>5, <2>1, <2>2
<1>7. CASE InStep!PushedTowardHead(s) /\ InStep!MoveToPrev /\ UNCHANGED ssize
  <2>1. s.from < sindex /\ sindex <= s.to /\ s.from # s.to
    BY <1>2, <1>3, <1>7 DEF InStep!PushedTowardHead
  <2>2. sindex \in InStep!Idx /\ sindex - 1 \in InStep!Idx /\ sindex >= 0
    BY <1>1, <1>2, <1>3, <2>1
  <2>3. InStep!PrevIndex = {sindex - 1} /\ ~InStep!PrevMayEnd
    BY <2>2 DEF InStep!PrevIndex, InStep!PrevMayEnd
  <2>4. InStep!SetData(sindex - 1)
    BY <1>7, <2>3 DEF InStep!MoveToPrev
  <2>5. MovedTo(sindex, s.from, s.to) = sindex - 1
    BY <1>2, <1>3, <2>1 DEF MovedTo
  <2> QED
    BY <1>5, <1>7, <2>2, <2>4, <2>5
<1>8. CASE InStep!PushedTowardTail(s) /\ InStep!MoveToNext /\ UNCHANGED ssize
  <2>1. s.to <= sindex /\ sindex < s.from /\ s.from # s.to
    BY <1>2, <1>3, <1>8 DEF InStep!PushedTowardTail
  <2>2. sindex \in InStep!Idx /\ sindex + 1 \in InStep!Idx /\ sindex >= 0
    BY <1>1, <1>2, <1>3, <2>1
  <2>3. InStep!NextIndex = {sindex + 1} /\ ~InStep!NextMayEnd
    BY <2>2 DEF InStep!NextIndex, InStep!NextMayEnd
  <2>4. InStep!SetData(sindex + 1)
    BY <1>8, <2>3 DEF InStep!MoveToNext
  <2>5. MovedTo(sindex, s.from, s.to) = sindex + 1
    BY <1>2, <1>3, <2>1 DEF MovedTo
  <2> QED
    BY <1>5, <1>8, <2>2, <2>4, <2>5
<1>9. CASE /\ sindex # s.from /\ ~InStep!PushedTowardHead(s) /\ ~InStep!PushedTowardTail(s)
           /\ InStep!Keep /\ UNCHANGED ssize
  <2>1. MovedTo(sindex, s.from, s.to) = sindex
    BY <1>9 DEF MovedTo, InStep!PushedTowardHead, InStep!PushedTowardTail
  <2>2. CASE sindex >= 0
    BY <1>5, <1>9, <2>1, <2>2
  <2>3. CASE sindex = -1
    <3>1. ItemOf(a, -1) = NoOid /\ ItemOf(sitems, -1) = NoOid
      BY <1>1, <1>3 DEF ItemOf
    <3>2. sindex' = sindex /\ sobjectid' = sobjectid /\ ssize' = ssize
      BY <1>9 DEF InStep!Keep
    <3> QED
      BY <1>2, <1>3, <1>4, <2>3, <3>1, <3>2 DEF AtPlace
  <2> QED
    BY <1>3, <2>2, <2>3
<1> QED
  BY <1>6, <1>7, <1>8, <1>9 DEF InStep!ItemMoved

LEMMA StepHandled ==
  ASSUME StepHeld, InStep!HandleSignal
  PROVE  StepHeld'
<1>1. PICK s : ssignals = <<s>>
  BY DEF StepHeld, InStep!HandleSignal
<1>2. /\ ssignals' = <<>> /\ sitems' = sitems /\ sphase # "starting"
      /\ sphase' = sphase /\ Head(ssignals) = s
  BY <1>1 DEF InStep!HandleSignal, InStep!iterator
<1>3. ASSUME sphase = "on"
      PROVE  stold' = sobjectid' /\ AtPlace(sitems', sindex', sobjectid', ssize')
  <2>0. PICK t : \E a \in Seq(Oid) : /\ ssignals = <<t>> /\ Describes(a, sitems, t)
                                      /\ AtPlace(a, sindex, sobjectid, ssize)
    BY <1>1, <1>3 DEF StepHeld
  <2>1. PICK a \in Seq(Oid) : /\ ssignals = <<t>> /\ Describes(a, sitems, t)
                              /\ AtPlace(a, sindex, sobjectid, ssize)
    BY <2>0
  <2>2. t = s /\ stold = sobjectid /\ sitems \in Seq(Oid)
    BY <1>1, <1>3, <2>1 DEF StepHeld
  <2>3. \/ s.kind = "contents" /\ InStep!ContentsChanged(s)
        \/ s.kind = "moved" /\ InStep!ItemMoved(s)
    BY <1>2, <1>3 DEF InStep!HandleSignal
  <2>4. CASE s.kind = "contents" /\ InStep!ContentsChanged(s)
    <3>1. ContentsTold(a, sitems, s)
      BY <2>1, <2>2, <2>4 DEF Describes, MoveTold
    <3> QED
      BY <1>2, <2>1, <2>2, <2>4, <3>1, StepContents
  <2>5. CASE s.kind = "moved" /\ InStep!ItemMoved(s)
    <3>1. MoveTold(a, sitems, s)
      BY <2>1, <2>2, <2>5 DEF Describes, ContentsTold
    <3> QED
      BY <1>2, <2>1, <2>2, <2>5, <3>1, StepMoved
  <2> QED
    BY <2>3, <2>4, <2>5
<1> QED
  BY <1>2, <1>3 DEF StepHeld

LEMMA StepRendererMoves ==
  ASSUME StepHeld, InStep!RendererMoves
  PROVE  StepHeld'
<1>1. /\ sphase = "on" /\ ssignals = <<>> /\ sphase' = "on" /\ ssignals' = <<>>
      /\ sitems' = sitems /\ stold' = sobjectid' /\ sitems \in Seq(Oid)
  BY StepAssumption DEF InStep!RendererMoves, StepHeld
<1>2. AtPlace(sitems, sindex, sobjectid, ssize)
  BY <1>1 DEF StepHeld
<1>3. /\ Len(sitems) \in Nat /\ InStep!Idx = 0 .. Len(sitems) - 1
      /\ \A i : InStep!ItemAt(i) = ItemOf(sitems, i)
  BY <1>1, StepItems
<1>4. /\ ssize \in Nat /\ Len(sitems) <= ssize /\ sindex \in -1 .. ssize - 1
      /\ (sindex = -1 => Len(sitems) = 0) /\ InStep!KnownSize(ssize) = ssize
      /\ sobjectid = ItemOf(sitems, sindex)
  BY <1>2 DEF AtPlace, InStep!KnownSize
<1>5. ASSUME ssize' = ssize,
             \/ \E i \in 0 .. ssize - 1 : InStep!SetData(i)
             \/ InStep!Keep
             \/ Len(sitems) = 0 /\ sindex' = -1 /\ sobjectid' = NoOid
      PROVE  AtPlace(sitems, sindex', sobjectid', ssize')
  <2>1. CASE \E i \in 0 .. ssize - 1 : InStep!SetData(i)
    BY <1>3, <1>4, <1>5, <2>1 DEF InStep!SetData, AtPlace
  <2>2. CASE InStep!Keep
    BY <1>2, <1>5, <2>2 DEF InStep!Keep, AtPlace
  <2>3. CASE Len(sitems) = 0 /\ sindex' = -1 /\ sobjectid' = NoOid
    <3>1. ItemOf(sitems, -1) = NoOid
      BY <1>3 DEF ItemOf
    <3> QED
      BY <1>3, <1>4, <1>5, <2>3, <3>1 DEF AtPlace
  <2> QED
    BY <1>5, <2>1, <2>2, <2>3
<1>6. AtPlace(sitems, sindex', sobjectid', ssize')
  <2>1. /\ InStep!Idx \subseteq 0 .. ssize - 1
        /\ Len(sitems) > 0 => 0 \in InStep!Idx /\ Len(sitems) - 1 \in InStep!Idx
    BY <1>3, <1>4
  <2>2. CASE (InStep!MoveTo(InStep!StartingIndex) \/ InStep!MoveTo(InStep!LastIndex))
             /\ UNCHANGED ssize
    <3>1. /\ InStep!StartingIndex \subseteq InStep!Idx /\ InStep!LastIndex \subseteq InStep!Idx
          /\ InStep!StartingIndex = {} => Len(sitems) = 0
          /\ InStep!LastIndex = {} => Len(sitems) = 0
      BY <1>3, <2>1 DEF InStep!StartingIndex, InStep!LastIndex
    <3>2. \/ \E i \in InStep!Idx : InStep!SetData(i)
          \/ Len(sitems) = 0 /\ sindex' = -1 /\ sobjectid' = NoOid
      BY <2>2, <3>1 DEF InStep!MoveTo
    <3> QED
      BY <1>5, <2>1, <2>2, <3>2
  <2>3. CASE (InStep!MoveToNext \/ InStep!MoveToPrev) /\ UNCHANGED ssize
    <3>1. InStep!NextIndex \subseteq InStep!Idx /\ InStep!PrevIndex \subseteq InStep!Idx
      BY <1>3, <2>1 DEF InStep!NextIndex, InStep!PrevIndex
    <3>2. (\E i \in InStep!Idx : InStep!SetData(i)) \/ InStep!Keep
      BY <2>3, <3>1 DEF InStep!MoveToNext, InStep!MoveToPrev
    <3> QED
      BY <1>5, <2>1, <2>3, <3>2
  <2>4. CASE \E i \in 0 .. StepLen : InStep!MoveToIndex(i, ssize)
    <3>1. PICK i \in 0 .. StepLen : InStep!MoveToIndex(i, ssize)
      BY <2>4
    <3> QED
      BY <1>4, <1>5, <3>1 DEF InStep!MoveToIndex
  <2> QED
    BY <2>2, <2>3, <2>4 DEF InStep!RendererMoves
<1> QED
  BY <1>1, <1>6 DEF StepHeld

LEMMA StepNext ==
  ASSUME StepHeld, InStep!Next
  PROVE  StepHeld'
<1>1. CASE InStep!Edit
  <2>1. sitems \in Seq(Oid)
    BY DEF StepHeld
  <2>2. PICK s : InStep!Send(s) /\ sitems' \in Seq(Oid) /\ Describes(sitems, sitems', s)
    BY <1>1, <2>1, StepEdits
  <2>3. /\ Len(ssignals) < 1 /\ ssignals' = Append(ssignals, s) /\ sphase # "starting"
        /\ UNCHANGED <<sphase, sindex, sobjectid, ssize, stold>>
    BY <2>2, StepAssumption DEF InStep!Send, InStep!iterator
  <2>4. ssignals = <<>>
    <3>1. \A s2 : Len(<<s2>>) = 1
      OBVIOUS
    <3> QED
      BY <2>3, <3>1 DEF StepHeld
  <2>5. ssignals' = <<s>>
    BY <2>3, <2>4
  <2>6. sphase = "on" => stold = sobjectid /\ AtPlace(sitems, sindex, sobjectid, ssize)
    BY <2>4 DEF StepHeld
  <2>7. sphase' = "on" =>
          /\ stold' = sobjectid'
          /\ \E t : \E a \in Seq(Oid) : /\ ssignals' = <<t>> /\ Describes(a, sitems', t)
                                      /\ AtPlace(a, sindex', sobjectid', ssize')
    BY <2>1, <2>2, <2>3, <2>5, <2>6
  <2> QED
    BY <2>2, <2>3, <2>5, <2>7 DEF StepHeld
<1>2. CASE InStep!HandleSignal
  BY <1>2, StepHandled
<1>3. CASE InStep!AskStarting
  <2>1. /\ ssignals = <<>> /\ ssignals' = <<>> /\ sitems' = sitems /\ sphase' = "starting"
        /\ sitems \in Seq(Oid) /\ InStep!MoveTo(InStep!StartingIndex)
    BY <1>3, StepAssumption DEF InStep!AskStarting, StepHeld
  <2>2. /\ Len(sitems) \in Nat /\ InStep!Idx = 0 .. Len(sitems) - 1
        /\ \A i : InStep!ItemAt(i) = ItemOf(sitems, i)
    BY <2>1, StepItems
  <2>3. InStep!StartingIndex = InStep!Idx \cap {0}
    BY DEF InStep!StartingIndex
  <2>4. \/ Len(sitems) = 0 /\ sindex' = -1 /\ sobjectid' = NoOid
        \/ Len(sitems) > 0 /\ sindex' = 0 /\ sobjectid' = ItemOf(sitems, 0)
    BY <2>1, <2>2, <2>3 DEF InStep!MoveTo, InStep!SetData
  <2>5. ItemOf(sitems, -1) = NoOid
    BY <2>2 DEF ItemOf
  <2>6. AtPlace(sitems, sindex', sobjectid', Len(sitems))
    BY <2>2, <2>4, <2>5 DEF AtPlace
  <2> QED
    BY <2>1, <2>6 DEF StepHeld
<1>4. CASE InStep!AskSize
  BY <1>4 DEF InStep!AskSize, StepHeld
<1>5. CASE InStep!Invalidate
  BY <1>5 DEF InStep!Invalidate, StepHeld
<1>6. CASE InStep!RendererMoves
  BY <1>6, StepRendererMoves
<1> QED
  BY <1>1, <1>2, <1>3, <1>4, <1>5, <1>6 DEF InStep!Next

(* When every signal is handled before the next edit, and nothing is       *)
(* shuffled, the renderer was told of the item the iterator has, for lists *)
(* of any length, moves within them, and edits that pls_inserts refuses    *)
(* but mafw_playlist_wrapper signals all the same: no handler changes the  *)
(* item without telling of it (mafw-playlist-iterator.c:145).              *)
THEOREM ToldWhenInStep == MCSpec => []ToldInStep
<1>1. MCInit => StepHeld
  <2>1. <<>> \in Seq(Oid)
    OBVIOUS
  <2> QED
    BY <2>1 DEF MCInit, InStep!Init, StepHeld
<1>2. StepHeld /\ [MCNext]_<<late, vars, svars>> => StepHeld'
  <2>1. ASSUME StepHeld, UNCHANGED svars
        PROVE  StepHeld'
    BY <2>1 DEF StepHeld, svars
  <2> QED
    BY <2>1, StepNext DEF MCNext
<1>3. StepHeld => ToldInStep
  BY DEF StepHeld, ToldInStep, InStep!ToldSettles, InStep!Settled
<1> QED
  BY <1>1, <1>2, <1>3, PTL DEF MCSpec
=============================================================================
