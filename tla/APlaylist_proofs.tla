--------------------------- MODULE APlaylist_proofs ---------------------------
(* Proofs about APlaylist: its types; that every step but the removal of a *)
(* drawn item leaves the index arrays of a shuffled list inverse to each   *)
(* other; and what the player is told while they are.  Every step is shown *)
(* twice, for a kept order and for a damaged one.                          *)
EXTENDS APlaylist, TLAPS, FiniteSetTheorems, FunctionTheorems, WellFoundedInduction

-----------------------------------------------------------------------------
(* The index arrays.                                                       *)

(* A nonempty set of numbers below n has a greatest element.               *)
LEMMA GreatestBelow ==
  ASSUME NEW n \in Nat, NEW S \in SUBSET (0 .. n - 1), S # {}
  PROVE  \E m \in S : \A k \in S : k <= m
<1> DEFINE T == {n - m : m \in S}
<1>1. T \subseteq Nat /\ T # {}
  OBVIOUS
<1>2. \E t \in T : \A u \in T : <<u, t>> \notin OpToRel(<, Nat)
  BY <1>1, WFMin, NatLessThanWellFounded
<1>3. PICK t \in T : \A u \in T : ~ (u < t)
  BY <1>1, <1>2 DEF OpToRel
<1>4. PICK m \in S : t = n - m
  OBVIOUS
<1>5. \A k \in S : k <= m
  BY <1>3, <1>4
<1> QED
  BY <1>5

LEMMA LastRefIsRef ==
  \A n \in Nat : \A p, x :
    (\E i \in 0 .. n - 1 : p[i] = x)
      => LastRef(p, n, x) \in 0 .. n - 1 /\ p[LastRef(p, n, x)] = x
<1> TAKE n \in Nat
<1> TAKE p, x
<1> HAVE \E i \in 0 .. n - 1 : p[i] = x
<1> DEFINE S == {i \in 0 .. n - 1 : p[i] = x}
<1>1. \E m \in S : \A k \in S : k <= m
  BY GreatestBelow
<1>2. \E i \in 0 .. n - 1 : p[i] = x /\ \A j \in 0 .. n - 1 : p[j] = x => j <= i
  BY <1>1
<1> QED
  BY <1>2, Zenon DEF LastRef

LEMMA RebuiltType ==
  ASSUME NEW n \in Nat, NEW p, NEW st \in Nat, NEW old,
         \A x \in 0 .. n - 1 : old[x] \in Nat
  PROVE  Rebuilt(p, st, n, old) \in [0 .. n - 1 -> Nat]
<1>1. \A i \in st .. n - 1 : i \in 0 .. n - 1
  OBVIOUS
<1>2. \A x : (\E i \in st .. n - 1 : p[i] = x) => LastRef(p, n, x) \in Nat
  BY <1>1, LastRefIsRef
<1> QED
  BY <1>2 DEF Rebuilt

(* Rebuilding the inverse of a permutation from place st on gives its      *)
(* inverse, when the array is right about the places before st.            *)
LEMMA RebuiltInverse ==
  \A n, st \in Nat : \A p \in [0 .. n - 1 -> 0 .. n - 1] : \A old :
    /\ \A x \in 0 .. n - 1 : \E i \in 0 .. n - 1 : p[i] = x
    /\ \A i, j \in 0 .. n - 1 : p[i] = p[j] => i = j
    /\ \A i \in 0 .. n - 1 : i < st => old[p[i]] = i
    => /\ Mutual(p, Rebuilt(p, st, n, old), n)
       /\ Rebuilt(p, st, n, old) \in [0 .. n - 1 -> 0 .. n - 1]
<1> SUFFICES ASSUME NEW n \in Nat, NEW st \in Nat,
                    NEW p \in [0 .. n - 1 -> 0 .. n - 1], NEW old,
                    \A x \in 0 .. n - 1 : \E i \in 0 .. n - 1 : p[i] = x,
                    \A i, j \in 0 .. n - 1 : p[i] = p[j] => i = j,
                    \A i \in 0 .. n - 1 : i < st => old[p[i]] = i
             PROVE  /\ Mutual(p, Rebuilt(p, st, n, old), n)
                    /\ Rebuilt(p, st, n, old) \in [0 .. n - 1 -> 0 .. n - 1]
  OBVIOUS
<1> DEFINE q == Rebuilt(p, st, n, old)
<1>1. q = [x \in 0 .. n - 1 |-> q[x]]
  BY DEF Rebuilt
<1>2. \A x \in 0 .. n - 1 :
        q[x] = IF \E i \in st .. n - 1 : p[i] = x THEN LastRef(p, n, x) ELSE old[x]
  BY DEF Rebuilt
<1> HIDE DEF q
<1>3. \A i \in 0 .. n - 1 : q[p[i]] = i
  <2> SUFFICES ASSUME NEW i \in 0 .. n - 1 PROVE q[p[i]] = i
    OBVIOUS
  <2>1. p[i] \in 0 .. n - 1
    OBVIOUS
  <2>2. CASE \E j \in st .. n - 1 : p[j] = p[i]
    <3>0. \E j \in 0 .. n - 1 : p[j] = p[i]
      OBVIOUS
    <3>1. LastRef(p, n, p[i]) \in 0 .. n - 1 /\ p[LastRef(p, n, p[i])] = p[i]
      BY <3>0, LastRefIsRef
    <3>2. LastRef(p, n, p[i]) = i
      BY <3>1
    <3> QED
      BY <1>2, <2>1, <2>2, <3>2
  <2>3. CASE ~ \E j \in st .. n - 1 : p[j] = p[i]
    <3>1. i < st
      BY <2>3
    <3> QED
      BY <1>2, <2>1, <2>3, <3>1
  <2> QED
    BY <2>2, <2>3
<1>4. \A x \in 0 .. n - 1 : q[x] \in 0 .. n - 1 /\ p[q[x]] = x
  <2> SUFFICES ASSUME NEW x \in 0 .. n - 1 PROVE q[x] \in 0 .. n - 1 /\ p[q[x]] = x
    OBVIOUS
  <2>1. PICK i \in 0 .. n - 1 : p[i] = x
    OBVIOUS
  <2>2. q[x] = i
    BY <1>3, <2>1
  <2> QED
    BY <2>1, <2>2
<1>5. q \in [0 .. n - 1 -> 0 .. n - 1]
  BY <1>1, <1>4
<1> QED
  BY <1>3, <1>4, <1>5 DEF Mutual, q

(* A swap of two playing positions keeps the arrays inverse.               *)
LEMMA SwapKeepsInverse ==
  ASSUME NEW n \in Nat, NEW p \in [0 .. n - 1 -> 0 .. n - 1],
         NEW q \in [0 .. n - 1 -> 0 .. n - 1], Mutual(p, q, n),
         NEW a \in 0 .. n - 1, NEW b \in 0 .. n - 1
  PROVE  /\ Swapped(p, a, b) \in [0 .. n - 1 -> 0 .. n - 1]
         /\ Reindexed(q, p, a, b) \in [0 .. n - 1 -> 0 .. n - 1]
         /\ Mutual(Swapped(p, a, b), Reindexed(q, p, a, b), n)
<1> DEFINE sp == Swapped(p, a, b)
           sq == Reindexed(q, p, a, b)
<1>1. /\ sp \in [0 .. n - 1 -> 0 .. n - 1]
      /\ \A i \in 0 .. n - 1 :
           sp[i] = IF i = b THEN p[a] ELSE IF i = a THEN p[b] ELSE p[i]
  BY DEF Swapped
<1>2. p[a] \in 0 .. n - 1 /\ p[b] \in 0 .. n - 1
  OBVIOUS
<1>3. /\ sq \in [0 .. n - 1 -> 0 .. n - 1]
      /\ \A x \in 0 .. n - 1 :
           sq[x] = IF x = p[a] THEN b ELSE IF x = p[b] THEN a ELSE q[x]
  BY <1>2 DEF Reindexed
<1>4. \A i \in 0 .. n - 1 : q[p[i]] = i /\ p[q[i]] = i
  BY DEF Mutual
<1> HIDE DEF sp, sq
<1>5. \A i \in 0 .. n - 1 : sp[i] \in 0 .. n - 1 /\ sq[sp[i]] = i
  <2> TAKE i \in 0 .. n - 1
  <2>1. \A j \in 0 .. n - 1 : p[i] = p[j] => i = j
    BY <1>4
  <2>2. CASE i = b
    BY <2>2, <1>1, <1>2, <1>3
  <2>3. CASE i # b /\ i = a
    BY <2>1, <2>3, <1>1, <1>2, <1>3
  <2>4. CASE i # b /\ i # a
    <3>1. p[i] # p[a] /\ p[i] # p[b] /\ p[i] \in 0 .. n - 1
      BY <2>1, <2>4
    <3>2. sp[i] = p[i] /\ sq[p[i]] = q[p[i]]
      BY <3>1, <2>4, <1>1, <1>3
    <3> QED
      BY <3>1, <3>2, <1>4
  <2> QED
    BY <2>2, <2>3, <2>4
<1>6. \A x \in 0 .. n - 1 : sq[x] \in 0 .. n - 1 /\ sp[sq[x]] = x
  BY <1>1, <1>2, <1>3, <1>4
<1> QED
  BY <1>1, <1>3, <1>5, <1>6 DEF Mutual, sp, sq
-----------------------------------------------------------------------------
(* Queries leave the arrays sound and the drawn part of the order alone.   *)

Sound(p, q, st) == /\ p \in [Idx -> Idx] /\ q \in [Idx -> Idx]
                   /\ Mutual(p, q, len) /\ st \in 0 .. len

(* p, q, st extend the arrays of the present state.                        *)
Extends(p, q, st) ==
  /\ Sound(p, q, st) /\ poolst <= st
  /\ \A k \in Idx : k < poolst => p[k] = pidx[k]

Good(o) == IF shuffled THEN Extends(o.pidx, o.iidx, o.poolst)
           ELSE o.pidx = pidx /\ o.iidx = iidx /\ o.poolst = poolst

LEMMA PresentSound ==
  ASSUME TypeOK, WellFormed, shuffled
  PROVE  Extends(pidx, iidx, poolst)
<1>1. pidx \in [Idx -> Nat] /\ iidx \in [Idx -> Nat] /\ len \in Nat
  BY DEF TypeOK, WellFormed, Ordered
<1>2. Mutual(pidx, iidx, len) /\ poolst \in 0 .. len
  BY DEF WellFormed
<1>3. \A i \in Idx : pidx[i] \in Idx /\ iidx[i] \in Idx
  BY <1>2 DEF Mutual, Idx
<1>4. pidx \in [Idx -> Idx] /\ iidx \in [Idx -> Idx]
  BY <1>1, <1>3
<1> QED
  BY <1>1, <1>2, <1>4 DEF Extends, Sound

LEMMA SwapSound ==
  \A p, q, st, a, b :
    len \in Nat /\ poolst \in Nat /\ Extends(p, q, st) /\ a \in Idx /\ b \in Idx
      /\ poolst <= a /\ poolst <= b /\ st < len
    => Extends(Swapped(p, a, b), Reindexed(q, p, a, b), st + 1)
<1> SUFFICES ASSUME NEW p, NEW q, NEW st, NEW a, NEW b,
                    len \in Nat, poolst \in Nat, Extends(p, q, st), a \in Idx, b \in Idx,
                    poolst <= a, poolst <= b, st < len
             PROVE  Extends(Swapped(p, a, b), Reindexed(q, p, a, b), st + 1)
  OBVIOUS
<1>1. p \in [Idx -> Idx] /\ q \in [Idx -> Idx] /\ Mutual(p, q, len) /\ st \in 0 .. len
  BY DEF Extends, Sound
<1>2. /\ Swapped(p, a, b) \in [Idx -> Idx]
      /\ Reindexed(q, p, a, b) \in [Idx -> Idx]
      /\ Mutual(Swapped(p, a, b), Reindexed(q, p, a, b), len)
  BY <1>1, SwapKeepsInverse DEF Idx
<1>3. \A k \in Idx : k < poolst => Swapped(p, a, b)[k] = pidx[k]
  <2> SUFFICES ASSUME NEW k \in Idx, k < poolst
               PROVE  Swapped(p, a, b)[k] = pidx[k]
    OBVIOUS
  <2>1. k # a /\ k # b
    BY DEF Idx
  <2>2. Swapped(p, a, b)[k] = p[k]
    BY <1>1, <2>1 DEF Swapped
  <2> QED
    BY <2>2 DEF Extends
<1>4. st + 1 \in 0 .. len /\ poolst <= st + 1
  BY <1>1 DEF Extends
<1> QED
  BY <1>2, <1>3, <1>4 DEF Extends, Sound

LEMMA DrawOneSound ==
  \A p, q, st :
    len \in Nat /\ poolst \in Nat /\ Extends(p, q, st)
    => \A d \in DrawOne(p, q, st) :
         /\ Extends(d.pidx, d.iidx, d.poolst)
         /\ d.poolst = st + 1 /\ st \in Idx
         /\ \A k \in Idx : k < st => d.pidx[k] = p[k]
<1> SUFFICES ASSUME NEW p, NEW q, NEW st, len \in Nat, poolst \in Nat,
                    Extends(p, q, st), NEW d \in DrawOne(p, q, st)
             PROVE  /\ Extends(d.pidx, d.iidx, d.poolst)
                    /\ d.poolst = st + 1 /\ st \in Idx
                    /\ \A k \in Idx : k < st => d.pidx[k] = p[k]
  OBVIOUS
<1>1. PICK r \in st .. len - 1 :
        d = [pidx |-> Swapped(p, st, r), iidx |-> Reindexed(q, p, st, r),
             poolst |-> st + 1]
  BY DEF DrawOne
<1>2. st \in 0 .. len /\ poolst <= st /\ p \in [Idx -> Idx]
  BY DEF Extends, Sound
<1>3. r \in Idx /\ st \in Idx /\ poolst <= r /\ st < len
  BY <1>2 DEF Idx
<1>4. Extends(Swapped(p, st, r), Reindexed(q, p, st, r), st + 1)
  BY <1>2, <1>3, SwapSound
<1>5. \A k \in Idx : k < st => Swapped(p, st, r)[k] = p[k]
  BY <1>2, <1>3 DEF Swapped, Idx
<1> QED
  BY <1>1, <1>3, <1>4, <1>5

(* A map of 0 .. n-1 onto itself is one-to-one.                            *)
LEMMA OntoIsOneToOne ==
  ASSUME NEW n \in Nat, NEW f \in [0 .. n - 1 -> 0 .. n - 1],
         \A x \in 0 .. n - 1 : \E i \in 0 .. n - 1 : f[i] = x
  PROVE  \A i, j \in 0 .. n - 1 : f[i] = f[j] => i = j
<1> DEFINE S == 0 .. n - 1
<1>1. IsFiniteSet(S)
  BY FS_Interval
<1>2. f \in Surjection(S, S)
  BY DEF Surjection
<1>3. f \in Injection(S, S)
  BY <1>1, <1>2, FS_SurjSameCardinalityImpliesInj
<1> QED
  BY <1>3 DEF Injection, IsInjective

LEMMA DrawAllSound ==
  \A p, q, st :
    len \in Nat /\ poolst \in Nat /\ Extends(p, q, st)
    => \A d \in DrawAll(p, q, st) : Extends(d.pidx, d.iidx, d.poolst) /\ d.poolst = len
<1> SUFFICES ASSUME NEW p, NEW q, NEW st, len \in Nat, poolst \in Nat,
                    Extends(p, q, st), NEW d \in DrawAll(p, q, st)
             PROVE  Extends(d.pidx, d.iidx, d.poolst) /\ d.poolst = len
  OBVIOUS
<1> DEFINE Along(s) == [i \in Idx |-> p[s[i]]]
<1>1. PICK s \in Arrangements(st) :
        d = [pidx |-> Along(s), iidx |-> Rebuilt(Along(s), st, len, q), poolst |-> len]
  BY DEF DrawAll
<1> DEFINE f == Along(s)
<1>2. /\ p \in [Idx -> Idx] /\ q \in [Idx -> Idx] /\ st \in 0 .. len /\ poolst <= st
      /\ \A i \in Idx : q[p[i]] = i /\ p[q[i]] = i
      /\ \A k \in Idx : k < poolst => p[k] = pidx[k]
  BY DEF Extends, Sound, Mutual, Idx
<1>3. /\ s \in [Idx -> Idx]
      /\ \A i \in Idx : i < st => s[i] = i
      /\ \A x \in Idx : \E i \in Idx : s[i] = x
  BY DEF Arrangements
<1>4. f \in [Idx -> Idx] /\ \A i \in Idx : f[i] = p[s[i]]
  BY <1>2, <1>3
<1> HIDE DEF f
<1>5. \A i \in Idx : i < st => f[i] = p[i] /\ q[f[i]] = i
  BY <1>2, <1>3, <1>4
<1>6. \A x \in Idx : \E i \in Idx : f[i] = x
  <2> SUFFICES ASSUME NEW x \in Idx PROVE \E i \in Idx : f[i] = x
    OBVIOUS
  <2>1. q[x] \in Idx /\ p[q[x]] = x
    BY <1>2
  <2>2. PICK i \in Idx : s[i] = q[x]
    BY <1>3, <2>1
  <2> QED
    BY <1>4, <2>1, <2>2
<1>7. \A i, j \in Idx : f[i] = f[j] => i = j
  BY <1>4, <1>6, OntoIsOneToOne DEF Idx
<1>8. /\ Mutual(f, Rebuilt(f, st, len, q), len)
      /\ Rebuilt(f, st, len, q) \in [Idx -> Idx]
  <2>1. st \in Nat
    BY <1>2
  <2> QED
    BY <1>4, <1>5, <1>6, <1>7, <2>1, RebuiltInverse DEF Idx
<1>9. \A k \in Idx : k < poolst => f[k] = pidx[k]
  <2> SUFFICES ASSUME NEW k \in Idx, k < poolst PROVE f[k] = pidx[k]
    OBVIOUS
  <2>1. k < st
    BY <1>2 DEF Idx
  <2> QED
    BY <1>2, <1>5, <2>1
<1>10. d.pidx = f /\ d.iidx = Rebuilt(f, st, len, q) /\ d.poolst = len
  BY <1>1 DEF f
<1>11. len \in 0 .. len /\ poolst <= len
  BY <1>2
<1> QED
  BY <1>4, <1>8, <1>9, <1>10, <1>11 DEF Extends, Sound
-----------------------------------------------------------------------------
(* What each query answers, on a list whose arrays are sound.              *)

(* The k-th item of the playing order, by visual index.                    *)
At(o, k) == IF shuffled THEN o.pidx[k] ELSE k
(* Positions 0 .. k-1 of the order are drawn.                              *)
DrawnUpTo(o, k) == k <= len /\ (shuffled => k <= o.poolst)

Ready == TypeOK /\ WellFormed /\ len > 0

LEMMA StartingAnswer ==
  ASSUME Ready
  PROVE  \A o \in StartingOutcomes :
           Good(o) /\ o.found /\ o.index = At(o, 0) /\ DrawnUpTo(o, 1)
<1> USE DEF Ready
<1>1. len \in Nat /\ poolst \in Nat /\ shuffled \in BOOLEAN /\ 0 \in Idx
  BY DEF TypeOK, Idx
<1>2. CASE ~shuffled
  BY <1>1, <1>2 DEF StartingOutcomes, Answer, Good, At, DrawnUpTo
<1>3. CASE shuffled
  <2>1. Extends(pidx, iidx, poolst) /\ poolst \in 0 .. len
    BY <1>3, PresentSound DEF WellFormed
  <2>2. CASE poolst = 0
    <3> SUFFICES ASSUME NEW o \in StartingOutcomes
                 PROVE  Good(o) /\ o.found /\ o.index = At(o, 0) /\ DrawnUpTo(o, 1)
      OBVIOUS
    <3>1. PICK d \in DrawOne(pidx, iidx, 0) :
            o = Answer(d.pidx, d.iidx, d.poolst, d.pidx[0], FALSE)
      BY <1>3, <2>2 DEF StartingOutcomes
    <3>2. Extends(d.pidx, d.iidx, d.poolst) /\ d.poolst = 1
      BY <1>1, <2>1, <2>2, DrawOneSound
    <3> QED
      BY <1>1, <1>3, <3>1, <3>2 DEF Answer, Good, At, DrawnUpTo
  <2>3. CASE poolst # 0
    BY <1>1, <1>3, <2>1, <2>3 DEF StartingOutcomes, Answer, Good, At, DrawnUpTo
  <2> QED
    BY <2>2, <2>3
<1> QED
  BY <1>1, <1>2, <1>3

LEMMA LastAnswer ==
  ASSUME Ready, shuffled
  PROVE  \A p, q, st, w : Extends(p, q, st) =>
           \A o \in LastOutcomes(p, q, st, w) : Good(o) /\ o.found /\ o.index \in Idx
<1> SUFFICES ASSUME NEW p, NEW q, NEW st, NEW w, Extends(p, q, st),
                    NEW o \in LastOutcomes(p, q, st, w)
             PROVE  Good(o) /\ o.found /\ o.index \in Idx
  OBVIOUS
<1>1. len \in Nat /\ poolst \in Nat /\ len - 1 \in Idx
  BY DEF Ready, TypeOK, Idx
<1>2. PICK d \in DrawAll(p, q, st) :
        o = Answer(d.pidx, d.iidx, d.poolst, d.pidx[len - 1], w)
  BY DEF LastOutcomes
<1>3. Extends(d.pidx, d.iidx, d.poolst)
  BY <1>1, DrawAllSound
<1>4. d.pidx[len - 1] \in Idx
  BY <1>1, <1>3 DEF Extends, Sound
<1> QED
  BY <1>2, <1>3, <1>4 DEF Answer, Good

(* Drawing the item asked about: nothing happens when it is drawn already. *)
LEMMA DrawnSound ==
  ASSUME Ready, shuffled, NEW i \in Idx
  PROVE  /\ Extends(Drawn(i).pidx, Drawn(i).iidx, Drawn(i).poolst)
         /\ iidx[i] < poolst =>
              Drawn(i) = [pidx |-> pidx, iidx |-> iidx, poolst |-> poolst]
<1>1. Extends(pidx, iidx, poolst) /\ len \in Nat /\ poolst \in Nat
  BY PresentSound DEF Ready, TypeOK
<1>2. iidx[i] \in Idx /\ poolst \in 0 .. len
  BY <1>1 DEF Extends, Sound
<1>3. CASE iidx[i] < poolst
  <2>1. ~ (iidx[i] >= poolst)
    BY <1>1, <1>2, <1>3 DEF Idx
  <2> QED
    BY <1>1, <2>1 DEF Drawn
<1>4. CASE iidx[i] >= poolst
  <2>1. poolst \in Idx /\ poolst < len
    BY <1>1, <1>2, <1>4 DEF Idx
  <2>2. Extends(Swapped(pidx, poolst, iidx[i]),
                Reindexed(iidx, pidx, poolst, iidx[i]), poolst + 1)
    BY <1>1, <1>2, <1>4, <2>1, SwapSound
  <2>3. ~ (iidx[i] < poolst)
    BY <1>1, <1>2, <1>4 DEF Idx
  <2> QED
    BY <1>4, <2>2, <2>3 DEF Drawn
<1> QED
  BY <1>1, <1>2, <1>3, <1>4 DEF Idx

Order(k) == IF shuffled THEN pidx[k] ELSE k

(* Asked for what follows the item at position k-1, pls_get_next gives the *)
(* one at position k; after the last position it wraps or says no.         *)
GivesNext(o, k) ==
  \/ o.found /\ ~o.wrapped /\ o.index = At(o, k) /\ DrawnUpTo(o, k + 1)
  \/ o.found /\ o.wrapped /\ o.index = At(o, 0) /\ k = len
  \/ ~o.found /\ ~o.wrapped /\ k = len

LEMMA ShuffledNext ==
  ASSUME Ready, shuffled, NEW i \in Idx, NEW o \in NextOutcomes(i)
  PROVE  /\ Good(o) /\ (o.found => o.index \in Idx)
         /\ iidx[i] < poolst => GivesNext(o, iidx[i] + 1)
<1>1. Extends(pidx, iidx, poolst) /\ len \in Nat /\ poolst \in Nat
  BY PresentSound DEF Ready, TypeOK
<1>2. iidx[i] \in Idx /\ poolst \in 0 .. len /\ pidx \in [Idx -> Idx]
  BY <1>1 DEF Extends, Sound
<1>5. \A v \in Idx : v + 1 < poolst =>
        v + 1 \in Idx /\ v + 1 + 1 <= poolst /\ v + 1 + 1 <= len
  BY <1>1, <1>2 DEF Idx
<1>6. \A v \in Idx : v < poolst /\ ~ (v + 1 < poolst) => poolst = v + 1
  BY <1>1, <1>2 DEF Idx
<1>3. CASE iidx[i] + 1 < poolst
  <2>1. o = Answer(pidx, iidx, poolst, pidx[iidx[i] + 1], FALSE)
    BY <1>3 DEF NextOutcomes
  <2>2. iidx[i] + 1 \in Idx
    BY <1>5, <1>2, <1>3
  <2>3. o.index \in Idx /\ o.index = o.pidx[iidx[i] + 1] /\ o.poolst = poolst
    BY <1>2, <2>1, <2>2 DEF Answer
  <2>4. iidx[i] + 1 + 1 <= poolst /\ iidx[i] + 1 + 1 <= len
    BY <1>5, <1>2, <1>3
  <2> QED
    BY <1>1, <2>1, <2>3, <2>4 DEF Answer, Good, GivesNext, At, DrawnUpTo
<1>4. CASE ~ (iidx[i] + 1 < poolst)
  <2> DEFINE a == Drawn(i)
  <2>1. /\ Extends(a.pidx, a.iidx, a.poolst)
        /\ iidx[i] < poolst => a = [pidx |-> pidx, iidx |-> iidx, poolst |-> poolst]
    BY DrawnSound
  <2>2. a.poolst \in 0 .. len /\ a.pidx \in [Idx -> Idx]
    BY <2>1 DEF Extends, Sound
  <2>3. iidx[i] < poolst => a.poolst = iidx[i] + 1
    <3> SUFFICES ASSUME iidx[i] < poolst
                 PROVE  a.poolst = iidx[i] + 1
      OBVIOUS
    <3>1. a.poolst = poolst
      BY <2>1
    <3> QED
      BY <1>6, <1>2, <1>4, <3>1
  <2>4. 0 \in Idx
    BY <1>1 DEF Idx
  <2> HIDE DEF a
  <2>5. CASE a.poolst < len
    <3>1. PICK d \in DrawOne(a.pidx, a.iidx, a.poolst) :
            o = Answer(d.pidx, d.iidx, d.poolst, d.pidx[d.poolst - 1], FALSE)
      BY <1>4, <2>5 DEF NextOutcomes, a
    <3>2. /\ Extends(d.pidx, d.iidx, d.poolst)
          /\ d.poolst = a.poolst + 1 /\ a.poolst \in Idx
      BY <1>1, <2>1, DrawOneSound
    <3>0. d.poolst - 1 = a.poolst
      BY <1>1, <3>2 DEF Idx
    <3>3. d.pidx[d.poolst - 1] \in Idx /\ d.poolst - 1 = a.poolst
      BY <3>0, <3>2 DEF Extends, Sound
    <3>4. /\ o.pidx = d.pidx /\ o.iidx = d.iidx /\ o.poolst = d.poolst
          /\ o.found /\ ~o.wrapped /\ o.index = d.pidx[a.poolst]
      BY <3>1, <3>3 DEF Answer
    <3>5. a.poolst + 1 <= len
      BY <1>1, <2>2, <2>5
    <3>6. iidx[i] < poolst => GivesNext(o, iidx[i] + 1)
      BY <2>3, <3>2, <3>4, <3>5, <2>2 DEF GivesNext, At, DrawnUpTo
    <3> QED
      BY <3>2, <3>3, <3>4, <3>6 DEF Good
  <2>6. CASE ~ (a.poolst < len) /\ repeat
    <3>1. o = Answer(a.pidx, a.iidx, a.poolst, a.pidx[0], TRUE)
      BY <1>4, <2>6 DEF NextOutcomes, a
    <3>2. iidx[i] < poolst => iidx[i] + 1 = len
      BY <1>1, <2>2, <2>3, <2>6
    <3> QED
      BY <2>1, <2>2, <2>4, <3>1, <3>2 DEF Answer, Good, GivesNext, At
  <2>7. CASE ~ (a.poolst < len) /\ ~repeat
    <3>1. o = Nothing(a.pidx, a.iidx, a.poolst)
      BY <1>4, <2>7 DEF NextOutcomes, a
    <3>2. iidx[i] < poolst => iidx[i] + 1 = len
      BY <1>1, <2>2, <2>3, <2>7
    <3> QED
      BY <2>1, <3>1, <3>2 DEF Nothing, Good, GivesNext
  <2> QED
    BY <2>5, <2>6, <2>7
<1> QED
  BY <1>3, <1>4

LEMMA NextAnswer ==
  ASSUME Ready, NEW k \in 1 .. len, shuffled => k <= poolst,
         NEW o \in NextOutcomes(Order(k - 1))
  PROVE  Good(o) /\ GivesNext(o, k) /\ (o.found => o.index \in Idx)
<1>1. len \in Nat /\ poolst \in Nat /\ k - 1 \in Idx /\ k - 1 + 1 = k
  BY DEF Ready, TypeOK, Idx
<1>2. CASE shuffled
  <2>1. Extends(pidx, iidx, poolst)
    BY <1>2, PresentSound DEF Ready
  <2>2. pidx[k - 1] \in Idx /\ iidx[pidx[k - 1]] = k - 1
    BY <1>1, <2>1 DEF Extends, Sound, Mutual, Idx
  <2>3. iidx[pidx[k - 1]] < poolst
    BY <1>1, <1>2, <2>2
  <2> QED
    BY <1>1, <1>2, <2>2, <2>3, ShuffledNext DEF Order
<1>3. CASE ~shuffled
  <2>1. o = PlainNext(k - 1)
    BY <1>3 DEF NextOutcomes, Order
  <2>2. CASE k < len
    <3>0. k - 1 < len - 1
      BY <1>1, <2>2
    <3>1. o = Answer(pidx, iidx, poolst, k, FALSE)
      BY <1>1, <2>1, <3>0 DEF PlainNext
    <3> QED
      BY <1>1, <1>3, <2>2, <3>1 DEF Answer, Good, GivesNext, At, DrawnUpTo, Idx
  <2>3. CASE k = len
    <3>0. ~ (k - 1 < len - 1)
      BY <1>1, <2>3
    <3>1. o = IF repeat THEN Answer(pidx, iidx, poolst, 0, TRUE)
              ELSE Nothing(pidx, iidx, poolst)
      BY <2>1, <3>0 DEF PlainNext
    <3> QED
      BY <1>1, <1>3, <2>3, <3>1 DEF Answer, Nothing, Good, GivesNext, At, Idx
  <2> QED
    BY <1>1, <2>2, <2>3
<1> QED
  BY <1>2, <1>3

(* Asked for what precedes the item at position v, pls_get_prev gives the  *)
(* one at position v-1; before the first it wraps or says no.              *)
GivesPrev(o, v) ==
  IF v > 0 THEN o.found /\ ~o.wrapped /\ o.index = Order(v - 1)
  ELSE o.found <=> o.wrapped

LEMMA ShuffledPrev ==
  ASSUME Ready, shuffled, NEW i \in Idx, NEW o \in PrevOutcomes(i)
  PROVE  /\ Good(o) /\ (o.found => o.index \in Idx)
         /\ iidx[i] < poolst => GivesPrev(o, iidx[i])
<1> DEFINE a == Drawn(i)
<1>1. Extends(pidx, iidx, poolst) /\ len \in Nat /\ poolst \in Nat
  BY PresentSound DEF Ready, TypeOK
<1>2. /\ Extends(a.pidx, a.iidx, a.poolst)
      /\ iidx[i] < poolst => a = [pidx |-> pidx, iidx |-> iidx, poolst |-> poolst]
  BY DrawnSound
<1>3. a.iidx[i] \in Idx /\ a.pidx \in [Idx -> Idx]
  BY <1>2 DEF Extends, Sound
<1>4. \A v \in Idx : v > 0 => v - 1 \in Idx
  BY <1>1 DEF Idx
<1> HIDE DEF a
<1>5. CASE a.iidx[i] > 0
  <2>1. o = Answer(a.pidx, a.iidx, a.poolst, a.pidx[a.iidx[i] - 1], FALSE)
    BY <1>5 DEF PrevOutcomes, a
  <2>2. a.pidx[a.iidx[i] - 1] \in Idx
    BY <1>3, <1>4, <1>5
  <2> QED
    BY <1>2, <1>5, <2>1, <2>2 DEF Answer, Good, GivesPrev, Order
<1>6. CASE ~ (a.iidx[i] > 0) /\ repeat
  <2>1. o \in LastOutcomes(a.pidx, a.iidx, a.poolst, TRUE)
    BY <1>6 DEF PrevOutcomes, a
  <2>2. Good(o) /\ o.found /\ o.index \in Idx
    BY <1>2, <2>1, LastAnswer
  <2>3. o.wrapped = TRUE
    BY <2>1 DEF LastOutcomes, Answer
  <2> QED
    BY <1>2, <1>6, <2>2, <2>3 DEF GivesPrev
<1>7. CASE ~ (a.iidx[i] > 0) /\ ~repeat
  <2>1. o = Nothing(a.pidx, a.iidx, a.poolst)
    BY <1>7 DEF PrevOutcomes, a
  <2> QED
    BY <1>2, <1>7, <2>1 DEF Nothing, Good, GivesPrev
<1> QED
  BY <1>5, <1>6, <1>7

LEMMA PrevAnswer ==
  ASSUME Ready, NEW k \in 1 .. len, shuffled => k <= poolst,
         NEW o \in PrevOutcomes(Order(k - 1))
  PROVE  Good(o) /\ GivesPrev(o, k - 1) /\ (o.found => o.index \in Idx)
<1>1. len \in Nat /\ poolst \in Nat /\ k - 1 \in Idx
  BY DEF Ready, TypeOK, Idx
<1>2. CASE shuffled
  <2>1. Extends(pidx, iidx, poolst)
    BY <1>2, PresentSound DEF Ready
  <2>2. pidx[k - 1] \in Idx /\ iidx[pidx[k - 1]] = k - 1
    BY <1>1, <2>1 DEF Extends, Sound, Mutual, Idx
  <2>3. iidx[pidx[k - 1]] < poolst
    BY <1>1, <1>2, <2>2
  <2> QED
    BY <1>1, <1>2, <2>2, <2>3, ShuffledPrev DEF Order
<1>3. CASE ~shuffled
  <2>1. o = PlainPrev(k - 1)
    BY <1>3 DEF PrevOutcomes, Order
  <2>2. k - 1 > 0 => k - 1 - 1 \in Idx
    BY <1>1 DEF Idx
  <2>3. len - 1 \in Idx
    BY <1>1 DEF Idx
  <2> QED
    BY <1>3, <2>1, <2>2, <2>3
       DEF PlainPrev, Answer, Nothing, Good, GivesPrev, Order
<1> QED
  BY <1>2, <1>3

-----------------------------------------------------------------------------
(* The inductive invariant.                                                *)

Distinct == \A i, j \in Idx : vidx[i] = vidx[j] => i = j

(* While the order is kept, the walk is the beginning of the playing       *)
(* order, so the player's item is at position pos-1 of it and a query      *)
(* about it leaves what it was given where it is.                          *)
Kept == /\ order = "kept" /\ TypeOK /\ Distinct /\ WellFormed
        /\ NoRepeat /\ WalkFollowsOrder

(* Of a damaged order only the places it leads to are known.               *)
Damaged == order # "kept" /\ TypeOK /\ Distinct /\ InPlace

IInv == Kept \/ Damaged

LEMMA EmptyFunction == \A S : <<>> \in [{} -> S]
OBVIOUS

LEMMA InitIInv == Init => IInv
<1> SUFFICES ASSUME Init PROVE Kept
  BY DEF IInv
<1>1. Idx = {}
  BY DEF Init, Idx
<1>2. TypeOK
  <2>1. len \in 0 .. MaxLen /\ poolst \in Nat /\ shuffled = FALSE /\ repeat = FALSE
    BY BoundAssumption DEF Init
  <2>2. walk = <<>> /\ pos = 0
    BY DEF Init
  <2>3. walk \in Seq(Oid) /\ pos \in 0 .. Len(walk)
    BY <2>2
  <2>4. vidx \in [Idx -> Oid] /\ pidx \in [{} -> Nat] /\ iidx \in [{} -> Nat]
    BY <1>1, EmptyFunction DEF Init
  <2>5. order = "kept" /\ Ordered = FALSE
    BY DEF Init, Ordered
  <2> QED
    BY <2>1, <2>3, <2>4, <2>5 DEF TypeOK
<1>3. Distinct /\ NoRepeat /\ WalkFollowsOrder /\ WellFormed /\ order = "kept"
  BY <1>1 DEF Init, Distinct, NoRepeat, WalkFollowsOrder, WellFormed
<1> QED
  BY <1>2, <1>3 DEF Kept

(* A kept order is in place, and the items of every list are distinct.     *)
LEMMA IInvIs ==
  ASSUME IInv
  PROVE  TypeOK /\ Distinct /\ InPlace
<1>1. CASE Kept
  <2>1. TypeOK /\ Distinct /\ WellFormed /\ order = "kept"
    BY <1>1 DEF Kept
  <2>2. Ordered => poolst \in 0 .. len /\ \A i \in Idx : pidx[i] \in Idx
    BY <2>1, PresentSound DEF Ordered, Extends, Sound
  <2> QED
    BY <2>1, <2>2 DEF InPlace
<1>2. CASE Damaged
  BY <1>2 DEF Damaged
<1> QED
  BY <1>1, <1>2 DEF IInv

-----------------------------------------------------------------------------
(* Queries of a kept order.                                                *)

(* The player's item is the one at position pos-1 of the playing order.    *)
LEMMA PlayersItem ==
  ASSUME Kept, pos > 0
  PROVE  /\ pos \in 1 .. len /\ (shuffled => pos <= poolst) /\ len > 0
         /\ IndexOf(walk[pos]) = Order(pos - 1) /\ IndexOf(walk[pos]) \in Idx
<1>1. /\ len \in Nat /\ pos \in 1 .. Len(walk) /\ walk \in Seq(Oid)
      /\ poolst \in Nat /\ Len(walk) \in Nat
  BY DEF Kept, TypeOK
<1>2. /\ pos <= len /\ walk[pos] = vidx[Order(pos - 1)]
      /\ shuffled => pos <= poolst
  BY <1>1 DEF Kept, WalkFollowsOrder, Order
<1>3. pos - 1 \in Idx
  BY <1>1, <1>2 DEF Idx
<1>4. Order(pos - 1) \in Idx
  BY <1>1, <1>3, PresentSound DEF Kept, Order, Extends, Sound, WellFormed
<1>5. \A i \in Idx : vidx[i] = walk[pos] => i = Order(pos - 1)
  BY <1>2, <1>4 DEF Kept, Distinct
<1>6. IndexOf(walk[pos]) = Order(pos - 1)
  BY <1>2, <1>4, <1>5 DEF IndexOf
<1> QED
  BY <1>1, <1>2, <1>4, <1>6

(* Taking a good outcome keeps the arrays typed and well formed, and a     *)
(* walk that followed the order still does.                                *)
LEMMA TakeKeeps ==
  ASSUME Kept, NEW o, Good(o), Take(o, TRUE)
  PROVE  /\ WellFormed' /\ Distinct'
         /\ len' \in 0 .. MaxLen /\ vidx' \in [Idx' -> Oid]
         /\ shuffled' \in BOOLEAN /\ repeat' \in BOOLEAN /\ poolst' \in Nat
         /\ pidx' \in [(IF Ordered' THEN Idx' ELSE {}) -> Nat]
         /\ iidx' \in [(IF Ordered' THEN Idx' ELSE {}) -> Nat]
         /\ order' = "kept" /\ Idx' = Idx /\ vidx' = vidx /\ len' = len /\ shuffled' = shuffled
         /\ shuffled => poolst' >= poolst
         /\ \A k \in DOMAIN walk :
              k <= len /\ walk[k] = vidx[IF shuffled THEN pidx'[k - 1] ELSE k - 1]
<1>1. /\ len' = len /\ vidx' = vidx /\ shuffled' = shuffled /\ repeat' = repeat
      /\ pidx' = o.pidx /\ iidx' = o.iidx /\ poolst' = o.poolst /\ order' = "kept"
  BY DEF Take, Kept
<1>0. Ordered' = shuffled /\ Ordered = shuffled
  BY <1>1 DEF Kept, Ordered, TypeOK
<1>2. Idx' = Idx
  BY <1>1 DEF Idx
<1>3. /\ len \in 0 .. MaxLen /\ vidx \in [Idx -> Oid] /\ shuffled \in BOOLEAN
      /\ repeat \in BOOLEAN /\ walk \in Seq(Oid) /\ poolst \in Nat /\ len \in Nat
  BY BoundAssumption DEF Kept, TypeOK
<1>4. Distinct'
  BY <1>1, <1>2 DEF Kept, Distinct
<1>5. \A k \in DOMAIN walk :
        k \in 1 .. len /\ walk[k] = vidx[Order(k - 1)] /\ (shuffled => k <= poolst)
  BY <1>3 DEF Kept, WalkFollowsOrder, Order
<1>6. CASE ~shuffled
  <2>1. pidx' = pidx /\ iidx' = iidx /\ poolst' = poolst
    BY <1>1, <1>6 DEF Good
  <2>2. pidx \in [{} -> Nat] /\ iidx \in [{} -> Nat]
    BY <1>0, <1>6 DEF Kept, TypeOK
  <2> QED
    BY <1>0, <1>1, <1>2, <1>3, <1>4, <1>5, <1>6, <2>1, <2>2 DEF WellFormed, Order
<1>7. CASE shuffled
  <2>1. Extends(pidx', iidx', poolst')
    BY <1>1, <1>7 DEF Good
  <2>2. /\ pidx' \in [Idx -> Idx] /\ iidx' \in [Idx -> Idx]
        /\ Mutual(pidx', iidx', len) /\ poolst' \in 0 .. len /\ poolst <= poolst'
    BY <2>1 DEF Extends, Sound
  <2>3. pidx' \in [Idx -> Nat] /\ iidx' \in [Idx -> Nat]
    BY <2>2 DEF Idx
  <2>4. \A k \in DOMAIN walk : pidx'[k - 1] = pidx[k - 1]
    <3> SUFFICES ASSUME NEW k \in DOMAIN walk PROVE pidx'[k - 1] = pidx[k - 1]
      OBVIOUS
    <3>1. k - 1 \in Idx /\ k - 1 < poolst
      BY <1>3, <1>5, <1>7 DEF Idx
    <3> QED
      BY <2>1, <3>1 DEF Extends
  <2>5. WellFormed'
    BY <1>1, <2>2 DEF WellFormed
  <2>6. poolst' >= poolst /\ poolst' \in Nat
    BY <1>3, <2>2
  <2>7. \A k \in DOMAIN walk :
          k <= len /\ walk[k] = vidx[IF shuffled THEN pidx'[k - 1] ELSE k - 1]
    BY <1>3, <1>5, <1>7, <2>4 DEF Order
  <2> QED
    BY <1>0, <1>1, <1>2, <1>3, <1>4, <1>7, <2>3, <2>5, <2>6, <2>7
<1> QED
  BY <1>3, <1>6, <1>7

(* A walk that follows a sound order of distinct items has no repetition.  *)
LEMMA FollowingIsNoRepeat ==
  order = "kept" /\ TypeOK /\ Distinct /\ WellFormed /\ WalkFollowsOrder => NoRepeat
<1> SUFFICES ASSUME order = "kept", TypeOK, Distinct, WellFormed, WalkFollowsOrder,
                    NEW i \in DOMAIN walk, NEW j \in DOMAIN walk, walk[i] = walk[j]
             PROVE  i = j
  BY DEF NoRepeat
<1>1. /\ i \in 1 .. len /\ j \in 1 .. len /\ len \in Nat
      /\ walk[i] = vidx[Order(i - 1)] /\ walk[j] = vidx[Order(j - 1)]
  BY DEF TypeOK, WalkFollowsOrder, Order
<1>2. i - 1 \in Idx /\ j - 1 \in Idx
  BY <1>1 DEF Idx
<1>3. CASE shuffled
  <2>1. /\ pidx[i - 1] \in Idx /\ pidx[j - 1] \in Idx
        /\ iidx[pidx[i - 1]] = i - 1 /\ iidx[pidx[j - 1]] = j - 1
    BY <1>2, <1>3, PresentSound DEF Extends, Sound, Mutual, Idx
  <2>2. pidx[i - 1] = pidx[j - 1]
    BY <1>1, <1>3, <2>1 DEF Order, Distinct
  <2> QED
    BY <1>1, <2>1, <2>2
<1>4. CASE ~shuffled
  <2>1. vidx[i - 1] = vidx[j - 1]
    BY <1>1, <1>4 DEF Order
  <2>2. i - 1 = j - 1
    BY <1>2, <2>1 DEF Distinct
  <2> QED
    BY <1>1, <2>2
<1> QED
  BY <1>3, <1>4

LEMMA FollowingIsNoRepeatNext ==
  (order = "kept" /\ TypeOK /\ Distinct /\ WellFormed /\ WalkFollowsOrder)' => NoRepeat'
BY FollowingIsNoRepeat, PTL

(* A query step: what is left is the player's part.                        *)
LEMMA QueryStep ==
  ASSUME Kept, NEW o, Good(o), Take(o, TRUE),
         walk' \in Seq(Oid), pos' \in 0 .. Len(walk'),
         shuffled => Len(walk') <= o.poolst,
         \A k \in DOMAIN walk' : k <= len /\ walk'[k] = vidx[At(o, k - 1)]
  PROVE  Kept'
<1>1. /\ WellFormed' /\ Distinct' /\ len' \in 0 .. MaxLen /\ vidx' \in [Idx' -> Oid]
      /\ shuffled' \in BOOLEAN /\ repeat' \in BOOLEAN /\ poolst' \in Nat
      /\ pidx' \in [(IF Ordered' THEN Idx' ELSE {}) -> Nat]
      /\ iidx' \in [(IF Ordered' THEN Idx' ELSE {}) -> Nat]
      /\ order' = "kept" /\ vidx' = vidx /\ len' = len /\ shuffled' = shuffled
  BY TakeKeeps
<1>2. TypeOK'
  BY <1>1 DEF TypeOK
<1>3. pidx' = o.pidx /\ poolst' = o.poolst
  BY DEF Take
<1>4. WalkFollowsOrder'
  BY <1>1, <1>3 DEF WalkFollowsOrder, At
<1>5. NoRepeat'
  BY <1>1, <1>2, <1>4, FollowingIsNoRepeatNext
<1> QED
  BY <1>1, <1>2, <1>4, <1>5 DEF Kept

(* When the walk does not change there is nothing more to show.            *)
LEMMA QueryKeepsWalk ==
  ASSUME Kept, NEW o, Good(o), Take(o, TRUE), walk' = walk,
         pos' \in 0 .. Len(walk)
  PROVE  Kept'
<1>1. /\ pidx' = o.pidx /\ poolst' = o.poolst /\ walk \in Seq(Oid) /\ poolst \in Nat
      /\ shuffled \in BOOLEAN
  BY DEF Take, Kept, TypeOK
<1>2. \A k \in DOMAIN walk : k <= len /\ walk[k] = vidx[At(o, k - 1)]
  BY <1>1, TakeKeeps DEF At
<1>3. shuffled => Len(walk) <= o.poolst
  <2> SUFFICES ASSUME shuffled PROVE Len(walk) <= o.poolst
    OBVIOUS
  <2>1. Len(walk) <= poolst /\ Len(walk) \in Nat
    BY <1>1 DEF Kept, WalkFollowsOrder
  <2>2. o.poolst >= poolst /\ o.poolst \in Nat
    BY <1>1, TakeKeeps
  <2> QED
    BY <1>1, <2>1, <2>2
<1> QED
  BY <1>1, <1>2, <1>3, QueryStep

LEMMA StartsStep ==
  ASSUME Kept, PlayerStarts
  PROVE  Kept'
<1>1. PICK o \in StartingOutcomes : Take(o, TRUE) /\ Begins(o)
  BY DEF PlayerStarts, Asked, Kept
<1>2. Ready
  BY DEF PlayerStarts, Ready, Kept
<1>3. Good(o) /\ o.found /\ o.index = At(o, 0) /\ DrawnUpTo(o, 1)
  BY <1>2, StartingAnswer
<1>10. walk' = <<vidx[o.index]>> /\ pos' = 1
  BY <1>1, <1>3 DEF Begins
<1>4. len \in Nat /\ len > 0 /\ vidx \in [Idx -> Oid] /\ 0 \in Idx /\ shuffled \in BOOLEAN
  BY <1>2 DEF Ready, TypeOK, Idx
<1>5. At(o, 0) \in Idx
  BY <1>3, <1>4 DEF At, Good, Extends, Sound
<1>6. walk' \in Seq(Oid) /\ Len(walk') = 1 /\ DOMAIN walk' = {1}
      /\ walk'[1] = vidx[At(o, 0)]
  BY <1>10, <1>3, <1>4, <1>5
<1>7. \A k \in DOMAIN walk' : k <= len /\ walk'[k] = vidx[At(o, k - 1)]
  BY <1>4, <1>6
<1>8. shuffled => Len(walk') <= o.poolst
  BY <1>3, <1>6 DEF DrawnUpTo
<1>9. pos' \in 0 .. Len(walk')
  BY <1>10, <1>6
<1> QED
  BY <1>1, <1>3, <1>6, <1>7, <1>8, <1>9, QueryStep

(* A walk as long as the list has been through all of its items.           *)
LEMMA FullWalk ==
  ASSUME Kept, Len(walk) = len
  PROVE  RangeOf(walk) = Items
<1>1. /\ walk \in Seq(Oid) /\ len \in Nat /\ DOMAIN walk = 1 .. len /\ shuffled \in BOOLEAN
      /\ \A k \in 1 .. len : walk[k] = vidx[Order(k - 1)]
  <2>1. walk \in Seq(Oid) /\ len \in Nat /\ DOMAIN walk = 1 .. len /\ shuffled \in BOOLEAN
    BY DEF Kept, TypeOK
  <2>2. \A k \in DOMAIN walk : walk[k] = vidx[Order(k - 1)]
    BY DEF Kept, WalkFollowsOrder, Order
  <2> QED
    BY <2>1, <2>2
<1>2. \A k \in 1 .. len : Order(k - 1) \in Idx
  <2> SUFFICES ASSUME NEW k \in 1 .. len PROVE Order(k - 1) \in Idx
    OBVIOUS
  <2>1. k - 1 \in Idx
    BY <1>1 DEF Idx
  <2> QED
    BY <1>1, <2>1, PresentSound DEF Kept, Order, Extends, Sound
<1>3. \A i \in Idx : \E k \in 1 .. len : Order(k - 1) = i
  <2> SUFFICES ASSUME NEW i \in Idx PROVE \E k \in 1 .. len : Order(k - 1) = i
    OBVIOUS
  <2>1. CASE shuffled
    <3>1. iidx[i] \in Idx /\ pidx[iidx[i]] = i
      BY <2>1, PresentSound DEF Kept, Extends, Sound, Mutual, Idx
    <3>2. iidx[i] + 1 \in 1 .. len /\ (iidx[i] + 1) - 1 = iidx[i]
      BY <1>1, <3>1 DEF Idx
    <3>3. Order((iidx[i] + 1) - 1) = i
      BY <2>1, <3>1, <3>2 DEF Order
    <3> QED
      BY <3>2, <3>3
  <2>2. CASE ~shuffled
    <3>1. i + 1 \in 1 .. len /\ (i + 1) - 1 = i
      BY <1>1 DEF Idx
    <3>2. Order((i + 1) - 1) = i
      BY <2>2, <3>1 DEF Order
    <3> QED
      BY <3>1, <3>2
  <2> QED
    BY <2>1, <2>2
<1>4. RangeOf(walk) = {walk[k] : k \in 1 .. len}
  BY <1>1 DEF RangeOf
<1>5. \A x \in RangeOf(walk) : x \in Items
  BY <1>1, <1>2, <1>4 DEF Items
<1>6. \A x \in Items : x \in RangeOf(walk)
  <2> SUFFICES ASSUME NEW i \in Idx PROVE vidx[i] \in RangeOf(walk)
    BY DEF Items
  <2>1. PICK k \in 1 .. len : Order(k - 1) = i
    BY <1>3
  <2>2. walk[k] = vidx[i]
    BY <1>1, <2>1
  <2> QED
    BY <1>4, <2>2
<1> QED
  BY <1>5, <1>6

(* One step of what Retrace and NoneSkipped say.                           *)
RetraceStep ==
  order = "kept" =>
    /\ said'.op = "next" /\ pos > 0 /\ pos < Len(walk) => said'.item = walk[pos + 1]
    /\ said'.op = "prev" /\ pos > 1 => said'.item = walk[pos - 1]
NoneSkippedStep ==
  order = "kept" /\ said'.op = "next" /\ (said'.wrapped \/ said'.item = NoItem)
     => RangeOf(walk) = Items /\ (said'.wrapped => said'.item = walk[1])

(* The arrays of a kept order lead every item to a place.                  *)
LEMMA KeptIsKnown ==
  ASSUME Kept, NEW i \in Idx
  PROVE  Known(i) = TRUE
BY PresentSound DEF Kept, Known, Extends, Sound

LEMMA NextStep ==
  ASSUME Kept, PlayerNext
  PROVE  Kept' /\ RetraceStep /\ NoneSkippedStep
<1>1. pos > 0 /\ order = "kept"
  BY DEF PlayerNext, Kept
<1>0. Known(IndexOf(walk[pos])) = TRUE
  BY <1>1, PlayersItem, KeptIsKnown
<1>2. PICK o \in NextOutcomes(IndexOf(walk[pos])) :
        Take(o, TRUE) /\ Tell("next", o) /\ WalksOn(o)
  BY <1>0, <1>1 DEF PlayerNext, Asked
<1>3. /\ pos \in 1 .. len /\ (shuffled => pos <= poolst) /\ len > 0
      /\ IndexOf(walk[pos]) = Order(pos - 1)
  BY <1>1, PlayersItem
<1>4. Good(o) /\ GivesNext(o, pos) /\ (o.found => o.index \in Idx)
  BY <1>1, <1>2, <1>3, NextAnswer DEF Ready, Kept
<1>5. /\ walk \in Seq(Oid) /\ Len(walk) \in Nat /\ DOMAIN walk = 1 .. Len(walk)
      /\ len \in Nat /\ vidx \in [Idx -> Oid] /\ shuffled \in BOOLEAN
  BY DEF Kept, TypeOK
<1>6. \A k \in DOMAIN walk : k <= len /\ walk[k] = vidx[At(o, k - 1)]
  BY <1>1, <1>2, <1>4, TakeKeeps DEF At, Take
<1>7. Len(walk) <= len
  <2>1. CASE Len(walk) = 0
    BY <1>5, <2>1
  <2>2. CASE Len(walk) # 0
    BY <1>5, <1>6, <2>2
  <2> QED
    BY <2>1, <2>2
<1>8. Kept'
  <2>1. CASE pos < Len(walk) /\ pos' = pos + 1 /\ UNCHANGED walk
    <3>1. pos' \in 0 .. Len(walk)
      BY <1>3, <1>5, <2>1
    <3> QED
      BY <1>1, <1>2, <1>4, <2>1, <3>1, QueryKeepsWalk
  <2>2. CASE /\ pos = Len(walk) /\ o.found /\ ~o.wrapped
             /\ walk' = Append(walk, vidx[o.index]) /\ pos' = pos + 1
    <3>1. o.index = At(o, pos) /\ DrawnUpTo(o, pos + 1) /\ o.index \in Idx
      BY <1>4, <2>2 DEF GivesNext
    <3>2. /\ walk' \in Seq(Oid) /\ Len(walk') = Len(walk) + 1
          /\ DOMAIN walk' = 1 .. Len(walk) + 1
          /\ \A k \in 1 .. Len(walk) : walk'[k] = walk[k]
          /\ walk'[Len(walk) + 1] = vidx[o.index]
      BY <1>5, <2>2, <3>1
    <3>3. pos' \in 0 .. Len(walk')
      BY <1>5, <2>2, <3>2
    <3>4. pos + 1 <= len /\ (shuffled => Len(walk') <= o.poolst)
      BY <2>2, <3>1, <3>2 DEF DrawnUpTo
    <3>5. \A k \in DOMAIN walk' : k <= len /\ walk'[k] = vidx[At(o, k - 1)]
      <4> SUFFICES ASSUME NEW k \in DOMAIN walk'
                   PROVE  k <= len /\ walk'[k] = vidx[At(o, k - 1)]
        OBVIOUS
      <4>1. CASE k = Len(walk) + 1
        <5>1. k - 1 = pos /\ k <= len
          BY <1>5, <2>2, <3>4, <4>1
        <5> QED
          BY <3>1, <3>2, <4>1, <5>1
      <4>2. CASE k # Len(walk) + 1
        BY <1>5, <1>6, <3>2, <4>2
      <4> QED
        BY <4>1, <4>2
    <3> QED
      BY <1>1, <1>2, <1>4, <3>2, <3>3, <3>4, <3>5, QueryStep
  <2>3. CASE pos = Len(walk) /\ pos' = 1 /\ UNCHANGED walk
    <3>1. pos' \in 0 .. Len(walk)
      BY <1>3, <1>5, <2>3
    <3> QED
      BY <1>1, <1>2, <1>4, <2>3, <3>1, QueryKeepsWalk
  <2>4. CASE pos = Len(walk) /\ UNCHANGED <<walk, pos>>
    <3>1. pos' \in 0 .. Len(walk)
      BY <1>3, <1>5, <2>4
    <3> QED
      BY <1>1, <1>2, <1>4, <2>4, <3>1, QueryKeepsWalk
  <2> QED
    BY <1>2, <2>1, <2>2, <2>3, <2>4 DEF WalksOn
<1>9. /\ said'.op = "next" /\ said'.wrapped = o.wrapped
      /\ said'.item = IF o.found THEN vidx[o.index] ELSE NoItem
  BY <1>2 DEF Tell
<1>10. RetraceStep
  <2>1. ASSUME pos < Len(walk) PROVE said'.item = walk[pos + 1]
    <3>1. pos # len /\ pos + 1 \in DOMAIN walk /\ (pos + 1) - 1 = pos
      BY <1>3, <1>5, <1>7, <2>1
    <3>2. o.found /\ o.index = At(o, pos)
      BY <1>4, <3>1 DEF GivesNext
    <3>3. walk[pos + 1] = vidx[At(o, (pos + 1) - 1)]
      BY <1>6, <3>1
    <3>4. walk[pos + 1] = vidx[At(o, pos)]
      BY <3>1, <3>3, Zenon
    <3> QED
      BY <1>9, <3>2, <3>4
  <2> QED
    BY <1>9, <2>1 DEF RetraceStep
<1>11. NoneSkippedStep
  <2> SUFFICES ASSUME said'.wrapped \/ said'.item = NoItem
               PROVE  RangeOf(walk) = Items /\ (said'.wrapped => said'.item = walk[1])
    BY DEF NoneSkippedStep
  <2>1. o.wrapped \/ ~o.found
    BY <1>4, <1>5, <1>9, NoItemAssumption
  <2>2. pos = len
    BY <1>4, <2>1 DEF GivesNext
  <2>3. Len(walk) = len
    <3>1. pos <= Len(walk) /\ Len(walk) \in Nat /\ len \in Nat
      BY <1>5 DEF Kept, TypeOK
    <3> QED
      BY <1>7, <2>2, <3>1
  <2>4. o.wrapped => said'.item = walk[1]
    <3>1. o.wrapped => o.found /\ o.index = At(o, 0)
      BY <1>4 DEF GivesNext
    <3>2. 1 \in DOMAIN walk /\ 1 - 1 = 0
      BY <1>3, <1>5, <2>3
    <3>3. walk[1] = vidx[At(o, 0)]
      BY <1>6, <3>2
    <3> QED
      BY <1>9, <3>1, <3>3
  <2> QED
    BY <1>1, <1>9, <2>3, <2>4, FullWalk
<1> QED
  BY <1>8, <1>10, <1>11

LEMMA PrevStep ==
  ASSUME Kept, PlayerPrev
  PROVE  Kept' /\ RetraceStep /\ NoneSkippedStep
<1>1. pos > 0 /\ order = "kept"
  BY DEF PlayerPrev, Kept
<1>0. Known(IndexOf(walk[pos])) = TRUE
  BY <1>1, PlayersItem, KeptIsKnown
<1>2. PICK o \in PrevOutcomes(IndexOf(walk[pos])) :
        Take(o, TRUE) /\ Tell("prev", o) /\ WalksBack(o)
  BY <1>0, <1>1 DEF PlayerPrev, Asked
<1>3. /\ pos \in 1 .. len /\ (shuffled => pos <= poolst) /\ len > 0
      /\ IndexOf(walk[pos]) = Order(pos - 1)
  BY <1>1, PlayersItem
<1>4. Good(o) /\ GivesPrev(o, pos - 1)
  BY <1>1, <1>2, <1>3, PrevAnswer DEF Ready, Kept
<1>5. /\ walk \in Seq(Oid) /\ Len(walk) \in Nat /\ DOMAIN walk = 1 .. Len(walk)
      /\ pos \in 1 .. Len(walk) /\ len \in Nat /\ poolst \in Nat /\ shuffled \in BOOLEAN
  BY <1>3 DEF Kept, TypeOK
<1>6. Kept'
  <2>1. CASE pos > 1 /\ pos' = pos - 1 /\ UNCHANGED walk
    <3>1. pos' \in 0 .. Len(walk)
      BY <1>5, <2>1
    <3> QED
      BY <1>1, <1>2, <1>4, <2>1, <3>1, QueryKeepsWalk
  <2>2. CASE pos = 1 /\ walk' = <<>> /\ pos' = 0
    <3>1. walk' \in Seq(Oid) /\ Len(walk') = 0 /\ DOMAIN walk' = {}
      BY <2>2
    <3>2. pos' \in 0 .. Len(walk')
      BY <2>2, <3>1
    <3>3. shuffled => Len(walk') <= o.poolst
      <4>1. shuffled => o.poolst \in Nat
        BY <1>4, <1>5 DEF Good, Extends, Sound
      <4> QED
        BY <3>1, <4>1
    <3> QED
      BY <1>1, <1>2, <1>4, <3>1, <3>2, <3>3, QueryStep
  <2>3. CASE pos = 1 /\ UNCHANGED <<walk, pos>>
    <3>1. pos' \in 0 .. Len(walk)
      BY <1>5, <2>3
    <3> QED
      BY <1>1, <1>2, <1>4, <2>3, <3>1, QueryKeepsWalk
  <2> QED
    BY <1>2, <2>1, <2>2, <2>3 DEF WalksBack
<1>7. /\ said'.op = "prev"
      /\ said'.item = IF o.found THEN vidx[o.index] ELSE NoItem
  BY <1>2 DEF Tell
<1>8. NoneSkippedStep
  BY <1>7 DEF NoneSkippedStep
<1>9. pos > 1 => said'.item = walk[pos - 1]
  <2> SUFFICES ASSUME pos > 1 PROVE said'.item = walk[pos - 1]
    OBVIOUS
  <2>1. pos - 1 > 0 /\ pos - 1 \in DOMAIN walk
    BY <1>5
  <2>2. o.found /\ o.index = Order((pos - 1) - 1)
    BY <1>4, <2>1 DEF GivesPrev
  <2>3. walk[pos - 1] = vidx[Order((pos - 1) - 1)]
    BY <1>1, <2>1 DEF Kept, WalkFollowsOrder, Order
  <2> QED
    BY <1>7, <2>2, <2>3
<1> QED
  BY <1>6, <1>7, <1>8, <1>9 DEF RetraceStep

(* An edit or another's query tells the player nothing.                    *)
LEMMA SilentStep ==
  ASSUME said' = Silent
  PROVE  RetraceStep /\ NoneSkippedStep
BY DEF Silent, RetraceStep, NoneSkippedStep

LEMMA OthersStep ==
  ASSUME Kept, OthersQuery
  PROVE  Kept' /\ said' = Silent
<1>1. \A i \in Idx : Known(i) = TRUE
  BY KeptIsKnown
<1>0. PICK o \in StartingOutcomes
                 \cup LastOutcomes(pidx, iidx, poolst, FALSE)
                 \cup UNION {NextOutcomes(i) \cup PrevOutcomes(i) : i \in Idx} :
        Take(o, TRUE)
  BY <1>1 DEF OthersQuery, Asked, Kept
<1>2. Ready /\ shuffled
  BY DEF OthersQuery, Ready, Kept
<1>3. Good(o)
  <2>1. CASE o \in StartingOutcomes
    BY <1>2, <2>1, StartingAnswer
  <2>2. CASE o \in LastOutcomes(pidx, iidx, poolst, FALSE)
    <3>1. Extends(pidx, iidx, poolst)
      BY <1>2, PresentSound DEF Ready
    <3> QED
      BY <1>2, <2>2, <3>1, LastAnswer
  <2>3. CASE \E i \in Idx : o \in NextOutcomes(i)
    BY <1>2, <2>3, ShuffledNext
  <2>4. CASE \E i \in Idx : o \in PrevOutcomes(i)
    BY <1>2, <2>4, ShuffledPrev
  <2> QED
    BY <1>0, <2>1, <2>2, <2>3, <2>4
<1>4. walk' = walk /\ pos' \in 0 .. Len(walk) /\ said' = Silent
  BY DEF OthersQuery, KeepWalk, Kept, TypeOK
<1> QED
  BY <1>0, <1>3, <1>4, QueryKeepsWalk

-----------------------------------------------------------------------------
(* Queries of a damaged order: the arrays stay inside the list.            *)

Loose(p, q, st) == p \in [Idx -> Idx] /\ q \in [Idx -> Nat] /\ st \in 0 .. len

\* an outcome of a query whose arrays lead to places, and its answer too
Placed(o) == Loose(o.pidx, o.iidx, o.poolst) /\ (o.found => o.index \in Idx)

LEMMA PresentLoose ==
  ASSUME TypeOK, InPlace, Ordered
  PROVE  Loose(pidx, iidx, poolst)
<1>1. pidx \in [Idx -> Nat] /\ iidx \in [Idx -> Nat]
  BY DEF TypeOK
<1>2. poolst \in 0 .. len /\ \A i \in Idx : pidx[i] \in Idx
  BY DEF InPlace
<1> QED
  BY <1>1, <1>2 DEF Loose

LEMMA SwapLoose ==
  ASSUME len \in Nat, NEW p, NEW q, NEW st, Loose(p, q, st), st < len,
         NEW a \in Idx, NEW b \in Idx
  PROVE  /\ Loose(Swapped(p, a, b), Reindexed(q, p, a, b), st + 1)
         /\ \A i \in Idx : q[i] \in Idx => Reindexed(q, p, a, b)[i] \in Idx
<1>1. p \in [Idx -> Idx] /\ q \in [Idx -> Nat] /\ st \in 0 .. len /\ Idx \subseteq Nat
  BY DEF Loose, Idx
<1>2. p[a] \in Idx /\ p[b] \in Idx
  BY <1>1
<1>3. Swapped(p, a, b) \in [Idx -> Idx]
  BY <1>1, <1>2 DEF Swapped
<1>4. Reindexed(q, p, a, b) \in [Idx -> Nat]
  BY <1>1, <1>2 DEF Reindexed
<1>5. \A i \in Idx : q[i] \in Idx => Reindexed(q, p, a, b)[i] \in Idx
  BY <1>1, <1>2 DEF Reindexed
<1>6. st + 1 \in 0 .. len
  BY <1>1
<1> QED
  BY <1>3, <1>4, <1>5, <1>6 DEF Loose

LEMMA DrawOneLoose ==
  ASSUME len \in Nat, NEW p, NEW q, NEW st, Loose(p, q, st), NEW d \in DrawOne(p, q, st)
  PROVE  Loose(d.pidx, d.iidx, d.poolst) /\ d.poolst = st + 1 /\ st \in Idx
<1>1. PICK r \in st .. len - 1 :
        d = [pidx |-> Swapped(p, st, r), iidx |-> Reindexed(q, p, st, r),
             poolst |-> st + 1]
  BY DEF DrawOne
<1>2. st \in 0 .. len
  BY DEF Loose
<1>3. r \in Idx /\ st \in Idx /\ st < len
  BY <1>2 DEF Idx
<1>4. Loose(Swapped(p, st, r), Reindexed(q, p, st, r), st + 1)
  BY <1>3, SwapLoose
<1> QED
  BY <1>1, <1>3, <1>4

LEMMA DrawAllLoose ==
  ASSUME len \in Nat, NEW p, NEW q, NEW st, Loose(p, q, st), NEW d \in DrawAll(p, q, st)
  PROVE  Loose(d.pidx, d.iidx, d.poolst)
<1> DEFINE Along(s) == [i \in Idx |-> p[s[i]]]
<1>1. PICK s \in Arrangements(st) :
        d = [pidx |-> Along(s), iidx |-> Rebuilt(Along(s), st, len, q), poolst |-> len]
  BY DEF DrawAll
<1> DEFINE f == Along(s)
<1>2. p \in [Idx -> Idx] /\ q \in [Idx -> Nat] /\ st \in Nat /\ s \in [Idx -> Idx]
  BY DEF Loose, Arrangements
<1>3. f \in [Idx -> Idx]
  BY <1>2
<1>4. d.pidx = f /\ d.iidx = Rebuilt(f, st, len, q) /\ d.poolst = len
  BY <1>1
<1> HIDE DEF f
<1>5. \A x \in 0 .. len - 1 : q[x] \in Nat
  BY <1>2 DEF Idx
<1>6. Rebuilt(f, st, len, q) \in [Idx -> Nat]
  BY <1>2, <1>5, RebuiltType DEF Idx
<1> QED
  BY <1>3, <1>4, <1>6 DEF Loose

LEMMA StartingPlaced ==
  ASSUME TypeOK, InPlace, Ordered, len > 0, NEW o \in StartingOutcomes
  PROVE  Placed(o)
<1>1. len \in Nat /\ 0 \in Idx /\ shuffled /\ Loose(pidx, iidx, poolst)
  BY PresentLoose DEF TypeOK, Idx, Ordered
<1>2. CASE poolst = 0
  <2>1. PICK d \in DrawOne(pidx, iidx, 0) :
          o = Answer(d.pidx, d.iidx, d.poolst, d.pidx[0], FALSE)
    BY <1>1, <1>2 DEF StartingOutcomes
  <2>2. Loose(d.pidx, d.iidx, d.poolst)
    BY <1>1, <1>2, DrawOneLoose
  <2>3. d.pidx[0] \in Idx
    BY <1>1, <2>2 DEF Loose
  <2> QED
    BY <2>1, <2>2, <2>3 DEF Answer, Placed
<1>3. CASE poolst # 0
  <2>1. o = Answer(pidx, iidx, poolst, pidx[0], FALSE)
    BY <1>1, <1>3 DEF StartingOutcomes
  <2>2. pidx[0] \in Idx
    BY <1>1 DEF Loose
  <2> QED
    BY <1>1, <2>1, <2>2 DEF Answer, Placed
<1> QED
  BY <1>2, <1>3

LEMMA LastPlaced ==
  ASSUME len \in Nat, len > 0, shuffled, NEW p, NEW q, NEW st, NEW w, Loose(p, q, st),
         NEW o \in LastOutcomes(p, q, st, w)
  PROVE  Placed(o)
<1>1. PICK d \in DrawAll(p, q, st) :
        o = Answer(d.pidx, d.iidx, d.poolst, d.pidx[len - 1], w)
  BY DEF LastOutcomes
<1>2. Loose(d.pidx, d.iidx, d.poolst)
  BY DrawAllLoose
<1>3. len - 1 \in Idx
  BY DEF Idx
<1>4. d.pidx[len - 1] \in Idx
  BY <1>2, <1>3 DEF Loose
<1> QED
  BY <1>1, <1>2, <1>4 DEF Answer, Placed

LEMMA DrawnLoose ==
  ASSUME TypeOK, InPlace, Ordered, NEW i \in Idx, iidx[i] \in Idx
  PROVE  /\ Loose(Drawn(i).pidx, Drawn(i).iidx, Drawn(i).poolst)
         /\ Drawn(i).iidx[i] \in Idx
<1>0. Loose(pidx, iidx, poolst)
  BY PresentLoose
<1>1. len \in Nat /\ Loose(pidx, iidx, poolst) /\ poolst \in 0 .. len
  BY <1>0, BoundAssumption DEF TypeOK, Loose
<1>2. CASE iidx[i] >= poolst
  <2>1. poolst < len /\ poolst \in Idx
    BY <1>1, <1>2 DEF Idx
  <2>2. /\ Loose(Swapped(pidx, poolst, iidx[i]),
                 Reindexed(iidx, pidx, poolst, iidx[i]), poolst + 1)
        /\ Reindexed(iidx, pidx, poolst, iidx[i])[i] \in Idx
    BY <1>1, <2>1, SwapLoose
  <2> QED
    BY <1>1, <1>2, <2>2 DEF Drawn
<1>3. CASE ~ (iidx[i] >= poolst)
  BY <1>1, <1>3 DEF Drawn
<1> QED
  BY <1>2, <1>3

LEMMA NextPlaced ==
  ASSUME TypeOK, InPlace, Ordered, NEW i \in Idx, iidx[i] \in Idx,
         NEW o \in NextOutcomes(i)
  PROVE  Placed(o)
<1> DEFINE a == Drawn(i)
<1>1. len \in Nat /\ shuffled /\ Loose(pidx, iidx, poolst) /\ poolst \in 0 .. len
  BY PresentLoose DEF TypeOK, Ordered, Loose
<1>2. Loose(a.pidx, a.iidx, a.poolst)
  BY DrawnLoose
<1>3. 0 \in Idx
  BY <1>1 DEF Idx
<1> HIDE DEF a
<1>4. CASE iidx[i] + 1 < poolst
  <2>1. o = Answer(pidx, iidx, poolst, pidx[iidx[i] + 1], FALSE)
    BY <1>1, <1>4 DEF NextOutcomes
  <2>2. iidx[i] + 1 \in Idx
    BY <1>1, <1>4 DEF Idx
  <2>3. pidx[iidx[i] + 1] \in Idx
    BY <1>1, <2>2 DEF Loose
  <2> QED
    BY <1>1, <2>1, <2>3 DEF Answer, Placed
<1>5. CASE ~ (iidx[i] + 1 < poolst) /\ a.poolst < len
  <2>1. PICK d \in DrawOne(a.pidx, a.iidx, a.poolst) :
          o = Answer(d.pidx, d.iidx, d.poolst, d.pidx[d.poolst - 1], FALSE)
    BY <1>1, <1>5 DEF NextOutcomes, a
  <2>2. Loose(d.pidx, d.iidx, d.poolst) /\ d.poolst = a.poolst + 1 /\ a.poolst \in Idx
    BY <1>1, <1>2, DrawOneLoose
  <2>3. d.poolst - 1 \in Idx
    BY <2>2 DEF Idx
  <2>4. d.pidx[d.poolst - 1] \in Idx
    BY <2>2, <2>3 DEF Loose
  <2> QED
    BY <2>1, <2>2, <2>4 DEF Answer, Placed
<1>6. CASE ~ (iidx[i] + 1 < poolst) /\ ~ (a.poolst < len)
  <2>1. o = (IF repeat THEN Answer(a.pidx, a.iidx, a.poolst, a.pidx[0], TRUE)
                       ELSE Nothing(a.pidx, a.iidx, a.poolst))
    BY <1>1, <1>6 DEF NextOutcomes, a
  <2>2. a.pidx[0] \in Idx
    BY <1>2, <1>3 DEF Loose
  <2> QED
    BY <1>2, <2>1, <2>2 DEF Answer, Nothing, Placed
<1> QED
  BY <1>4, <1>5, <1>6

LEMMA PrevPlaced ==
  ASSUME TypeOK, InPlace, Ordered, NEW i \in Idx, iidx[i] \in Idx,
         NEW o \in PrevOutcomes(i)
  PROVE  Placed(o)
<1> DEFINE a == Drawn(i)
<1>1. len \in Nat /\ shuffled /\ len > 0
  BY DEF TypeOK, Ordered, Idx
<1>2. Loose(a.pidx, a.iidx, a.poolst) /\ a.iidx[i] \in Idx
  BY DrawnLoose
<1> HIDE DEF a
<1>3. CASE a.iidx[i] > 0
  <2>1. o = Answer(a.pidx, a.iidx, a.poolst, a.pidx[a.iidx[i] - 1], FALSE)
    BY <1>1, <1>3 DEF PrevOutcomes, a
  <2>2. a.iidx[i] - 1 \in Idx
    BY <1>1, <1>2, <1>3 DEF Idx
  <2>3. a.pidx[a.iidx[i] - 1] \in Idx
    BY <1>2, <2>2 DEF Loose
  <2> QED
    BY <1>2, <2>1, <2>3 DEF Answer, Placed
<1>4. CASE ~ (a.iidx[i] > 0) /\ repeat
  <2>1. o \in LastOutcomes(a.pidx, a.iidx, a.poolst, TRUE)
    BY <1>1, <1>4 DEF PrevOutcomes, a
  <2> QED
    BY <1>1, <1>2, <2>1, LastPlaced
<1>5. CASE ~ (a.iidx[i] > 0) /\ ~repeat
  <2>1. o = Nothing(a.pidx, a.iidx, a.poolst)
    BY <1>1, <1>5 DEF PrevOutcomes, a
  <2> QED
    BY <1>2, <2>1 DEF Nothing, Placed
<1> QED
  BY <1>3, <1>4, <1>5

(* A query of a damaged order, or of arrays that are not followed any more.*)
LEMMA DamagedTake ==
  ASSUME Damaged, NEW o, NEW known \in BOOLEAN, NEW outcomes,
         o \in Asked(known, outcomes), Take(o, known),
         known => Ordered /\ Placed(o),
         walk' \in Seq(Oid), pos' \in 0 .. Len(walk'),
         walk' = walk \/ (o.found /\ walk' = <<vidx[o.index]>>)
  PROVE  Damaged'
<1>1. /\ pidx' = o.pidx /\ iidx' = o.iidx /\ poolst' = o.poolst
      /\ order' = (IF known THEN order ELSE "lost")
      /\ len' = len /\ vidx' = vidx /\ shuffled' = shuffled /\ repeat' = repeat
  BY DEF Take
<1>2. Idx' = Idx /\ Items' = Items
  BY <1>1 DEF Idx, Items
<1>3. TypeOK /\ Distinct /\ InPlace /\ order # "kept" /\ shuffled
  BY DEF Damaged, InPlace
<1>4. /\ o.found => o.index \in Idx
      /\ known => Ordered /\ Loose(pidx', iidx', poolst')
      /\ ~known => pidx' = <<>> /\ iidx' = <<>> /\ poolst' = 0
  BY <1>1 DEF Asked, Astray, Answer, Nothing, Placed
<1>5. RangeOf(walk') \subseteq Items
  <2>1. CASE walk' = walk
    BY <1>3, <2>1 DEF InPlace
  <2>2. CASE o.found /\ walk' = <<vidx[o.index]>>
    <3>1. RangeOf(walk') = {vidx[o.index]}
      BY <2>2 DEF RangeOf
    <3> QED
      BY <1>4, <2>2, <3>1 DEF Items
  <2> QED
    BY <2>1, <2>2
<1>6. Distinct'
  BY <1>1, <1>2, <1>3 DEF Distinct
<1>7. /\ pidx' \in [(IF Ordered' THEN Idx' ELSE {}) -> Nat]
      /\ iidx' \in [(IF Ordered' THEN Idx' ELSE {}) -> Nat]
      /\ poolst' \in Nat
      /\ Ordered' => poolst' \in 0 .. len' /\ \A i \in Idx' : pidx'[i] \in Idx'
  <2>1. CASE known
    <3>1. Ordered' /\ Loose(pidx', iidx', poolst') /\ len \in Nat
      BY <1>1, <1>3, <1>4, <2>1 DEF Ordered, TypeOK
    <3>2. pidx' \in [Idx -> Idx] /\ iidx' \in [Idx -> Nat] /\ poolst' \in 0 .. len
      BY <3>1 DEF Loose
    <3> QED
      BY <1>1, <1>2, <3>1, <3>2 DEF Idx
  <2>2. CASE ~known
    <3>1. ~Ordered' /\ pidx' = <<>> /\ iidx' = <<>> /\ poolst' = 0
      BY <1>1, <1>4, <2>2 DEF Ordered
    <3> QED
      BY <3>1, EmptyFunction
  <2> QED
    BY <2>1, <2>2
<1>8. order' \in {"kept", "damaged", "lost"} /\ order' # "kept"
  BY <1>1, <1>3 DEF TypeOK
<1>9. TypeOK'
  BY <1>1, <1>2, <1>3, <1>7, <1>8 DEF TypeOK
<1>10. InPlace'
  BY <1>1, <1>2, <1>3, <1>5, <1>7 DEF InPlace
<1> QED
  BY <1>6, <1>8, <1>9, <1>10 DEF Damaged

\* what a damaged walk may become
LEMMA BegunWalk ==
  ASSUME Damaged, NEW o, Begins(o), o.found => o.index \in Idx
  PROVE  /\ walk' \in Seq(Oid) /\ pos' \in 0 .. Len(walk')
         /\ walk' = walk \/ (o.found /\ walk' = <<vidx[o.index]>>)
<1>1. walk \in Seq(Oid) /\ pos \in 0 .. Len(walk) /\ vidx \in [Idx -> Oid]
  BY DEF Damaged, TypeOK
<1>2. CASE o.found
  <2>1. walk' = <<vidx[o.index]>> /\ pos' = 1 /\ vidx[o.index] \in Oid
    BY <1>1, <1>2 DEF Begins
  <2>2. walk' \in Seq(Oid) /\ Len(walk') = 1
    BY <2>1
  <2> QED
    BY <1>2, <2>1, <2>2
<1>3. CASE ~o.found
  BY <1>1, <1>3 DEF Begins
<1> QED
  BY <1>2, <1>3

(* The player's item is one of the list.                                   *)
LEMMA DamagedItem ==
  ASSUME Damaged, pos > 0
  PROVE  IndexOf(walk[pos]) \in Idx /\ len > 0
<1>1. /\ walk \in Seq(Oid) /\ pos \in 0 .. Len(walk) /\ len \in Nat
      /\ RangeOf(walk) \subseteq Items
  BY DEF Damaged, TypeOK, InPlace
<1>2. pos \in DOMAIN walk
  BY <1>1
<1>3. walk[pos] \in Items
  BY <1>1, <1>2 DEF RangeOf
<1>4. PICK i \in Idx : vidx[i] = walk[pos]
  BY <1>3 DEF Items
<1>5. IndexOf(walk[pos]) \in Idx
  BY <1>4 DEF IndexOf
<1>6. len > 0
  BY <1>1, <1>4 DEF Idx
<1> QED
  BY <1>5, <1>6

LEMMA OutcomeInPlace ==
  ASSUME NEW known \in BOOLEAN, NEW outcomes, NEW o \in Asked(known, outcomes),
         known => Placed(o)
  PROVE  o.found => o.index \in Idx
BY DEF Asked, Astray, Answer, Nothing, Placed

LEMMA DamagedQuery ==
  ASSUME Damaged, PlayerStarts \/ PlayerNext \/ PlayerPrev \/ OthersQuery
  PROVE  Damaged'
<1>1. TypeOK /\ InPlace /\ shuffled /\ order # "kept" /\ len \in Nat
  BY DEF Damaged, InPlace, TypeOK
<1>2. ASSUME NEW i \in Idx, Known(i) PROVE Ordered /\ iidx[i] \in Idx
  BY <1>1, <1>2 DEF Known, Ordered
<1>3. \A i \in Idx : Known(i) \in BOOLEAN
  BY DEF Known
<1>4. walk \in Seq(Oid) /\ pos \in 0 .. Len(walk)
  BY <1>1 DEF TypeOK
<1>5. CASE PlayerStarts
  <2> DEFINE known == order # "lost"
  <2>1. PICK o \in Asked(known, StartingOutcomes) : Take(o, known) /\ Begins(o)
    BY <1>5 DEF PlayerStarts
  <2>2. known \in BOOLEAN /\ (known => Ordered) /\ len > 0
    BY <1>1, <1>5 DEF Ordered, PlayerStarts
  <2>3. known => Placed(o)
    BY <1>1, <2>1, <2>2, StartingPlaced DEF Asked
  <2> HIDE DEF known
  <2>4. o.found => o.index \in Idx
    BY <2>2, <2>3, OutcomeInPlace
  <2> QED
    BY <2>1, <2>2, <2>3, <2>4, BegunWalk, DamagedTake
<1>6. CASE PlayerNext
  <2> DEFINE i == IndexOf(walk[pos])
             known == Known(i)
  <2>1. i \in Idx
    BY <1>6, DamagedItem DEF PlayerNext
  <2>2. PICK o \in Asked(known, NextOutcomes(i)) : Take(o, known) /\ Begins(o)
    BY <1>1, <1>6 DEF PlayerNext
  <2> HIDE DEF i
  <2>3. known \in BOOLEAN /\ (known => Ordered /\ iidx[i] \in Idx)
    BY <1>2, <1>3, <2>1
  <2>4. known => Placed(o)
    BY <1>1, <2>1, <2>2, <2>3, NextPlaced DEF Asked
  <2> HIDE DEF known
  <2>5. o.found => o.index \in Idx
    BY <2>3, <2>4, OutcomeInPlace
  <2> QED
    BY <2>2, <2>3, <2>4, <2>5, BegunWalk, DamagedTake
<1>7. CASE PlayerPrev
  <2> DEFINE i == IndexOf(walk[pos])
             known == Known(i)
  <2>1. i \in Idx
    BY <1>7, DamagedItem DEF PlayerPrev
  <2>2. PICK o \in Asked(known, PrevOutcomes(i)) : Take(o, known) /\ Begins(o)
    BY <1>1, <1>7 DEF PlayerPrev
  <2> HIDE DEF i
  <2>3. known \in BOOLEAN /\ (known => Ordered /\ iidx[i] \in Idx)
    BY <1>2, <1>3, <2>1
  <2>4. known => Placed(o)
    BY <1>1, <2>1, <2>2, <2>3, PrevPlaced DEF Asked
  <2> HIDE DEF known
  <2>5. o.found => o.index \in Idx
    BY <2>3, <2>4, OutcomeInPlace
  <2> QED
    BY <2>2, <2>3, <2>4, <2>5, BegunWalk, DamagedTake
<1>8. CASE OthersQuery
  <2>1. walk' = walk /\ pos' = pos /\ len > 0
    BY <1>8 DEF OthersQuery, KeepWalk
  <2>2. ASSUME NEW known \in BOOLEAN, known <=> order # "lost",
               NEW o \in Asked(known, StartingOutcomes
                                        \cup LastOutcomes(pidx, iidx, poolst, FALSE)),
               Take(o, known)
        PROVE  Damaged'
    <3>1. known => Ordered
      BY <1>1, <2>2 DEF Ordered
    <3>2. known => Loose(pidx, iidx, poolst)
      BY <1>1, <3>1, PresentLoose
    <3>3. known => Placed(o)
      <4> SUFFICES ASSUME known PROVE Placed(o)
        OBVIOUS
      <4>1. CASE o \in StartingOutcomes
        BY <1>1, <2>1, <3>1, <4>1, StartingPlaced
      <4>2. CASE o \in LastOutcomes(pidx, iidx, poolst, FALSE)
        BY <1>1, <2>1, <3>2, <4>2, LastPlaced
      <4> QED
        BY <2>2, <4>1, <4>2 DEF Asked
    <3> QED
      BY <1>4, <2>1, <2>2, <3>1, <3>3, DamagedTake
  <2>3. ASSUME NEW i \in Idx, NEW o \in Asked(Known(i), NextOutcomes(i) \cup PrevOutcomes(i)),
               Take(o, Known(i))
        PROVE  Damaged'
    <3> DEFINE known == Known(i)
    <3>1. known \in BOOLEAN /\ (known => Ordered /\ iidx[i] \in Idx)
      BY <1>2, <1>3
    <3>2. known => Placed(o)
      <4> SUFFICES ASSUME known PROVE Placed(o)
        OBVIOUS
      <4>1. CASE o \in NextOutcomes(i)
        BY <1>1, <3>1, <4>1, NextPlaced
      <4>2. CASE o \in PrevOutcomes(i)
        BY <1>1, <3>1, <4>2, PrevPlaced
      <4> QED
        BY <2>3, <4>1, <4>2 DEF Asked
    <3>3. o \in Asked(known, NextOutcomes(i) \cup PrevOutcomes(i)) /\ Take(o, known)
      BY <2>3
    <3> HIDE DEF known
    <3> QED
      BY <1>4, <2>1, <3>1, <3>2, <3>3, DamagedTake
  <2>4. (order # "lost") \in BOOLEAN
    OBVIOUS
  <2> QED
    BY <1>8, <2>2, <2>3, <2>4 DEF OthersQuery
<1> QED
  BY <1>5, <1>6, <1>7, <1>8

-----------------------------------------------------------------------------
(* Edits.                                                                  *)

ListTyped ==
  /\ len \in 0 .. MaxLen /\ vidx \in [Idx -> Oid]
  /\ shuffled \in BOOLEAN /\ repeat \in BOOLEAN /\ poolst \in Nat
  /\ pidx \in [(IF Ordered THEN Idx ELSE {}) -> Nat]
  /\ iidx \in [(IF Ordered THEN Idx ELSE {}) -> Nat]
  /\ order \in {"kept", "damaged", "lost"}

ListSound ==
  /\ order = "kept" => WellFormed
  /\ order # "kept" => shuffled
  /\ Ordered => poolst \in 0 .. len /\ \A i \in Idx : pidx[i] \in Idx

LEMMA ListIs ==
  ASSUME IInv
  PROVE  ListTyped /\ ListSound /\ Distinct /\ InPlace /\ TypeOK
<1>1. TypeOK /\ Distinct /\ InPlace
  BY IInvIs
<1>2. order = "kept" => WellFormed
  BY DEF IInv, Kept, Damaged
<1> QED
  BY <1>1, <1>2 DEF TypeOK, ListTyped, InPlace, ListSound

(* An edit that ends the player's walk.                                    *)
LEMMA EndedWalk ==
  ASSUME ListTyped', ListSound', Distinct', NoWalk
  PROVE  IInv' /\ said' = Silent
<1>1. /\ walk' = <<>> /\ walk' \in Seq(Oid) /\ Len(walk') = 0 /\ DOMAIN walk' = {}
      /\ pos' = 0 /\ said' = Silent
  BY DEF NoWalk
<1>2. TypeOK'
  BY <1>1 DEF TypeOK, ListTyped
<1>3. NoRepeat' /\ WalkFollowsOrder'
  BY <1>1 DEF ListTyped, NoRepeat, WalkFollowsOrder
<1>4. InPlace'
  BY <1>1 DEF ListSound, InPlace, RangeOf
<1>5. CASE order' = "kept"
  <2>1. Kept'
    BY <1>2, <1>3, <1>5 DEF Kept, ListSound
  <2> QED
    BY <1>1, <2>1 DEF IInv
<1>6. CASE order' # "kept"
  <2>1. Damaged'
    BY <1>2, <1>4, <1>6 DEF Damaged
  <2> QED
    BY <1>1, <2>1 DEF IInv
<1> QED
  BY <1>5, <1>6

LEMMA ClearStep ==
  ASSUME IInv, Clear
  PROVE  IInv' /\ said' = Silent /\ order' = "kept"
<1>1. /\ len' = 0 /\ vidx' = <<>> /\ pidx' = <<>> /\ iidx' = <<>> /\ poolst' = 0
      /\ shuffled' = shuffled /\ repeat' = repeat /\ order' = "kept" /\ NoWalk
  BY DEF Clear
<1>2. Idx' = {}
  BY <1>1 DEF Idx
<1>3. shuffled \in BOOLEAN /\ repeat \in BOOLEAN /\ 0 \in 0 .. MaxLen
  BY ListIs, BoundAssumption DEF TypeOK
<1>4. /\ vidx' \in [Idx' -> Oid]
      /\ pidx' \in [(IF Ordered' THEN Idx' ELSE {}) -> Nat]
      /\ iidx' \in [(IF Ordered' THEN Idx' ELSE {}) -> Nat]
  BY <1>1, <1>2, EmptyFunction
<1>5. ListTyped' /\ Distinct'
  BY <1>1, <1>2, <1>3, <1>4 DEF ListTyped, Distinct
<1>6. WellFormed'
  BY <1>1 DEF WellFormed, Mutual
<1>7. ListSound'
  BY <1>1, <1>2, <1>6 DEF ListSound
<1> QED
  BY <1>1, <1>5, <1>7, EndedWalk

LEMMA ShuffleStep ==
  ASSUME IInv, Shuffle
  PROVE  IInv' /\ said' = Silent /\ order' = order
<1>1. /\ len' = len /\ vidx' = vidx /\ repeat' = repeat /\ shuffled' = TRUE
      /\ poolst' = 0 /\ order' = order /\ NoWalk
      /\ shuffled => pidx' = pidx /\ iidx' = iidx
      /\ ~shuffled => pidx' = [i \in Idx |-> i] /\ iidx' = [i \in Idx |-> i]
  BY DEF Shuffle
<1>2. Idx' = Idx
  BY <1>1 DEF Idx
<1>3. ListTyped /\ ListSound /\ Distinct
  BY ListIs
<1>4. len \in 0 .. MaxLen /\ len \in Nat
  BY <1>3, BoundAssumption DEF ListTyped
<1>5. Ordered' = (order # "lost") /\ Distinct'
  BY <1>1, <1>2, <1>3 DEF Ordered, Distinct
<1>6. CASE ~shuffled
  <2>1. order = "kept"
    BY <1>3, <1>6 DEF ListSound
  <2>2. pidx' \in [Idx -> Nat] /\ iidx' \in [Idx -> Nat] /\ Mutual(pidx', iidx', len)
    BY <1>1, <1>4, <1>6 DEF Idx, Mutual
  <2>3. ListTyped'
    BY <1>1, <1>2, <1>3, <1>5, <2>1, <2>2 DEF ListTyped
  <2>4. ListSound'
    BY <1>1, <1>2, <1>4, <1>6, <2>1, <2>2 DEF ListSound, WellFormed
  <2> QED
    BY <1>1, <1>5, <2>3, <2>4, EndedWalk
<1>7. CASE shuffled
  <2>1. Ordered' = Ordered
    BY <1>5, <1>7 DEF Ordered
  <2>2. ListTyped'
    BY <1>1, <1>2, <1>3, <1>7, <2>1 DEF ListTyped
  <2>3. ListSound'
    BY <1>1, <1>2, <1>3, <1>4, <1>7, <2>1 DEF ListSound, WellFormed
  <2> QED
    BY <1>1, <1>5, <2>2, <2>3, EndedWalk
<1> QED
  BY <1>6, <1>7

LEMMA UnshuffleStep ==
  ASSUME IInv, Unshuffle
  PROVE  IInv' /\ said' = Silent /\ order' = "kept"
<1>1. /\ len' = len /\ vidx' = vidx /\ repeat' = repeat /\ poolst' = poolst
      /\ shuffled' = FALSE /\ pidx' = <<>> /\ iidx' = <<>> /\ order' = "kept" /\ NoWalk
  BY DEF Unshuffle
<1>2. Idx' = Idx /\ ~Ordered'
  BY <1>1 DEF Idx, Ordered
<1>3. ListTyped /\ Distinct
  BY ListIs
<1>4. ListTyped' /\ Distinct'
  BY <1>1, <1>2, <1>3, EmptyFunction DEF ListTyped, Distinct
<1>5. ListSound'
  BY <1>1, <1>2 DEF ListSound, WellFormed
<1> QED
  BY <1>1, <1>4, <1>5, EndedWalk

LEMMA SetRepeatStep ==
  ASSUME IInv, SetRepeat
  PROVE  IInv' /\ said' = Silent /\ order' = order
<1>1. /\ len' = len /\ vidx' = vidx /\ shuffled' = shuffled /\ poolst' = poolst
      /\ pidx' = pidx /\ iidx' = iidx /\ order' = order /\ walk' = walk /\ pos' = pos
      /\ said' = Silent /\ repeat' \in BOOLEAN
  BY DEF SetRepeat, KeepWalk, arrays
<1>2. Idx' = Idx /\ Ordered' = Ordered
  BY <1>1 DEF Idx, Ordered
<1>3. Items' = Items /\ WellFormed' = WellFormed
  BY <1>1, <1>2 DEF WellFormed, Items
<1>4. TypeOK => TypeOK'
  BY <1>1, <1>2 DEF TypeOK
<1>5. Distinct => Distinct'
  BY <1>1, <1>2 DEF Distinct
<1>6. CASE Kept
  <2>1. Kept'
    BY <1>1, <1>3, <1>4, <1>5, <1>6 DEF Kept, NoRepeat, WalkFollowsOrder
  <2> QED
    BY <1>1, <2>1 DEF IInv
<1>7. CASE Damaged
  <2>1. Damaged'
    BY <1>1, <1>2, <1>3, <1>4, <1>5, <1>7 DEF Damaged, InPlace
  <2> QED
    BY <1>1, <2>1 DEF IInv
<1> QED
  BY <1>6, <1>7 DEF IInv

LEMMA ReloadStep ==
  ASSUME IInv, Reload
  PROVE  IInv' /\ said' = Silent /\ order' = order
<1> DEFINE unset == [x \in Idx |-> Stale]
<1>1. /\ len' = len /\ vidx' = vidx /\ shuffled' = shuffled /\ poolst' = poolst
      /\ pidx' = pidx /\ order' = order /\ walk' = walk /\ pos' = pos
      /\ said' = Silent /\ repeat' = repeat
      /\ Ordered => iidx' = Rebuilt(pidx, 0, len, unset)
      /\ ~Ordered => iidx' = iidx
  BY DEF Reload, KeepWalk
<1>2. Idx' = Idx /\ Ordered' = Ordered /\ Items' = Items
  BY <1>1 DEF Idx, Ordered, Items
<1>3. TypeOK /\ Distinct /\ InPlace /\ len \in Nat
  BY ListIs, BoundAssumption DEF TypeOK
<1>4. \A x \in 0 .. len - 1 : unset[x] \in Nat
  BY BoundAssumption DEF Idx, Stale
<1> HIDE DEF unset
<1>5. iidx' \in [(IF Ordered THEN Idx ELSE {}) -> Nat]
  <2>1. CASE Ordered
    <3>1. Rebuilt(pidx, 0, len, unset) \in [0 .. len - 1 -> Nat]
      BY <1>3, <1>4, RebuiltType
    <3> QED
      BY <1>1, <2>1, <3>1 DEF Idx
  <2>2. CASE ~Ordered
    BY <1>1, <1>3, <2>2 DEF TypeOK
  <2> QED
    BY <2>1, <2>2
<1>6. TypeOK' /\ Distinct'
  BY <1>1, <1>2, <1>3, <1>5 DEF TypeOK, Distinct
<1>7. CASE Kept
  <2>1. WellFormed'
    <3> SUFFICES ASSUME shuffled PROVE WellFormed'
      BY <1>1 DEF WellFormed
    <3>0. Ordered /\ order = "kept"
      BY <1>7 DEF Kept, Ordered
    <3>1. Extends(pidx, iidx, poolst)
      BY <1>7, PresentSound DEF Kept
    <3>2. /\ pidx \in [Idx -> Idx] /\ iidx \in [Idx -> Idx] /\ Mutual(pidx, iidx, len)
          /\ poolst \in 0 .. len
      BY <3>1 DEF Extends, Sound
    <3>3. /\ \A x \in Idx : \E i \in Idx : pidx[i] = x
          /\ \A i, j \in Idx : pidx[i] = pidx[j] => i = j
      BY <3>2 DEF Mutual, Idx
    <3>4. Mutual(pidx, Rebuilt(pidx, 0, len, unset), len)
      <4>1. \A i \in 0 .. len - 1 : i < 0 => unset[pidx[i]] = i
        BY <1>3
      <4> QED
        BY <1>3, <3>2, <3>3, <4>1, RebuiltInverse DEF Idx
    <3>5. Mutual(pidx', iidx', len')
      BY <1>1, <3>0, <3>4
    <3> QED
      BY <1>1, <3>0, <3>2, <3>5 DEF WellFormed
  <2>2. Kept'
    BY <1>1, <1>6, <1>7, <2>1 DEF Kept, NoRepeat, WalkFollowsOrder
  <2> QED
    BY <1>1, <2>2 DEF IInv
<1>8. CASE Damaged
  <2>1. Damaged'
    BY <1>1, <1>2, <1>6, <1>8 DEF Damaged, InPlace
  <2> QED
    BY <1>1, <2>1 DEF IInv
<1> QED
  BY <1>7, <1>8 DEF IInv

LEMMA MoveStep ==
  ASSUME IInv, NEW from \in Idx, NEW to \in Idx, Move(from, to)
  PROVE  IInv' /\ said' = Silent /\ order' = order
<1>1. /\ len' = len /\ repeat' = repeat /\ shuffled' = shuffled /\ poolst' = poolst
      /\ pidx' = pidx /\ iidx' = iidx /\ order' = order /\ NoWalk
  BY DEF Move
<1>2. Idx' = Idx /\ WellFormed' = WellFormed /\ Ordered' = Ordered
  BY <1>1 DEF Idx, WellFormed, Ordered
<1>0. ListTyped /\ ListSound /\ Distinct
  BY ListIs
<1>3. len \in Nat /\ vidx \in [Idx -> Oid]
  BY <1>0, BoundAssumption DEF ListTyped
<1> DEFINE src(k) == IF k = to THEN from
                     ELSE IF from <= k /\ k < to THEN k + 1
                     ELSE IF to < k /\ k <= from THEN k - 1 ELSE k
<1>4. \A k \in Idx : src(k) \in Idx
  BY <1>3 DEF Idx
<1>5. \A j, k \in Idx : src(j) = src(k) => j = k
  BY <1>3 DEF Idx
<1>6. \A k \in Idx : vidx'[k] = vidx[src(k)]
  BY DEF Move
<1>7. vidx' \in [Idx -> Oid]
  <2>1. vidx' = [k \in Idx |-> vidx[src(k)]]
    BY DEF Move
  <2> HIDE DEF src
  <2> QED
    BY <1>3, <1>4, <2>1
<1> HIDE DEF src
<1>8. Distinct'
  BY <1>0, <1>2, <1>4, <1>5, <1>6 DEF Distinct
<1>9. ListTyped' /\ ListSound'
  BY <1>0, <1>1, <1>2, <1>7 DEF ListTyped, ListSound
<1> QED
  BY <1>1, <1>8, <1>9, EndedWalk

(* Inserting n indices at x renumbers the others and appends the new ones: *)
(* the arrays of any order that leads to places still do.                  *)
LEMMA InsertKeepsPlace ==
  ASSUME NEW m \in Nat, NEW n \in Nat, NEW x \in 0 .. m,
         NEW p \in [0 .. m - 1 -> 0 .. m - 1], NEW q \in [0 .. m - 1 -> Nat]
  PROVE  /\ InsertedOrder(p, m, x, n) \in [0 .. m + n - 1 -> 0 .. m + n - 1]
         /\ InsertedInverse(p, q, m, x, n) \in [0 .. m + n - 1 -> Nat]
<1> DEFINE M == m + n
           f == InsertedOrder(p, m, x, n)
           old == [y \in 0 .. M - 1 |-> IF y < m THEN q[y] ELSE Stale]
<1>1. M \in Nat
  OBVIOUS
<1>2. f \in [0 .. M - 1 -> 0 .. M - 1]
  <2>1. f = [i \in 0 .. M - 1 |-> IF i >= m THEN x + (i - m)
                                  ELSE IF p[i] >= x THEN p[i] + n ELSE p[i]]
    BY DEF InsertedOrder
  <2> HIDE DEF f
  <2>2. ASSUME NEW i \in 0 .. M - 1 PROVE f[i] \in 0 .. M - 1
    <3>1. CASE i >= m
      <4>1. f[i] = x + (i - m)
        BY <2>1, <3>1
      <4> QED
        BY <3>1, <4>1
    <3>2. CASE ~ (i >= m)
      <4>1. i \in 0 .. m - 1
        BY <3>2
      <4>2. p[i] \in 0 .. m - 1
        BY <4>1
      <4>3. f[i] = IF p[i] >= x THEN p[i] + n ELSE p[i]
        BY <2>1, <3>2
      <4> QED
        BY <4>2, <4>3
    <3> QED
      BY <3>1, <3>2
  <2> QED
    BY <2>1, <2>2
<1>3. \A y \in 0 .. M - 1 : old[y] \in Nat
  BY BoundAssumption DEF Stale
<1>4. InsertedInverse(p, q, m, x, n)
        = [y \in 0 .. M - 1 |-> IF y < x THEN q[y] ELSE Rebuilt(f, 0, M, old)[y]]
  BY DEF InsertedInverse
<1>8. f = InsertedOrder(p, m, x, n)
  OBVIOUS
<1> HIDE DEF old, f
<1>5. Rebuilt(f, 0, M, old) \in [0 .. M - 1 -> Nat]
  BY <1>1, <1>3, RebuiltType
<1>6. \A y \in 0 .. M - 1 : y < x => q[y] \in Nat
  <2> SUFFICES ASSUME NEW y \in 0 .. M - 1, y < x PROVE q[y] \in Nat
    OBVIOUS
  <2>1. y \in 0 .. m - 1
    OBVIOUS
  <2> QED
    BY <2>1
<1>7. InsertedInverse(p, q, m, x, n) \in [0 .. M - 1 -> Nat]
  BY <1>4, <1>5, <1>6
<1>9. InsertedOrder(p, m, x, n) \in [0 .. M - 1 -> 0 .. M - 1]
  BY <1>2, <1>8, Zenon
<1>10. M - 1 = m + n - 1
  OBVIOUS
<1> HIDE DEF M
<1> QED
  BY <1>7, <1>9, <1>10, Zenon

LEMMA InsertKeepsInverse ==
  ASSUME NEW m \in Nat, NEW n \in Nat, NEW x \in 0 .. m,
         NEW p \in [0 .. m - 1 -> 0 .. m - 1], NEW q \in [0 .. m - 1 -> 0 .. m - 1],
         Mutual(p, q, m)
  PROVE  /\ InsertedOrder(p, m, x, n) \in [0 .. m + n - 1 -> 0 .. m + n - 1]
         /\ InsertedInverse(p, q, m, x, n) \in [0 .. m + n - 1 -> 0 .. m + n - 1]
         /\ Mutual(InsertedOrder(p, m, x, n), InsertedInverse(p, q, m, x, n), m + n)
<1> DEFINE M == m + n
           f == InsertedOrder(p, m, x, n)
           g == InsertedInverse(p, q, m, x, n)
           old == [y \in 0 .. M - 1 |-> IF y < m THEN q[y] ELSE Stale]
<1>1. M \in Nat /\ M >= m /\ M = m + n
  OBVIOUS
<1>2. \A i \in 0 .. m - 1 : p[i] \in 0 .. m - 1 /\ q[p[i]] = i
                            /\ q[i] \in 0 .. m - 1 /\ p[q[i]] = i
  BY DEF Mutual
<1>3. \A i \in 0 .. M - 1 :
        f[i] = IF i >= m THEN x + (i - m)
               ELSE IF p[i] >= x THEN p[i] + n ELSE p[i]
  BY DEF InsertedOrder
<1>4. f = [i \in 0 .. M - 1 |-> f[i]]
  BY DEF InsertedOrder
<1>5. \A y \in 0 .. M - 1 : g[y] = IF y < x THEN q[y] ELSE Rebuilt(f, 0, M, old)[y]
  BY DEF InsertedInverse
<1>6. g = [y \in 0 .. M - 1 |-> g[y]]
  BY DEF InsertedInverse
<1> HIDE DEF f, g, M, old
<1>20. \A v \in 0 .. m - 1 : \A w :
         w = (IF v >= x THEN v + n ELSE v) => w \in 0 .. M - 1 /\ (w < x \/ x + n <= w)
  BY <1>1
<1>21. \A v, w \in Int : x <= v /\ v < x + n /\ (w < x \/ x + n <= w) => v # w
  OBVIOUS
<1>22. \A v, w \in Int : x + (v - m) = x + (w - m) => v = w
  OBVIOUS
<1>23. \A v, w \in Int :
         (IF v >= x THEN v + n ELSE v) = (IF w >= x THEN w + n ELSE w) => v = w
  OBVIOUS
<1>31. \A i \in 0 .. m - 1 :
         i \in 0 .. M - 1 /\ f[i] = IF p[i] >= x THEN p[i] + n ELSE p[i]
  <2> SUFFICES ASSUME NEW i \in 0 .. m - 1
               PROVE  i \in 0 .. M - 1 /\ f[i] = IF p[i] >= x THEN p[i] + n ELSE p[i]
    OBVIOUS
  <2>1. i \in 0 .. M - 1 /\ ~ (i >= m)
    BY <1>1
  <2> QED
    BY <1>3, <2>1
<1>32. \A i \in 0 .. M - 1 : i >= m => f[i] = x + (i - m) /\ x <= f[i] /\ f[i] < x + n
  BY <1>1, <1>3
<1>33. \A i \in 0 .. m - 1 : f[i] \in 0 .. M - 1 /\ (f[i] < x \/ x + n <= f[i])
  <2> SUFFICES ASSUME NEW i \in 0 .. m - 1
               PROVE  f[i] \in 0 .. M - 1 /\ (f[i] < x \/ x + n <= f[i])
    OBVIOUS
  <2>1. p[i] \in 0 .. m - 1 /\ f[i] = IF p[i] >= x THEN p[i] + n ELSE p[i]
    BY <1>31
  <2> QED
    BY <1>20, <2>1
<1>34. \A i \in 0 .. M - 1 : i >= m \/ i \in 0 .. m - 1
  BY <1>1
<1>7. \A i \in 0 .. M - 1 : f[i] \in 0 .. M - 1
  <2> SUFFICES ASSUME NEW i \in 0 .. M - 1 PROVE f[i] \in 0 .. M - 1
    OBVIOUS
  <2>1. CASE i >= m
    BY <1>1, <1>32, <2>1
  <2> QED
    BY <1>33, <1>34, <2>1
<1>8. \A i, j \in 0 .. M - 1 : f[i] = f[j] => i = j
  <2> SUFFICES ASSUME NEW i \in 0 .. M - 1, NEW j \in 0 .. M - 1, f[i] = f[j]
               PROVE  i = j
    OBVIOUS
  <2>0. f[i] \in Int /\ f[j] \in Int /\ i \in Int /\ j \in Int
    BY <1>1, <1>7
  <2>1. CASE i >= m /\ j >= m
    BY <1>22, <1>32, <2>0, <2>1
  <2>2. CASE i >= m /\ j \in 0 .. m - 1
    BY <1>21, <1>32, <1>33, <2>0, <2>2
  <2>3. CASE i \in 0 .. m - 1 /\ j >= m
    BY <1>21, <1>32, <1>33, <2>0, <2>3
  <2>4. CASE i \in 0 .. m - 1 /\ j \in 0 .. m - 1
    <3>1. p[i] \in Int /\ p[j] \in Int
      BY <2>4
    <3>2. (IF p[i] >= x THEN p[i] + n ELSE p[i]) = (IF p[j] >= x THEN p[j] + n ELSE p[j])
      BY <1>31, <2>4
    <3>3. p[i] = p[j]
      BY <1>23, <3>1, <3>2
    <3> QED
      BY <1>2, <2>4, <3>3
  <2> QED
    BY <1>34, <2>1, <2>2, <2>3, <2>4
<1>9. \A y \in 0 .. M - 1 :
        /\ y < x => q[y] \in 0 .. M - 1 /\ f[q[y]] = y
        /\ \E i \in 0 .. M - 1 : f[i] = y
  <2> SUFFICES ASSUME NEW y \in 0 .. M - 1
               PROVE  /\ y < x => q[y] \in 0 .. M - 1 /\ f[q[y]] = y
                      /\ \E i \in 0 .. M - 1 : f[i] = y
    OBVIOUS
  <2>1. CASE y < x
    <3>1. y \in 0 .. m - 1
      BY <2>1
    <3>2. q[y] \in 0 .. m - 1 /\ p[q[y]] = y
      BY <1>2, <3>1
    <3>3. q[y] \in 0 .. M - 1 /\ f[q[y]] = IF y >= x THEN y + n ELSE y
      BY <1>31, <3>2
    <3>4. ~ (y >= x)
      BY <1>1, <2>1
    <3> QED
      BY <2>1, <3>3, <3>4
  <2>2. CASE x <= y /\ y < x + n
    <3>1. m + (y - x) \in 0 .. M - 1 /\ m + (y - x) >= m
      BY <1>1, <2>2
    <3>2. f[m + (y - x)] = x + ((m + (y - x)) - m)
      BY <1>32, <3>1
    <3>3. f[m + (y - x)] = y
      BY <3>2
    <3> QED
      BY <2>2, <3>1, <3>3
  <2>3. CASE x + n <= y
    <3>1. y - n \in 0 .. m - 1 /\ y - n >= x
      BY <1>1, <2>3
    <3>2. q[y - n] \in 0 .. m - 1 /\ p[q[y - n]] = y - n
      BY <1>2, <3>1
    <3>3. q[y - n] \in 0 .. M - 1
          /\ f[q[y - n]] = IF y - n >= x THEN (y - n) + n ELSE y - n
      BY <1>31, <3>2
    <3>4. f[q[y - n]] = y
      BY <3>1, <3>3
    <3> QED
      BY <2>3, <3>3, <3>4
  <2> QED
    BY <2>1, <2>2, <2>3
<1>10. \A y \in 0 .. M - 1 : g[y] \in 0 .. M - 1 /\ f[g[y]] = y
  <2> SUFFICES ASSUME NEW y \in 0 .. M - 1 PROVE g[y] \in 0 .. M - 1 /\ f[g[y]] = y
    OBVIOUS
  <2>1. CASE y < x
    BY <1>5, <1>9, <2>1
  <2>2. CASE ~ (y < x)
    <3>0. \E i \in 0 .. M - 1 : f[i] = y
      BY <1>9
    <3>1. LastRef(f, M, y) \in 0 .. M - 1 /\ f[LastRef(f, M, y)] = y
      BY <1>1, <3>0, LastRefIsRef
    <3>2. Rebuilt(f, 0, M, old)[y] = LastRef(f, M, y)
      BY <3>0 DEF Rebuilt
    <3> QED
      BY <1>5, <2>2, <3>1, <3>2
  <2> QED
    BY <2>1, <2>2
<1>11. \A i \in 0 .. M - 1 : g[f[i]] = i
  BY <1>7, <1>8, <1>10
<1>12. f \in [0 .. M - 1 -> 0 .. M - 1] /\ g \in [0 .. M - 1 -> 0 .. M - 1]
  BY <1>4, <1>6, <1>7, <1>10
<1>13. Mutual(f, g, M)
  BY <1>7, <1>10, <1>11 DEF Mutual
<1>14. M = m + n /\ M - 1 = m + n - 1
  <2>1. M = m + n
    BY DEF M
  <2> QED
    BY <2>1
<1>15. f \in [0 .. m + n - 1 -> 0 .. m + n - 1] /\ g \in [0 .. m + n - 1 -> 0 .. m + n - 1]
       /\ Mutual(f, g, m + n)
  <2>1. f \in [0 .. m + n - 1 -> 0 .. m + n - 1] /\ g \in [0 .. m + n - 1 -> 0 .. m + n - 1]
    BY <1>12, <1>14, Zenon
  <2>2. Mutual(f, g, m + n)
    BY <1>13, <1>14, Zenon
  <2> QED
    BY <2>1, <2>2
<1> QED
  BY <1>15 DEF f, g

LEMMA InsertsStep ==
  ASSUME IInv, NEW n \in Nat, NEW idx \in 0 .. len,
         NEW oids \in [0 .. n - 1 -> Oid \ Items],
         \A i, j \in 0 .. n - 1 : oids[i] = oids[j] => i = j,
         Inserts(idx, oids, n)
  PROVE  IInv' /\ said' = Silent /\ order' = order
<1>1. /\ len' = len + n /\ repeat' = repeat /\ shuffled' = shuffled /\ poolst' = poolst
      /\ len + n <= MaxLen /\ order' = order
      /\ vidx' = [k \in 0 .. len + n - 1 |->
                    IF k < idx THEN vidx[k]
                    ELSE IF k < idx + n THEN oids[k - idx] ELSE vidx[k - n]]
  BY DEF Inserts
<1>0. ListTyped /\ ListSound /\ Distinct /\ TypeOK
  BY ListIs
<1>2. /\ len \in Nat /\ vidx \in [Idx -> Oid] /\ shuffled \in BOOLEAN /\ poolst \in Nat
      /\ len' \in 0 .. MaxLen /\ walk \in Seq(Oid)
  BY <1>0, <1>1, BoundAssumption DEF TypeOK
<1>9. Ordered' = Ordered
  BY <1>1 DEF Ordered
<1>3. Idx' = 0 .. len + n - 1
  <2>1. Idx' = 0 .. len' - 1
    BY DEF Idx
  <2>2. len' = len + n /\ len' - 1 = len + n - 1
    BY <1>1, <1>2
  <2> QED
    BY <2>1, <2>2, Zenon
<1>4. \A k \in Idx' :
        /\ k < idx => k \in Idx /\ vidx'[k] = vidx[k] /\ vidx'[k] \in Items
        /\ idx <= k /\ k < idx + n => k - idx \in 0 .. n - 1 /\ vidx'[k] = oids[k - idx]
                                      /\ vidx'[k] \in Oid /\ vidx'[k] \notin Items
        /\ idx + n <= k => k - n \in Idx /\ vidx'[k] = vidx[k - n] /\ vidx'[k] \in Items
  <2> SUFFICES ASSUME NEW k \in 0 .. len + n - 1
               PROVE
        /\ k < idx => k \in Idx /\ vidx'[k] = vidx[k] /\ vidx'[k] \in Items
        /\ idx <= k /\ k < idx + n => k - idx \in 0 .. n - 1 /\ vidx'[k] = oids[k - idx]
                                      /\ vidx'[k] \in Oid /\ vidx'[k] \notin Items
        /\ idx + n <= k => k - n \in Idx /\ vidx'[k] = vidx[k - n] /\ vidx'[k] \in Items
    BY <1>3
  <2>1. CASE k < idx
    BY <1>1, <1>2, <2>1 DEF Items, Idx
  <2>2. CASE idx <= k /\ k < idx + n
    <3>1. k - idx \in 0 .. n - 1 /\ vidx'[k] = oids[k - idx]
      BY <1>1, <1>2, <2>2
    <3> QED
      BY <1>2, <2>2, <3>1
  <2>3. CASE idx + n <= k
    <3>1. k - n \in Idx /\ vidx'[k] = vidx[k - n]
      BY <1>1, <1>2, <2>3 DEF Idx
    <3> QED
      BY <1>2, <2>3, <3>1 DEF Items
  <2> QED
    BY <1>2, <2>1, <2>2, <2>3
<1>5. vidx' \in [Idx' -> Oid]
  <2>1. \A k \in Idx' : vidx'[k] \in Oid
    BY <1>2, <1>3, <1>4
  <2>2. vidx' = [k \in Idx' |-> vidx'[k]]
    BY <1>1, <1>3
  <2> QED
    BY <2>1, <2>2
<1>6. Distinct'
  <2> SUFFICES ASSUME NEW i \in Idx', NEW j \in Idx', vidx'[i] = vidx'[j]
               PROVE  i = j
    BY DEF Distinct
  <2>1. i \in Int /\ j \in Int
    BY <1>3
  <2>2. CASE idx <= i /\ i < idx + n
    <3>1. idx <= j /\ j < idx + n
      BY <1>2, <1>4, <2>1, <2>2
    <3>2. i - idx = j - idx
      BY <1>4, <2>2, <3>1
    <3> QED
      BY <1>2, <2>1, <3>2
  <2>3. CASE ~ (idx <= i /\ i < idx + n)
    <3>1. ~ (idx <= j /\ j < idx + n)
      BY <1>2, <1>4, <2>1, <2>3
    <3>2. (IF i < idx THEN i ELSE i - n) = (IF j < idx THEN j ELSE j - n)
      BY <1>0, <1>2, <1>4, <2>1, <2>3, <3>1 DEF Distinct
    <3> QED
      BY <1>2, <2>1, <2>3, <3>1, <3>2
  <2> QED
    BY <2>2, <2>3
<1>7. CASE ~shuffled
  <2>1. pidx' = pidx /\ iidx' = iidx /\ NoWalk /\ ~Ordered /\ order = "kept"
    BY <1>0, <1>7 DEF Inserts, Ordered, ListSound
  <2>2. ListTyped' /\ ListSound'
    BY <1>0, <1>1, <1>2, <1>5, <1>7, <1>9, <2>1 DEF ListTyped, ListSound, WellFormed
  <2> QED
    BY <1>1, <1>6, <2>1, <2>2, EndedWalk
<1>8. CASE shuffled /\ Kept
  <2>0. Ordered /\ order = "kept"
    BY <1>8 DEF Kept, Ordered
  <2>1. /\ pidx' = InsertedOrder(pidx, len, idx, n)
        /\ iidx' = InsertedInverse(pidx, iidx, len, idx, n)
        /\ KeepWalk
    BY <1>8, <2>0 DEF Inserts
  <2>2. Extends(pidx, iidx, poolst)
    BY <1>8, PresentSound DEF Kept
  <2>3. /\ pidx \in [0 .. len - 1 -> 0 .. len - 1]
        /\ iidx \in [0 .. len - 1 -> 0 .. len - 1]
        /\ Mutual(pidx, iidx, len) /\ poolst \in 0 .. len
    BY <2>2 DEF Extends, Sound, Idx
  <2>4. /\ pidx' \in [0 .. len + n - 1 -> 0 .. len + n - 1]
        /\ iidx' \in [0 .. len + n - 1 -> 0 .. len + n - 1]
        /\ Mutual(pidx', iidx', len + n)
    BY <1>2, <2>1, <2>3, InsertKeepsInverse
  <2>5. pidx' \in [Idx' -> Nat] /\ iidx' \in [Idx' -> Nat]
    BY <1>3, <2>4
  <2>6. WellFormed'
    BY <1>1, <1>2, <2>0, <2>3, <2>4 DEF WellFormed
  <2>7. walk' = walk /\ pos' = pos /\ said' = Silent
    BY <2>1 DEF KeepWalk
  <2>8. TypeOK'
    BY <1>0, <1>1, <1>2, <1>5, <1>8, <1>9, <2>0, <2>5, <2>7 DEF TypeOK
  <2>9. \A k \in DOMAIN walk : k <= len' /\ walk[k] = vidx'[pidx'[k - 1]]
    <3> SUFFICES ASSUME NEW k \in DOMAIN walk
                 PROVE  k <= len' /\ walk[k] = vidx'[pidx'[k - 1]]
      OBVIOUS
    <3>1. k \in 1 .. len /\ walk[k] = vidx[pidx[k - 1]]
      BY <1>1, <1>2, <1>8 DEF Kept, WalkFollowsOrder
    <3>2. k - 1 \in 0 .. len - 1 /\ k - 1 \in 0 .. len + n - 1 /\ ~ (k - 1 >= len)
      BY <1>2, <3>1
    <3>3. pidx[k - 1] \in 0 .. len - 1
      BY <2>3, <3>2
    <3>4. pidx'[k - 1] = IF pidx[k - 1] >= idx THEN pidx[k - 1] + n ELSE pidx[k - 1]
      BY <2>1, <3>2 DEF InsertedOrder
    <3>5. \A v \in 0 .. len - 1 : vidx'[IF v >= idx THEN v + n ELSE v] = vidx[v]
      <4> SUFFICES ASSUME NEW v \in 0 .. len - 1
                   PROVE  vidx'[IF v >= idx THEN v + n ELSE v] = vidx[v]
        OBVIOUS
      <4>1. CASE v >= idx
        <5>1. v + n \in Idx' /\ idx + n <= v + n /\ (v + n) - n = v
          BY <1>2, <1>3, <4>1
        <5>2. vidx'[v + n] = vidx[(v + n) - n]
          BY <1>4, <5>1
        <5> QED
          BY <4>1, <5>1, <5>2
      <4>2. CASE ~ (v >= idx)
        <5>1. v \in Idx' /\ v < idx
          BY <1>2, <1>3, <4>2
        <5> QED
          BY <1>4, <4>2, <5>1
      <4> QED
        BY <4>1, <4>2
    <3>6. vidx'[pidx'[k - 1]] = vidx[pidx[k - 1]]
      BY <3>3, <3>4, <3>5, Zenon
    <3>7. k <= len'
      BY <1>1, <1>2, <3>1
    <3> QED
      BY <3>1, <3>6, <3>7
  <2>10. WalkFollowsOrder' /\ NoRepeat'
    BY <1>1, <1>2, <1>8, <2>7, <2>9 DEF Kept, WalkFollowsOrder, NoRepeat
  <2>11. Kept'
    BY <1>1, <1>6, <2>0, <2>6, <2>8, <2>10 DEF Kept
  <2> QED
    BY <1>1, <2>7, <2>11 DEF IInv
<1>10. CASE shuffled /\ Damaged
  <2>1. InPlace /\ order # "kept"
    BY <1>10 DEF Damaged
  <2>2. walk' = walk /\ pos' = pos /\ said' = Silent
    BY <1>10 DEF Inserts, KeepWalk
  <2>3. RangeOf(walk) \subseteq Items'
    <3>1. \A v \in Idx : vidx[v] \in Items'
      <4> SUFFICES ASSUME NEW v \in Idx PROVE \E k \in Idx' : vidx'[k] = vidx[v]
        BY DEF Items
      <4>0. v \in 0 .. len - 1
        BY DEF Idx
      <4>1. CASE v < idx
        <5>1. v \in Idx'
          BY <1>2, <1>3, <4>0, <4>1
        <5> QED
          BY <1>4, <4>1, <5>1
      <4>2. CASE ~ (v < idx)
        <5>1. v + n \in Idx' /\ idx + n <= v + n /\ (v + n) - n = v
          BY <1>2, <1>3, <4>0, <4>2
        <5>2. vidx'[v + n] = vidx[(v + n) - n]
          BY <1>4, <5>1
        <5> QED
          BY <5>1, <5>2
      <4> QED
        BY <4>1, <4>2
    <3>2. RangeOf(walk) \subseteq Items
      BY <2>1 DEF InPlace
    <3> QED
      BY <3>1, <3>2 DEF Items
  <2>4. /\ pidx' \in [(IF Ordered' THEN Idx' ELSE {}) -> Nat]
        /\ iidx' \in [(IF Ordered' THEN Idx' ELSE {}) -> Nat]
        /\ Ordered' => poolst' \in 0 .. len' /\ \A i \in Idx' : pidx'[i] \in Idx'
    <3>1. CASE Ordered
      <4>1. /\ pidx' = InsertedOrder(pidx, len, idx, n)
            /\ iidx' = InsertedInverse(pidx, iidx, len, idx, n)
        BY <3>1 DEF Inserts
      <4>2. Loose(pidx, iidx, poolst)
        BY <1>0, <2>1, <3>1, PresentLoose
      <4>3. /\ pidx \in [0 .. len - 1 -> 0 .. len - 1] /\ iidx \in [0 .. len - 1 -> Nat]
            /\ poolst \in 0 .. len
        BY <4>2 DEF Loose, Idx
      <4>4. /\ pidx' \in [0 .. len + n - 1 -> 0 .. len + n - 1]
            /\ iidx' \in [0 .. len + n - 1 -> Nat]
        BY <1>2, <4>1, <4>3, InsertKeepsPlace
      <4>5. poolst' \in 0 .. len'
        BY <1>1, <1>2, <4>3
      <4> QED
        BY <1>3, <1>9, <3>1, <4>4, <4>5
    <3>2. CASE ~Ordered
      BY <1>0, <1>9, <3>2 DEF Inserts, TypeOK
    <3> QED
      BY <3>1, <3>2
  <2>5. TypeOK'
    BY <1>0, <1>1, <1>2, <1>5, <2>2, <2>4 DEF TypeOK
  <2>6. InPlace'
    BY <1>1, <1>10, <2>2, <2>3, <2>4 DEF InPlace
  <2>7. Damaged'
    BY <1>1, <1>6, <2>1, <2>5, <2>6 DEF Damaged
  <2> QED
    BY <1>1, <2>2, <2>7 DEF IInv
<1> QED
  BY <1>2, <1>7, <1>8, <1>10 DEF IInv

(* Where the i-th place of the order without idx takes its index from, and *)
(* how an index is renumbered.                                             *)
Source(idx, i) == IF iidx[idx] < poolst
                  THEN IF iidx[idx] <= i /\ i < poolst - 1 THEN i + 1 ELSE i
                  ELSE IF i = iidx[idx] THEN len - 1 ELSE i
Renumbered(idx, v) == IF v > idx THEN v - 1 ELSE v

(* The new order, wherever it is taken from an index other than the one    *)
(* that goes away.                                                         *)
LEMMA OrderWithoutIs ==
  ASSUME TypeOK, WellFormed, shuffled, NEW idx \in Idx
  PROVE  /\ DOMAIN OrderWithout(idx) = 0 .. len - 2
         /\ \A i \in 0 .. len - 2 :
              /\ Source(idx, i) \in Idx
              /\ OrderWithout(idx)[i] = Renumbered(idx, pidx[Source(idx, i)])
         /\ OrderWithout(idx) \in [0 .. len - 2 -> Nat]
<1>1. len \in Nat /\ poolst \in Nat /\ Extends(pidx, iidx, poolst)
  BY PresentSound DEF TypeOK
<1>2. /\ pidx \in [Idx -> Idx] /\ iidx[idx] \in Idx /\ poolst \in 0 .. len
      /\ idx \in Int /\ iidx[idx] \in Int /\ Idx = 0 .. len - 1
  <2>1. pidx \in [Idx -> Idx] /\ iidx[idx] \in Idx /\ poolst \in 0 .. len
    BY <1>1 DEF Extends, Sound
  <2>2. Idx = 0 .. len - 1
    BY DEF Idx
  <2> QED
    BY <1>1, <2>1, <2>2
<1> DEFINE r == [i \in Idx |-> IF pidx[i] > idx THEN pidx[i] - 1 ELSE pidx[i]]
<1>3. \A i \in Idx : r[i] = Renumbered(idx, pidx[i])
  BY DEF Renumbered
<1>4. \A v \in Idx : Renumbered(idx, v) \in Nat
  BY <1>2 DEF Renumbered
<1>5. \A i \in 0 .. len - 2 : i \in Idx /\ Source(idx, i) \in Idx
  BY <1>1, <1>2 DEF Source
<1>6. OrderWithout(idx) = [i \in 0 .. len - 2 |-> r[Source(idx, i)]]
  <2>1. CASE iidx[idx] < poolst
    <3>1. OrderWithout(idx) = [i \in 0 .. len - 2 |->
                                 IF iidx[idx] <= i /\ i < poolst - 1 THEN r[i + 1] ELSE r[i]]
      BY <2>1 DEF OrderWithout
    <3> HIDE DEF r
    <3> QED
      BY <2>1, <3>1 DEF Source
  <2>2. CASE ~ (iidx[idx] < poolst)
    <3>1. OrderWithout(idx) = [i \in 0 .. len - 2 |->
                                 IF i = iidx[idx] THEN r[len - 1] ELSE r[i]]
      BY <2>2 DEF OrderWithout
    <3> HIDE DEF r
    <3> QED
      BY <2>2, <3>1 DEF Source
  <2> QED
    BY <2>1, <2>2
<1> HIDE DEF r
<1>7. \A i \in 0 .. len - 2 :
        OrderWithout(idx)[i] = Renumbered(idx, pidx[Source(idx, i)])
        /\ OrderWithout(idx)[i] \in Nat
  BY <1>2, <1>3, <1>4, <1>5, <1>6
<1>8. OrderWithout(idx) \in [0 .. len - 2 -> Nat]
  BY <1>6, <1>7
<1> QED
  BY <1>5, <1>6, <1>7, <1>8

(* Without RemovesDrawn the new order holds each index once.               *)
LEMMA OrderWithoutSound ==
  ASSUME TypeOK, WellFormed, shuffled, NEW idx \in Idx,
         iidx[idx] >= poolst \/ poolst = len
  PROVE  /\ OrderWithout(idx) \in [0 .. len - 2 -> 0 .. len - 2]
         /\ \A y \in 0 .. len - 2 : \E i \in 0 .. len - 2 : OrderWithout(idx)[i] = y
<1> DEFINE opx == iidx[idx]
           F == OrderWithout(idx)
<1>1. len \in Nat /\ poolst \in Nat /\ Extends(pidx, iidx, poolst)
  BY PresentSound DEF TypeOK
<1>2. /\ pidx \in [Idx -> Idx] /\ iidx \in [Idx -> Idx] /\ poolst \in 0 .. len
      /\ Idx = 0 .. len - 1
      /\ \A i \in Idx : iidx[pidx[i]] = i /\ pidx[iidx[i]] = i
  BY <1>1 DEF Extends, Sound, Idx, Mutual
<1>3. opx \in Idx /\ pidx[opx] = idx /\ opx \in Int /\ idx \in Int
  BY <1>2
<1>4. /\ \A i \in 0 .. len - 2 : F[i] = Renumbered(idx, pidx[Source(idx, i)])
                                 /\ Source(idx, i) \in Idx
      /\ F \in [0 .. len - 2 -> Nat]
  BY OrderWithoutIs
<1> HIDE DEF F, opx
<1>5. \A i \in 0 .. len - 2 : Source(idx, i) # opx
  BY <1>1, <1>2, <1>3 DEF Source, opx
<1>6. \A v \in Idx : v # idx => Renumbered(idx, v) \in 0 .. len - 2
  BY <1>1, <1>2, <1>3 DEF Renumbered
<1>7. \A i \in 0 .. len - 2 : F[i] \in 0 .. len - 2
  <2> SUFFICES ASSUME NEW i \in 0 .. len - 2 PROVE F[i] \in 0 .. len - 2
    OBVIOUS
  <2>1. Source(idx, i) \in Idx /\ Source(idx, i) # opx
    BY <1>4, <1>5
  <2>2. pidx[Source(idx, i)] \in Idx /\ pidx[Source(idx, i)] # idx
    BY <1>2, <2>1 DEF opx
  <2> QED
    BY <1>4, <1>6, <2>2
<1>8. \A y \in 0 .. len - 2 : \E i \in 0 .. len - 2 : F[i] = y
  <2> SUFFICES ASSUME NEW y \in 0 .. len - 2 PROVE \E i \in 0 .. len - 2 : F[i] = y
    OBVIOUS
  <2> DEFINE v == IF y >= idx THEN y + 1 ELSE y
             k == iidx[v]
  <2>1. v \in Idx /\ v # idx /\ Renumbered(idx, v) = y
    BY <1>1, <1>2, <1>3 DEF Renumbered
  <2> HIDE DEF v
  <2>2. k \in Idx /\ pidx[k] = v /\ k # opx
    BY <1>2, <1>3, <2>1
  <2> HIDE DEF k
  <2>3. \E i \in 0 .. len - 2 : Source(idx, i) = k
    <3>1. CASE opx < poolst
      <4>1. poolst = len
        BY <1>2, <1>3, <3>1 DEF opx
      <4>2. CASE k > opx
        <5>1. k - 1 \in 0 .. len - 2 /\ opx <= k - 1 /\ k - 1 < poolst - 1 /\ (k - 1) + 1 = k
          BY <1>1, <1>2, <1>3, <2>2, <4>1, <4>2
        <5>2. Source(idx, k - 1) = (k - 1) + 1
          BY <3>1, <5>1 DEF Source, opx
        <5> QED
          BY <5>1, <5>2
      <4>3. CASE ~ (k > opx)
        <5>1. k \in 0 .. len - 2 /\ ~ (opx <= k)
          BY <1>1, <1>2, <1>3, <2>2, <4>3
        <5>2. Source(idx, k) = k
          BY <3>1, <5>1 DEF Source, opx
        <5> QED
          BY <5>1, <5>2
      <4> QED
        BY <4>2, <4>3
    <3>2. CASE ~ (opx < poolst)
      <4>1. CASE k = len - 1
        <5>1. opx \in 0 .. len - 2
          BY <1>1, <1>2, <1>3, <2>2, <4>1
        <5>2. Source(idx, opx) = k
          BY <3>2, <4>1 DEF Source, opx
        <5> QED
          BY <5>1, <5>2
      <4>2. CASE k # len - 1
        <5>1. k \in 0 .. len - 2
          BY <1>1, <1>2, <2>2, <4>2
        <5>2. Source(idx, k) = k
          BY <2>2, <3>2 DEF Source, opx
        <5> QED
          BY <5>1, <5>2
      <4> QED
        BY <4>1, <4>2
    <3> QED
      BY <3>1, <3>2
  <2> QED
    BY <1>4, <2>1, <2>2, <2>3
<1>9. F \in [0 .. len - 2 -> 0 .. len - 2]
  BY <1>4, <1>7
<1> QED
  BY <1>8, <1>9 DEF F

(* An item other than the removed one keeps its visual place, renumbered.  *)
LEMMA RemovedItems ==
  ASSUME IInv, NEW idx \in Idx, Remove(idx)
  PROVE  /\ len \in Nat /\ len' \in 0 .. MaxLen /\ len' = len - 1 /\ Idx' = 0 .. len - 2
         /\ Distinct' /\ vidx' \in [Idx' -> Oid]
         /\ \A v \in Idx : v # idx => Renumbered(idx, v) \in Idx'
                                      /\ vidx'[Renumbered(idx, v)] = vidx[v]
<1>1. /\ len' = len - 1
      /\ vidx' = [k \in 0 .. len - 2 |-> IF k < idx THEN vidx[k] ELSE vidx[k + 1]]
  BY DEF Remove
<1>0. ListTyped /\ Distinct
  BY ListIs
<1>2. len \in Nat /\ len \in 0 .. MaxLen /\ MaxLen \in Nat /\ vidx \in [Idx -> Oid]
  BY <1>0, BoundAssumption DEF ListTyped
<1>3. Idx = 0 .. len - 1
  BY DEF Idx
<1>4. len' \in 0 .. MaxLen
  BY <1>1, <1>2, <1>3
<1>5. Idx' = 0 .. len - 2
  <2>1. Idx' = 0 .. len' - 1
    BY DEF Idx
  <2>2. len' - 1 = len - 2
    BY <1>1, <1>2
  <2> QED
    BY <2>1, <2>2, Zenon
<1>6. \A k \in Idx' : /\ (IF k < idx THEN k ELSE k + 1) \in Idx
                      /\ vidx'[k] = vidx[IF k < idx THEN k ELSE k + 1]
  BY <1>1, <1>2, <1>3, <1>5
<1>7. vidx' \in [Idx' -> Oid]
  <2>1. \A k \in Idx' : vidx'[k] \in Oid
    BY <1>2, <1>6
  <2>2. vidx' = [k \in Idx' |-> vidx'[k]]
    BY <1>1, <1>5
  <2> QED
    BY <2>1, <2>2
<1>8. Distinct'
  <2> SUFFICES ASSUME NEW i \in Idx', NEW j \in Idx', vidx'[i] = vidx'[j]
               PROVE  i = j
    BY DEF Distinct
  <2>1. (IF i < idx THEN i ELSE i + 1) = (IF j < idx THEN j ELSE j + 1)
    BY <1>0, <1>6 DEF Distinct
  <2>2. i \in Int /\ j \in Int /\ idx \in Int
    BY <1>3, <1>5
  <2> QED
    BY <2>1, <2>2
<1>9. \A v \in Idx : v # idx => Renumbered(idx, v) \in Idx'
                                /\ vidx'[Renumbered(idx, v)] = vidx[v]
  <2> SUFFICES ASSUME NEW v \in Idx, v # idx
               PROVE  Renumbered(idx, v) \in Idx' /\ vidx'[Renumbered(idx, v)] = vidx[v]
    OBVIOUS
  <2>1. CASE v > idx
    <3>1. v - 1 \in Idx' /\ ~ (v - 1 < idx) /\ (v - 1) + 1 = v
      BY <1>2, <1>3, <1>5, <2>1
    <3>2. vidx'[v - 1] = vidx[(v - 1) + 1]
      BY <1>6, <3>1
    <3> QED
      BY <2>1, <3>1, <3>2 DEF Renumbered
  <2>2. CASE ~ (v > idx)
    <3>1. v \in Idx' /\ v < idx
      BY <1>2, <1>3, <1>5, <2>2
    <3> QED
      BY <1>6, <2>2, <3>1 DEF Renumbered
  <2> QED
    BY <2>1, <2>2
<1> QED
  BY <1>1, <1>2, <1>4, <1>5, <1>7, <1>8, <1>9

(* The walk without the removed item.                                      *)
LEMMA WalkWithoutIs ==
  ASSUME Kept, shuffled, NEW idx \in Idx, WalkWithout(vidx[idx])
  PROVE  \/ NoWalk
         \/ /\ walk' = walk /\ pos' = pos /\ said' = Silent
            /\ Len(walk) <= iidx[idx]
         \/ /\ walk' \in Seq(Oid) /\ Len(walk') = Len(walk) - 1 /\ said' = Silent
            /\ pos' \in 0 .. Len(walk') /\ iidx[idx] < Len(walk)
            /\ \A i \in 1 .. Len(walk') :
                 walk'[i] = IF i <= iidx[idx] THEN walk[i] ELSE walk[i + 1]
<1>1. len \in Nat /\ poolst \in Nat /\ Extends(pidx, iidx, poolst) /\ vidx \in [Idx -> Oid]
  BY PresentSound DEF Kept, TypeOK
<1>2. /\ pidx \in [Idx -> Idx] /\ iidx \in [Idx -> Idx] /\ Idx = 0 .. len - 1
      /\ \A i \in Idx : iidx[pidx[i]] = i /\ pidx[iidx[i]] = i
  BY <1>1 DEF Extends, Sound, Idx, Mutual
<1>3. /\ walk \in Seq(Oid) /\ Len(walk) \in Nat /\ DOMAIN walk = 1 .. Len(walk)
      /\ pos \in 0 .. Len(walk)
  BY DEF Kept, TypeOK
<1>4. \A k \in 1 .. Len(walk) : k <= len /\ walk[k] = vidx[pidx[k - 1]]
  BY <1>3 DEF Kept, WalkFollowsOrder
<1>5. \A k \in 1 .. Len(walk) : walk[k] = vidx[idx] => k - 1 = iidx[idx]
  <2> SUFFICES ASSUME NEW k \in 1 .. Len(walk), walk[k] = vidx[idx]
               PROVE  k - 1 = iidx[idx]
    OBVIOUS
  <2>1. k - 1 \in Idx
    BY <1>1, <1>2, <1>3, <1>4
  <2>2. pidx[k - 1] = idx
    <3>1. pidx[k - 1] \in Idx /\ vidx[pidx[k - 1]] = vidx[idx]
      BY <1>2, <1>4, <2>1
    <3>2. \A i, j \in Idx : vidx[i] = vidx[j] => i = j
      BY DEF Kept, Distinct
    <3> QED
      BY <3>1, <3>2
  <2> QED
    BY <1>2, <2>1, <2>2
<1>6. iidx[idx] \in Nat
  BY <1>1, <1>2
<1>7. CASE pos = 0 \/ walk[pos] = vidx[idx]
  BY <1>7 DEF WalkWithout
<1>8. CASE ~ (pos = 0 \/ walk[pos] = vidx[idx]) /\ vidx[idx] \notin RangeOf(walk)
  <2>1. walk' = walk /\ pos' = pos /\ said' = Silent
    BY <1>8 DEF WalkWithout, KeepWalk
  <2>2. Len(walk) <= iidx[idx]
    <3> SUFFICES ASSUME ~ (Len(walk) <= iidx[idx]) PROVE FALSE
      OBVIOUS
    <3>1. iidx[idx] + 1 \in 1 .. Len(walk) /\ (iidx[idx] + 1) - 1 = iidx[idx]
      BY <1>3, <1>6
    <3>2. walk[iidx[idx] + 1] = vidx[pidx[(iidx[idx] + 1) - 1]]
      BY <1>4, <3>1
    <3>3. walk[iidx[idx] + 1] = vidx[idx]
      BY <1>2, <3>1, <3>2
    <3> QED
      BY <1>3, <1>8, <3>1, <3>3 DEF RangeOf
  <2> QED
    BY <2>1, <2>2
<1>9. CASE ~ (pos = 0 \/ walk[pos] = vidx[idx]) /\ vidx[idx] \in RangeOf(walk)
  <2>1. PICK k \in 1 .. Len(walk) :
          /\ walk[k] = vidx[idx]
          /\ walk' = [i \in 1 .. Len(walk) - 1 |-> IF i < k THEN walk[i] ELSE walk[i + 1]]
          /\ pos' = IF k < pos THEN pos - 1 ELSE pos
          /\ said' = Silent
    BY <1>3, <1>9 DEF WalkWithout
  <2>2. k - 1 = iidx[idx] /\ k \in Int
    BY <1>5, <2>1
  <2>3. /\ Len(walk) - 1 \in Nat
        /\ \A i \in 1 .. Len(walk) - 1 : (IF i < k THEN walk[i] ELSE walk[i + 1]) \in Oid
    BY <1>3, <2>2
  <2>4. walk' \in Seq(Oid) /\ Len(walk') = Len(walk) - 1
    BY <2>1, <2>3
  <2>5. k # pos
    BY <1>9, <2>1
  <2>6. pos' \in 0 .. Len(walk')
    BY <1>3, <2>1, <2>4, <2>5
  <2>7. \A i \in 1 .. Len(walk) - 1 :
          walk'[i] = IF i <= iidx[idx] THEN walk[i] ELSE walk[i + 1]
    BY <1>3, <1>6, <2>1, <2>2
  <2>8. iidx[idx] < Len(walk)
    BY <1>3, <1>6, <2>2
  <2> QED
    BY <2>1, <2>4, <2>6, <2>7, <2>8
<1> QED
  BY <1>7, <1>8, <1>9

LEMMA WalkInItems ==
  ASSUME IInv
  PROVE  RangeOf(walk) \subseteq Items
<1>1. CASE Damaged
  BY <1>1 DEF Damaged, InPlace
<1>2. CASE Kept
  <2>1. /\ walk \in Seq(Oid) /\ len \in Nat
        /\ \A k \in DOMAIN walk : k <= len /\ walk[k] = vidx[Order(k - 1)]
    BY <1>2 DEF Kept, TypeOK, WalkFollowsOrder, Order
  <2>2. \A k \in DOMAIN walk : Order(k - 1) \in Idx
    <3> SUFFICES ASSUME NEW k \in DOMAIN walk PROVE Order(k - 1) \in Idx
      OBVIOUS
    <3>1. k - 1 \in Idx
      BY <2>1 DEF Idx
    <3> QED
      BY <1>2, <3>1, PresentSound DEF Kept, Order, Extends, Sound
  <2> QED
    BY <2>1, <2>2 DEF RangeOf, Items
<1> QED
  BY <1>1, <1>2 DEF IInv

LEMMA OrderWithoutDomain ==
  ASSUME NEW idx
  PROVE  OrderWithout(idx) = [i \in 0 .. len - 2 |-> OrderWithout(idx)[i]]
<1> DEFINE r == [i \in Idx |-> IF pidx[i] > idx THEN pidx[i] - 1 ELSE pidx[i]]
           f == OrderWithout(idx)
<1>1. CASE iidx[idx] < poolst
  <2>1. f = [i \in 0 .. len - 2 |->
               IF iidx[idx] <= i /\ i < poolst - 1 THEN r[i + 1] ELSE r[i]]
    BY <1>1 DEF OrderWithout
  <2> HIDE DEF r, f
  <2>2. f = [i \in 0 .. len - 2 |-> f[i]]
    BY <2>1
  <2> QED
    BY <2>2 DEF f
<1>2. CASE ~ (iidx[idx] < poolst)
  <2>1. f = [i \in 0 .. len - 2 |-> IF i = iidx[idx] THEN r[len - 1] ELSE r[i]]
    BY <1>2 DEF OrderWithout
  <2> HIDE DEF r, f
  <2>2. f = [i \in 0 .. len - 2 |-> f[i]]
    BY <2>1
  <2> QED
    BY <2>2 DEF f
<1> QED
  BY <1>1, <1>2

(* A removal that damages the order leaves what is left of it in place.    *)
LEMMA RemovalDamages ==
  ASSUME IInv, shuffled, NEW idx \in Idx, Remove(idx), order' # "kept"
  PROVE  Damaged' /\ said' = Silent
<1>1. /\ len \in Nat /\ len' \in 0 .. MaxLen /\ len' = len - 1 /\ Idx' = 0 .. len - 2
      /\ Distinct' /\ vidx' \in [Idx' -> Oid]
      /\ \A v \in Idx : v # idx => Renumbered(idx, v) \in Idx'
                                   /\ vidx'[Renumbered(idx, v)] = vidx[v]
  BY RemovedItems
<1>2. TypeOK /\ InPlace
  BY ListIs
<1>3. shuffled' = shuffled /\ repeat' = repeat /\ RemovesFromOrder(idx)
  BY DEF Remove
<1>4. WalkDamaged(vidx[idx])
  BY <1>3 DEF RemovesFromOrder
<1>5. /\ walk' \in Seq(Oid) /\ pos' \in 0 .. Len(walk') /\ said' = Silent
      /\ RangeOf(walk') \subseteq Items'
  <2>1. CASE pos = 0 \/ walk[pos] = vidx[idx]
    <3>1. walk' = <<>> /\ pos' = 0 /\ said' = Silent
      BY <1>4, <2>1 DEF WalkDamaged, NoWalk
    <3>2. walk' \in Seq(Oid) /\ Len(walk') = 0 /\ RangeOf(walk') = {}
      BY <3>1 DEF RangeOf
    <3> QED
      BY <3>1, <3>2
  <2>2. CASE ~ (pos = 0 \/ walk[pos] = vidx[idx])
    <3>1. walk' = <<walk[pos]>> /\ pos' = 1 /\ said' = Silent
      BY <1>4, <2>2 DEF WalkDamaged
    <3>2. walk \in Seq(Oid) /\ pos \in DOMAIN walk
      BY <1>2, <2>2 DEF TypeOK
    <3>3. walk[pos] \in Oid /\ walk[pos] \in Items
      BY <3>2, WalkInItems DEF RangeOf
    <3>4. PICK v \in Idx : vidx[v] = walk[pos]
      BY <3>3 DEF Items
    <3>5. v # idx
      BY <2>2, <3>4
    <3>6. Renumbered(idx, v) \in Idx' /\ vidx'[Renumbered(idx, v)] = walk[pos]
      BY <1>1, <3>4, <3>5
    <3>7. walk[pos] \in Items'
      BY <3>6 DEF Items
    <3>8. walk' \in Seq(Oid) /\ Len(walk') = 1 /\ RangeOf(walk') = {walk[pos]}
      BY <3>1, <3>3 DEF RangeOf
    <3> QED
      BY <3>1, <3>7, <3>8
  <2> QED
    BY <2>1, <2>2
<1>6. /\ pidx' \in [(IF Ordered' THEN Idx' ELSE {}) -> Nat]
      /\ iidx' \in [(IF Ordered' THEN Idx' ELSE {}) -> Nat]
      /\ poolst' \in Nat /\ order' \in {"kept", "damaged", "lost"}
      /\ Ordered' => poolst' \in 0 .. len' /\ \A i \in Idx' : pidx'[i] \in Idx'
  <2>1. CASE Survives(idx)
    <3>1. /\ pidx' = OrderWithout(idx)
          /\ iidx' = Rebuilt(OrderWithout(idx), 0, len - 1, iidx)
          /\ poolst' = IF iidx[idx] < poolst THEN poolst - 1 ELSE poolst
          /\ order' = "damaged"
      BY <1>3, <2>1 DEF RemovesFromOrder
    <3>2. Ordered /\ iidx[idx] \in Idx
      BY <2>1 DEF Survives, Known, Ordered
    <3>3. Loose(pidx, iidx, poolst)
      BY <1>2, <3>2, PresentLoose
    <3>4. iidx \in [0 .. len - 1 -> Nat] /\ poolst \in 0 .. len /\ iidx[idx] \in 0 .. len - 1
      BY <3>2, <3>3 DEF Loose, Idx
    <3>5. OrderWithout(idx) \in [0 .. len - 2 -> 0 .. len - 2]
      BY <2>1, OrderWithoutDomain DEF Survives
    <3>6. iidx' \in [0 .. len - 2 -> Nat]
      <4> DEFINE m == len - 1
      <4>1. m \in Nat /\ m - 1 = len - 2
        BY <1>1, <3>4
      <4>2. \A x \in 0 .. m - 1 : iidx[x] \in Nat
        BY <3>4, <4>1
      <4>3. iidx' = Rebuilt(OrderWithout(idx), 0, m, iidx)
        BY <3>1
      <4> HIDE DEF m
      <4>4. iidx' \in [0 .. m - 1 -> Nat]
        BY <4>1, <4>2, <4>3, RebuiltType
      <4> QED
        BY <4>1, <4>4, Zenon
    <3>7. poolst' \in 0 .. len' /\ poolst' \in Nat
      BY <1>1, <3>1, <3>4
    <3>8. pidx' \in [Idx' -> Nat] /\ \A i \in Idx' : pidx'[i] \in Idx'
      BY <1>1, <3>1, <3>5
    <3>9. Ordered'
      BY <1>3, <3>1 DEF Ordered
    <3> QED
      BY <1>1, <3>1, <3>6, <3>7, <3>8, <3>9
  <2>2. CASE ~Survives(idx)
    <3>1. pidx' = <<>> /\ iidx' = <<>> /\ poolst' = 0 /\ order' = "lost"
      BY <1>3, <2>2 DEF RemovesFromOrder
    <3>2. ~Ordered'
      BY <3>1 DEF Ordered
    <3> QED
      BY <3>1, <3>2, EmptyFunction
  <2> QED
    BY <2>1, <2>2
<1>7. TypeOK'
  BY <1>1, <1>2, <1>3, <1>5, <1>6 DEF TypeOK
<1>8. InPlace'
  BY <1>3, <1>5, <1>6 DEF InPlace
<1> QED
  BY <1>1, <1>5, <1>7, <1>8 DEF Damaged

(* Without RemovesDrawn the order stays kept.                              *)
LEMMA OtherRemovalKeeps ==
  ASSUME Kept, shuffled, NEW idx \in Idx, Remove(idx), ~RemovesDrawn
  PROVE  order' = "kept"
<1>1. RemovesFromOrder(idx) /\ order = "kept" /\ TypeOK /\ WellFormed /\ len \in Nat
  BY DEF Remove, Kept, TypeOK
<1>2. Known(idx)
  BY KeptIsKnown
<1>3. iidx \in [Idx -> Idx] /\ poolst \in 0 .. len /\ Idx = 0 .. len - 1
  <2>1. Idx = 0 .. len - 1
    BY DEF Idx
  <2> QED
    BY <1>1, <2>1, PresentSound DEF Extends, Sound
<1>4. ~ (iidx[idx] < poolst) \/ ~ (poolst < len)
  BY DEF RemovesDrawn
<1>5. iidx[idx] >= poolst \/ poolst = len
  BY <1>1, <1>3, <1>4
<1> DEFINE F == OrderWithout(idx)
           m == len - 1
<1>6. /\ F \in [0 .. len - 2 -> 0 .. len - 2]
      /\ \A y \in 0 .. len - 2 : \E i \in 0 .. len - 2 : F[i] = y
  BY <1>1, <1>5, OrderWithoutSound
<1>7. Survives(idx)
  BY <1>2, <1>6 DEF Survives
<1>8. m \in Nat /\ m - 1 = len - 2
  BY <1>1, <1>3
<1>9. /\ pidx' = F /\ iidx' = Rebuilt(F, 0, m, iidx)
      /\ order' = IF Mutual(pidx', iidx', m) THEN "kept" ELSE "damaged"
  BY <1>1, <1>7 DEF RemovesFromOrder
<1> HIDE DEF F, m
<1>10. /\ F \in [0 .. m - 1 -> 0 .. m - 1]
       /\ \A y \in 0 .. m - 1 : \E i \in 0 .. m - 1 : F[i] = y
  BY <1>6, <1>8, Zenon
<1>11. \A i, j \in 0 .. m - 1 : F[i] = F[j] => i = j
  BY <1>8, <1>10, OntoIsOneToOne
<1>12. \A i \in 0 .. m - 1 : i < 0 => iidx[F[i]] = i
  BY <1>8
<1>13. Mutual(F, Rebuilt(F, 0, m, iidx), m)
  BY <1>8, <1>10, <1>11, <1>12, RebuiltInverse
<1> QED
  BY <1>9, <1>13

LEMMA RemovalKeeps ==
  ASSUME IInv, shuffled, NEW idx \in Idx, Remove(idx), order' = "kept"
  PROVE  Kept' /\ said' = Silent
<1>1. /\ len \in Nat /\ len' \in 0 .. MaxLen /\ len' = len - 1 /\ Idx' = 0 .. len - 2
      /\ Distinct' /\ vidx' \in [Idx' -> Oid]
      /\ \A v \in Idx : v # idx => vidx'[Renumbered(idx, v)] = vidx[v]
  BY RemovedItems
<1>2. /\ shuffled' = shuffled /\ repeat' = repeat /\ RemovesFromOrder(idx)
      /\ shuffled \in BOOLEAN /\ repeat \in BOOLEAN /\ poolst \in Nat
  BY ListIs DEF Remove, TypeOK
<1>3. /\ Survives(idx) /\ order = "kept"
      /\ pidx' = OrderWithout(idx)
      /\ iidx' = Rebuilt(OrderWithout(idx), 0, len - 1, iidx)
      /\ poolst' = (IF iidx[idx] < poolst THEN poolst - 1 ELSE poolst)
      /\ Mutual(pidx', iidx', len - 1)
      /\ WalkWithout(vidx[idx])
  BY <1>2 DEF RemovesFromOrder
<1>4. Kept
  BY <1>3 DEF IInv, Damaged
<1>5. /\ pidx \in [Idx -> Idx] /\ iidx \in [Idx -> Idx] /\ poolst \in 0 .. len
      /\ \A i \in Idx : iidx[pidx[i]] = i /\ pidx[iidx[i]] = i
  BY <1>4, PresentSound DEF Kept, Extends, Sound, Mutual, Idx
<1>6. iidx[idx] \in Nat /\ iidx[idx] \in 0 .. len - 1 /\ len - 1 \in Nat
  <2>1. Idx = 0 .. len - 1
    BY DEF Idx
  <2> QED
    BY <1>1, <1>5, <2>1
<1>7. \A L \in Nat : \A k \in 1 .. L - 1 : k \in 1 .. L /\ k + 1 \in 1 .. L
  OBVIOUS
<1>8. \A i \in 0 .. len - 2 :
        /\ Source(idx, i) \in Idx
        /\ pidx'[i] = Renumbered(idx, pidx[Source(idx, i)])
  BY <1>3, <1>4, OrderWithoutIs DEF Kept
<1>9. WellFormed'
  <2>1. poolst' \in 0 .. len'
    BY <1>1, <1>3, <1>5, <1>6
  <2>2. Mutual(pidx', iidx', len')
    BY <1>1, <1>3
  <2> QED
    BY <2>1, <2>2 DEF WellFormed
<1>10. ListTyped'
  <2>1. pidx' \in [0 .. len - 2 -> Nat]
    BY <1>3, <1>4, OrderWithoutIs DEF Kept
  <2>2. iidx' \in [0 .. len - 2 -> Nat]
    <3> DEFINE m == len - 1
    <3>1. m \in Nat /\ m - 1 = len - 2
      BY <1>1, <1>6
    <3>2. \A x \in 0 .. m - 1 : iidx[x] \in Nat
      <4>1. iidx \in [0 .. len - 1 -> 0 .. len - 1]
        BY <1>5 DEF Idx
      <4> QED
        BY <1>1, <3>1, <4>1
    <3>3. iidx' = Rebuilt(OrderWithout(idx), 0, m, iidx)
      BY <1>3
    <3> HIDE DEF m
    <3>4. iidx' \in [0 .. m - 1 -> Nat]
      BY <3>1, <3>2, <3>3, RebuiltType
    <3> QED
      BY <3>1, <3>4, Zenon
  <2>3. poolst' \in Nat
    BY <1>2, <1>3, <1>6
  <2>4. Ordered'
    BY <1>2 DEF Ordered
  <2> QED
    BY <1>1, <1>2, <2>1, <2>2, <2>3, <2>4 DEF ListTyped
<1>11. \A i \in 0 .. len - 2 : i < poolst' =>
        vidx'[pidx'[i]] = vidx[pidx[IF i < iidx[idx] THEN i ELSE i + 1]]
  <2> SUFFICES ASSUME NEW i \in 0 .. len - 2, i < poolst'
               PROVE  vidx'[pidx'[i]] = vidx[pidx[IF i < iidx[idx] THEN i ELSE i + 1]]
    OBVIOUS
  <2>0. \A a \in 0 .. len - 1, b \in 0 .. len :
          i < (IF a < b THEN b - 1 ELSE b) =>
            LET src == IF a < b THEN IF a <= i /\ i < b - 1 THEN i + 1 ELSE i
                       ELSE IF i = a THEN len - 1 ELSE i
            IN src = (IF i < a THEN i ELSE i + 1) /\ src # a
    BY <1>1
  <2>1. Source(idx, i) = (IF i < iidx[idx] THEN i ELSE i + 1) /\ Source(idx, i) # iidx[idx]
    BY <1>3, <1>5, <1>6, <2>0 DEF Source
  <2>2. Source(idx, i) \in Idx /\ pidx'[i] = Renumbered(idx, pidx[Source(idx, i)])
    BY <1>8
  <2>3. pidx[Source(idx, i)] \in Idx /\ pidx[Source(idx, i)] # idx
    BY <1>5, <2>1, <2>2
  <2>4. vidx'[pidx'[i]] = vidx[pidx[Source(idx, i)]]
    BY <1>1, <2>2, <2>3
  <2> QED
    BY <2>1, <2>2, <2>4
<1>12. /\ walk \in Seq(Oid) /\ Len(walk) \in Nat /\ DOMAIN walk = 1 .. Len(walk)
       /\ pos \in 0 .. Len(walk) /\ Len(walk) <= poolst
       /\ \A k \in 1 .. Len(walk) : k <= len /\ walk[k] = vidx[pidx[k - 1]]
  BY <1>2, <1>4 DEF Kept, TypeOK, WalkFollowsOrder
<1>16. poolst' \in Nat
  BY <1>2, <1>3, <1>6
<1>13. CASE NoWalk
  <2>1. \A i \in 0 .. len - 2 : pidx'[i] \in 0 .. len - 2
    <3>1. \A i \in 0 .. len - 2 : i \in 0 .. (len - 1) - 1
      BY <1>1
    <3>2. (len - 1) - 1 = len - 2
      BY <1>1
    <3> QED
      BY <1>3, <3>1, <3>2 DEF Mutual
  <2>2. ListSound'
    BY <1>1, <1>2, <1>9, <2>1 DEF ListSound, WellFormed
  <2>3. IInv' /\ said' = Silent
    BY <1>1, <1>10, <1>13, <2>2, EndedWalk
  <2> QED
    BY <2>3 DEF IInv, Damaged
<1>14. CASE /\ walk' = walk /\ pos' = pos /\ said' = Silent
            /\ Len(walk) <= iidx[idx]
  <2>1. TypeOK'
    BY <1>10, <1>12, <1>14 DEF ListTyped, TypeOK
  <2>2. Len(walk) <= poolst'
    BY <1>2, <1>3, <1>6, <1>12, <1>14
  <2>3. \A k \in 1 .. Len(walk) : k <= len - 1 /\ walk[k] = vidx'[pidx'[k - 1]]
    <3> SUFFICES ASSUME NEW k \in 1 .. Len(walk)
                 PROVE  k <= len - 1 /\ walk[k] = vidx'[pidx'[k - 1]]
      OBVIOUS
    <3>1. k - 1 \in 0 .. len - 2 /\ k - 1 < poolst' /\ k - 1 < iidx[idx] /\ k <= len - 1
      BY <1>1, <1>6, <1>16, <1>12, <1>14, <2>2
    <3>2. vidx'[pidx'[k - 1]] = vidx[pidx[k - 1]]
      BY <1>11, <3>1
    <3> QED
      BY <1>12, <3>1, <3>2
  <2>4. WalkFollowsOrder' /\ NoRepeat'
    BY <1>1, <1>2, <1>4, <1>12, <1>14, <2>2, <2>3 DEF Kept, WalkFollowsOrder, NoRepeat
  <2> QED
    BY <1>1, <1>9, <1>14, <2>1, <2>4 DEF Kept
<1>15. CASE /\ walk' \in Seq(Oid) /\ Len(walk') = Len(walk) - 1 /\ said' = Silent
            /\ pos' \in 0 .. Len(walk') /\ iidx[idx] < Len(walk)
            /\ \A i \in 1 .. Len(walk') :
                 walk'[i] = IF i <= iidx[idx] THEN walk[i] ELSE walk[i + 1]
  <2>1. TypeOK'
    BY <1>10, <1>15 DEF ListTyped, TypeOK
  <2>2. poolst' = poolst - 1 /\ Len(walk') <= poolst' /\ Len(walk') \in Nat
        /\ DOMAIN walk' = 1 .. Len(walk')
    BY <1>2, <1>3, <1>6, <1>12, <1>15
  <2>3. \A k \in 1 .. Len(walk') : k <= len - 1 /\ walk'[k] = vidx'[pidx'[k - 1]]
    <3> SUFFICES ASSUME NEW k \in 1 .. Len(walk')
                 PROVE  k <= len - 1 /\ walk'[k] = vidx'[pidx'[k - 1]]
      OBVIOUS
    <3>1. k - 1 \in 0 .. len - 2 /\ k - 1 < poolst' /\ k <= len - 1
          /\ k \in 1 .. Len(walk) /\ k + 1 \in 1 .. Len(walk)
      <4>1. \A L \in Nat, b \in 0 .. len : \A j \in 1 .. L - 1 :
              L <= b => j - 1 \in 0 .. len - 2 /\ j - 1 < b - 1 /\ j <= len - 1
        BY <1>1
      <4>2. k \in 1 .. Len(walk) - 1
        BY <1>15
      <4> QED
        BY <1>5, <1>12, <1>7, <2>2, <4>1, <4>2
    <3>2. vidx'[pidx'[k - 1]] = vidx[pidx[IF k - 1 < iidx[idx] THEN k - 1 ELSE (k - 1) + 1]]
      BY <1>11, <3>1
    <3>3. CASE k <= iidx[idx]
      <4>1. k - 1 < iidx[idx]
        BY <1>6, <3>1, <3>3
      <4> QED
        BY <1>12, <1>15, <3>1, <3>2, <3>3, <4>1
    <3>4. CASE ~ (k <= iidx[idx])
      <4>1. ~ (k - 1 < iidx[idx]) /\ (k - 1) + 1 = (k + 1) - 1
        BY <1>6, <3>1, <3>4
      <4>2. walk[k + 1] = vidx[pidx[(k + 1) - 1]]
        BY <1>12, <3>1
      <4> QED
        BY <1>15, <3>1, <3>2, <3>4, <4>1, <4>2
    <3> QED
      BY <3>3, <3>4
  <2>4. WalkFollowsOrder'
    BY <1>1, <1>2, <2>2, <2>3 DEF WalkFollowsOrder
  <2>5. NoRepeat'
    <3> SUFFICES ASSUME NEW i \in 1 .. Len(walk'), NEW j \in 1 .. Len(walk'),
                        walk'[i] = walk'[j]
                 PROVE  i = j
      BY <2>2 DEF NoRepeat
    <3>1. \A k \in 1 .. Len(walk') : k \in 1 .. Len(walk) /\ k + 1 \in 1 .. Len(walk)
      BY <1>12, <1>15, <1>7
    <3>2. (IF i <= iidx[idx] THEN i ELSE i + 1) = (IF j <= iidx[idx] THEN j ELSE j + 1)
      <4>1. \A a, b \in DOMAIN walk : walk[a] = walk[b] => a = b
        BY <1>4 DEF Kept, NoRepeat
      <4>2. \A k \in 1 .. Len(walk') :
              /\ (IF k <= iidx[idx] THEN k ELSE k + 1) \in DOMAIN walk
              /\ walk'[k] = walk[IF k <= iidx[idx] THEN k ELSE k + 1]
        <5> SUFFICES ASSUME NEW k \in 1 .. Len(walk')
                     PROVE  /\ (IF k <= iidx[idx] THEN k ELSE k + 1) \in DOMAIN walk
                            /\ walk'[k] = walk[IF k <= iidx[idx] THEN k ELSE k + 1]
          OBVIOUS
        <5>1. CASE k <= iidx[idx]
          BY <1>12, <1>15, <3>1, <5>1
        <5>2. CASE ~ (k <= iidx[idx])
          BY <1>12, <1>15, <3>1, <5>2
        <5> QED
          BY <5>1, <5>2
      <4> QED
        BY <4>1, <4>2, Zenon
    <3>3. i \in Int /\ j \in Int
      OBVIOUS
    <3> QED
      BY <1>6, <3>2, <3>3
  <2> QED
    BY <1>1, <1>9, <1>15, <2>1, <2>4, <2>5 DEF Kept
<1> QED
  BY <1>3, <1>4, <1>13, <1>14, <1>15, WalkWithoutIs

LEMMA RemoveStep ==
  ASSUME IInv, NEW idx \in Idx, Remove(idx)
  PROVE  /\ IInv' /\ said' = Silent
         /\ order = "kept" /\ ~RemovesDrawn => order' = "kept"
<1>1. CASE ~shuffled
  <2>1. ListTyped /\ ListSound
    BY ListIs
  <2>2. /\ pidx' = pidx /\ iidx' = iidx /\ poolst' = poolst /\ order' = order /\ NoWalk
        /\ shuffled' = shuffled /\ repeat' = repeat
    BY <1>1 DEF Remove
  <2>3. ~Ordered /\ ~Ordered' /\ order = "kept"
    BY <1>1, <2>1, <2>2 DEF Ordered, ListSound
  <2>4. len' \in 0 .. MaxLen /\ vidx' \in [Idx' -> Oid] /\ Distinct'
    BY RemovedItems
  <2>5. ListTyped' /\ ListSound'
    BY <1>1, <2>1, <2>2, <2>3, <2>4 DEF ListTyped, ListSound, WellFormed
  <2> QED
    BY <2>2, <2>3, <2>4, <2>5, EndedWalk
<1>2. CASE shuffled
  <2>1. order = "kept" => Kept
    BY DEF IInv, Damaged
  <2>2. order = "kept" /\ ~RemovesDrawn => order' = "kept"
    BY <1>2, <2>1, OtherRemovalKeeps
  <2>3. IInv' /\ said' = Silent
    BY <1>2, RemovalKeeps, RemovalDamages DEF IInv
  <2> QED
    BY <2>2, <2>3
<1> QED
  BY <1>1, <1>2

(* Every step keeps the invariant; every step but RemovesDrawn keeps the   *)
(* arrays of the order inverse to each other; what the player is told is   *)
(* what Retrace and NoneSkipped say.                                       *)
LEMMA Step ==
  ASSUME IInv, [Next]_vars
  PROVE  /\ IInv'
         /\ order = "kept" /\ ~RemovesDrawn => order' = "kept" /\ WellFormed'
         /\ vars' # vars => RetraceStep /\ NoneSkippedStep
<1>0. /\ order = "kept" <=> Kept
      /\ IInv' => (order' = "kept" => WellFormed')
  <2>1. Kept => order = "kept"
    BY DEF Kept
  <2>2. order = "kept" => Kept
    BY DEF IInv, Damaged
  <2>3. IInv' => (order' = "kept" => WellFormed')
    BY DEF IInv, Kept, Damaged
  <2> QED
    BY <2>1, <2>2, <2>3
<1>14. ASSUME Damaged, PlayerStarts \/ PlayerNext \/ PlayerPrev \/ OthersQuery
       PROVE  IInv' /\ order # "kept"
  BY <1>14, DamagedQuery DEF IInv, Damaged
<1>15. order # "kept" => RetraceStep /\ NoneSkippedStep
  BY DEF RetraceStep, NoneSkippedStep
<1>16. Kept' => IInv' /\ order' = "kept" /\ WellFormed'
  BY DEF IInv, Kept
<1>1. CASE PlayerStarts
  <2>1. said'.op = "starting"
    BY <1>1 DEF PlayerStarts, Tell
  <2>2. RetraceStep /\ NoneSkippedStep
    BY <2>1 DEF RetraceStep, NoneSkippedStep
  <2>3. CASE Kept
    BY <1>1, <1>16, <2>2, <2>3, StartsStep
  <2>4. CASE Damaged
    BY <1>1, <1>14, <2>2, <2>4
  <2> QED
    BY <2>3, <2>4 DEF IInv
<1>2. CASE PlayerNext
  <2>1. CASE Kept
    BY <1>2, <1>16, <2>1, NextStep
  <2>2. CASE Damaged
    BY <1>2, <1>14, <1>15, <2>2
  <2> QED
    BY <2>1, <2>2 DEF IInv
<1>3. CASE PlayerPrev
  <2>1. CASE Kept
    BY <1>3, <1>16, <2>1, PrevStep
  <2>2. CASE Damaged
    BY <1>3, <1>14, <1>15, <2>2
  <2> QED
    BY <2>1, <2>2 DEF IInv
<1>4. CASE OthersQuery
  <2>1. CASE Kept
    BY <1>4, <1>16, <2>1, OthersStep, SilentStep
  <2>2. CASE Damaged
    BY <1>4, <1>14, <1>15, <2>2
  <2> QED
    BY <2>1, <2>2 DEF IInv
<1>5. CASE InsertsSome
  <2>1. PICK n \in 1 .. MaxBatch, idx \in 0 .. len :
          \E oids \in [0 .. n - 1 -> Oid \ Items] :
            /\ \A i, j \in 0 .. n - 1 : oids[i] = oids[j] => i = j
            /\ Inserts(idx, oids, n)
    BY <1>5 DEF InsertsSome
  <2>2. n \in Nat
    BY BoundAssumption
  <2> QED
    BY <1>0, <2>1, <2>2, InsertsStep, SilentStep
<1>6. CASE RemovesOne
  BY <1>0, <1>6, RemoveStep, SilentStep DEF RemovesOne
<1>7. CASE MovesOne
  BY <1>0, <1>7, MoveStep, SilentStep DEF MovesOne
<1>8. CASE Clear
  BY <1>0, <1>8, ClearStep, SilentStep
<1>9. CASE Shuffle
  BY <1>0, <1>9, ShuffleStep, SilentStep
<1>10. CASE Unshuffle
  BY <1>0, <1>10, UnshuffleStep, SilentStep
<1>11. CASE SetRepeat
  BY <1>0, <1>11, SetRepeatStep, SilentStep
<1>12. CASE Reload
  BY <1>0, <1>12, ReloadStep, SilentStep
<1>13. CASE UNCHANGED vars
  <2>1. /\ len' = len /\ vidx' = vidx /\ shuffled' = shuffled /\ repeat' = repeat
        /\ poolst' = poolst /\ pidx' = pidx /\ iidx' = iidx /\ order' = order
        /\ walk' = walk /\ pos' = pos
    BY <1>13 DEF vars, arrays, player
  <2>2. Idx' = Idx /\ WellFormed' = WellFormed /\ Ordered' = Ordered /\ Items' = Items
    BY <2>1 DEF Idx, WellFormed, Ordered, Items
  <2>3. (TypeOK => TypeOK') /\ (Distinct => Distinct')
    BY <2>1, <2>2 DEF TypeOK, Distinct
  <2>4. Kept => Kept'
    BY <2>1, <2>2, <2>3 DEF Kept, NoRepeat, WalkFollowsOrder
  <2>5. Damaged => Damaged'
    BY <2>1, <2>2, <2>3 DEF Damaged, InPlace
  <2> QED
    BY <1>0, <1>13, <2>1, <2>4, <2>5 DEF IInv
<1> QED
  BY <1>1, <1>2, <1>3, <1>4, <1>5, <1>6, <1>7, <1>8, <1>9, <1>10, <1>11, <1>12,
     <1>13 DEF Next, Edit

-----------------------------------------------------------------------------
(* The theorems.                                                           *)

(* Whatever clients ask and edit, the invariant holds.                     *)
THEOREM Invariance == Spec => []IInv
<1>1. Init => IInv
  BY InitIInv
<1>2. IInv /\ [Next]_vars => IInv'
  BY Step
<1> QED
  BY <1>1, <1>2, PTL DEF Spec

(* The fields of a playlist have their types.                              *)
THEOREM TypeCorrect == Spec => []TypeOK
<1>1. IInv => TypeOK
  BY ListIs
<1> QED
  BY <1>1, Invariance, PTL

(* A client that walks through a playlist with get_next is given no item   *)
(* twice before the list wraps, as long as no removal has damaged the      *)
(* order: repeats would need the order, the pool and its inverse to        *)
(* disagree.                                                               *)
THEOREM WalkHasNoRepeat == Spec => []NoRepeat
<1>1. IInv => NoRepeat
  BY DEF IInv, Kept, Damaged, NoRepeat
<1> QED
  BY <1>1, Invariance, PTL

(* What was given to the player is the drawn beginning of a kept order.    *)
THEOREM WalkIsTheOrder == Spec => []WalkFollowsOrder
<1>1. IInv => WalkFollowsOrder
  BY DEF IInv, Kept, Damaged, WalkFollowsOrder
<1> QED
  BY <1>1, Invariance, PTL

(* Every step of pls_inserts, pls_move, pls_shuffle, the draws and the     *)
(* reload keeps pidx and iidx inverse to each other; only pls_remove of a  *)
(* drawn item of a half drawn list does not, and what clients ask and edit *)
(* afterwards goes on in an order that is damaged.                         *)
THEOREM OrderIsKept == Spec => OrderKept
<1>1. IInv /\ [Next]_vars =>
        [order = "kept" /\ ~RemovesDrawn => order' = "kept" /\ WellFormed']_vars
  BY Step
<1> QED
  BY <1>1, Invariance, PTL DEF Spec, OrderKept

(* Going back with get_prev and forth again in a kept order gives the same *)
(* items.                                                                  *)
THEOREM WalkIsRetraced == Spec => Retrace
<1>1. IInv /\ [Next]_vars =>
        [order = "kept" =>
           /\ said'.op = "next" /\ pos > 0 /\ pos < Len(walk) => said'.item = walk[pos + 1]
           /\ said'.op = "prev" /\ pos > 1 => said'.item = walk[pos - 1]]_vars
  BY Step DEF RetraceStep
<1> QED
  BY <1>1, Invariance, PTL DEF Spec, Retrace

(* get_next reaches the end of the list, or wraps, only after every item,  *)
(* whatever others ask and edit meanwhile, except after a removal that     *)
(* damaged the order: OrderIsKept says which those are.                    *)
THEOREM WalkSkipsNone == Spec => NoneSkipped
<1>1. IInv /\ [Next]_vars =>
        [order = "kept" /\ said'.op = "next" /\ (said'.wrapped \/ said'.item = NoItem)
           => RangeOf(walk) = Items /\ (said'.wrapped => said'.item = walk[1])]_vars
  BY Step DEF NoneSkippedStep
<1> QED
  BY <1>1, Invariance, PTL DEF Spec, NoneSkipped
=============================================================================
