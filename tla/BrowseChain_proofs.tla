-------------------------- MODULE BrowseChain_proofs --------------------------
(***************************************************************************)
(* Proofs about BrowseChain, for any number of browses, containers of any  *)
(* size, batches of any size, and any requests: a source calls back for no *)
(* request that was freed (ListenerThere), and what the client is given    *)
(* implements BrowseContract (ContractKept).                               *)
(***************************************************************************)
EXTENDS BrowseChain, TLAPS, SequenceTheorems, WellFoundedInduction

Message == [what : {"results"}, s : Session, list : Seq(AnyResult)]
             \cup [what : {"reply"}, s : Session, to : {"browse", "cancel"}, ok : BOOLEAN]

(* What the wrapper's handlers work on.                                    *)
WrapperState == [requests : [Session -> Request \cup {NoRequest}],
                 idles : SUBSET Session, bus : Seq(Message)]

(* The last call of the callback of a browse.                              *)
Ending(r) == r.left = 0 \/ r.err

-----------------------------------------------------------------------------
(* The wrapper hears one result, with the request there.                   *)

LEMMA RequestTypes ==
  /\ NoRequest \notin Request /\ NewRequest \in Request
  /\ \A q \in Request, l \in Seq(AnyResult), m \in Nat, b \in BOOLEAN :
       /\ [q EXCEPT !.pending = l] \in Request
       /\ [q EXCEPT !.max = m] \in Request
       /\ [q EXCEPT !.timer = b] \in Request
BY WrapperAssumption DEF Request, NewRequest

LEMMA MessageTypes ==
  ASSUME NEW s \in Session
  PROVE  /\ \A l \in Seq(AnyResult) : Results(s, l) \in Message
         /\ \A ok \in BOOLEAN : /\ Reply(s, "browse", ok) \in Message
                                /\ Reply(s, "cancel", ok) \in Message
BY DEF Message, Results, Reply

(* w became x: the request of s is q, the idles and the messages i and b.  *)
Becoming(w, x, s, q, i, b) ==
  /\ x \in WrapperState /\ x.requests[s] = q /\ x.idles = i /\ x.bus = b
  /\ \A t \in Session \ {s} : x.requests[t] = w.requests[t]

LEMMA Shape ==
  ASSUME NEW w \in WrapperState
  PROVE  /\ w.requests \in [Session -> Request \cup {NoRequest}]
         /\ w.idles \in SUBSET Session /\ w.bus \in Seq(Message)
BY DEF WrapperState

LEMMA Changed ==
  ASSUME NEW w \in WrapperState, NEW s \in Session
  PROVE  /\ \A q \in Request \cup {NoRequest} :
              Becoming(w, [w EXCEPT !.requests[s] = q], s, q, w.idles, w.bus)
         /\ \A m \in Message :
              Becoming(w, [w EXCEPT !.bus = Append(@, m)], s, w.requests[s], w.idles,
                       Append(w.bus, m))
         /\ Becoming(w, [w EXCEPT !.idles = @ \cup {s}], s, w.requests[s],
                     w.idles \cup {s}, w.bus)
         /\ Becoming(w, [w EXCEPT !.idles = @ \ {s}], s, w.requests[s],
                     w.idles \ {s}, w.bus)
<1>1. ASSUME NEW q \in Request \cup {NoRequest}
      PROVE  Becoming(w, [w EXCEPT !.requests[s] = q], s, q, w.idles, w.bus)
  BY DEF Becoming, WrapperState
<1>2. ASSUME NEW m \in Message
      PROVE  Becoming(w, [w EXCEPT !.bus = Append(@, m)], s, w.requests[s], w.idles,
                       Append(w.bus, m))
  <2>1. Append(w.bus, m) \in Seq(Message)
    BY Shape, AppendProperties
  <2> QED
    BY <2>1 DEF Becoming, WrapperState
<1>3. Becoming(w, [w EXCEPT !.idles = @ \cup {s}], s, w.requests[s],
               w.idles \cup {s}, w.bus)
  BY DEF Becoming, WrapperState
<1>4. Becoming(w, [w EXCEPT !.idles = @ \ {s}], s, w.requests[s], w.idles \ {s}, w.bus)
  BY DEF Becoming, WrapperState
<1> QED
  BY <1>1, <1>2, <1>3, <1>4

LEMMA ChangedTwice ==
  ASSUME NEW w, NEW x, NEW y, NEW s, NEW q, NEW i, NEW b, NEW p, NEW j, NEW c,
         Becoming(w, x, s, q, i, b), Becoming(x, y, s, p, j, c)
  PROVE  Becoming(w, y, s, p, j, c)
BY DEF Becoming

LEMMA FlushedTo ==
  ASSUME NEW w \in WrapperState, NEW s \in Session, w.requests[s] \in Request,
         w.requests[s].pending # <<>>
  PROVE  Becoming(w, Flushed(w, s), s, [w.requests[s] EXCEPT !.pending = <<>>], w.idles,
                  Append(w.bus, Results(s, w.requests[s].pending)))
<1> DEFINE q == w.requests[s]
           m == Results(s, q.pending)
           x == [w EXCEPT !.bus = Append(@, m)]
           p == [q EXCEPT !.pending = <<>>]
           y == [x EXCEPT !.requests[s] = p]
<1>1. m \in Message /\ p \in Request
  <2>1. q.pending \in Seq(AnyResult) /\ <<>> \in Seq(AnyResult)
    BY DEF Request
  <2> QED
    BY <2>1, RequestTypes, MessageTypes
<1>2. Becoming(w, x, s, q, w.idles, Append(w.bus, m))
  BY <1>1, Changed
<1>3. x \in WrapperState /\ x.requests[s] = q
  BY <1>2 DEF Becoming
<1>4. Becoming(x, y, s, p, x.idles, x.bus)
  BY <1>1, <1>3, Changed
<1>5. Becoming(w, y, s, p, w.idles, Append(w.bus, m))
  BY <1>2, <1>4 DEF Becoming
<1>6. Flushed(w, s) = [w EXCEPT !.bus = Append(@, m), !.requests[s].pending = <<>>]
  BY DEF Flushed
<1>7. Flushed(w, s) = y
  BY <1>3, <1>6
<1> QED
  BY <1>5, <1>7

(* One result is heard, with the request there: the last one is sent on at *)
(* once with all before it, another one perhaps.                           *)
LEMMA HeardOne ==
  ASSUME NEW w \in WrapperState, NEW s \in Session, w.requests[s] \in Request,
         NEW r \in AnyResult
  PROVE  LET q == w.requests[s]
             l == Append(q.pending, r)
             e == emit_browse_result(w, s, r)
         IN  \/ /\ ~r.id
                /\ Becoming(w, e, s, NoRequest, w.idles,
                            Append(w.bus, Reply(s, "browse", FALSE)))
             \/ /\ r.id /\ Ending(r)
                /\ \E p \in Request :
                     /\ p.pending = <<>>
                     /\ Becoming(w, e, s, p, w.idles \cup {s}, Append(w.bus, Results(s, l)))
             \/ /\ r.id /\ ~Ending(r)
                /\ \E p \in Request :
                     /\ p.pending = <<>>
                     /\ Becoming(w, e, s, p, w.idles, Append(w.bus, Results(s, l)))
             \/ /\ r.id /\ ~Ending(r)
                /\ \E p \in Request : p.pending = l /\ Becoming(w, e, s, p, w.idles, w.bus)
<1> DEFINE q == w.requests[s]
           l == Append(q.pending, r)
           e == emit_browse_result(w, s, r)
           added == [w EXCEPT !.requests[s].pending = Append(@, r)]
           p0 == [q EXCEPT !.pending = l]
           p1 == [p0 EXCEPT !.pending = <<>>]
           f == Flushed(added, s)
<1>1. /\ l \in Seq(AnyResult) /\ l # <<>> /\ q.pending \in Seq(AnyResult) /\ q.max \in Nat
      /\ <<>> \in Seq(AnyResult)
  BY AppendProperties DEF Request
<1>2. p0 \in Request /\ p0.pending = l /\ p0.max = q.max
  BY <1>1, RequestTypes DEF Request
<1>3. added = [w EXCEPT !.requests[s] = p0]
  BY DEF WrapperState
<1> HIDE DEF p0
<1>4. Becoming(w, added, s, p0, w.idles, w.bus)
  BY <1>2, <1>3, Changed
<1>5. added \in WrapperState /\ added.requests[s] = p0 /\ added.idles = w.idles /\ added.bus = w.bus
  BY <1>4 DEF Becoming
<1> HIDE DEF added
<1>6. p1 \in Request /\ p1.pending = <<>> /\ p1.max = q.max
  BY <1>1, <1>2, RequestTypes DEF Request
<1>7. Becoming(added, f, s, p1, added.idles, Append(added.bus, Results(s, l)))
  BY <1>1, <1>2, <1>5, FlushedTo
<1>8. Becoming(w, f, s, p1, w.idles, Append(w.bus, Results(s, l)))
  BY <1>4, <1>5, <1>7, ChangedTwice
<1>9. /\ f \in WrapperState /\ f.requests[s] = p1 /\ f.idles = w.idles
      /\ f.bus = Append(w.bus, Results(s, l))
  BY <1>8 DEF Becoming
<1> HIDE DEF f, p1
<1>10. CASE ~r.id
  <2> DEFINE m == Reply(s, "browse", FALSE)
             x == [w EXCEPT !.bus = Append(@, m)]
  <2>1. e = [x EXCEPT !.requests[s] = NoRequest]
    BY <1>10 DEF emit_browse_result, Forgotten
  <2>2. Becoming(w, x, s, q, w.idles, Append(w.bus, m))
    BY MessageTypes, Changed
  <2>3. x \in WrapperState /\ x.idles = w.idles /\ x.bus = Append(w.bus, m)
    BY <2>2 DEF Becoming
  <2> HIDE DEF x, m
  <2>4. Becoming(x, e, s, NoRequest, x.idles, x.bus)
    BY <2>1, <2>3, Changed
  <2>5. Becoming(w, e, s, NoRequest, w.idles, Append(w.bus, m))
    BY <2>2, <2>3, <2>4, ChangedTwice
  <2> QED
    BY <1>10, <2>5 DEF m
<1>11. CASE r.id /\ Ending(r)
  <2> DEFINE p2 == [p1 EXCEPT !.timer = FALSE]
             x == [f EXCEPT !.requests[s] = p2]
  <2>1. e = [x EXCEPT !.idles = @ \cup {s}]
    BY <1>9, <1>11 DEF emit_browse_result, Ending, f, added
  <2>2. p2 \in Request /\ p2.pending = <<>>
    BY <1>6, RequestTypes DEF Request
  <2> HIDE DEF p2
  <2>3. Becoming(f, x, s, p2, f.idles, f.bus)
    BY <1>9, <2>2, Changed
  <2>4. x \in WrapperState /\ x.requests[s] = p2 /\ x.idles = f.idles /\ x.bus = f.bus
    BY <2>3 DEF Becoming
  <2> HIDE DEF x
  <2>5. Becoming(x, e, s, p2, f.idles \cup {s}, f.bus)
    BY <2>1, <2>4, Changed
  <2>6. Becoming(w, e, s, p2, w.idles \cup {s}, Append(w.bus, Results(s, l)))
    BY <1>8, <1>9, <2>3, <2>5, ChangedTwice
  <2> QED
    BY <1>11, <2>2, <2>6
<1>12. CASE r.id /\ ~Ending(r) /\ Len(l) >= q.max
  <2> DEFINE p2 == [p1 EXCEPT !.max = Larger(p1.max)]
             p3 == [p2 EXCEPT !.timer = TRUE]
  <2>1. e = [f EXCEPT !.requests[s].max = Larger(@), !.requests[s].timer = TRUE]
    BY <1>2, <1>5, <1>12 DEF emit_browse_result, Ending, f, added
  <2>2. Larger(p1.max) \in Nat
    BY <1>1, <1>6, WrapperAssumption DEF Larger
  <2>3. p2 \in Request /\ p2.pending = <<>>
    BY <1>6, <2>2, RequestTypes DEF Request
  <2>4. p3 \in Request /\ p3.pending = <<>>
    BY <2>3, RequestTypes DEF Request
  <2> DEFINE g == [f EXCEPT !.requests[s] = p2]
  <2>5. Becoming(f, g, s, p2, f.idles, f.bus)
    BY <1>9, <2>3, Changed
  <2>6. g \in WrapperState /\ g.requests[s] = p2 /\ g.idles = f.idles /\ g.bus = f.bus
    BY <2>5 DEF Becoming
  <2>7. e = [g EXCEPT !.requests[s] = p3]
    <3>1. e = [g EXCEPT !.requests[s].timer = TRUE]
      BY <1>9, <2>1
    <3> QED
      BY <2>6, <3>1
  <2> HIDE DEF p2, p3, g
  <2>8. Becoming(g, e, s, p3, g.idles, g.bus)
    <3>1. p3 \in Request \cup {NoRequest}
      BY <2>4
    <3>2. Becoming(g, [g EXCEPT !.requests[s] = p3], s, p3, g.idles, g.bus)
      BY <2>6, <3>1, Changed
    <3> QED
      BY <2>7, <3>2
  <2>9. Becoming(w, e, s, p3, w.idles, Append(w.bus, Results(s, l)))
    BY <1>8, <1>9, <2>5, <2>6, <2>8, ChangedTwice
  <2> QED
    BY <1>12, <2>4, <2>9
<1>13. CASE r.id /\ ~Ending(r) /\ ~(Len(l) >= q.max)
  <2>1. e = added
    BY <1>2, <1>5, <1>13 DEF emit_browse_result, Ending, added
  <2> QED
    BY <1>2, <1>4, <1>13, <2>1
<1> QED
  BY <1>10, <1>11, <1>12, <1>13

-----------------------------------------------------------------------------
(* The wrapper hears several results: one after the other.                 *)

\* h[i] is the state after the first i of the results
Hearing(w, s, says, n, h) ==
  h = [i \in 0 .. n |-> IF i = 0 THEN w ELSE emit_browse_result(h[i - 1], s, says[i])]

(* There is such a function, although it is defined by itself.             *)
LEMMA HearingExists ==
  ASSUME NEW w, NEW s, NEW says, NEW n \in Nat
  PROVE  \E h : Hearing(w, s, says, n, h)
<1> DEFINE T == {m \in Nat : ~ \E h : Hearing(w, s, says, m, h)}
<1> SUFFICES ASSUME T # {} PROVE FALSE
  OBVIOUS
<1>1. T \subseteq Nat
  OBVIOUS
<1>2. \E m \in T : \A k \in T : <<k, m>> \notin OpToRel(<, Nat)
  BY <1>1, WFMin, NatLessThanWellFounded
<1>3. PICK m \in T : \A k \in T : ~ (k < m)
  BY <1>1, <1>2 DEF OpToRel
<1>4. m \in Nat /\ ~ \E h : Hearing(w, s, says, m, h)
  OBVIOUS
<1>5. CASE m = 0
  <2> DEFINE f == [i \in 0 .. 0 |-> w]
  <2>1. f = [i \in 0 .. 0 |-> IF i = 0 THEN w ELSE emit_browse_result(f[i - 1], s, says[i])]
    OBVIOUS
  <2> QED
    BY <1>4, <1>5, <2>1 DEF Hearing
<1>6. CASE m # 0
  <2>1. m - 1 \in Nat /\ m - 1 \notin T
    BY <1>3, <1>4, <1>6
  <2>2. PICK g : Hearing(w, s, says, m - 1, g)
    BY <2>1
  <2> DEFINE f == [i \in 0 .. m |-> IF i = 0 THEN w
                                    ELSE emit_browse_result(g[i - 1], s, says[i])]
  <2>3. ASSUME NEW i \in 0 .. m, i # 0 PROVE f[i - 1] = g[i - 1]
    <3>1. i - 1 \in 0 .. m /\ i - 1 \in 0 .. (m - 1)
      BY <1>4, <2>3
    <3>2. g[i - 1] = IF i - 1 = 0 THEN w
                     ELSE emit_browse_result(g[(i - 1) - 1], s, says[i - 1])
      BY <2>2, <3>1 DEF Hearing
    <3>3. f[i - 1] = IF i - 1 = 0 THEN w
                     ELSE emit_browse_result(g[(i - 1) - 1], s, says[i - 1])
      BY <3>1
    <3> QED
      BY <3>2, <3>3
  <2>4. f = [i \in 0 .. m |-> IF i = 0 THEN w ELSE emit_browse_result(f[i - 1], s, says[i])]
    BY <2>3
  <2> QED
    BY <1>4, <2>4 DEF Hearing
<1> QED
  BY <1>5, <1>6

LEMMA HeardThrough ==
  ASSUME NEW w, NEW s, NEW says, Len(says) \in Nat
  PROVE  \E h : /\ Hearing(w, s, says, Len(says), h)
                /\ Heard(w, s, says) = h[Len(says)]
<1> DEFINE after == CHOOSE h : Hearing(w, s, says, Len(says), h)
<1>1. Hearing(w, s, says, Len(says), after)
  <2>1. \E h : Hearing(w, s, says, Len(says), h)
    BY HearingExists
  <2> QED
    BY <2>1, Zenon
<1>2. Heard(w, s, says) = after[Len(says)]
  BY DEF Heard, Hearing
<1> QED
  BY <1>1, <1>2

LEMMA HeardNothing == ASSUME NEW w, NEW s PROVE Heard(w, s, <<>>) = w
<1>1. Len(<<>>) = 0 /\ Len(<<>>) \in Nat
  OBVIOUS
<1>2. PICK h : Hearing(w, s, <<>>, Len(<<>>), h) /\ Heard(w, s, <<>>) = h[Len(<<>>)]
  BY <1>1, HeardThrough
<1> QED
  BY <1>1, <1>2 DEF Hearing

(* Of results with a browse id the request is there to the end, and an     *)
(* idle is scheduled for it only if one of them is the last.               *)
HeardOn(w, x, s) ==
  /\ x \in WrapperState /\ x.requests[s] \in Request
  /\ x.idles \in {w.idles, w.idles \cup {s}}
  /\ \A t \in Session \ {s} : x.requests[t] = w.requests[t]

LEMMA HeardAll ==
  ASSUME NEW w \in WrapperState, NEW s \in Session, w.requests[s] \in Request,
         NEW says \in Seq(AnyResult), \A i \in DOMAIN says : says[i].id
  PROVE  /\ HeardOn(w, Heard(w, s, says), s)
         /\ (\A i \in DOMAIN says : ~Ending(says[i])) => Heard(w, s, says).idles = w.idles
<1> DEFINE N == Len(says)
           plain == \A i \in DOMAIN says : ~Ending(says[i])
           Fine(x) == HeardOn(w, x, s) /\ (plain => x.idles = w.idles)
<1>1. N \in Nat /\ DOMAIN says = 1 .. N
  OBVIOUS
<1>2. PICK h : Hearing(w, s, says, N, h) /\ Heard(w, s, says) = h[N]
  BY <1>1, HeardThrough
<1>3. h[0] = w /\ \A i \in 1 .. N : h[i] = emit_browse_result(h[i - 1], s, says[i])
  BY <1>1, <1>2 DEF Hearing
<1> HIDE DEF N, plain
<1>4. Fine(w)
  BY DEF HeardOn
<1>5. ASSUME NEW i \in 1 .. N, Fine(h[i - 1]) PROVE Fine(h[i])
  <2> DEFINE x == h[i - 1]
             e == emit_browse_result(x, s, says[i])
  <2>1. /\ x \in WrapperState /\ x.requests[s] \in Request
        /\ x.idles \in {w.idles, w.idles \cup {s}}
        /\ \A t \in Session \ {s} : x.requests[t] = w.requests[t]
        /\ plain => x.idles = w.idles
    BY <1>5 DEF HeardOn
  <2>2. says[i] \in AnyResult /\ says[i].id
    BY <1>1, ElementOfSeq DEF N
  <2>2a. plain => ~Ending(says[i])
    BY <1>1 DEF plain
  <2>3. h[i] = e
    BY <1>3
  <2> HIDE DEF x
  <2>4. \E b : \E p \in Request, j \in {x.idles, x.idles \cup {s}} :
          /\ Becoming(x, e, s, p, j, b)
          /\ ~Ending(says[i]) => j = x.idles
    <3>1. \E p \in Request : \E b :
            \/ Ending(says[i]) /\ Becoming(x, e, s, p, x.idles \cup {s}, b)
            \/ ~Ending(says[i]) /\ Becoming(x, e, s, p, x.idles, b)
      BY <2>1, <2>2, HeardOne
    <3> QED
      BY <3>1
  <2>5. PICK p \in Request, j \in {x.idles, x.idles \cup {s}} :
          /\ \E b : Becoming(x, e, s, p, j, b)
          /\ ~Ending(says[i]) => j = x.idles
    BY <2>4
  <2>6. /\ e \in WrapperState /\ e.requests[s] \in Request /\ e.idles = j
        /\ \A t \in Session \ {s} : e.requests[t] = x.requests[t]
    BY <2>5 DEF Becoming
  <2>7. /\ e.idles \in {w.idles, w.idles \cup {s}}
        /\ plain => e.idles = w.idles
    BY <2>1, <2>2a, <2>5, <2>6
  <2> HIDE DEF e
  <2> QED
    BY <2>1, <2>3, <2>6, <2>7 DEF HeardOn
<1>6. \A i \in 0 .. N : Fine(h[i])
  <2> DEFINE T == {i \in 0 .. N : ~Fine(h[i])}
  <2> SUFFICES ASSUME T # {} PROVE FALSE
    OBVIOUS
  <2>1. T \subseteq Nat
    BY <1>1
  <2>2. \E m \in T : \A k \in T : <<k, m>> \notin OpToRel(<, Nat)
    BY <2>1, WFMin, NatLessThanWellFounded
  <2>3. PICK m \in T : \A k \in T : ~ (k < m)
    BY <2>1, <2>2 DEF OpToRel
  <2>4. m \in 0 .. N /\ ~Fine(h[m])
    OBVIOUS
  <2> HIDE DEF Fine
  <2>5. m # 0
    BY <1>3, <1>4, <2>4
  <2>6. m \in 1 .. N /\ m - 1 \in 0 .. N /\ m - 1 < m
    BY <1>1, <2>4, <2>5
  <2>7. Fine(h[m - 1])
    BY <2>3, <2>6
  <2> QED
    BY <1>5, <2>4, <2>6, <2>7
<1>7. Fine(h[N])
  <2>1. N \in 0 .. N
    BY <1>1
  <2> QED
    BY <1>6, <2>1
<1> QED
  BY <1>2, <1>7 DEF N, plain

-----------------------------------------------------------------------------
(* The handlers of the sources: types, and what they say.                  *)

UpnpOp == [skip : Nat, count : Nat, current : Nat, remaining : Nat \cup {Unknown}]
IradioOp == [list : Seq(Nat), skip : Nat, count : Nat, next : Nat, free_req : BOOLEAN,
             idle : BOOLEAN]
TrackerOp == [what : Category, skip : Nat, count : Nat \ {0},
              st : {"query", "videos", "lookup", "durations", "asking", "emit", "stuck"},
              ids : Seq(Nat), index : Nat, cancelled : BOOLEAN, awaited : SUBSET Branches]

\* what a source says of a browse that began
Sayings == {l \in Seq(AnyResult) : \A i \in DOMAIN l : l[i].id}
Plain(l) == \A i \in DOMAIN l : ~Ending(l[i])

LEMMA ResultTypes ==
  /\ \A l \in Nat, i \in Nat, o \in Nat :
       /\ Result(l, i, o) \in AnyResult /\ Result(l, i, o).id /\ ~Result(l, i, o).err
       /\ Result(l, i, o).left = l
  /\ \A i \in Nat : Nothing(i) \in AnyResult /\ Nothing(i).id
  /\ Failure \in AnyResult /\ Failure.id
  /\ Refusal \in AnyResult /\ ~Refusal.id
BY DEF Result, Nothing, Failure, Refusal, AnyResult

LEMMA SayingTypes ==
  /\ <<>> \in Sayings /\ Plain(<<>>)
  /\ \A r \in AnyResult : r.id => <<r>> \in Sayings /\ (~Ending(r) => Plain(<<r>>))
  /\ \A l \in Sayings, r \in AnyResult : r.id => Append(l, r) \in Sayings
<1>1. <<>> \in Sayings /\ Plain(<<>>)
  BY DEF Sayings, Plain
<1>2. ASSUME NEW r \in AnyResult, r.id
      PROVE  <<r>> \in Sayings /\ (~Ending(r) => Plain(<<r>>))
  <2>1. <<r>> \in Seq(AnyResult) /\ DOMAIN <<r>> = {1} /\ <<r>>[1] = r
    OBVIOUS
  <2> QED
    BY <1>2, <2>1 DEF Sayings, Plain
<1>3. ASSUME NEW l \in Sayings, NEW r \in AnyResult, r.id
      PROVE  Append(l, r) \in Sayings
  <2>1. l \in Seq(AnyResult) /\ \A i \in 1 .. Len(l) : l[i].id
    BY DEF Sayings
  <2>2. /\ Append(l, r) \in Seq(AnyResult) /\ Len(Append(l, r)) = Len(l) + 1
        /\ \A i \in 1 .. Len(l) : Append(l, r)[i] = l[i]
        /\ Append(l, r)[Len(l) + 1] = r
    BY <2>1, AppendProperties
  <2>3. \A i \in 1 .. Len(l) + 1 : Append(l, r)[i].id
    BY <1>3, <2>1, <2>2
  <2>4. DOMAIN Append(l, r) = 1 .. Len(l) + 1
    BY <2>2
  <2> QED
    BY <2>2, <2>3, <2>4 DEF Sayings
<1> QED
  BY <1>1, <1>2, <1>3

LEMMA UpnpParsed ==
  ASSUME NEW a \in UpnpOp, a.remaining \in Nat, NEW n \in Nat
  PROVE  LET p == Parsed(a, n) IN
         /\ p.a \in UpnpOp /\ p.a.remaining \in Nat /\ p.says \in Sayings
         /\ p.a.remaining # 0 => Plain(p.says)
<1> DEFINE k == Least(n, a.remaining)
           p == Parsed(a, n)
<1>1. a.skip \in Nat /\ a.count \in Nat /\ a.current \in Nat /\ a.remaining \in Nat
  BY DEF UpnpOp
<1>2. k \in Nat /\ k <= a.remaining
  BY <1>1 DEF Least
<1> HIDE DEF k
<1>3. /\ p.a = [a EXCEPT !.current = @ + k, !.remaining = @ - k]
      /\ p.says = [i \in 1 .. k |-> Result(a.remaining - i, a.current + i - 1,
                                           a.skip + a.current + i)]
  BY DEF Parsed, k
<1> HIDE DEF p
<1>4. p.a \in UpnpOp /\ p.a.remaining = a.remaining - k
  <2>1. a.current + k \in Nat /\ a.remaining - k \in Nat
    BY <1>1, <1>2
  <2> DEFINE m == a.current + k
             n1 == a.remaining - k
  <2>2. p.a = [a EXCEPT !.current = m, !.remaining = n1]
    BY <1>3
  <2> HIDE DEF m, n1
  <2>3. p.a \in UpnpOp /\ p.a.remaining = n1
    BY <2>1, <2>2 DEF UpnpOp, m, n1
  <2> QED
    BY <2>3 DEF n1
<1>5. ASSUME NEW i \in 1 .. k
      PROVE  p.says[i] \in AnyResult /\ p.says[i].id /\ ~p.says[i].err
             /\ p.says[i].left = a.remaining - i
  <2>1. PICK left \in Nat, at \in Nat, obj \in Nat :
          left = a.remaining - i /\ at = a.current + i - 1 /\ obj = a.skip + a.current + i
    <3>1. a.remaining - i \in Nat /\ a.current + i - 1 \in Nat /\ a.skip + a.current + i \in Nat
      BY <1>1, <1>2
    <3> QED
      BY <3>1
  <2>2. p.says[i] = Result(left, at, obj)
    BY <1>3, <2>1
  <2>3. /\ Result(left, at, obj) \in AnyResult /\ Result(left, at, obj).id
        /\ ~Result(left, at, obj).err /\ Result(left, at, obj).left = left
    BY ResultTypes
  <2> QED
    BY <2>1, <2>2, <2>3
<1>6. p.says \in Sayings /\ DOMAIN p.says = 1 .. k
  BY <1>2, <1>3, <1>5 DEF Sayings
<1>7. a.remaining - k # 0 => \A i \in 1 .. k : a.remaining - i # 0
  BY <1>1, <1>2
<1>8. a.remaining - k # 0 => Plain(p.says)
  BY <1>5, <1>6, <1>7 DEF Plain, Ending
<1> QED
  BY <1>1, <1>2, <1>4, <1>6, <1>8 DEF p

LEMMA UpnpUnref ==
  ASSUME NEW a, NEW l \in Sayings, NEW r \in AnyResult, r.id
  PROVE  Unref(a, l, r).op = Over /\ Unref(a, l, r).says \in Sayings
BY SayingTypes DEF Unref, Outcome

LEMMA UpnpSays ==
  ASSUME NEW a \in UpnpOp, NEW stock \in Nat,
         NEW o \in UpnpSteps(a, stock) \cup {UpnpCancel(a, TRUE), UpnpCancel(a, FALSE)}
  PROVE  /\ o.op \in UpnpOp \cup {Over} /\ o.says \in Sayings
         /\ o.op # Over => Plain(o.says)
<1>1. ASSUME NEW total, NEW r \in {Failure, Nothing(0)}, o = Failed(a, total, r)
      PROVE  o.op = Over /\ o.says \in Sayings
  BY <1>1, SayingTypes, ResultTypes DEF Failed, Outcome
<1>2. ASSUME NEW n \in Nat, o = Answered(a, stock, n)
      PROVE  /\ o.op \in UpnpOp \cup {Over} /\ o.says \in Sayings
             /\ o.op # Over => Plain(o.says)
  <2> DEFINE b == [a EXCEPT !.remaining = Remaining(a, stock)]
             p == Parsed(b, n)
  <2>1. b \in UpnpOp /\ b.remaining \in Nat
    <3>1. Remaining(a, stock) \in Nat
      BY DEF Remaining, UpnpOp, Unknown
    <3> QED
      BY <3>1 DEF UpnpOp
  <2> HIDE DEF b
  <2>2. /\ p.a \in UpnpOp /\ p.a.remaining \in Nat /\ p.says \in Sayings
        /\ p.a.remaining # 0 => Plain(p.says)
    BY <2>1, UpnpParsed
  <2>3. o \in {Unref(p.a, p.says, Nothing(0)),
               Unref(p.a, Append(p.says, Nothing(0)), Nothing(0)), Outcome(p.a, p.says)}
    BY <1>2 DEF Answered, b
  <2>4. o = Outcome(p.a, p.says) => p.a.remaining # 0 \/ o.op = Over
    <3>1. CASE p.a.remaining = 0
      <4>1. o = Unref(p.a, p.says, Nothing(0))
        BY <1>2, <3>1 DEF Answered, b
      <4> QED
        BY <4>1 DEF Unref, Outcome
    <3> QED
      BY <3>1
  <2> HIDE DEF p
  <2>5. Nothing(0) \in AnyResult /\ Nothing(0).id
    BY ResultTypes
  <2>6. Append(p.says, Nothing(0)) \in Sayings
    BY <2>2, <2>5, SayingTypes
  <2>7. CASE o = Outcome(p.a, p.says)
    BY <2>2, <2>4, <2>7 DEF Outcome
  <2>8. CASE o = Unref(p.a, p.says, Nothing(0))
    BY <2>2, <2>5, <2>8, UpnpUnref
  <2>9. CASE o = Unref(p.a, Append(p.says, Nothing(0)), Nothing(0))
    BY <2>5, <2>6, <2>9, UpnpUnref
  <2> QED
    BY <2>3, <2>7, <2>8, <2>9
<1>3. CASE o \in UpnpSteps(a, stock)
  <2> DEFINE have == stock - (a.skip + a.current)
             asked0 == IF a.count = 0 THEN Slice ELSE Least(Slice, a.count)
             most == IF have < 0 THEN 0 ELSE Least(have, asked0)
  <2>1. most \in Nat /\ Least(1, most) \in Nat
    <3>1. have \in Int /\ asked0 \in Nat
      BY SliceAssumption DEF UpnpOp, Least
    <3> HIDE DEF have, asked0
    <3> QED
      BY <3>1 DEF Least
  <2>2. \/ \E r \in {Failure, Nothing(0)} : \E total : o = Failed(a, total, r)
        \/ \E n \in Least(1, most) .. most : o = Answered(a, stock, n)
    <3>1. o \in {Failed(a, IF a.remaining = Unknown THEN 0 ELSE stock, Failure)}
             \cup (IF stock = 0 THEN {Failed(a, 0, Nothing(0))}
                   ELSE {Failed(a, stock, Failure)}
                        \cup {Answered(a, stock, n) : n \in Least(1, most) .. most})
      BY <1>3 DEF UpnpSteps
    <3> HIDE DEF most
    <3>2. CASE o \in {Failed(a, IF a.remaining = Unknown THEN 0 ELSE stock, Failure),
                      Failed(a, 0, Nothing(0)), Failed(a, stock, Failure)}
      BY <3>2, Zenon
    <3>3. CASE o \in {Answered(a, stock, n) : n \in Least(1, most) .. most}
      BY <3>3
    <3> QED
      BY <3>1, <3>2, <3>3
  <2> HIDE DEF most
  <2>3. \A n \in Least(1, most) .. most : n \in Nat
    BY <2>1
  <2> QED
    BY <1>1, <1>2, <2>2, <2>3
<1>4. CASE o \in {UpnpCancel(a, TRUE), UpnpCancel(a, FALSE)}
  <2>1. \E r \in {Failure, Nothing(0)} : o = Unref(a, <<>>, r)
    BY <1>4 DEF UpnpCancel
  <2>2. PICK r \in {Failure, Nothing(0)} : o = Unref(a, <<>>, r)
    BY <2>1
  <2>3. r \in AnyResult /\ r.id
    BY ResultTypes
  <2>4. <<>> \in Sayings
    BY SayingTypes
  <2> QED
    BY <2>2, <2>3, <2>4, UpnpUnref
<1> QED
  BY <1>3, <1>4

(* One object of a list is handed over: the last one ends the browse.      *)
LEMMA ListResult ==
  ASSUME NEW l \in Seq(Nat), l # <<>>, NEW i \in Nat
  PROVE  LET r == Result(Len(l) - 1, i, Head(l)) IN
         /\ r \in AnyResult /\ r.id /\ <<r>> \in Sayings
         /\ Len(l) # 1 => Plain(<<r>>)
         /\ Tail(l) \in Seq(Nat)
<1> DEFINE r == Result(Len(l) - 1, i, Head(l))
<1>1. /\ Len(l) \in Nat /\ Len(l) # 0 /\ Head(l) \in Nat /\ Tail(l) \in Seq(Nat)
  BY HeadTailProperties, EmptySeq
<1>2. PICK m \in Nat, h \in Nat : m = Len(l) - 1 /\ h = Head(l)
  BY <1>1
<1>3. /\ Result(m, i, h) \in AnyResult /\ Result(m, i, h).id
      /\ ~Result(m, i, h).err /\ Result(m, i, h).left = m
  BY ResultTypes
<1>4. r = Result(m, i, h)
  BY <1>2
<1>5. m # 0 <=> Len(l) # 1
  BY <1>1, <1>2
<1> HIDE DEF r
<1>6. r \in AnyResult /\ r.id /\ (Len(l) # 1 => ~Ending(r))
  BY <1>3, <1>4, <1>5 DEF Ending
<1>7. <<r>> \in Sayings /\ (~Ending(r) => Plain(<<r>>))
  BY <1>6, SayingTypes
<1> QED
  BY <1>1, <1>6, <1>7 DEF r

IradioSpeaks(b) == b.idle /\ ~b.free_req

LEMMA IradioTypes ==
  ASSUME NEW b \in IradioOp
  PROVE  /\ b.list \in Seq(Nat) /\ b.skip \in Nat /\ b.count \in Nat /\ b.next \in Nat
         /\ \A l \in Seq(Nat), n \in Nat :
              /\ [b EXCEPT !.skip = 0, !.count = n, !.list = l] \in IradioOp
              /\ [b EXCEPT !.skip = 0, !.count = n, !.list = l].idle = b.idle
         /\ \A l \in Seq(Nat), f \in BOOLEAN :
              LET u == [b EXCEPT !.list = l, !.next = @ + 1, !.free_req = f] IN
              u \in IradioOp /\ (f => ~IradioSpeaks(u))
         /\ LET u == [b EXCEPT !.next = @ + 1, !.free_req = TRUE] IN
            u \in IradioOp /\ ~IradioSpeaks(u)
         /\ LET u == [b EXCEPT !.free_req = TRUE] IN
            u \in IradioOp /\ ~IradioSpeaks(u)
<1>1. b.list \in Seq(Nat) /\ b.skip \in Nat /\ b.count \in Nat /\ b.next \in Nat
  BY DEF IradioOp
<1>2. PICK k \in Nat : k = b.next + 1
  BY <1>1
<1>3. \A l \in Seq(Nat), n \in Nat :
        /\ [b EXCEPT !.skip = 0, !.count = n, !.list = l] \in IradioOp
        /\ [b EXCEPT !.skip = 0, !.count = n, !.list = l].idle = b.idle
  BY DEF IradioOp
<1>4. \A l \in Seq(Nat), f \in BOOLEAN :
        LET u == [b EXCEPT !.list = l, !.next = k, !.free_req = f] IN
        u \in IradioOp /\ (f => ~IradioSpeaks(u))
  BY DEF IradioOp, IradioSpeaks
<1>5. LET u == [b EXCEPT !.next = k, !.free_req = TRUE] IN
      u \in IradioOp /\ ~IradioSpeaks(u)
  BY DEF IradioOp, IradioSpeaks
<1>6. LET u == [b EXCEPT !.free_req = TRUE] IN u \in IradioOp /\ ~IradioSpeaks(u)
  BY DEF IradioOp, IradioSpeaks
<1> QED
  BY <1>1, <1>2, <1>3, <1>4, <1>5, <1>6

LEMMA TrimmedType == ASSUME NEW b \in IradioOp
                     PROVE  Trimmed(b) \in IradioOp /\ Trimmed(b).idle = b.idle
<1>1. b.list \in Seq(Nat) /\ b.skip \in Nat /\ b.count \in Nat
  BY DEF IradioOp
<1> DEFINE l == SubSeq(b.list, b.skip + 1, Len(b.list))
           m == SubSeq(l, 1, b.count)
           n == IF Len(l) > b.count THEN 0 ELSE b.count
           k == IF b.count # 0 /\ Len(l) > b.count THEN m ELSE l
<1>2. l \in Seq(Nat)
  BY <1>1, SubSeqProperties
<1>3. Len(l) > b.count => m \in Seq(Nat)
  <2>1. Len(l) \in Nat
    BY <1>2
  <2> HIDE DEF l
  <2>2. \A i \in 1 .. b.count : Len(l) > b.count => l[i] \in Nat
    BY <1>1, <1>2, <2>1, ElementOfSeq
  <2> QED
    BY <1>1, <1>2, <2>1, <2>2
<1>4. k \in Seq(Nat) /\ n \in Nat
  BY <1>1, <1>2, <1>3
<1>5. Trimmed(b) = [b EXCEPT !.skip = 0, !.count = n, !.list = k]
  BY DEF Trimmed
<1>6. PICK k1 \in Seq(Nat), n1 \in Nat : k1 = k /\ n1 = n
  BY <1>4
<1>7. Trimmed(b) = [b EXCEPT !.skip = 0, !.count = n1, !.list = k1]
  BY <1>5, <1>6
<1> HIDE DEF k, n
<1>8. /\ [b EXCEPT !.skip = 0, !.count = n1, !.list = k1] \in IradioOp
      /\ [b EXCEPT !.skip = 0, !.count = n1, !.list = k1].idle = b.idle
  BY IradioTypes
<1> QED
  BY <1>7, <1>8

LEMMA IradioSays ==
  ASSUME NEW b \in IradioOp, NEW o \in IradioSteps(b) \cup {IradioCancel(b)}
  PROVE  /\ o.op \in IradioOp \cup {Over} /\ o.says \in Sayings
         /\ Plain(o.says) \/ o.op = Over \/ ~IradioSpeaks(o.op)
         /\ ~IradioSpeaks(b) => o.says = <<>> /\ (o.op = Over \/ ~IradioSpeaks(o.op))
         /\ o = IradioCancel(b) => o.says = <<>> /\ ~IradioSpeaks(o.op)
<1>1. IradioCancel(b).says = <<>> /\ IradioCancel(b).op \in IradioOp
      /\ ~IradioSpeaks(IradioCancel(b).op)
  BY DEF IradioCancel, Outcome, IradioOp, IradioSpeaks
<1>2. CASE o = IradioCancel(b)
  BY <1>1, <1>2, SayingTypes
<1>3. CASE o # IradioCancel(b)
  <2>1. b.idle /\ o \in IradioSteps(b)
    BY <1>3 DEF IradioSteps
  <2>2. CASE b.free_req
    <3>1. o = Outcome(Over, <<>>)
      BY <2>1, <2>2 DEF IradioSteps
    <3> QED
      BY <1>3, <3>1, SayingTypes DEF Outcome
  <2>3. CASE ~b.free_req /\ b.skip # 0 /\ b.skip >= Len(b.list)
    <3>1. o = Outcome([b EXCEPT !.free_req = TRUE], <<Failure>>)
      BY <2>1, <2>3 DEF IradioSteps
    <3>2. [b EXCEPT !.free_req = TRUE] \in IradioOp
          /\ ~IradioSpeaks([b EXCEPT !.free_req = TRUE])
      BY DEF IradioOp, IradioSpeaks
    <3> QED
      BY <1>3, <2>1, <2>3, <3>1, <3>2, SayingTypes, ResultTypes DEF Outcome, IradioSpeaks
  <2>4. CASE ~b.free_req /\ ~(b.skip # 0 /\ b.skip >= Len(b.list))
    <3> DEFINE t == Trimmed(b)
    <3>1. o = Emitted(t) /\ IradioSpeaks(b)
      BY <2>1, <2>4 DEF IradioSteps, IradioSpeaks
    <3>2. t \in IradioOp /\ t.next \in Nat /\ t.list \in Seq(Nat)
      BY TrimmedType DEF IradioOp
    <3> HIDE DEF t
    <3>3. CASE t.list = <<>>
      <4> DEFINE u == [t EXCEPT !.next = @ + 1, !.free_req = TRUE]
      <4>1. o = Outcome(u, <<Nothing(t.next)>>)
        BY <3>1, <3>3 DEF Emitted
      <4>2. u \in IradioOp /\ ~IradioSpeaks(u)
        BY <3>2, IradioTypes
      <4> QED
        BY <1>3, <3>1, <3>2, <4>1, <4>2, SayingTypes, ResultTypes DEF Outcome
    <3>4. CASE t.list # <<>>
      <4> DEFINE n == Len(t.list)
                 last == n = 1
                 u == [t EXCEPT !.list = Tail(@), !.next = @ + 1, !.free_req = last]
                 r == Result(n - 1, t.next, Head(t.list))
      <4>1. o = Outcome(u, <<r>>)
        BY <3>1, <3>4 DEF Emitted
      <4>2. /\ r \in AnyResult /\ r.id /\ <<r>> \in Sayings /\ Tail(t.list) \in Seq(Nat)
            /\ ~last => Plain(<<r>>)
        BY <3>2, <3>4, ListResult
      <4>3. u \in IradioOp /\ (last => ~IradioSpeaks(u))
        <5>1. PICK l \in Seq(Nat), f \in BOOLEAN : l = Tail(t.list) /\ f = last
          BY <4>2
        <5>2. u = [t EXCEPT !.list = l, !.next = @ + 1, !.free_req = f]
          BY <5>1
        <5> QED
          BY <3>2, <5>1, <5>2, IradioTypes
      <4> HIDE DEF r, u, last
      <4>4. o.op = u /\ o.says = <<r>>
        BY <4>1 DEF Outcome
      <4> QED
        BY <1>3, <3>1, <4>2, <4>3, <4>4
    <3> QED
      BY <3>3, <3>4
  <2> QED
    BY <2>2, <2>3, <2>4
<1> QED
  BY <1>2, <1>3

LEMMA WindowType ==
  ASSUME NEW first \in Nat, NEW last \in Nat, NEW skip \in Nat, NEW count \in Nat
  PROVE  LET l == Window(first, last, skip, count) IN
         /\ l \in Seq(Nat) /\ Len(l) \in Nat
         /\ count # 0 => Len(l) <= count
<1> DEFINE from == first + skip
           to == IF count = 0 THEN last ELSE Least(last, from + count - 1)
           n == IF to < from THEN 0 ELSE to - from + 1
           l == Window(first, last, skip, count)
<1>1. from \in Nat /\ from + count - 1 \in Int
  OBVIOUS
<1>2. to \in Int /\ (count # 0 => to <= from + count - 1)
  BY <1>1 DEF Least
<1> HIDE DEF to
<1>3. n \in Nat /\ (count # 0 => n <= count)
  BY <1>1, <1>2
<1>4. l = [i \in 1 .. n |-> from + i - 1]
  BY DEF Window, to
<1> HIDE DEF n
<1>5. \A i \in 1 .. n : from + i - 1 \in Nat
  BY <1>1, <1>3
<1> HIDE DEF from, l
<1>6. l \in Seq(Nat) /\ Len(l) = n
  BY <1>3, <1>4, <1>5
<1> QED
  BY <1>3, <1>6 DEF l

TrackerState == {"query", "videos", "lookup", "durations", "asking", "emit", "stuck"}
TrackerSpeaks(c) == c.st # "stuck" /\ ~c.cancelled

\* c became d, cancelled only if it was
Kept(c, d) == d \in TrackerOp /\ d.cancelled = c.cancelled

LEMMA TrackerTypes ==
  ASSUME NEW c \in TrackerOp
  PROVE  /\ c.ids \in Seq(Nat) /\ c.index \in Nat /\ c.skip \in Nat /\ c.count \in Nat \ {0}
         /\ c.awaited \subseteq Branches /\ c.cancelled \in BOOLEAN /\ Kept(c, c)
BY DEF TrackerOp, Kept

LEMMA TrackerKeeps ==
  ASSUME NEW c \in TrackerOp
  PROVE  /\ \A t \in TrackerState : Kept(c, [c EXCEPT !.st = t])
         /\ \A l \in Seq(Nat) : Kept(c, [c EXCEPT !.ids = l])
         /\ \A n \in Nat : Kept(c, [c EXCEPT !.index = n])
         /\ \A t \in TrackerState, l \in Seq(Nat) : Kept(c, [c EXCEPT !.st = t, !.ids = l])
         /\ \A t \in TrackerState, l \in Seq(Nat), k \in Nat \ {0} :
              Kept(c, [c EXCEPT !.st = t, !.ids = l, !.count = k])
         /\ \A l \in Seq(Nat), n \in Nat : Kept(c, [c EXCEPT !.ids = l, !.index = n])
         /\ \A l \in Seq(Nat), a \in SUBSET Branches :
              Kept(c, [c EXCEPT !.ids = l, !.awaited = a])
<1>1. ASSUME NEW t \in TrackerState, NEW l \in Seq(Nat), NEW n \in Nat,
             NEW k \in Nat \ {0}, NEW a \in SUBSET Branches
      PROVE  /\ Kept(c, [c EXCEPT !.st = t]) /\ Kept(c, [c EXCEPT !.ids = l])
             /\ Kept(c, [c EXCEPT !.index = n]) /\ Kept(c, [c EXCEPT !.st = t, !.ids = l])
             /\ Kept(c, [c EXCEPT !.st = t, !.ids = l, !.count = k])
             /\ Kept(c, [c EXCEPT !.ids = l, !.index = n])
             /\ Kept(c, [c EXCEPT !.ids = l, !.awaited = a])
  BY DEF TrackerOp, Kept, TrackerState
<1>2. "stuck" \in TrackerState /\ <<>> \in Seq(Nat) /\ 1 \in Nat \ {0}
      /\ {} \in SUBSET Branches
  BY DEF TrackerState
<1> QED
  BY <1>1, <1>2, Zenon

LEMMA EmitsType ==
  ASSUME NEW c \in TrackerOp, NEW d, Kept(c, d)
  PROVE  Kept(c, Emits(d))
BY DEF TrackerOp, Kept, Emits

\* what a step or a start of an operation c may come to
TrackerFine(c, o) ==
  /\ o.says \in Sayings
  /\ o.op = Over \/ Kept(c, o.op)
  /\ Plain(o.says) \/ o.op = Over \/ o.op.st = "stuck"
  /\ c.cancelled => o.says = <<>>

LEMMA QuietFine ==
  ASSUME NEW c, NEW d, d = Over \/ Kept(c, d)
  PROVE  TrackerFine(c, Outcome(d, <<>>))
BY SayingTypes DEF TrackerFine, Outcome

LEMMA ErredFine == ASSUME NEW c \in TrackerOp PROVE TrackerFine(c, Erred(c))
<1> DEFINE d == [c EXCEPT !.st = "stuck"]
<1>1. Kept(c, d)
  BY TrackerKeeps DEF TrackerState
<1>2. d.st = "stuck"
  BY DEF TrackerOp
<1>3. Erred(c).op = d /\ Erred(c).says = IF c.cancelled THEN <<>> ELSE <<Failure>>
  BY DEF Erred, Outcome
<1> HIDE DEF d
<1>4. Erred(c).says \in Sayings
  BY <1>3, SayingTypes, ResultTypes
<1> QED
  BY <1>1, <1>2, <1>3, <1>4 DEF TrackerFine

LEMMA EmitFine == ASSUME NEW c \in TrackerOp PROVE TrackerFine(c, EmitIdle(c))
<1>1. CASE c.cancelled
  BY <1>1, QuietFine DEF EmitIdle
<1>2. CASE ~c.cancelled /\ c.ids = <<>>
  BY <1>2, SayingTypes, ResultTypes DEF EmitIdle, TrackerFine, Outcome
<1>3. CASE ~c.cancelled /\ c.ids # <<>>
  <2> DEFINE l == Tail(c.ids)
             r == Result(Len(c.ids) - 1, c.index, Head(c.ids))
             d == [c EXCEPT !.ids = Tail(@), !.index = @ + 1]
             e == EmitIdle(c)
  <2>1. c.ids \in Seq(Nat) /\ c.index \in Nat
    BY TrackerTypes
  <2>2. <<r>> \in Sayings /\ (Len(c.ids) # 1 => Plain(<<r>>)) /\ l \in Seq(Nat)
    BY <1>3, <2>1, ListResult
  <2>3. Kept(c, d)
    <3> HIDE DEF l
    <3>1. PICK n \in Nat, l1 \in Seq(Nat) : n = c.index + 1 /\ l1 = l
      <4>1. c.index + 1 \in Nat
        BY <2>1
      <4> QED
        BY <2>2, <4>1
    <3>2. d = [c EXCEPT !.ids = l1, !.index = n]
      BY <3>1 DEF l
    <3> HIDE DEF d
    <3>3. \A l2 \in Seq(Nat), n2 \in Nat : Kept(c, [c EXCEPT !.ids = l2, !.index = n2])
      BY TrackerKeeps, Zenon
    <3> QED
      BY <3>2, <3>3
  <2>4. e.op = (IF Len(c.ids) = 1 THEN Over ELSE d) /\ e.says = <<r>>
    BY <1>3 DEF EmitIdle, Outcome
  <2> HIDE DEF r, d, e
  <2> QED
    BY <1>3, <2>2, <2>3, <2>4 DEF TrackerFine, e
<1> QED
  BY <1>1, <1>2, <1>3

LEMMA QueryFine ==
  ASSUME NEW c \in TrackerOp, NEW stock \in Nat,
         NEW o \in QuerySteps(c, stock) \cup SongsSteps(c, stock) \cup VideosSteps(c, stock)
  PROVE  TrackerFine(c, o)
<1> DEFINE songs == Songs(stock)
           ids == Window(1, stock, c.skip, c.count)
           sung == Window(1, songs, c.skip, c.count)
           seen == Window(songs + 1, stock, c.skip, c.count)
           rest == c.count - Len(sung)
<1>1. c.skip \in Nat /\ c.count \in Nat \ {0} /\ c.ids \in Seq(Nat)
  BY TrackerTypes
<1>2. songs \in Nat /\ songs + 1 \in Nat
  BY DEF Songs
<1> HIDE DEF songs
<1>3. \A first, last \in Nat :
        /\ Window(first, last, c.skip, c.count) \in Seq(Nat)
        /\ Len(Window(first, last, c.skip, c.count)) \in Nat
        /\ Len(Window(first, last, c.skip, c.count)) <= c.count
  BY <1>1, WindowType
<1>4. ids \in Seq(Nat) /\ sung \in Seq(Nat) /\ seen \in Seq(Nat)
  BY <1>2, <1>3
<1>5. c.ids \o seen \in Seq(Nat)
  BY <1>1, <1>4, ConcatProperties
<1>6. rest \in Nat
  <2>1. Len(sung) \in Nat /\ Len(sung) <= c.count
    BY <1>2, <1>3
  <2> HIDE DEF sung
  <2> QED
    BY <1>1, <2>1
<1> HIDE DEF ids, sung, seen, rest
<1>7. /\ \A t \in TrackerState : Kept(c, [c EXCEPT !.st = t])
      /\ \A l \in Seq(Nat) : Kept(c, [c EXCEPT !.ids = l])
      /\ \A t \in TrackerState, l \in Seq(Nat) : Kept(c, [c EXCEPT !.st = t, !.ids = l])
      /\ \A t \in TrackerState, l \in Seq(Nat), k \in Nat \ {0} :
           Kept(c, [c EXCEPT !.st = t, !.ids = l, !.count = k])
  BY TrackerKeeps, Zenon
<1>8. /\ Kept(c, [c EXCEPT !.ids = ids]) /\ Kept(c, [c EXCEPT !.ids = sung])
      /\ Kept(c, [c EXCEPT !.st = "durations", !.ids = ids])
  <2>1. "durations" \in TrackerState
    BY DEF TrackerState
  <2> QED
    BY <1>4, <1>7, <2>1, Zenon
<1>9. /\ Kept(c, Emits([c EXCEPT !.ids = ids])) /\ Kept(c, Emits([c EXCEPT !.ids = sung]))
      /\ Kept(c, [c EXCEPT !.st = "videos"])
      /\ rest # 0 => Kept(c, [c EXCEPT !.st = "videos", !.ids = sung, !.count = rest])
  <2>1. "videos" \in TrackerState /\ (rest # 0 => rest \in Nat \ {0})
    BY <1>6 DEF TrackerState
  <2>2. /\ Kept(c, [c EXCEPT !.st = "videos"])
        /\ rest # 0 => Kept(c, [c EXCEPT !.st = "videos", !.ids = sung, !.count = rest])
    BY <1>4, <1>7, <2>1, Zenon
  <2> QED
    BY <1>8, <2>2, EmitsType, Zenon
<1>10. Kept(c, Emits([c EXCEPT !.ids = @ \o seen]))
  <2>1. Kept(c, [c EXCEPT !.ids = c.ids \o seen])
    BY <1>5, <1>7, Zenon
  <2>2. [c EXCEPT !.ids = @ \o seen] = [c EXCEPT !.ids = c.ids \o seen]
    OBVIOUS
  <2> QED
    BY <2>1, <2>2, EmitsType
<1>11. CASE o \in QuerySteps(c, stock)
  <2>1. o \in {Erred(c), Outcome(Emits([c EXCEPT !.ids = ids]), <<>>),
               Outcome([c EXCEPT !.st = "durations", !.ids = ids], <<>>)}
    BY <1>11 DEF QuerySteps, ids
  <2> QED
    BY <1>8, <1>9, <2>1, ErredFine, QuietFine
<1>12. CASE o \in SongsSteps(c, stock)
  <2>1. \/ o = Outcome([c EXCEPT !.st = "videos"], <<>>)
        \/ o = Outcome(Emits([c EXCEPT !.ids = sung]), <<>>)
        \/ rest # 0 /\ o = Outcome([c EXCEPT !.st = "videos", !.ids = sung, !.count = rest],
                                    <<>>)
    BY <1>12 DEF SongsSteps, sung, rest, songs
  <2> QED
    BY <1>9, <2>1, QuietFine
<1>13. CASE o \in VideosSteps(c, stock)
  <2>1. o \in {Erred(c), Outcome(Emits([c EXCEPT !.ids = @ \o seen]), <<>>)}
    BY <1>13 DEF VideosSteps, seen, songs
  <2> QED
    BY <1>10, <2>1, ErredFine, QuietFine
<1> QED
  BY <1>11, <1>12, <1>13

LEMMA StepsFine ==
  ASSUME NEW c \in TrackerOp, NEW stock \in Nat, NEW o \in TrackerSteps(c, stock)
  PROVE  TrackerFine(c, o) /\ c.st # "stuck"
<1>1. c.st \in TrackerState
  BY DEF TrackerOp, TrackerState
<1>2. \/ c.st = "query" /\ o \in BranchSteps(c)
      \/ c.st \in {"query", "videos"}
         /\ o \in QuerySteps(c, stock) \cup SongsSteps(c, stock) \cup VideosSteps(c, stock)
      \/ c.st = "lookup" /\ o = Outcome(Emits(c), <<>>)
      \/ c.st \in {"durations", "asking"} /\ o \in DurationSteps(c)
      \/ c.st = "emit" /\ o = EmitIdle(c)
  BY <1>1 DEF TrackerSteps, TrackerState
<1>3. ASSUME o \in BranchSteps(c) PROVE TrackerFine(c, o)
  <2>1. PICK b \in c.awaited, ok \in BOOLEAN : o = Consolidated(c, b, ok)
    BY <1>3 DEF BranchSteps
  <2> DEFINE ids == IF ok THEN <<b>> \o c.ids ELSE c.ids
             a == c.awaited \ {b}
  <2>2. ids \in Seq(Nat) /\ a \in SUBSET Branches
    <3>1. c.ids \in Seq(Nat) /\ c.awaited \subseteq Branches
      BY TrackerTypes
    <3>2a. b \in Nat
      BY <3>1 DEF Branches
    <3>2. <<b>> \in Seq(Nat)
      BY <3>2a
    <3> QED
      BY <3>1, <3>2, ConcatProperties
  <2> HIDE DEF ids
  <2>3. Kept(c, [c EXCEPT !.ids = ids])
    BY <2>2, TrackerKeeps, Zenon
  <2>4. Kept(c, [c EXCEPT !.ids = ids, !.awaited = a])
    BY <2>2, TrackerKeeps, Zenon
  <2>5. o \in {Outcome(Emits([c EXCEPT !.ids = ids]), <<>>),
               Outcome([c EXCEPT !.ids = ids, !.awaited = a], <<>>)}
    BY <2>1 DEF Consolidated, ids
  <2> QED
    BY <2>3, <2>4, <2>5, EmitsType, QuietFine
<1>4. ASSUME o \in DurationSteps(c) PROVE TrackerFine(c, o)
  <2> DEFINE next == [c EXCEPT !.index = @ + 1]
  <2>1. Kept(c, next)
    <3>1. PICK n \in Nat : n = c.index + 1
      <4>1. c.index \in Nat
        BY TrackerTypes
      <4> QED
        BY <4>1
    <3>2. next = [c EXCEPT !.index = n]
      BY <3>1
    <3> HIDE DEF next
    <3> QED
      BY <3>2, TrackerKeeps
  <2>2. Kept(c, [next EXCEPT !.st = "durations"])
    <3>1. next \in TrackerOp /\ next.cancelled = c.cancelled
      BY <2>1 DEF Kept
    <3> HIDE DEF next
    <3>2. Kept(next, [next EXCEPT !.st = "durations"])
      <4>1. "durations" \in TrackerState
        BY DEF TrackerState
      <4> QED
        BY <3>1, <4>1, TrackerKeeps, Zenon
    <3> QED
      BY <3>1, <3>2 DEF Kept
  <2>3. Kept(c, Emits(c)) /\ Kept(c, [c EXCEPT !.st = "asking"])
    <3>1. "asking" \in TrackerState
      BY DEF TrackerState
    <3> QED
      BY <3>1, TrackerTypes, TrackerKeeps, EmitsType, Zenon
  <2>4. o \in {Outcome([next EXCEPT !.st = "durations"], <<>>), Outcome(Emits(c), <<>>),
               Outcome(next, <<>>), Outcome([c EXCEPT !.st = "asking"], <<>>)}
    BY <1>4 DEF DurationSteps
  <2> HIDE DEF next
  <2> QED
    BY <2>1, <2>2, <2>3, <2>4, QuietFine
<1>5. Kept(c, Emits(c))
  BY TrackerTypes, EmitsType
<1> QED
  BY <1>2, <1>3, <1>4, <1>5, QueryFine, EmitFine, QuietFine

LEMMA TrackerSays ==
  ASSUME NEW c \in TrackerOp, NEW stock \in Nat,
         NEW o \in TrackerSteps(c, stock) \cup {TrackerCancel(c)}
  PROVE  /\ o.op \in TrackerOp \cup {Over} /\ o.says \in Sayings
         /\ Plain(o.says) \/ o.op = Over \/ ~TrackerSpeaks(o.op)
         /\ ~TrackerSpeaks(c) => o.says = <<>> /\ (o.op = Over \/ ~TrackerSpeaks(o.op))
         /\ o = TrackerCancel(c) => o.says = <<>> /\ ~TrackerSpeaks(o.op)
<1>1. /\ TrackerCancel(c).says = <<>> /\ TrackerCancel(c).op \in TrackerOp
      /\ ~TrackerSpeaks(TrackerCancel(c).op)
  BY DEF TrackerCancel, Outcome, TrackerOp, TrackerSpeaks
<1>2. CASE o = TrackerCancel(c)
  BY <1>1, <1>2, SayingTypes
<1>3. CASE o # TrackerCancel(c)
  <2>1. TrackerFine(c, o) /\ c.st # "stuck"
    BY <1>3, StepsFine
  <2> QED
    BY <1>3, <2>1 DEF TrackerFine, Kept, TrackerSpeaks
<1> QED
  BY <1>2, <1>3

(* What a browse that the source accepts begins with.                      *)
LEMMA UpnpStarts == ASSUME NEW req \in Criteria
                    PROVE  UpnpStart(req).op \in UpnpOp /\ UpnpStart(req).says = <<>>
BY DEF UpnpStart, Outcome, UpnpOp, Criteria

LEMMA IradioStarts ==
  ASSUME NEW req \in Criteria, NEW stock \in Nat
  PROVE  IradioStart(req, stock).op \in IradioOp /\ IradioStart(req, stock).says = <<>>
<1> DEFINE l == [i \in 1 .. stock |-> i]
<1>1. l \in Seq(Nat)
  OBVIOUS
<1> HIDE DEF l
<1>2. IradioStart(req, stock) =
        Outcome([list |-> l, skip |-> req.skip, count |-> req.count, next |-> 0,
                 free_req |-> FALSE, idle |-> TRUE], <<>>)
  BY DEF IradioStart, l
<1> QED
  BY <1>1, <1>2 DEF Outcome, IradioOp, Criteria

LEMMA TrackerStarts ==
  ASSUME NEW what \in Category, NEW req \in Criteria, NEW stock \in Nat,
         NEW parses \in BOOLEAN, NEW local \in BOOLEAN
  PROVE  LET o == TrackerStart(what, req, stock, parses, local) IN
         /\ o.op \in TrackerOp
         /\ \/ o.says = <<>>
            \/ o.says = <<Refusal>> /\ ~TrackerSpeaks(o.op)
<1> DEFINE n == IF req.count = 0 THEN Unlimited ELSE req.count
           a == IF what = "branches" THEN Branches ELSE {}
           c == [what |-> what, skip |-> req.skip, count |-> n, st |-> "query",
                 ids |-> <<>>, index |-> 0, cancelled |-> FALSE, awaited |-> a]
           w == Window(1, stock, c.skip, c.count)
           o == TrackerStart(what, req, stock, parses, local)
<1>1. n \in Nat \ {0} /\ a \in SUBSET Branches /\ req.skip \in Nat
  BY ItemsAssumption DEF Unlimited, Criteria
<1> HIDE DEF n, a
<1>2. c \in TrackerOp
  BY <1>1 DEF TrackerOp
<1>3. o = IF what = "entries" THEN EntriesStart(c, stock, parses, local) ELSE Outcome(c, <<>>)
  BY Zenon DEF TrackerStart, n, a
<1> HIDE DEF c, o
<1>4. w \in Seq(Nat)
  BY <1>2, TrackerTypes, WindowType
<1> HIDE DEF w
<1>5. Reverse(w) \in Seq(Nat)
  <2>1. Len(w) \in Nat /\ \A i \in 1 .. Len(w) : w[i] \in Nat
    BY <1>4
  <2>2. \A i \in 1 .. Len(w) : Len(w) - i + 1 \in 1 .. Len(w)
    BY <2>1
  <2>3. \A i \in 1 .. Len(w) : w[Len(w) - i + 1] \in Nat
    BY <2>1, <2>2
  <2> QED
    BY <2>1, <2>3 DEF Reverse
<1>6. "lookup" \in TrackerState /\ "stuck" \in TrackerState
  BY DEF TrackerState
<1>7. /\ Kept(c, [c EXCEPT !.st = "stuck"]) /\ Kept(c, [c EXCEPT !.st = "lookup", !.ids = w])
      /\ Kept(c, [c EXCEPT !.ids = Reverse(w)])
  BY <1>2, <1>4, <1>5, <1>6, TrackerKeeps, Zenon
<1>8. Kept(c, Emits([c EXCEPT !.ids = Reverse(w)]))
  BY <1>2, <1>7, EmitsType, Zenon
<1>9. ~TrackerSpeaks([c EXCEPT !.st = "stuck"])
  BY <1>2 DEF TrackerOp, TrackerSpeaks
<1>10. \/ o = Outcome(c, <<>>)
       \/ o = Outcome([c EXCEPT !.st = "stuck"], <<Refusal>>)
       \/ o = Outcome([c EXCEPT !.st = "lookup", !.ids = w], <<>>)
       \/ o = Outcome(Emits([c EXCEPT !.ids = Reverse(w)]), <<>>)
  BY <1>3 DEF EntriesStart, w
<1> QED
  BY <1>2, <1>7, <1>8, <1>9, <1>10 DEF Kept, Outcome, o

-----------------------------------------------------------------------------
(* The source of the behaviour at hand.                                    *)

Op == CASE plan.source = "upnp" -> UpnpOp
        [] plan.source = "iradio" -> IradioOp
        [] plan.source = "tracker" -> TrackerOp

LEMMA PlanTypes ==
  ASSUME plan \in Scenarios
  PROVE  /\ plan.source \in {"upnp", "iradio", "tracker"} /\ plan.stock \in Nat
         /\ plan.what \in Category /\ plan.requests \subseteq Criteria
         /\ plan.sessions \subseteq Session
         /\ "leaves" \in plan.faults => plan.source = "upnp"
<1>1. plan.stock \in 0 .. MaxItems
  BY ScenariosAssumption
<1>2. plan.stock \in Nat
  BY <1>1, ItemsAssumption
<1> QED
  BY <1>2, ScenariosAssumption

LEMMA StepSays ==
  ASSUME plan \in Scenarios, NEW op \in Op, op # Over, NEW o \in Steps(op)
  PROVE  /\ o.op \in Op \cup {Over} /\ o.says \in Sayings
         /\ Plain(o.says) \/ ~Speaks(o.op)
         /\ ~Speaks(op) => o.says = <<>> /\ ~Speaks(o.op)
<1>1. CASE plan.source = "upnp"
  <2>1. op \in UpnpOp /\ o \in UpnpSteps(op, plan.stock) /\ Op = UpnpOp
    BY <1>1 DEF Op, Steps
  <2>2. Speaks(op) /\ (Speaks(o.op) <=> o.op # Over)
    BY <1>1 DEF Speaks
  <2> QED
    BY <2>1, <2>2, PlanTypes, UpnpSays
<1>2. CASE plan.source = "iradio"
  <2>1. op \in IradioOp /\ o \in IradioSteps(op) /\ Op = IradioOp
    BY <1>2 DEF Op, Steps
  <2>2. /\ Speaks(op) <=> IradioSpeaks(op)
        /\ Speaks(o.op) <=> o.op # Over /\ IradioSpeaks(o.op)
    BY <1>2 DEF Speaks, IradioSpeaks
  <2> QED
    BY <2>1, <2>2, IradioSays
<1>3. CASE plan.source = "tracker"
  <2>1. op \in TrackerOp /\ o \in TrackerSteps(op, plan.stock) /\ Op = TrackerOp
    BY <1>3 DEF Op, Steps
  <2>2. /\ Speaks(op) <=> TrackerSpeaks(op)
        /\ Speaks(o.op) <=> o.op # Over /\ TrackerSpeaks(o.op)
    BY <1>3 DEF Speaks, TrackerSpeaks
  <2> QED
    BY <2>1, <2>2, PlanTypes, TrackerSays
<1> QED
  BY <1>1, <1>2, <1>3, PlanTypes

LEMMA CancelSays ==
  ASSUME plan \in Scenarios, NEW op \in Op, op # Over
  PROVE  /\ Cancelled(op).op \in Op \cup {Over} /\ Cancelled(op).says \in Sayings
         /\ ~Speaks(Cancelled(op).op)
         /\ ~Speaks(op) => Cancelled(op).says = <<>>
<1>1. CASE plan.source = "upnp"
  <2>1. op \in UpnpOp /\ Cancelled(op) = UpnpCancel(op, FALSE) /\ Op = UpnpOp
    BY <1>1 DEF Op, Cancelled
  <2>2. Speaks(op) /\ UpnpCancel(op, FALSE).op = Over /\ ~Speaks(Over)
    BY <1>1 DEF Speaks, UpnpCancel, Unref, Outcome
  <2> QED
    BY <2>1, <2>2, PlanTypes, UpnpSays
<1>2. CASE plan.source = "iradio"
  <2>1. op \in IradioOp /\ Cancelled(op) = IradioCancel(op) /\ Op = IradioOp
    BY <1>2 DEF Op, Cancelled
  <2>2. \A p : Speaks(p) <=> p # Over /\ IradioSpeaks(p)
    BY <1>2 DEF Speaks, IradioSpeaks
  <2> QED
    BY <2>1, <2>2, IradioSays
<1>3. CASE plan.source = "tracker"
  <2>1. op \in TrackerOp /\ Cancelled(op) = TrackerCancel(op) /\ Op = TrackerOp
    BY <1>3 DEF Op, Cancelled
  <2>2. \A p : Speaks(p) <=> p # Over /\ TrackerSpeaks(p)
    BY <1>3 DEF Speaks, TrackerSpeaks
  <2> QED
    BY <2>1, <2>2, PlanTypes, TrackerSays
<1> QED
  BY <1>1, <1>2, <1>3, PlanTypes

LEMMA StartSays ==
  ASSUME plan \in Scenarios, NEW req \in Criteria, NEW o \in Starts(req)
  PROVE  /\ o.op \in Op \cup {Over}
         /\ o.says = <<>> \/ (o.says = <<Refusal>> /\ ~Speaks(o.op))
<1>1. CASE req.bad
  <2>1. o = Outcome(Over, <<Refusal>>) /\ ~Speaks(Over)
    BY <1>1 DEF Starts, Speaks
  <2> QED
    BY <2>1 DEF Outcome
<1>2. CASE ~req.bad /\ plan.source = "upnp"
  BY <1>2, UpnpStarts DEF Starts, Op
<1>3. CASE ~req.bad /\ plan.source = "iradio"
  <2>1. o = IradioStart(req, plan.stock) /\ Op = IradioOp
    BY <1>3 DEF Starts, Op
  <2> QED
    BY <2>1, PlanTypes, IradioStarts
<1>4. CASE ~req.bad /\ plan.source = "tracker"
  <2>1. PICK parses \in BOOLEAN, local \in BOOLEAN :
          o = TrackerStart(plan.what, req, plan.stock, parses, local)
    BY <1>4 DEF Starts
  <2>2. Op = TrackerOp /\ (TrackerSpeaks(o.op) \/ ~Speaks(o.op))
    BY <1>4 DEF Op, Speaks, TrackerSpeaks
  <2> QED
    BY <2>1, <2>2, PlanTypes, TrackerStarts
<1> QED
  BY <1>1, <1>2, <1>3, <1>4, PlanTypes

-----------------------------------------------------------------------------
(* The inductive invariant of HasListener.  A request is removed by a      *)
(* cancel, after which its operation is silent, and by the idle that the   *)
(* last result schedules, with which its operation falls silent; and no    *)
(* idle left over from before can remove the request of a browse that is   *)
(* about to begin, for nothing was done for its session yet.               *)
Untouched(s) == s \notin idles /\ work[s] = Over
Browses(i, s) == calls[i].to = "browse" /\ calls[i].s = s

Typed ==
  /\ plan \in Scenarios /\ Wrapper \in WrapperState
  /\ work \in [Session -> Op \cup {Over}]
  /\ calls \in Seq(ClientCall) /\ asked \in [Session -> Criteria \cup {None}]
Silenced == \A s \in idles : ~Speaks(work[s])
BrowsedOnce == \A s \in Session :
  /\ asked[s] = None => Untouched(s) /\ \A i \in DOMAIN calls : ~Browses(i, s)
  /\ \A i \in DOMAIN calls : Browses(i, s) => Untouched(s)
  /\ \A i, j \in DOMAIN calls : Browses(i, s) /\ Browses(j, s) => i = j
Listened == Typed /\ HasListener /\ Silenced /\ BrowsedOnce

LEMMA HeardSays ==
  ASSUME NEW w \in WrapperState, NEW s \in Session, NEW says \in Sayings,
         says # <<>> => w.requests[s] # NoRequest
  PROVE  LET x == Heard(w, s, says) IN
         /\ x \in WrapperState /\ x.idles \in {w.idles, w.idles \cup {s}}
         /\ Plain(says) => x.idles = w.idles
         /\ \A t \in Session \ {s} : x.requests[t] = w.requests[t]
         /\ says = <<>> => x = w
         /\ w.requests[s] # NoRequest => x.requests[s] # NoRequest
<1>1. CASE says = <<>>
  BY <1>1, HeardNothing
<1>2. CASE says # <<>>
  <2>1. w.requests[s] \in Request
    BY <1>2, Shape
  <2>2. says \in Seq(AnyResult) /\ \A i \in DOMAIN says : says[i].id
    BY DEF Sayings
  <2>3. HeardOn(w, Heard(w, s, says), s)
        /\ (Plain(says) => Heard(w, s, says).idles = w.idles)
    BY <2>1, <2>2, HeardAll DEF Plain
  <2>4. Heard(w, s, says).requests[s] # NoRequest
    BY <2>3, RequestTypes DEF HeardOn
  <2> QED
    BY <1>2, <2>3, <2>4 DEF HeardOn
<1> QED
  BY <1>1, <1>2

LEMMA HeardRefusal ==
  ASSUME NEW w \in WrapperState, NEW s \in Session, w.requests[s] \in Request
  PROVE  LET x == Heard(w, s, <<Refusal>>) IN
         /\ x \in WrapperState /\ x.idles = w.idles /\ x.requests[s] = NoRequest
         /\ x.bus = Append(w.bus, Reply(s, "browse", FALSE))
         /\ \A t \in Session \ {s} : x.requests[t] = w.requests[t]
<1> DEFINE says == <<Refusal>>
           e == emit_browse_result(w, s, Refusal)
<1>1. Len(says) = 1 /\ 1 \in Nat /\ says[1] = Refusal
  OBVIOUS
<1> HIDE DEF says
<1>2. PICK h : Hearing(w, s, says, 1, h) /\ Heard(w, s, says) = h[1]
  BY <1>1, HeardThrough
<1>3. Heard(w, s, says) = e
  <2>1. 0 \in 0 .. 1 /\ 1 \in 0 .. 1 /\ 1 - 1 = 0
    OBVIOUS
  <2>2. h[1] = emit_browse_result(h[1 - 1], s, says[1]) /\ h[0] = w
    BY <1>2, <2>1 DEF Hearing
  <2> QED
    BY <1>1, <1>2, <2>1, <2>2
<1>4. Becoming(w, e, s, NoRequest, w.idles, Append(w.bus, Reply(s, "browse", FALSE)))
  BY HeardOne, ResultTypes
<1> QED
  BY <1>3, <1>4 DEF Becoming, says

LEMMA WrapperTypes ==
  /\ Wrapper.requests = requests /\ Wrapper.idles = idles /\ Wrapper.bus = bus
  /\ Wrapper \in WrapperState <=>
       /\ requests \in [Session -> Request \cup {NoRequest}]
       /\ idles \in SUBSET Session /\ bus \in Seq(Message)
BY DEF Wrapper, WrapperState

LEMMA Became ==
  ASSUME NEW w \in WrapperState, Becomes(w)
  PROVE  /\ Wrapper' \in WrapperState
         /\ requests' = w.requests /\ idles' = w.idles /\ bus' = w.bus
BY DEF Wrapper, WrapperState, Becomes

LEMMA OverSilent == ~Speaks(Over)
BY DEF Speaks

(* The calls on their way: the first one is taken, or another one added.   *)
LEMMA CallTaken ==
  ASSUME calls \in Seq(ClientCall), calls # <<>>, calls' = Tail(calls)
  PROVE  /\ calls' \in Seq(ClientCall)
         /\ \A i \in DOMAIN calls' : i + 1 \in DOMAIN calls /\ calls'[i] = calls[i + 1]
         /\ 1 \in DOMAIN calls /\ calls[1] = Head(calls) /\ Head(calls) \in ClientCall
<1>1. /\ Tail(calls) \in Seq(ClientCall) /\ Len(Tail(calls)) = Len(calls) - 1
      /\ \A i \in 1 .. Len(Tail(calls)) : Tail(calls)[i] = calls[i + 1]
      /\ Head(calls) = calls[1] /\ Head(calls) \in ClientCall
  BY HeadTailProperties
<1>2. Len(calls) \in Nat /\ Len(calls) # 0 /\ DOMAIN calls = 1 .. Len(calls)
      /\ DOMAIN Tail(calls) = 1 .. Len(Tail(calls))
  BY <1>1, EmptySeq
<1>3. 1 \in DOMAIN calls /\ \A i \in 1 .. Len(calls) - 1 : i + 1 \in 1 .. Len(calls)
  BY <1>2
<1> QED
  BY <1>1, <1>2, <1>3

LEMMA CallAdded ==
  ASSUME calls \in Seq(ClientCall), NEW c \in ClientCall, calls' = Append(calls, c)
  PROVE  /\ calls' \in Seq(ClientCall)
         /\ \E n \in DOMAIN calls' :
              /\ calls'[n] = c
              /\ \A i \in DOMAIN calls' : i # n => i \in DOMAIN calls /\ calls'[i] = calls[i]
<1>1. /\ calls' \in Seq(ClientCall) /\ Len(calls') = Len(calls) + 1
      /\ \A i \in 1 .. Len(calls) : calls'[i] = calls[i]
      /\ calls'[Len(calls) + 1] = c
  BY AppendProperties
<1>2. Len(calls) \in Nat /\ DOMAIN calls = 1 .. Len(calls) /\ DOMAIN calls' = 1 .. Len(calls) + 1
  BY <1>1
<1>3. PICK n \in DOMAIN calls' : n = Len(calls) + 1
  BY <1>2
<1>4. \A i \in DOMAIN calls' : i # n => i \in DOMAIN calls
  BY <1>2, <1>3
<1> QED
  BY <1>1, <1>2, <1>3, <1>4

(* No call was added, so what is said of the browses on their way stays.   *)
LEMMA BrowsesLeft ==
  ASSUME calls \in Seq(ClientCall),
         calls' = calls \/ (calls # <<>> /\ calls' = Tail(calls)), BrowsedOnce,
         NEW t \in Session
  PROVE  /\ calls' \in Seq(ClientCall)
         /\ \A i \in DOMAIN calls' : Browses(i, t)' => \E j \in DOMAIN calls : Browses(j, t)
         /\ \A i, j \in DOMAIN calls' : Browses(i, t)' /\ Browses(j, t)' => i = j
<1>1. CASE calls' = calls
  BY <1>1 DEF BrowsedOnce, Browses
<1>2. CASE calls # <<>> /\ calls' = Tail(calls)
  <2>1. /\ calls' \in Seq(ClientCall)
        /\ \A i \in DOMAIN calls' : i + 1 \in DOMAIN calls /\ calls'[i] = calls[i + 1]
    BY <1>2, CallTaken
  <2>2. \A i \in DOMAIN calls' : i \in Nat
    BY <2>1
  <2>3. \A i \in DOMAIN calls' : Browses(i, t)' => Browses(i + 1, t)
    BY <2>1 DEF Browses
  <2>4. \A i, j \in DOMAIN calls' : Browses(i, t)' /\ Browses(j, t)' => i + 1 = j + 1
    BY <2>1, <2>3 DEF BrowsedOnce
  <2>5. \A i, j \in DOMAIN calls' : Browses(i, t)' /\ Browses(j, t)' => i = j
    BY <2>2, <2>4
  <2> QED
    BY <2>1, <2>3, <2>5
<1> QED
  BY <1>1, <1>2

(* What the daemon does for a session keeps the invariant.                 *)
LEMMA Touched ==
  ASSUME Listened, NEW s \in Session, NEW op \in Op \cup {Over},
         plan' = plan, asked' = asked, work' = [work EXCEPT ![s] = op],
         calls' = calls \/ (calls # <<>> /\ calls' = Tail(calls)),
         Wrapper' \in WrapperState, idles' \subseteq idles \cup {s},
         \A t \in Session \ {s} : requests'[t] = requests[t],
         Speaks(op) => requests'[s] # NoRequest /\ s \notin idles',
         \/ asked[s] # None /\ \A i \in DOMAIN calls' : ~Browses(i, s)'
         \/ idles' \subseteq idles /\ op = Over
  PROVE  Listened'
<1>1. Typed /\ HasListener /\ Silenced /\ BrowsedOnce
  BY DEF Listened
<1>2. work \in [Session -> Op \cup {Over}] /\ calls \in Seq(ClientCall)
  BY <1>1 DEF Typed
<1>3. work'[s] = op /\ \A t \in Session \ {s} : work'[t] = work[t]
  BY <1>2
<1>4. /\ \A t \in Session \ {s} : Speaks(work[t])' <=> Speaks(work[t])
      /\ Speaks(work[s])' <=> Speaks(op)
  BY <1>3 DEF Speaks
<1>5. Typed'
  <2>1. calls' \in Seq(ClientCall)
    BY <1>1, <1>2, BrowsesLeft
  <2>2. Op' = Op /\ work' \in [Session -> Op \cup {Over}]
    BY <1>2 DEF Op
  <2> QED
    BY <1>1, <2>1, <2>2 DEF Typed
<1>6. idles' \subseteq Session
  BY WrapperTypes DEF WrapperState, Wrapper
<1>7. HasListener' /\ Silenced'
  BY <1>1, <1>4, <1>6 DEF HasListener, Silenced
<1>8. ASSUME NEW t \in Session
      PROVE  /\ asked'[t] = None => Untouched(t)' /\ \A i \in DOMAIN calls' : ~Browses(i, t)'
             /\ \A i \in DOMAIN calls' : Browses(i, t)' => Untouched(t)'
             /\ \A i, j \in DOMAIN calls' : Browses(i, t)' /\ Browses(j, t)' => i = j
  <2>1. /\ \A i \in DOMAIN calls' : Browses(i, t)' => \E j \in DOMAIN calls : Browses(j, t)
        /\ \A i, j \in DOMAIN calls' : Browses(i, t)' /\ Browses(j, t)' => i = j
    BY <1>1, <1>2, BrowsesLeft
  <2>2. /\ asked[t] = None => Untouched(t) /\ \A i \in DOMAIN calls : ~Browses(i, t)
        /\ \A i \in DOMAIN calls : Browses(i, t) => Untouched(t)
    BY <1>1 DEF BrowsedOnce
  <2>3. CASE t # s
    <3>1. Untouched(t) => Untouched(t)'
      BY <1>3, <2>3 DEF Untouched
    <3> QED
      BY <2>1, <2>2, <3>1
  <2>4. CASE t = s /\ asked[s] # None /\ \A i \in DOMAIN calls' : ~Browses(i, s)'
    BY <2>1, <2>4
  <2>5. CASE t = s /\ idles' \subseteq idles /\ op = Over
    <3>1. Untouched(t) => Untouched(t)'
      BY <1>3, <2>5 DEF Untouched
    <3> QED
      BY <2>1, <2>2, <3>1
  <2> QED
    BY <2>3, <2>4, <2>5
<1>9. BrowsedOnce'
  BY <1>8 DEF BrowsedOnce
<1> QED
  BY <1>5, <1>7, <1>9 DEF Listened

(* An operation is there only for a browse that was asked for and came.    *)
LEMMA Working ==
  ASSUME Listened, NEW s \in Session, ~Untouched(s),
         calls' = calls \/ (calls # <<>> /\ calls' = Tail(calls))
  PROVE  asked[s] # None /\ \A i \in DOMAIN calls' : ~Browses(i, s)'
<1>1. calls \in Seq(ClientCall) /\ BrowsedOnce
  BY DEF Listened, Typed
<1>2. asked[s] # None /\ \A i \in DOMAIN calls : ~Browses(i, s)
  BY <1>1 DEF BrowsedOnce
<1> QED
  BY <1>1, <1>2, BrowsesLeft

LEMMA StepDaemonBrowse == ASSUME Listened, DaemonBrowse PROVE Listened'
<1>1. /\ calls \in Seq(ClientCall) /\ calls # <<>> /\ calls' = Tail(calls)
      /\ plan' = plan /\ asked' = asked /\ plan \in Scenarios /\ Wrapper \in WrapperState
      /\ BrowsedOnce
  BY DEF Listened, Typed, DaemonBrowse
<1>2. PICK c : c = Head(calls)
  OBVIOUS
<1>3. /\ c \in ClientCall /\ c.to = "browse" /\ 1 \in DOMAIN calls /\ calls[1] = c
      /\ \A i \in DOMAIN calls' : i + 1 \in DOMAIN calls /\ calls'[i] = calls[i + 1]
  BY <1>1, <1>2, CallTaken DEF DaemonBrowse
<1>4. PICK s \in Session, req \in Criteria : c.s = s /\ c.req = req
  BY <1>3 DEF ClientCall
<1>5. PICK o \in Starts(req) : HandleBrowse(s, o.says) /\ work' = [work EXCEPT ![s] = o.op]
  BY <1>2, <1>4 DEF DaemonBrowse, Works
<1>6. /\ o.op \in Op \cup {Over}
      /\ o.says = <<>> \/ (o.says = <<Refusal>> /\ ~Speaks(o.op))
  BY <1>1, StartSays
<1>7. Browses(1, s) /\ s \notin idles /\ asked[s] # None
  BY <1>1, <1>3, <1>4 DEF Browses, BrowsedOnce, Untouched
<1>8. \A i \in DOMAIN calls' : ~Browses(i, s)'
  <2>1. \A i \in DOMAIN calls' : Browses(i, s)' => Browses(i + 1, s)
    BY <1>3 DEF Browses
  <2>2. \A i \in DOMAIN calls' : Browses(i, s)' => i + 1 = 1
    BY <1>1, <1>3, <1>7, <2>1 DEF BrowsedOnce
  <2>3. \A i \in DOMAIN calls' : i \in 1 .. Len(calls')
    BY <1>1, CallTaken
  <2> QED
    BY <2>2, <2>3
<1> DEFINE v == [Wrapper EXCEPT !.requests[s] = NewRequest]
           x == Heard(v, s, o.says)
           y == IF x.requests[s] = NoRequest THEN x
                ELSE [x EXCEPT !.bus = Append(@, Reply(s, "browse", TRUE))]
<1>9. /\ v \in WrapperState /\ v.requests[s] = NewRequest /\ v.idles = idles
      /\ \A t \in Session \ {s} : v.requests[t] = requests[t]
  <2>1. v = [Wrapper EXCEPT !.requests[s] = NewRequest]
        /\ NewRequest \in Request \cup {NoRequest}
    BY RequestTypes
  <2>2. Becoming(Wrapper, v, s, NewRequest, Wrapper.idles, Wrapper.bus)
    BY <1>1, <2>1, Changed
  <2> QED
    BY <2>2, WrapperTypes DEF Becoming
<1> HIDE DEF v
<1>10. /\ x \in WrapperState /\ x.idles = idles
       /\ \A t \in Session \ {s} : x.requests[t] = requests[t]
       /\ Speaks(o.op) => x.requests[s] # NoRequest
  <2>1. CASE o.says = <<>>
    <3>1. x = v
      BY <2>1, HeardNothing
    <3> QED
      BY <1>9, <3>1, RequestTypes
  <2>2. CASE o.says = <<Refusal>> /\ ~Speaks(o.op)
    <3>1. v.requests[s] \in Request
      BY <1>9, RequestTypes
    <3> DEFINE z == Heard(v, s, <<Refusal>>)
    <3>2. /\ z \in WrapperState /\ z.idles = v.idles
          /\ \A t \in Session \ {s} : z.requests[t] = v.requests[t]
      BY <1>9, <3>1, HeardRefusal
    <3>3. x = z
      BY <2>2
    <3> HIDE DEF x, z
    <3> QED
      BY <1>9, <2>2, <3>2, <3>3
  <2> QED
    BY <1>6, <2>1, <2>2
<1> HIDE DEF x
<1>11. y \in WrapperState /\ y.idles = x.idles /\ y.requests = x.requests
  <2>1. Reply(s, "browse", TRUE) \in Message
    BY MessageTypes
  <2>2. [x EXCEPT !.bus = Append(@, Reply(s, "browse", TRUE))] \in WrapperState
    BY <1>10, <2>1, Changed DEF Becoming
  <2> QED
    BY <1>10, <2>2 DEF WrapperState
<1>12. Becomes(y)
  BY <1>5 DEF HandleBrowse, x, v
<1> HIDE DEF y
<1>13. Wrapper' \in WrapperState /\ requests' = x.requests /\ idles' = idles
  BY <1>10, <1>11, <1>12, Became
<1> QED
  BY <1>1, <1>5, <1>6, <1>7, <1>8, <1>10, <1>13, Touched

LEMMA ForgottenTo ==
  ASSUME NEW w \in WrapperState, NEW s \in Session
  PROVE  LET x == Forgotten(w, s) IN
         /\ x \in WrapperState /\ x.idles = w.idles /\ x.requests[s] = NoRequest
         /\ \A t \in Session \ {s} : x.requests[t] = w.requests[t]
<1>1. Becoming(w, Forgotten(w, s), s, NoRequest, w.idles, w.bus)
  BY Changed DEF Forgotten
<1> QED
  BY <1>1 DEF Becoming

LEMMA StepDaemonCancel == ASSUME Listened, DaemonCancel PROVE Listened'
<1>1. /\ calls \in Seq(ClientCall) /\ calls # <<>> /\ calls' = Tail(calls)
      /\ plan' = plan /\ asked' = asked /\ plan \in Scenarios /\ Wrapper \in WrapperState
      /\ work \in [Session -> Op \cup {Over}] /\ HasListener /\ Silenced /\ BrowsedOnce
  BY DEF Listened, Typed, DaemonCancel
<1>2. PICK s \in Session : s = Head(calls).s
  BY <1>1, CallTaken DEF ClientCall
<1>3. ASSUME NEW known1, NEW says \in Sayings, NEW op \in Op \cup {Over},
             HandleCancel(s, known1, says), known1 \in BOOLEAN,
             work' = [work EXCEPT ![s] = op], ~Speaks(op),
             says # <<>> => requests[s] # NoRequest,
             \/ ~Untouched(s)
             \/ says = <<>> /\ op = Over
      PROVE  Listened'
  <2> DEFINE x == Heard(Wrapper, s, says)
             y == Forgotten(x, s)
             z == [y EXCEPT !.bus = Append(@, Reply(s, "cancel", known1))]
  <2>1. /\ x \in WrapperState /\ x.idles \in {idles, idles \cup {s}}
        /\ \A t \in Session \ {s} : x.requests[t] = requests[t]
        /\ says = <<>> => x.idles = idles
    BY <1>1, <1>3, HeardSays, WrapperTypes
  <2> HIDE DEF x
  <2>2. /\ y \in WrapperState /\ y.idles = x.idles
        /\ \A t \in Session \ {s} : y.requests[t] = x.requests[t]
    BY <2>1, ForgottenTo
  <2>3. Becomes(z)
    BY <1>3 DEF HandleCancel, x
  <2> HIDE DEF y
  <2>4. z \in WrapperState /\ z.idles = y.idles /\ z.requests = y.requests
    <3>1. Reply(s, "cancel", known1) \in Message
      BY <1>3, MessageTypes
    <3>2. z \in WrapperState
      BY <2>2, <3>1, Changed DEF Becoming
    <3> QED
      BY <2>2, <3>2 DEF WrapperState
  <2> HIDE DEF z
  <2>5. Wrapper' \in WrapperState /\ requests' = y.requests /\ idles' = x.idles
    BY <2>2, <2>3, <2>4, Became
  <2>6. \/ asked[s] # None /\ \A i \in DOMAIN calls' : ~Browses(i, s)'
        \/ idles' \subseteq idles /\ op = Over
    BY <1>1, <1>3, <2>1, <2>5, Working
  <2>7. idles' \subseteq idles \cup {s} /\ \A t \in Session \ {s} : requests'[t] = requests[t]
    BY <2>1, <2>2, <2>5
  <2> QED
    BY <1>1, <1>3, <2>5, <2>6, <2>7, Touched
<1>4. CASE work[s] = Over
  <2>1. HandleCancel(s, FALSE, <<>>) /\ work' = work
    BY <1>2, <1>4 DEF DaemonCancel
  <2>2. work' = [work EXCEPT ![s] = Over]
    BY <1>1, <1>4, <2>1
  <2> QED
    BY <1>3, <2>1, <2>2, SayingTypes, OverSilent
<1>5. CASE work[s] # Over
  <2> DEFINE o == Cancelled(work[s])
  <2>1. HandleCancel(s, TRUE, o.says) /\ work' = [work EXCEPT ![s] = o.op]
    BY <1>2, <1>5 DEF DaemonCancel, Works
  <2>2. work[s] \in Op
    BY <1>1, <1>5
  <2>3. /\ o.op \in Op \cup {Over} /\ o.says \in Sayings /\ ~Speaks(o.op)
        /\ ~Speaks(work[s]) => o.says = <<>>
    BY <1>1, <1>5, <2>2, CancelSays
  <2>4. o.says # <<>> => requests[s] # NoRequest
    BY <1>1, <2>3 DEF HasListener
  <2>5. ~Untouched(s)
    BY <1>5 DEF Untouched
  <2> HIDE DEF o
  <2> QED
    BY <1>3, <2>1, <2>3, <2>4, <2>5
<1> QED
  BY <1>4, <1>5

LEMMA StepSource == ASSUME Listened, NEW s \in Session, SourceStep(s) PROVE Listened'
<1>1. /\ calls' = calls /\ plan' = plan /\ asked' = asked /\ plan \in Scenarios
      /\ Wrapper \in WrapperState /\ work \in [Session -> Op \cup {Over}]
      /\ HasListener /\ Silenced /\ work[s] # Over
  BY DEF Listened, Typed, SourceStep, proxy
<1>2. work[s] \in Op
  BY <1>1
<1>3. PICK o \in Steps(work[s]) : HandleResults(s, o.says) /\ work' = [work EXCEPT ![s] = o.op]
  BY DEF SourceStep, Works
<1>4. /\ o.op \in Op \cup {Over} /\ o.says \in Sayings /\ (Plain(o.says) \/ ~Speaks(o.op))
      /\ ~Speaks(work[s]) => o.says = <<>> /\ ~Speaks(o.op)
  BY <1>1, <1>2, StepSays
<1>5. Speaks(work[s]) => requests[s] # NoRequest /\ s \notin idles
  BY <1>1 DEF HasListener, Silenced
<1> DEFINE x == Heard(Wrapper, s, o.says)
<1>6. /\ x \in WrapperState /\ x.idles \in {idles, idles \cup {s}}
      /\ Plain(o.says) => x.idles = idles
      /\ \A t \in Session \ {s} : x.requests[t] = requests[t]
      /\ requests[s] # NoRequest => x.requests[s] # NoRequest
  BY <1>1, <1>4, <1>5, HeardSays, WrapperTypes
<1>7. Becomes(x)
  BY <1>3 DEF HandleResults
<1> HIDE DEF x
<1>8. Wrapper' \in WrapperState /\ requests' = x.requests /\ idles' = x.idles
  BY <1>6, <1>7, Became
<1>9. asked[s] # None /\ \A i \in DOMAIN calls' : ~Browses(i, s)'
  BY <1>1, Working DEF Untouched
<1>10. Speaks(o.op) => requests'[s] # NoRequest /\ s \notin idles'
  BY <1>4, <1>5, <1>6, <1>8
<1> QED
  BY <1>1, <1>3, <1>4, <1>6, <1>8, <1>9, <1>10, Touched

(* The timer's and the idle's handlers; the operation is left alone.       *)
LEMMA WrapperAlone ==
  ASSUME Listened, NEW s \in Session, NEW w \in WrapperState, Becomes(w),
         w.idles \subseteq idles,
         Speaks(work[s]) => w.requests[s] # NoRequest,
         \A t \in Session \ {s} : w.requests[t] = requests[t],
         plan' = plan, asked' = asked, work' = work,
         calls' = calls \/ (calls # <<>> /\ calls' = Tail(calls))
  PROVE  Listened'
<1>1. work \in [Session -> Op \cup {Over}] /\ Silenced
  BY DEF Listened, Typed
<1>2. PICK op \in Op \cup {Over} : op = work[s]
  BY <1>1
<1>3. work' = [work EXCEPT ![s] = op]
  BY <1>1, <1>2
<1>4. Wrapper' \in WrapperState /\ requests' = w.requests /\ idles' = w.idles
  BY Became
<1>5. Speaks(op) => requests'[s] # NoRequest /\ s \notin idles'
  BY <1>1, <1>2, <1>4 DEF Silenced
<1>6. \/ asked[s] # None /\ \A i \in DOMAIN calls' : ~Browses(i, s)'
      \/ idles' \subseteq idles /\ op = Over
  BY <1>2, <1>4, Working DEF Untouched
<1> QED
  BY <1>3, <1>4, <1>5, <1>6, Touched

LEMMA StepWrapper ==
  ASSUME Listened, NEW s \in Session, WrapperTimer(s) \/ WrapperIdle(s)
  PROVE  Listened'
<1>1. /\ Wrapper \in WrapperState /\ HasListener /\ Silenced
      /\ plan' = plan /\ asked' = asked /\ work' = work /\ calls' = calls
  BY DEF Listened, Typed, WrapperTimer, WrapperIdle, proxy
<1>2. CASE WrapperTimer(s)
  <2> DEFINE w == Flushed(Wrapper, s)
  <2>1. requests[s] \in Request /\ requests[s].pending # <<>> /\ Becomes(w)
    BY <1>1, <1>2, WrapperTypes DEF WrapperTimer, send_browse_res
  <2>2. [requests[s] EXCEPT !.pending = <<>>] \in Request
    <3>1. <<>> \in Seq(AnyResult)
      OBVIOUS
    <3> QED
      BY <2>1, <3>1, RequestTypes
  <2>3. /\ w \in WrapperState /\ w.idles = idles /\ w.requests[s] # NoRequest
        /\ \A t \in Session \ {s} : w.requests[t] = requests[t]
    BY <1>1, <2>1, <2>2, FlushedTo, WrapperTypes, RequestTypes DEF Becoming
  <2> HIDE DEF w
  <2> QED
    BY <1>1, <2>1, <2>3, WrapperAlone
<1>3. CASE WrapperIdle(s)
  <2> DEFINE f == Forgotten(Wrapper, s)
             w == [f EXCEPT !.idles = @ \ {s}]
  <2>1. s \in idles /\ Becomes(w)
    BY <1>3 DEF WrapperIdle, remove_from_hash
  <2>2. /\ f \in WrapperState /\ f.idles = idles /\ f.requests[s] = NoRequest
        /\ \A t \in Session \ {s} : f.requests[t] = requests[t]
    BY <1>1, ForgottenTo, WrapperTypes
  <2> HIDE DEF f
  <2>3. /\ w \in WrapperState /\ w.idles = idles \ {s}
        /\ \A t \in Session \ {s} : w.requests[t] = requests[t]
    <3>1. Becoming(f, w, s, f.requests[s], f.idles \ {s}, f.bus)
      BY <2>2, Changed
    <3> QED
      BY <2>2, <3>1 DEF Becoming
  <2>4. ~Speaks(work[s])
    BY <1>1, <2>1 DEF Silenced
  <2> HIDE DEF w
  <2> QED
    BY <1>1, <2>1, <2>3, <2>4, WrapperAlone
<1> QED
  BY <1>2, <1>3

LEMMA StepBusRefuses == ASSUME Listened, BusRefuses PROVE Listened'
<1>1. /\ Wrapper \in WrapperState /\ HasListener /\ calls \in Seq(ClientCall)
      /\ plan' = plan /\ asked' = asked /\ work' = work /\ calls # <<>> /\ calls' = Tail(calls)
  BY DEF Listened, Typed, BusRefuses
<1>2. PICK c \in ClientCall : c = Head(calls)
  BY <1>1, CallTaken
<1>3. c.s \in Session /\ c.to \in {"browse", "cancel"}
  BY DEF ClientCall
<1> DEFINE m == Reply(c.s, c.to, FALSE)
           w == [Wrapper EXCEPT !.bus = Append(@, m)]
<1>4. m \in Message
  BY <1>3, MessageTypes
<1>5. /\ w \in WrapperState /\ w.idles = idles
      /\ \A t \in Session : w.requests[t] = requests[t]
  <2>1. Becoming(Wrapper, w, c.s, Wrapper.requests[c.s], Wrapper.idles,
                 Append(Wrapper.bus, m))
    BY <1>1, <1>3, <1>4, Changed
  <2> HIDE DEF w
  <2>2. w.requests[c.s] = requests[c.s]
    BY <2>1, WrapperTypes DEF Becoming
  <2> QED
    BY <2>1, <2>2, WrapperTypes DEF Becoming
<1>6. Becomes(w)
  BY <1>2 DEF BusRefuses, Becomes, Wrapper
<1> HIDE DEF w
<1> QED
  BY <1>1, <1>3, <1>5, <1>6, WrapperAlone DEF HasListener

-----------------------------------------------------------------------------
(* The server leaves: the operations are ended one after the other.        *)

\* h[n] is the state after those of the sessions 1 .. n
Cutting(n, h) ==
  h = [s \in 0 .. n |->
         IF s = 0 THEN Wrapper
         ELSE IF work[s] = Over THEN h[s - 1]
         ELSE Heard(h[s - 1], s, UpnpCancel(work[s], TRUE).says)]

LEMMA CuttingExists == ASSUME NEW n \in Nat PROVE \E h : Cutting(n, h)
<1> DEFINE T == {m \in Nat : ~ \E h : Cutting(m, h)}
<1> SUFFICES ASSUME T # {} PROVE FALSE
  OBVIOUS
<1>1. T \subseteq Nat
  OBVIOUS
<1>2. \E m \in T : \A k \in T : <<k, m>> \notin OpToRel(<, Nat)
  BY <1>1, WFMin, NatLessThanWellFounded
<1>3. PICK m \in T : \A k \in T : ~ (k < m)
  BY <1>1, <1>2 DEF OpToRel
<1>4. m \in Nat /\ ~ \E h : Cutting(m, h)
  OBVIOUS
<1>5. CASE m = 0
  <2> DEFINE f == [i \in 0 .. 0 |-> Wrapper]
  <2>1. f = [i \in 0 .. 0 |-> IF i = 0 THEN Wrapper
                              ELSE IF work[i] = Over THEN f[i - 1]
                              ELSE Heard(f[i - 1], i, UpnpCancel(work[i], TRUE).says)]
    OBVIOUS
  <2> QED
    BY <1>4, <1>5, <2>1 DEF Cutting
<1>6. CASE m # 0
  <2>1. m - 1 \in Nat /\ m - 1 \notin T
    BY <1>3, <1>4, <1>6
  <2>2. PICK g : Cutting(m - 1, g)
    BY <2>1
  <2> DEFINE f == [i \in 0 .. m |-> IF i = 0 THEN Wrapper
                                    ELSE IF work[i] = Over THEN g[i - 1]
                                    ELSE Heard(g[i - 1], i, UpnpCancel(work[i], TRUE).says)]
  <2>3. ASSUME NEW i \in 0 .. m, i # 0 PROVE f[i - 1] = g[i - 1]
    <3>1. PICK j \in 0 .. (m - 1) : j = i - 1 /\ j \in 0 .. m
      BY <1>4, <2>3
    <3>2. g[j] = IF j = 0 THEN Wrapper
                 ELSE IF work[j] = Over THEN g[j - 1]
                 ELSE Heard(g[j - 1], j, UpnpCancel(work[j], TRUE).says)
      BY <2>2, <3>1 DEF Cutting
    <3>3. f[j] = IF j = 0 THEN Wrapper
                 ELSE IF work[j] = Over THEN g[j - 1]
                 ELSE Heard(g[j - 1], j, UpnpCancel(work[j], TRUE).says)
      BY <3>1
    <3> QED
      BY <3>1, <3>2, <3>3
  <2>4. f = [i \in 0 .. m |-> IF i = 0 THEN Wrapper
                              ELSE IF work[i] = Over THEN f[i - 1]
                              ELSE Heard(f[i - 1], i, UpnpCancel(work[i], TRUE).says)]
    BY <2>3
  <2> QED
    BY <1>4, <2>4 DEF Cutting
<1> QED
  BY <1>5, <1>6

\* h[n] comes of h[n - 1] by the end of the operation of n, if there is one
Ends(h, n) ==
  LET x == UpnpCancel(work[n], TRUE).says IN
  IF work[n] = Over THEN h[n] = h[n - 1]
  ELSE /\ x \in Sayings /\ h[n - 1].requests[n] # NoRequest
       /\ h[n] = Heard(h[n - 1], n, x)

(* The idles of the operations that were there are scheduled, no other.    *)
LEMMA CutOff ==
  ASSUME Listened, plan.source = "upnp"
  PROVE  /\ AllCutOff \in WrapperState
         /\ \A t \in AllCutOff.idles : t \in idles \/ work[t] # Over
         /\ \E h : /\ h[0] = Wrapper /\ h[Cardinality(Session)] = AllCutOff
                   /\ \A n \in Session : h[n - 1] \in WrapperState /\ Ends(h, n)
<1> DEFINE N == Cardinality(Session)
           h == CHOOSE f : Cutting(N, f)
           Fine(m) ==
             /\ h[m] \in WrapperState
             /\ \A t \in h[m].idles : t \in idles \/ work[t] # Over
             /\ \A t \in Session : t > m => h[m].requests[t] = requests[t]
<1>1. N \in Nat /\ Session = 1 .. N
  BY SessionAssumption
<1> HIDE DEF N
<1>2. Cutting(N, h)
  <2>1. \E f : Cutting(N, f)
    BY <1>1, CuttingExists
  <2> QED
    BY <2>1, Zenon
<1>3. AllCutOff = h[N]
  BY DEF AllCutOff, Cutting, N
<1> HIDE DEF h
<1>4. /\ Wrapper \in WrapperState /\ HasListener /\ work \in [Session -> Op \cup {Over}]
      /\ plan \in Scenarios /\ Op = UpnpOp
  BY DEF Listened, Typed, Op
<1>5. Fine(0)
  <2>1. h[0] = Wrapper
    BY <1>1, <1>2 DEF Cutting
  <2> QED
    BY <1>4, <2>1, WrapperTypes
<1>6. ASSUME NEW n \in Session, NEW m, m = n - 1, Fine(m) PROVE Fine(n) /\ Ends(h, n)
  <2>1. n \in 0 .. N /\ n # 0 /\ n \in Int /\ \A t \in Session : t \in Int
    BY <1>1
  <2>2. CASE work[n] = Over
    <3>1. h[n] = h[m]
      BY <1>2, <1>6, <2>1, <2>2 DEF Cutting
    <3>2. ASSUME NEW t \in Session, t > n PROVE t > m
      <4>1. t \in Int /\ n \in Int /\ m = n - 1
        BY <1>1, <1>6
      <4> HIDE DEF Fine
      <4> QED
        BY <3>2, <4>1
    <3>3. Ends(h, n)
      BY <1>6, <2>2, <3>1 DEF Ends
    <3> QED
      BY <1>6, <3>1, <3>2, <3>3
  <2>3. CASE work[n] # Over
    <3> DEFINE says == UpnpCancel(work[n], TRUE).says
               x == Heard(h[m], n, says)
    <3>1. h[n] = x
      BY <1>2, <1>6, <2>1, <2>3 DEF Cutting
    <3>2. says \in Sayings
      <4>1. work[n] \in UpnpOp
        BY <1>4, <2>3
      <4> QED
        BY <1>4, <4>1, PlanTypes, UpnpSays
    <3> HIDE DEF says
    <3>3. h[m].requests[n] # NoRequest
      <4>1. Speaks(work[n])
        BY <2>3 DEF Speaks
      <4>2. n > m
        BY <1>6, <2>1
      <4> QED
        BY <1>4, <1>6, <4>1, <4>2 DEF HasListener
    <3>4. /\ x \in WrapperState /\ x.idles \in {h[m].idles, h[m].idles \cup {n}}
          /\ \A t \in Session \ {n} : x.requests[t] = h[m].requests[t]
      BY <1>6, <3>2, <3>3, HeardSays
    <3> HIDE DEF x
    <3>5. \A t \in Session : t > n => t > m /\ t # n
      BY <1>6, <2>1
    <3>6. \A t \in Session : t > n => x.requests[t] = requests[t]
      BY <1>6, <3>4, <3>5
    <3>7. Ends(h, n)
      BY <1>6, <2>3, <3>1, <3>2, <3>3 DEF Ends, x, says
    <3> QED
      BY <1>6, <2>3, <3>1, <3>4, <3>6, <3>7
  <2> QED
    BY <2>2, <2>3
<1> HIDE DEF Fine
<1>7. \A m \in 0 .. N : Fine(m)
  <2> DEFINE T == {m \in 0 .. N : ~Fine(m)}
  <2> SUFFICES ASSUME T # {} PROVE FALSE
    OBVIOUS
  <2>1. T \subseteq Nat
    BY <1>1
  <2>2. \E m \in T : \A k \in T : <<k, m>> \notin OpToRel(<, Nat)
    BY <2>1, WFMin, NatLessThanWellFounded
  <2>3. PICK n \in T : \A k \in T : ~ (k < n)
    BY <2>1, <2>2 DEF OpToRel
  <2>4. n \in 0 .. N /\ ~Fine(n)
    OBVIOUS
  <2>5. n # 0
    BY <1>5, <2>4
  <2>6. PICK m : m = n - 1
    OBVIOUS
  <2>7. n \in Session /\ m \in 0 .. N /\ m < n
    BY <1>1, <2>4, <2>5, <2>6
  <2>8. Fine(m)
    BY <2>3, <2>7
  <2> QED
    BY <1>6, <2>4, <2>6, <2>7, <2>8
<1>8. Fine(N)
  <2>1. N \in 0 .. N
    BY <1>1
  <2> QED
    BY <1>7, <2>1
<1>9. ASSUME NEW n \in Session PROVE h[n - 1] \in WrapperState /\ Ends(h, n)
  <2>1. PICK m : m = n - 1
    OBVIOUS
  <2>2. m \in 0 .. N
    BY <1>1, <2>1
  <2>3. Fine(m)
    BY <1>7, <2>2
  <2> QED
    BY <1>6, <2>1, <2>3 DEF Fine
<1>10. h[0] = Wrapper
  BY <1>1, <1>2 DEF Cutting
<1> QED
  BY <1>3, <1>8, <1>9, <1>10 DEF Fine, N

LEMMA StepServerLeaves == ASSUME Listened, ServerLeaves PROVE Listened'
<1>1. /\ plan \in Scenarios /\ plan' = plan /\ asked' = asked /\ calls' = calls
      /\ work' = [s \in Session |-> Over] /\ Becomes(AllCutOff) /\ BrowsedOnce
      /\ Typed
  BY DEF Listened, Typed, ServerLeaves, proxy
<1>2. plan.source = "upnp"
  BY <1>1, PlanTypes DEF ServerLeaves
<1>3. AllCutOff \in WrapperState /\ \A t \in AllCutOff.idles : t \in idles \/ work[t] # Over
  BY <1>2, CutOff
<1>4. Wrapper' \in WrapperState /\ idles' = AllCutOff.idles
  BY <1>1, <1>3, Became
<1>5. idles' \subseteq Session
  BY <1>4, WrapperTypes DEF WrapperState, Wrapper
<1>6. Typed'
  <2>1. Op' = Op /\ work' \in [Session -> Op \cup {Over}]
    BY <1>1 DEF Op
  <2> QED
    BY <1>1, <1>4, <2>1 DEF Typed
<1>7. \A s \in Session : work'[s] = Over /\ ~Speaks(work[s])'
  BY <1>1 DEF Speaks
<1>8. HasListener' /\ Silenced'
  BY <1>5, <1>7 DEF HasListener, Silenced
<1>9. BrowsedOnce'
  <2>1. \A s \in Session : Untouched(s) => Untouched(s)'
    BY <1>3, <1>4, <1>7 DEF Untouched
  <2> QED
    BY <1>1, <2>1 DEF BrowsedOnce, Browses
<1> QED
  BY <1>6, <1>8, <1>9 DEF Listened

-----------------------------------------------------------------------------
(* The client's steps leave the daemon's requests and operations alone.    *)

LEMMA ClientAlone ==
  ASSUME Listened, requests' = requests, idles' = idles, bus' \in Seq(Message),
         work' = work, plan' = plan, asked' = asked, calls' = calls
  PROVE  Listened'
<1>1. Typed /\ HasListener /\ Silenced /\ BrowsedOnce
  BY DEF Listened
<1>2. Typed'
  <2>1. Wrapper' \in WrapperState
    BY <1>1, WrapperTypes DEF Typed, WrapperState, Wrapper
  <2> QED
    BY <1>1, <2>1 DEF Typed, Op
<1>3. HasListener' /\ Silenced' /\ BrowsedOnce'
  BY <1>1 DEF HasListener, Silenced, BrowsedOnce, Browses, Untouched, Speaks
<1> QED
  BY <1>2, <1>3 DEF Listened

(* A call is sent: one to browse for a session that had none.              *)
LEMMA ClientCalls ==
  ASSUME Listened, NEW c \in ClientCall, UNCHANGED <<wrapper, plan, work>>,
         calls' = Append(calls, c),
         IF c.to = "browse" THEN asked[c.s] = None /\ asked' = [asked EXCEPT ![c.s] = c.req]
         ELSE asked' = asked
  PROVE  Listened'
<1>1. /\ Typed /\ HasListener /\ Silenced /\ BrowsedOnce
      /\ requests' = requests /\ idles' = idles /\ bus' = bus /\ work' = work /\ plan' = plan
  BY DEF Listened, wrapper
<1>2. calls \in Seq(ClientCall) /\ asked \in [Session -> Criteria \cup {None}]
  BY <1>1 DEF Typed
<1>3. c.s \in Session /\ (c.to = "browse" => c.req \in Criteria)
  BY DEF ClientCall
<1>4. /\ asked' \in [Session -> Criteria \cup {None}]
      /\ \A s \in Session : asked'[s] = None => asked[s] = None
      /\ c.to = "browse" => asked'[c.s] # None /\ asked[c.s] = None
  BY <1>2, <1>3, NoneAssumption
<1>5. /\ calls' \in Seq(ClientCall)
      /\ \E n \in DOMAIN calls' :
              /\ calls'[n] = c
              /\ \A i \in DOMAIN calls' : i # n => i \in DOMAIN calls /\ calls'[i] = calls[i]
  BY <1>2, CallAdded
<1>6. PICK n \in DOMAIN calls' :
        /\ calls'[n] = c
        /\ \A i \in DOMAIN calls' : i # n => i \in DOMAIN calls /\ calls'[i] = calls[i]
  BY <1>5
<1>7. Typed'
  <2>1. Wrapper' = Wrapper
    BY <1>1 DEF Wrapper
  <2> QED
    BY <1>1, <1>4, <1>5, <2>1 DEF Typed, Op
<1>8. HasListener' /\ Silenced'
  BY <1>1 DEF HasListener, Silenced, Speaks
<1>9. BrowsedOnce'
  <2>1. ASSUME NEW s \in Session
        PROVE  /\ asked'[s] = None => Untouched(s)' /\ \A i \in DOMAIN calls' : ~Browses(i, s)'
               /\ \A i \in DOMAIN calls' : Browses(i, s)' => Untouched(s)'
               /\ \A i, j \in DOMAIN calls' : Browses(i, s)' /\ Browses(j, s)' => i = j
    <3>1. /\ asked[s] = None => Untouched(s) /\ \A i \in DOMAIN calls : ~Browses(i, s)
          /\ \A i \in DOMAIN calls : Browses(i, s) => Untouched(s)
          /\ \A i, j \in DOMAIN calls : Browses(i, s) /\ Browses(j, s) => i = j
      BY <1>1 DEF BrowsedOnce
    <3>2. \A i \in DOMAIN calls' : i # n => i \in DOMAIN calls /\ (Browses(i, s)' <=> Browses(i, s))
      BY <1>6 DEF Browses
    <3>3. Untouched(s)' <=> Untouched(s)
      BY <1>1 DEF Untouched
    <3>4. Browses(n, s)' <=> (c.to = "browse" /\ c.s = s)
      BY <1>6 DEF Browses
    <3>5. CASE c.to = "browse" /\ c.s = s
      BY <1>4, <3>1, <3>2, <3>3, <3>5
    <3>6. CASE ~(c.to = "browse" /\ c.s = s)
      BY <1>4, <3>1, <3>2, <3>3, <3>4, <3>6
    <3> QED
      BY <3>5, <3>6
  <2> QED
    BY <2>1 DEF BrowsedOnce
<1> QED
  BY <1>7, <1>8, <1>9 DEF Listened

LEMMA StepClient ==
  ASSUME Listened,
         ClientBrowse \/ ClientCancel \/ ClientReply \/ ClientTimeout
           \/ ClientDispatch \/ ClientCallback
  PROVE  Listened'
<1>1. bus \in Seq(Message) /\ plan \in Scenarios
  BY WrapperTypes DEF Listened, Typed
<1>2. CASE ClientBrowse
  <2>1. PICK s \in plan.sessions, req \in plan.requests :
          /\ mafw_proxy_source_browse(s, req)
          /\ UNCHANGED <<wrapper, plan, work, gone>>
    BY <1>2 DEF ClientBrowse
  <2> DEFINE c == [to |-> "browse", s |-> s, req |-> req]
  <2>2. c \in ClientCall /\ c.to = "browse" /\ c.s = s /\ c.req = req
    BY <1>1, PlanTypes DEF ClientCall
  <2>3. calls' = Append(calls, c) /\ asked[s] = None /\ asked' = [asked EXCEPT ![s] = req]
    BY <2>1 DEF mafw_proxy_source_browse, Calls
  <2> HIDE DEF c
  <2> QED
    BY <2>1, <2>2, <2>3, ClientCalls
<1>3. CASE ClientCancel
  <2>1. PICK s \in Session :
          /\ mafw_proxy_source_cancel_browse(s)
          /\ UNCHANGED <<wrapper, plan, work, gone>>
    BY <1>3 DEF ClientCancel
  <2> DEFINE c == [to |-> "cancel", s |-> s]
  <2>2. c \in ClientCall /\ c.to # "browse"
    BY DEF ClientCall
  <2>3. calls' = Append(calls, c) /\ asked' = asked
    BY <2>1 DEF mafw_proxy_source_cancel_browse, Calls
  <2> HIDE DEF c
  <2> QED
    BY <2>1, <2>2, <2>3, ClientCalls
<1>4. CASE ClientReply
  <2>1. PICK i \in DOMAIN bus : Returns(bus[i].ok) /\ bus' = RemoveAt(bus, i)
    BY <1>4 DEF ClientReply
  <2>2. bus' \in Seq(Message)
    <3>1. i \in 1 .. Len(bus) /\ Len(bus) \in Nat
      BY <1>1
    <3>2. SubSeq(bus, 1, i - 1) \in Seq(Message) /\ SubSeq(bus, i + 1, Len(bus)) \in Seq(Message)
      BY <1>1, <3>1, SubSeqProperties
    <3> QED
      BY <2>1, <3>2, ConcatProperties DEF RemoveAt
  <2> QED
    BY <1>4, <2>1, <2>2, ClientAlone DEF ClientReply, Returns
<1>5. CASE ClientTimeout \/ ClientCallback
  BY <1>1, <1>5, ClientAlone DEF ClientTimeout, Returns, ClientCallback, CallbackReturns, wrapper
<1>6. CASE ClientDispatch
  <2>1. bus' \in Seq(Message)
    BY <1>1, <1>6, HeadTailProperties DEF ClientDispatch
  <2> QED
    BY <1>6, <2>1, ClientAlone DEF ClientDispatch, Dispatch, proxy
<1> QED
  BY <1>2, <1>3, <1>4, <1>5, <1>6

LEMMA InitListened == Init => Listened
<1> SUFFICES ASSUME Init PROVE Listened
  OBVIOUS
<1>1. Typed
  <2>1. calls \in Seq(ClientCall) /\ bus \in Seq(Message)
    BY DEF Init
  <2>2. Wrapper \in WrapperState
    BY <2>1, WrapperTypes DEF Init
  <2> QED
    BY <2>1, <2>2 DEF Init, Typed
<1>2. HasListener /\ Silenced
  BY OverSilent DEF Init, HasListener, Silenced
<1>3. BrowsedOnce
  <2>1. DOMAIN calls = {}
    BY DEF Init
  <2> QED
    BY <2>1 DEF Init, BrowsedOnce, Untouched
<1> QED
  BY <1>1, <1>2, <1>3 DEF Listened

LEMMA NextListened == Listened /\ [Next]_vars => Listened'
<1> SUFFICES ASSUME Listened, [Next]_vars PROVE Listened'
  OBVIOUS
<1>1. CASE UNCHANGED vars
  <2>1. bus' \in Seq(Message)
    BY <1>1, WrapperTypes DEF Listened, Typed, vars, wrapper
  <2> QED
    BY <1>1, <2>1, ClientAlone DEF vars, wrapper, proxy
<1>2. CASE DaemonBrowse
  BY <1>2, StepDaemonBrowse
<1>3. CASE DaemonCancel
  BY <1>3, StepDaemonCancel
<1>4. CASE ServerLeaves
  BY <1>4, StepServerLeaves
<1>5. CASE BusRefuses
  BY <1>5, StepBusRefuses
<1>6. ASSUME NEW s \in Session, SourceStep(s) \/ WrapperTimer(s) \/ WrapperIdle(s)
      PROVE  Listened'
  BY <1>6, StepSource, StepWrapper
<1>7. CASE ClientBrowse \/ ClientCancel \/ ClientReply \/ ClientTimeout
             \/ ClientDispatch \/ ClientCallback
  BY <1>7, StepClient
<1> QED
  BY <1>1, <1>2, <1>3, <1>4, <1>5, <1>6, <1>7 DEF Next

(* Whatever the order of last results, cancels, errors and a server's      *)
(* leaving, an operation of a source that may still call the callback of   *)
(* its browse finds the request it is called for: emit_browse_result never *)
(* gets a struct browse_data that remove_from_hash or a cancel has freed.  *)
THEOREM ListenerThere == Spec => []HasListener
<1>1. Listened => HasListener
  BY DEF Listened
<1> QED
  BY <1>1, InitListened, NextListened, PTL DEF Spec
-----------------------------------------------------------------------------
(* The contract.  Of every browse whose client is still to be told         *)
(* something there is a list l of all results its source gave so far: the  *)
(* client was given the first of them; those left in the message it        *)
(* handles, those in each message on the bus and those of the message      *)
(* being built follow, without a gap; and the operation of the source goes *)
(* on where l ends.                                                        *)

\* the i-th result of l is what may follow those before it
Fits(l, i) ==
  \/ /\ l[i].obj # 0 /\ ~l[i].err /\ l[i].index = i - 1
     /\ \A j \in 1 .. i - 1 : l[j].obj # l[i].obj
     /\ i > 1 => l[i].left < l[i - 1].left
  \/ l[i].obj = 0 /\ l[i].left = 0
Lawful(l) ==
  l \in Seq(AnyResult) /\ \A i \in 1 .. Len(l) : l[i] \in Given /\ Fits(l, i)

\* p has the elements of l after the first a, the first b included
Part(p, l, a, b) ==
  /\ p \in Seq(AnyResult) /\ b - a = Len(p) /\ b <= Len(l)
  /\ \A j \in 1 .. Len(p) : p[j] = l[a + j]

LEMMA AppendLong ==
  ASSUME NEW S, NEW l \in Seq(S), NEW r \in S
  PROVE  /\ Append(l, r) \in Seq(S) /\ Len(Append(l, r)) = Len(l) + 1
         /\ Len(l) \in Nat /\ Append(l, r) = l \o <<r>>
         /\ \A i \in 1 .. Len(l) : Append(l, r)[i] = l[i]
         /\ Append(l, r)[Len(l) + 1] = r
BY AppendProperties

LEMMA ConcatLong ==
  ASSUME NEW S, NEW l \in Seq(S), NEW m \in Seq(S)
  PROVE  /\ l \o m \in Seq(S) /\ Len(l \o m) = Len(l) + Len(m)
         /\ Len(l) \in Nat /\ Len(m) \in Nat
         /\ \A i \in 1 .. Len(l) : (l \o m)[i] = l[i]
         /\ \A i \in 1 .. Len(m) : (l \o m)[Len(l) + i] = m[i]
<1>1. /\ l \o m \in Seq(S) /\ Len(l \o m) = Len(l) + Len(m)
      /\ \A i \in 1 .. Len(l) + Len(m) :
           (l \o m)[i] = IF i <= Len(l) THEN l[i] ELSE m[i - Len(l)]
  BY ConcatProperties
<1>2. Len(l) \in Nat /\ Len(m) \in Nat
  OBVIOUS
<1>3. ASSUME NEW i \in 1 .. Len(l) PROVE (l \o m)[i] = l[i]
  <2>1. i \in 1 .. Len(l) + Len(m) /\ i <= Len(l)
    BY <1>2
  <2> QED
    BY <1>1, <2>1
<1>4. ASSUME NEW i \in 1 .. Len(m) PROVE (l \o m)[Len(l) + i] = m[i]
  <2> DEFINE k == Len(l) + i
  <2>1. k \in 1 .. Len(l) + Len(m) /\ ~(k <= Len(l)) /\ k - Len(l) = i
    BY <1>2
  <2>2. (l \o m)[k] = m[k - Len(l)]
    BY <1>1, <2>1
  <2> QED
    BY <2>1, <2>2
<1> QED
  BY <1>1, <1>2, <1>3, <1>4

(* What is a part stays one when the list grows, and the message being     *)
(* built grows with it.                                                    *)
LEMMA PartStays ==
  ASSUME NEW l \in Seq(AnyResult), NEW r \in AnyResult, NEW p, NEW a \in Nat, NEW b \in Nat,
         Part(p, l, a, b)
  PROVE  Part(p, Append(l, r), a, b)
<1>1. /\ Len(p) \in Nat /\ b - a = Len(p) /\ b <= Len(l)
      /\ \A j \in 1 .. Len(p) : p[j] = l[a + j]
  BY DEF Part
<1>2. /\ Len(Append(l, r)) = Len(l) + 1 /\ Len(l) \in Nat
      /\ \A i \in 1 .. Len(l) : Append(l, r)[i] = l[i]
  BY AppendLong
<1>3. \A j \in 1 .. Len(p) : a + j \in 1 .. Len(l)
  BY <1>1, <1>2
<1>4. \A j \in 1 .. Len(p) : p[j] = Append(l, r)[a + j]
  BY <1>1, <1>2, <1>3
<1>5. b <= Len(Append(l, r))
  BY <1>1, <1>2
<1> QED
  BY <1>1, <1>4, <1>5 DEF Part

LEMMA PartGrows ==
  ASSUME NEW l \in Seq(AnyResult), NEW r \in AnyResult, NEW p, NEW a \in Nat,
         Part(p, l, a, Len(l))
  PROVE  Part(Append(p, r), Append(l, r), a, Len(l) + 1)
<1>1. /\ p \in Seq(AnyResult) /\ Len(p) \in Nat /\ Len(l) - a = Len(p)
      /\ \A j \in 1 .. Len(p) : p[j] = l[a + j]
  BY DEF Part
<1> DEFINE q == Append(p, r)
           m == Append(l, r)
<1>2. /\ Len(m) = Len(l) + 1 /\ Len(l) \in Nat /\ m[Len(l) + 1] = r
      /\ \A i \in 1 .. Len(l) : m[i] = l[i]
  BY AppendLong
<1>3. /\ q \in Seq(AnyResult) /\ Len(q) = Len(p) + 1 /\ q[Len(p) + 1] = r
      /\ \A i \in 1 .. Len(p) : q[i] = p[i]
  BY <1>1, AppendLong
<1> HIDE DEF q, m
<1>4. ASSUME NEW j \in 1 .. Len(q) PROVE q[j] = m[a + j]
  <2>1. CASE j \in 1 .. Len(p)
    <3>1. a + j \in 1 .. Len(l)
      BY <1>1, <1>2, <2>1
    <3> QED
      BY <1>1, <1>2, <1>3, <2>1, <3>1
  <2>2. CASE j = Len(p) + 1
    <3>1. a + j = Len(l) + 1
      BY <1>1, <1>2, <2>2
    <3> QED
      BY <1>2, <1>3, <2>2, <3>1
  <2> QED
    BY <1>1, <1>3, <2>1, <2>2
<1>5. Len(l) + 1 - a = Len(q) /\ Len(l) + 1 <= Len(m)
  <2>1. Len(l) + 1 - a = Len(p) + 1
    BY <1>1, <1>2
  <2>2. Len(l) + 1 <= Len(l) + 1
    BY <1>2
  <2> QED
    BY <1>2, <1>3, <2>1, <2>2
<1>6. Part(q, m, a, Len(l) + 1)
  BY <1>3, <1>4, <1>5 DEF Part
<1> QED
  BY <1>6 DEF q, m

(* One more result keeps to the contract.                                  *)
LEMMA LawfulGrows ==
  ASSUME NEW l, Lawful(l), NEW r \in AnyResult, r \in Given,
         \/ /\ r.obj # 0 /\ ~r.err /\ r.index = Len(l)
            /\ \A j \in 1 .. Len(l) : l[j].obj # r.obj
            /\ Len(l) > 0 => r.left < l[Len(l)].left
         \/ r.obj = 0 /\ r.left = 0
  PROVE  Lawful(Append(l, r))
<1> DEFINE m == Append(l, r)
           n == Len(l)
<1>1. /\ m \in Seq(AnyResult) /\ Len(m) = n + 1 /\ n \in Nat /\ m[n + 1] = r
      /\ \A i \in 1 .. n : m[i] = l[i]
  BY AppendLong DEF Lawful
<1> HIDE DEF m, n
<1>2. ASSUME NEW i \in 1 .. n PROVE m[i] \in Given /\ Fits(m, i)
  <2>1. l[i] \in Given /\ Fits(l, i) /\ m[i] = l[i]
    BY <1>1 DEF Lawful, n
  <2>2. \A j \in 1 .. i - 1 : j \in 1 .. n
    BY <1>1
  <2>3. \A j \in 1 .. i - 1 : m[j] = l[j]
    BY <1>1, <2>2
  <2>4. i > 1 => m[i - 1] = l[i - 1]
    <3>1. i > 1 => i - 1 \in 1 .. i - 1
      BY <1>1
    <3> QED
      BY <2>3, <3>1
  <2> QED
    BY <2>1, <2>3, <2>4 DEF Fits
<1>3. Fits(m, n + 1)
  <2>1. (n + 1) - 1 = n /\ (n + 1 > 1 <=> n > 0)
    BY <1>1
  <2>2. CASE r.obj = 0 /\ r.left = 0
    BY <1>1, <2>2 DEF Fits
  <2>3. CASE ~(r.obj = 0 /\ r.left = 0)
    <3>1. /\ r.obj # 0 /\ ~r.err /\ r.index = n
          /\ \A j \in 1 .. n : l[j].obj # r.obj
          /\ n > 0 => r.left < l[n].left
      BY <2>3 DEF n
    <3>2. n > 0 => n \in 1 .. n
      BY <1>1
    <3>3. n > 0 => m[n] = l[n]
      BY <1>1, <3>2
    <3> QED
      BY <1>1, <2>1, <3>1, <3>3 DEF Fits
  <2> QED
    BY <2>2, <2>3
<1>4. \A i \in 1 .. n + 1 : i \in 1 .. n \/ i = n + 1
  BY <1>1
<1>5. \A i \in 1 .. Len(m) : m[i] \in Given /\ Fits(m, i)
  BY <1>1, <1>2, <1>3, <1>4
<1> QED
  BY <1>1, <1>5 DEF Lawful, m

LEMMA LawfulNothing == Lawful(<<>>)
<1>1. <<>> \in Seq(AnyResult) /\ Len(<<>>) = 0
  OBVIOUS
<1> QED
  BY <1>1 DEF Lawful

(* Failures and the last call without an object may always follow.         *)
LEMMA LawfulEnd ==
  ASSUME NEW l, Lawful(l), NEW r \in {Failure, Nothing(0)} PROVE Lawful(Append(l, r))
<1>1. Failure.obj = 0 /\ Failure.left = 0 /\ Nothing(0).obj = 0 /\ Nothing(0).left = 0
  BY DEF Failure, Nothing, Result
<1>2. Failure \in Given /\ Nothing(0) \in Given
  <2>1. 0 \in 0 .. MaxItems
    BY ItemsAssumption
  <2> QED
    BY <2>1 DEF Given, Nothing
<1>3. Failure \in AnyResult /\ Nothing(0) \in AnyResult
  BY ResultTypes
<1> QED
  BY <1>1, <1>2, <1>3, LawfulGrows

(* Items of a container, each once.                                        *)
Items(ids) ==
  /\ ids \in Seq(Nat) /\ Len(ids) <= MaxItems
  /\ \A i \in 1 .. Len(ids) :
       ids[i] \in 1 .. MaxItems /\ \A j \in 1 .. i - 1 : ids[j] # ids[i]

\* items still to be handed over after l
Supply(ids, l) ==
  /\ Items(ids) /\ Len(ids) + Len(l) <= MaxItems
  /\ \A i \in 1 .. Len(ids), j \in 1 .. Len(l) : l[j].obj # ids[i]
  /\ Len(l) > 0 => l[Len(l)].left = Len(ids)

LEMMA SupplyStarts == ASSUME NEW ids, Items(ids) PROVE Supply(ids, <<>>)
<1>1. Len(<<>>) = 0 /\ Len(ids) \in Nat
  BY DEF Items
<1> QED
  BY <1>1 DEF Supply, Items

(* The first of them is handed over.                                       *)
LEMMA Supplies ==
  ASSUME NEW l, Lawful(l), NEW ids, Supply(ids, l), ids # <<>>
  PROVE  LET m == Append(l, Result(Len(ids) - 1, Len(l), Head(ids)))
         IN  Lawful(m) /\ Supply(Tail(ids), m)
<1> DEFINE r == Result(Len(ids) - 1, Len(l), Head(ids))
           m == Append(l, r)
           t == Tail(ids)
           n == Len(l)
           k == Len(ids)
<1>1. /\ ids \in Seq(Nat) /\ k \in Nat /\ k # 0 /\ Head(ids) = ids[1] /\ t \in Seq(Nat)
      /\ Len(t) = k - 1 /\ \A i \in 1 .. Len(t) : t[i] = ids[i + 1]
  <2>1. ids \in Seq(Nat)
    BY DEF Supply, Items
  <2> QED
    BY <2>1, HeadTailProperties, EmptySeq
<1>2. l \in Seq(AnyResult) /\ n \in Nat
  BY DEF Lawful
<1>3. /\ k <= MaxItems /\ k + n <= MaxItems /\ MaxItems \in Nat
      /\ \A i \in 1 .. k : /\ ids[i] \in 1 .. MaxItems
                           /\ \A j \in 1 .. i - 1 : ids[j] # ids[i]
                           /\ \A j \in 1 .. n : l[j].obj # ids[i]
      /\ n > 0 => l[n].left = k
  BY ItemsAssumption DEF Supply, Items
<1> HIDE DEF t, n, k
<1>4. /\ r.obj = ids[1] /\ r.left = k - 1 /\ r.index = n /\ ~r.err
      /\ ids[1] \in 1 .. MaxItems
  <2>1. 1 \in 1 .. k
    BY <1>1
  <2> QED
    BY <1>1, <1>3, <2>1 DEF Result, k, n
<1>5. r \in Given /\ r \in AnyResult
  <2>1. PICK a \in 0 .. MaxItems, b \in 0 .. MaxItems, c \in 0 .. MaxItems :
          a = k - 1 /\ b = n /\ c = ids[1]
    <3>1. k - 1 \in 0 .. MaxItems /\ n \in 0 .. MaxItems /\ ids[1] \in 0 .. MaxItems
      BY <1>1, <1>2, <1>3, <1>4
    <3> QED
      BY <3>1
  <2>2. r = Result(a, b, c)
    BY <1>1, <2>1 DEF k, n
  <2>3. Result(a, b, c) \in Given
    BY DEF Given
  <2>4. a \in Nat /\ b \in Nat /\ c \in Nat
    BY <1>3, <2>1
  <2>5. Result(a, b, c) \in AnyResult
    BY <2>4, ResultTypes
  <2> QED
    BY <2>2, <2>3, <2>5
<1> HIDE DEF r
<1>6. Lawful(m)
  <2>1. r.obj # 0
    BY <1>3, <1>4
  <2>2. \A j \in 1 .. n : l[j].obj # r.obj
    BY <1>1, <1>3, <1>4
  <2>3. n > 0 => r.left < l[n].left
    BY <1>1, <1>3, <1>4
  <2> QED
    BY <1>4, <1>5, <2>1, <2>2, <2>3, LawfulGrows DEF n
<1>7. /\ Len(m) = n + 1 /\ m[n + 1] = r /\ \A i \in 1 .. n : m[i] = l[i]
  BY <1>2, <1>5, AppendLong DEF n
<1> HIDE DEF m
<1>8. \A i \in 1 .. Len(t) : i + 1 \in 1 .. k /\ \A j \in 1 .. i - 1 : j + 1 \in 1 .. (i + 1) - 1
  BY <1>1
<1>9. Items(t)
  <2>1. ASSUME NEW i \in 1 .. Len(t), NEW j \in 1 .. i - 1 PROVE t[j] # t[i]
    <3>1. j \in 1 .. Len(t) /\ j + 1 \in 1 .. (i + 1) - 1 /\ i + 1 \in 1 .. k
      BY <1>1, <1>8
    <3> QED
      BY <1>1, <1>3, <3>1
  <2>2. \A i \in 1 .. Len(t) : t[i] \in 1 .. MaxItems
    BY <1>1, <1>3, <1>8
  <2>3. Len(t) <= MaxItems
    BY <1>1, <1>3
  <2> QED
    BY <1>1, <2>1, <2>2, <2>3 DEF Items
<1>10. ASSUME NEW i \in 1 .. Len(t), NEW j \in 1 .. n + 1 PROVE m[j].obj # t[i]
  <2>1. i + 1 \in 1 .. k /\ 1 \in 1 .. (i + 1) - 1 /\ t[i] = ids[i + 1]
    BY <1>1, <1>8
  <2>2. CASE j \in 1 .. n
    BY <1>3, <1>7, <2>1, <2>2
  <2>3. CASE j = n + 1
    BY <1>3, <1>4, <1>7, <2>1, <2>3
  <2> QED
    BY <1>2, <2>2, <2>3
<1>11. Len(t) + Len(m) <= MaxItems /\ m[Len(m)].left = Len(t)
  <2>1. Len(t) + Len(m) = k + n
    BY <1>1, <1>2, <1>7
  <2> QED
    BY <1>1, <1>3, <1>4, <1>7, <2>1
<1>12. Supply(t, m)
  BY <1>7, <1>9, <1>10, <1>11 DEF Supply
<1> QED
  BY <1>6, <1>12 DEF m, t, r, n, k

(* What is handed over at last when nothing was there.                     *)
LEMMA LawfulLast ==
  ASSUME NEW l, Lawful(l), NEW n \in 0 .. MaxItems
  PROVE  Lawful(Append(l, Nothing(n)))
<1>1. Nothing(n).obj = 0 /\ Nothing(n).left = 0
  BY DEF Nothing, Result
<1>2. Nothing(n) \in Given
  <2>1. 0 \in 0 .. MaxItems
    BY ItemsAssumption
  <2> QED
    BY <2>1 DEF Given, Nothing
<1>3. Nothing(n) \in AnyResult
  BY ResultTypes, ItemsAssumption
<1> QED
  BY <1>1, <1>2, <1>3, LawfulGrows

(* The window of a container, and part of a list, have its items once.     *)
LEMMA WindowItems ==
  ASSUME NEW first \in Nat \ {0}, NEW last \in 0 .. MaxItems, NEW skip \in Nat, NEW count \in Nat,
         first <= last + 1
  PROVE  LET l == Window(first, last, skip, count) IN
         /\ Items(l) /\ Len(l) <= last + 1 - first
         /\ \A i \in 1 .. Len(l) : l[i] \in first .. last
<1> DEFINE from == first + skip
           to == IF count = 0 THEN last ELSE Least(last, from + count - 1)
           n == IF to < from THEN 0 ELSE to - from + 1
           l == Window(first, last, skip, count)
<1>1. from \in Nat /\ from >= first /\ last \in Nat /\ first \in Nat /\ MaxItems \in Nat
      /\ last <= MaxItems /\ first >= 1
  BY ItemsAssumption
<1>2. to \in Int /\ to <= last
  BY <1>1 DEF Least
<1>3. l = [i \in 1 .. n |-> from + i - 1]
  BY DEF Window
<1> HIDE DEF from, to, l
<1>4. n \in Nat /\ n <= last + 1 - first /\ n <= MaxItems /\ (n > 0 => from + n - 1 <= last)
  BY <1>1, <1>2
<1> HIDE DEF n
<1>5. \A i \in 1 .. n : from + i - 1 \in first .. last /\ from + i - 1 \in 1 .. MaxItems
  BY <1>1, <1>4
<1>6. l \in Seq(Nat) /\ Len(l) = n
  <2>1. \A i \in 1 .. n : from + i - 1 \in Nat
    BY <1>5
  <2> QED
    BY <1>3, <1>4, <2>1
<1>7. \A i \in 1 .. n : l[i] = from + i - 1
  BY <1>3
<1>8. \A i \in 1 .. n : \A j \in 1 .. i - 1 : j \in 1 .. n /\ from + j - 1 # from + i - 1
  BY <1>1, <1>4
<1>9. \A i \in 1 .. n : \A j \in 1 .. i - 1 : l[j] # l[i]
  BY <1>7, <1>8
<1>10. Items(l)
  BY <1>4, <1>5, <1>6, <1>7, <1>9 DEF Items
<1> QED
  BY <1>4, <1>5, <1>6, <1>7, <1>10 DEF l

(* Where the operations of the sources go on after l.                      *)
UpnpAfter(a, l, stock) ==
  /\ a.current = Len(l)
  /\ \A j \in 1 .. Len(l) : l[j].obj = a.skip + j
  /\ a.remaining = Unknown => Len(l) = 0
  /\ a.remaining # Unknown =>
       a.remaining <= stock /\ (Len(l) > 0 => l[Len(l)].left = a.remaining)

IradioAfter(b, l) ==
  /\ Supply(b.list, l) /\ b.next = Len(l)
  /\ Len(l) > 0 => b.skip = 0 /\ (b.count = 0 \/ Len(b.list) <= b.count)

TrackerAfter(c, l, stock) ==
  /\ c.st = "emit" => Supply(c.ids, l) /\ c.index = Len(l)
  /\ c.st # "emit" => Len(l) = 0 /\ Items(c.ids)
  /\ c.st = "query" /\ c.what # "branches" => c.ids = <<>>
  /\ c.st = "query" /\ c.what = "branches" =>
       \A i \in 1 .. Len(c.ids) : c.ids[i] \in Branches \ c.awaited
  /\ c.st = "videos" =>
       Len(c.ids) <= Songs(stock) /\ \A i \in 1 .. Len(c.ids) : c.ids[i] <= Songs(stock)

\* what a handler said after l is lawful, and its operation goes on from there
Goes(l, says, speaks, after) ==
  Lawful(l \o says) /\ (speaks => after)

LEMMA SaidNothing == ASSUME NEW l, Lawful(l) PROVE l \o <<>> = l
BY ConcatEmptySeq DEF Lawful

LEMMA SaidOne ==
  ASSUME NEW l, Lawful(l), NEW r \in AnyResult PROVE l \o <<r>> = Append(l, r)
BY AppendIsConcat DEF Lawful

(* UPnP: the items of an answer.                                           *)
LEMMA UpnpParses ==
  ASSUME NEW a \in UpnpOp, a.remaining \in Nat, NEW n \in Nat, NEW l, Lawful(l),
         NEW stock \in 0 .. MaxItems, UpnpAfter(a, l, stock),
         n = 0 \/ a.skip + a.current + n <= stock
  PROVE  LET p == Parsed(a, n) IN
         /\ Lawful(l \o p.says) /\ UpnpAfter(p.a, l \o p.says, stock)
<1> DEFINE k == Least(n, a.remaining)
           p == Parsed(a, n)
           m == l \o p.says
           N == Len(l)
<1>1. /\ a.skip \in Nat /\ a.count \in Nat /\ a.current \in Nat /\ a.remaining \in Nat
      /\ stock \in Nat /\ MaxItems \in Nat /\ stock <= MaxItems
  BY ItemsAssumption DEF UpnpOp
<1>2. /\ a.current = N /\ \A j \in 1 .. N : l[j].obj = a.skip + j
      /\ a.remaining <= stock /\ (N > 0 => l[N].left = a.remaining)
      /\ N \in Nat /\ l \in Seq(AnyResult)
      /\ \A i \in 1 .. N : l[i] \in Given /\ Fits(l, i)
  BY <1>1 DEF UpnpAfter, Unknown, Lawful
<1>3. k \in Nat /\ k <= a.remaining /\ k <= n
  BY <1>1 DEF Least
<1> HIDE DEF k
<1>4. /\ p.a = [a EXCEPT !.current = @ + k, !.remaining = @ - k]
      /\ p.says = [i \in 1 .. k |-> Result(a.remaining - i, a.current + i - 1,
                                           a.skip + a.current + i)]
  BY DEF Parsed, k
<1>5. p.a.current = N + k /\ p.a.remaining = a.remaining - k /\ p.a.skip = a.skip
  BY <1>2, <1>4 DEF UpnpOp
<1>6. p.says \in Sayings
  BY UpnpParsed
<1> HIDE DEF p
<1>7. p.says \in Seq(AnyResult) /\ Len(p.says) = k
  BY <1>3, <1>4, <1>6 DEF Sayings
<1> HIDE DEF N
<1>8. /\ m \in Seq(AnyResult) /\ Len(m) = N + k
      /\ \A i \in 1 .. N : m[i] = l[i]
      /\ \A i \in 1 .. k : m[N + i] = p.says[i]
  <2>1. \A q \in Seq(AnyResult) :
          /\ l \o q \in Seq(AnyResult) /\ Len(l \o q) = N + Len(q)
          /\ \A i \in 1 .. N : (l \o q)[i] = l[i]
          /\ \A i \in 1 .. Len(q) : (l \o q)[N + i] = q[i]
    BY <1>2, ConcatLong DEF N
  <2> QED
    BY <1>7, <2>1
<1> HIDE DEF m
<1>8a. k > 0 => a.skip + N + k <= stock
  <2>1. k > 0 => a.skip + a.current + n <= stock
    BY <1>1, <1>3
  <2> QED
    BY <1>1, <1>2, <1>3, <2>1
<1>9. ASSUME NEW i \in 1 .. k
      PROVE  /\ m[N + i] \in Given /\ m[N + i].obj = a.skip + (N + i) /\ ~m[N + i].err
             /\ m[N + i].index = N + i - 1 /\ m[N + i].left = a.remaining - i
  <2>1. /\ a.remaining - i \in 0 .. MaxItems /\ N + i - 1 \in 0 .. MaxItems
        /\ a.skip + N + i \in 0 .. MaxItems
    <3>1. a.skip + N + k <= stock /\ i <= k /\ i >= 1 /\ i \in Nat
      BY <1>3, <1>8a
    <3>2. a.remaining - i \in 0 .. MaxItems
      BY <1>1, <1>2, <1>3, <3>1
    <3>3. /\ N \in Nat /\ a.skip \in Nat /\ k \in Nat /\ stock \in Nat /\ MaxItems \in Nat
          /\ stock <= MaxItems
      BY <1>1, <1>2, <1>3
    <3>4. a.skip + N + i \in 0 .. MaxItems
      BY <3>1, <3>3
    <3>5. N + i - 1 \in 0 .. MaxItems
      BY <3>1, <3>3
    <3> QED
      BY <3>2, <3>4, <3>5
  <2>2. PICK x \in 0 .. MaxItems, y \in 0 .. MaxItems, z \in 0 .. MaxItems :
          x = a.remaining - i /\ y = N + i - 1 /\ z = a.skip + N + i
    BY <2>1
  <2>3. m[N + i] = Result(x, y, z)
    BY <1>2, <1>4, <1>8, <2>2
  <2>4. Result(x, y, z) \in Given
    BY DEF Given
  <2>5. a.skip + N + i = a.skip + (N + i)
    BY <1>1, <1>2
  <2> QED
    BY <2>2, <2>3, <2>4, <2>5 DEF Result
<1>10. ASSUME NEW i \in 1 .. N PROVE m[i] \in Given /\ Fits(m, i)
  <2>1. l[i] \in Given /\ Fits(l, i) /\ m[i] = l[i]
    BY <1>2, <1>8
  <2>2. \A j \in 1 .. i - 1 : j \in 1 .. N
    BY <1>2
  <2>3. \A j \in 1 .. i - 1 : m[j] = l[j]
    BY <1>8, <2>2
  <2>4. i > 1 => m[i - 1] = l[i - 1]
    <3>1. i > 1 => i - 1 \in 1 .. i - 1
      BY <1>2
    <3> QED
      BY <2>3, <3>1
  <2> QED
    BY <2>1, <2>3, <2>4 DEF Fits
<1>11. \A j \in 1 .. N + k : j \in 1 .. N \/ \E i \in 1 .. k : j = N + i
  <2> TAKE j \in 1 .. N + k
  <2>1. j \notin 1 .. N => j - N \in 1 .. k /\ j = N + (j - N)
    BY <1>2, <1>3
  <2> QED
    BY <2>1
<1>12. \A j \in 1 .. N + k : m[j].obj = a.skip + j
  BY <1>2, <1>8, <1>9, <1>11
<1>13. ASSUME NEW i \in 1 .. k PROVE Fits(m, N + i)
  <2>1. N + i \in 1 .. N + k /\ N + i - 1 = (N + i) - 1 /\ a.skip + (N + i) # 0
    BY <1>1, <1>2, <1>3
  <2>2. \A j \in 1 .. (N + i) - 1 : m[j].obj # m[N + i].obj
    <3>1. \A j \in 1 .. (N + i) - 1 : j \in 1 .. N + k /\ a.skip + j # a.skip + (N + i)
      BY <1>1, <1>2, <1>3
    <3> QED
      BY <1>9, <1>12, <3>1
  <2>3. N + i > 1 => m[N + i].left < m[(N + i) - 1].left
    <3>1. CASE i = 1
      <4>1. N + i > 1 => N \in 1 .. N /\ (N + i) - 1 = N /\ N > 0
        BY <1>2, <3>1
      <4>2. N + i > 1 => m[(N + i) - 1].left = a.remaining
        BY <1>2, <1>8, <4>1
      <4> QED
        BY <1>1, <1>9, <3>1, <4>2
    <3>2. CASE i # 1
      <4>1. i - 1 \in 1 .. k /\ (N + i) - 1 = N + (i - 1)
        BY <1>2, <1>3, <3>2
      <4>2. m[N + (i - 1)].left = a.remaining - (i - 1)
        BY <1>9, <4>1
      <4>3. a.remaining - i < a.remaining - (i - 1)
        BY <1>1
      <4> QED
        BY <1>9, <4>1, <4>2, <4>3
    <3> QED
      BY <3>1, <3>2
  <2> QED
    BY <1>9, <2>1, <2>2, <2>3 DEF Fits
<1>14. Lawful(m)
  <2>1. \A j \in 1 .. N + k : m[j] \in Given /\ Fits(m, j)
    BY <1>9, <1>10, <1>11, <1>13
  <2> QED
    BY <1>8, <2>1 DEF Lawful
<1>15. UpnpAfter(p.a, m, stock)
  <2>1. a.remaining - k <= stock /\ a.remaining - k # Unknown
    BY <1>1, <1>2, <1>3 DEF Unknown
  <2>2. N + k > 0 => m[N + k].left = a.remaining - k
    <3>1. CASE k = 0
      <4>1. N + k = N /\ a.remaining - k = a.remaining /\ (N > 0 => N \in 1 .. N)
        BY <1>1, <1>2, <3>1
      <4> QED
        BY <1>2, <1>8, <4>1
    <3>2. CASE k # 0
      <4>1. k \in 1 .. k
        BY <1>3, <3>2
      <4> QED
        BY <1>9, <4>1
    <3> QED
      BY <3>1, <3>2
  <2> QED
    BY <1>5, <1>8, <1>12, <2>1, <2>2 DEF UpnpAfter
<1> QED
  BY <1>14, <1>15 DEF m, p

LEMMA SaidMore ==
  ASSUME NEW l, Lawful(l), NEW x \in Sayings, Lawful(l \o x), NEW r \in {Failure, Nothing(0)}
  PROVE  Lawful(l \o Append(x, r))
<1>1. r \in AnyResult /\ x \in Seq(AnyResult) /\ l \in Seq(AnyResult)
  BY ResultTypes DEF Sayings, Lawful
<1>2. Append(x, r) = x \o <<r>> /\ <<r>> \in Seq(AnyResult)
  BY <1>1, AppendIsConcat
<1>3. l \o Append(x, r) = (l \o x) \o <<r>>
  BY <1>1, <1>2, ConcatAssociative
<1>4. (l \o x) \o <<r>> = Append(l \o x, r)
  BY <1>1, SaidOne
<1> QED
  BY <1>3, <1>4, LawfulEnd

LEMMA UnrefLawful ==
  ASSUME NEW l, Lawful(l), NEW x \in Sayings, Lawful(l \o x), NEW r \in {Failure, Nothing(0)},
         NEW a
  PROVE  Unref(a, x, r).op = Over /\ Lawful(l \o Unref(a, x, r).says)
<1>1. Unref(a, x, r).says \in {x, Append(x, r)} /\ Unref(a, x, r).op = Over
  BY DEF Unref, Outcome
<1> QED
  BY <1>1, SaidMore

LEMMA UpnpGoes ==
  ASSUME NEW a \in UpnpOp, NEW l, Lawful(l), NEW stock \in 0 .. MaxItems,
         UpnpAfter(a, l, stock), NEW o \in UpnpSteps(a, stock) \cup {UpnpCancel(a, TRUE)}
  PROVE  Goes(l, o.says, o.op # Over, UpnpAfter(o.op, l \o o.says, stock))
<1>1. l \o <<>> = l /\ <<>> \in Sayings /\ \A r \in {Failure, Nothing(0)} : Lawful(l \o <<r>>)
  <2>1. \A r \in {Failure, Nothing(0)} : r \in AnyResult /\ l \o <<r>> = Append(l, r)
    BY SaidOne, ResultTypes
  <2> QED
    BY <2>1, SaidNothing, SayingTypes, LawfulEnd
<1>2. CASE o = UpnpCancel(a, TRUE)
  <2>1. o = Unref(a, <<>>, Failure)
    BY <1>2 DEF UpnpCancel
  <2>2. o.op = Over /\ Lawful(l \o o.says)
    BY <1>1, <2>1, UnrefLawful
  <2> QED
    BY <2>2 DEF Goes
<1>3. ASSUME NEW total, NEW r \in {Failure, Nothing(0)}, o = Failed(a, total, r)
      PROVE  Goes(l, o.says, o.op # Over, UpnpAfter(o.op, l \o o.says, stock))
  <2>1. o.op = Over /\ o.says \in {<<>>, <<r>>}
    BY <1>3 DEF Failed, Outcome
  <2> QED
    BY <1>1, <2>1 DEF Goes
<1>4. ASSUME NEW n \in Nat, o = Answered(a, stock, n), n = 0 \/ a.skip + a.current + n <= stock
      PROVE  Goes(l, o.says, o.op # Over, UpnpAfter(o.op, l \o o.says, stock))
  <2> DEFINE b == [a EXCEPT !.remaining = Remaining(a, stock)]
             p == Parsed(b, n)
  <2>1. b \in UpnpOp /\ b.remaining \in Nat /\ b.skip = a.skip /\ b.current = a.current
        /\ UpnpAfter(b, l, stock)
    <3>1. stock \in Nat /\ a.count \in Nat /\ a.remaining \in Nat \cup {Unknown}
      BY ItemsAssumption DEF UpnpOp
    <3> DEFINE q == Remaining(a, stock)
    <3>2. q \in Nat /\ q <= stock /\ (a.remaining # Unknown => q = a.remaining)
      <4>1. CASE a.remaining = Unknown
        BY <3>1, <4>1 DEF Remaining
      <4>2. CASE a.remaining # Unknown
        BY <3>1, <4>2 DEF Remaining, UpnpAfter
      <4> QED
        BY <4>1, <4>2
    <3> HIDE DEF q
    <3>3. /\ b \in UpnpOp /\ b.remaining = q /\ b.skip = a.skip /\ b.current = a.current
      <4>1. b = [a EXCEPT !.remaining = q]
        BY DEF q
      <4> QED
        BY <3>2, <4>1 DEF UpnpOp
    <3> HIDE DEF b
    <3>4. Len(l) \in Nat
      BY DEF Lawful
    <3>5. UpnpAfter(b, l, stock)
      BY <3>2, <3>3, <3>4 DEF UpnpAfter, Unknown
    <3> QED
      BY <3>2, <3>3, <3>5
  <2>2. o \in {Unref(p.a, p.says, Nothing(0)),
               Unref(p.a, Append(p.says, Nothing(0)), Nothing(0)), Outcome(p.a, p.says)}
    BY <1>4 DEF Answered
  <2> HIDE DEF b
  <2>3. /\ Lawful(l \o p.says) /\ UpnpAfter(p.a, l \o p.says, stock)
    BY <1>4, <2>1, UpnpParses
  <2>4. p.says \in Sayings
    BY <2>1, UpnpParsed
  <2> HIDE DEF p
  <2>5. Lawful(l \o Append(p.says, Nothing(0))) /\ Append(p.says, Nothing(0)) \in Sayings
    BY <2>3, <2>4, SaidMore, SayingTypes, ResultTypes
  <2>6. CASE o = Outcome(p.a, p.says)
    BY <2>3, <2>6 DEF Outcome, Goes
  <2>7. CASE o = Unref(p.a, p.says, Nothing(0))
    <3>1. o.op = Over /\ Lawful(l \o o.says)
      BY <2>3, <2>4, <2>7, UnrefLawful
    <3> QED
      BY <3>1 DEF Goes
  <2>8. CASE o = Unref(p.a, Append(p.says, Nothing(0)), Nothing(0))
    <3>1. o.op = Over /\ Lawful(l \o o.says)
      BY <2>5, <2>8, UnrefLawful
    <3> QED
      BY <3>1 DEF Goes
  <2> QED
    BY <2>2, <2>6, <2>7, <2>8
<1>5. CASE o \in UpnpSteps(a, stock)
  <2> DEFINE have == stock - (a.skip + a.current)
             asked0 == IF a.count = 0 THEN Slice ELSE Least(Slice, a.count)
             most == IF have < 0 THEN 0 ELSE Least(have, asked0)
  <2>1. most \in Nat /\ Least(1, most) \in Nat /\ (most = 0 \/ most <= have)
        /\ a.skip \in Nat /\ a.current \in Nat /\ stock \in Nat
    <3>1. have \in Int /\ asked0 \in Nat /\ a.skip \in Nat /\ a.current \in Nat /\ stock \in Nat
      BY SliceAssumption, ItemsAssumption DEF UpnpOp, Least
    <3> HIDE DEF have, asked0
    <3> QED
      BY <3>1 DEF Least
  <2>2. \/ \E r \in {Failure, Nothing(0)} : \E total : o = Failed(a, total, r)
        \/ \E n \in Least(1, most) .. most : o = Answered(a, stock, n)
    <3>1. o \in {Failed(a, IF a.remaining = Unknown THEN 0 ELSE stock, Failure)}
             \cup (IF stock = 0 THEN {Failed(a, 0, Nothing(0))}
                   ELSE {Failed(a, stock, Failure)}
                        \cup {Answered(a, stock, n) : n \in Least(1, most) .. most})
      BY <1>5 DEF UpnpSteps
    <3> HIDE DEF most
    <3>2. CASE o \in {Failed(a, IF a.remaining = Unknown THEN 0 ELSE stock, Failure),
                      Failed(a, 0, Nothing(0)), Failed(a, stock, Failure)}
      BY <3>2, Zenon
    <3>3. CASE o \in {Answered(a, stock, n) : n \in Least(1, most) .. most}
      BY <3>3
    <3> QED
      BY <3>1, <3>2, <3>3
  <2> HIDE DEF most
  <2>3. \A n \in Least(1, most) .. most : n \in Nat /\ (n = 0 \/ a.skip + a.current + n <= stock)
    BY <2>1
  <2> QED
    BY <1>3, <1>4, <2>2, <2>3
<1> QED
  BY <1>2, <1>5

(* The radio stations: cut once, at the first idle.                        *)
LEMMA PartItems ==
  ASSUME NEW ids, Items(ids), NEW a \in Nat \ {0}, NEW b \in Nat, b <= Len(ids)
  PROVE  LET p == SubSeq(ids, a, b) IN
         Items(p) /\ Len(p) = IF a <= b THEN b - a + 1 ELSE 0
<1> DEFINE p == SubSeq(ids, a, b)
<1>1. /\ ids \in Seq(Nat) /\ Len(ids) \in Nat /\ Len(ids) <= MaxItems /\ MaxItems \in Nat
      /\ \A i \in 1 .. Len(ids) : ids[i] \in 1 .. MaxItems /\ \A j \in 1 .. i - 1 : ids[j] # ids[i]
  BY ItemsAssumption DEF Items
<1>2. \A i \in a .. b : i \in 1 .. Len(ids) /\ ids[i] \in Nat
  <2>1. \A i \in a .. b : i \in 1 .. Len(ids)
    BY <1>1
  <2> QED
    BY <1>1, <2>1
<1>3. /\ p \in Seq(Nat) /\ Len(p) = (IF a <= b THEN b - a + 1 ELSE 0)
      /\ \A i \in 1 .. b - a + 1 : p[i] = ids[a + i - 1]
  BY <1>2, SubSeqProperties
<1> HIDE DEF p
<1>4. ASSUME NEW i \in 1 .. Len(p)
      PROVE  p[i] \in 1 .. MaxItems /\ \A j \in 1 .. i - 1 : p[j] # p[i]
  <2>1. a <= b /\ i \in 1 .. b - a + 1
    BY <1>3
  <2>2. a + i - 1 \in 1 .. Len(ids) /\ p[i] = ids[a + i - 1]
    BY <1>1, <1>3, <2>1
  <2>3. \A j \in 1 .. i - 1 : j \in 1 .. b - a + 1 /\ a + j - 1 \in 1 .. (a + i - 1) - 1
    BY <2>1
  <2>4. \A j \in 1 .. i - 1 : p[j] = ids[a + j - 1] /\ ids[a + j - 1] # ids[a + i - 1]
    BY <1>1, <1>3, <2>2, <2>3
  <2> QED
    BY <1>1, <2>2, <2>4
<1>5. Len(p) <= MaxItems
  BY <1>1, <1>3
<1> QED
  BY <1>3, <1>4, <1>5 DEF Items, p

LEMMA NoneSaid == ASSUME NEW l, Lawful(l), ~(Len(l) > 0) PROVE l = <<>>
<1>1. l \in Seq(AnyResult) /\ Len(l) \in Nat
  BY DEF Lawful
<1>2. Len(l) = 0
  BY <1>1
<1> QED
  BY <1>1, <1>2, EmptySeq

LEMMA TrimmedAfter ==
  ASSUME NEW b \in IradioOp, NEW l, Lawful(l), IradioAfter(b, l),
         ~(b.skip # 0 /\ b.skip >= Len(b.list))
  PROVE  LET t == Trimmed(b) IN
         /\ Supply(t.list, l) /\ t.next = Len(l) /\ t.skip = 0
         /\ t.count = 0 \/ Len(t.list) <= t.count
<1> DEFINE l0 == SubSeq(b.list, b.skip + 1, Len(b.list))
           cut == b.count # 0 /\ Len(l0) > b.count
           list == IF cut THEN SubSeq(l0, 1, b.count) ELSE l0
           count == IF Len(l0) > b.count THEN 0 ELSE b.count
           t == Trimmed(b)
<1>1. /\ t.list = list /\ t.next = b.next /\ t.skip = 0 /\ t.count = count
  BY DEF Trimmed, IradioOp
<1> HIDE DEF t
<1>2. /\ b.list \in Seq(Nat) /\ b.skip \in Nat /\ b.count \in Nat /\ Len(b.list) \in Nat
      /\ Supply(b.list, l) /\ Items(b.list) /\ b.next = Len(l) /\ Len(l) \in Nat
  BY DEF IradioAfter, IradioOp, Supply, Lawful
<1>3. Items(l0) /\ Len(l0) \in Nat
  <2>1. PICK a \in Nat \ {0} : a = b.skip + 1
    <3>1. b.skip + 1 \in Nat \ {0}
      BY <1>2
    <3> QED
      BY <3>1
  <2>2. Items(SubSeq(b.list, a, Len(b.list)))
    BY <1>2, PartItems
  <2>3. Items(l0)
    BY <2>1, <2>2
  <2> HIDE DEF l0
  <2> QED
    BY <2>3 DEF Items
<1>4. count = 0 \/ Len(list) <= count
  BY <1>2, <1>3
<1>5. CASE ~(Len(l) > 0)
  <2>1. l = <<>>
    BY <1>5, NoneSaid
  <2>2. cut => Items(SubSeq(l0, 1, b.count))
    <3> HIDE DEF l0
    <3>1. cut => b.count <= Len(l0)
      BY <1>2, <1>3
    <3> QED
      BY <1>2, <1>3, <3>1, PartItems
  <2>3. Items(list)
    BY <1>3, <2>2
  <2> HIDE DEF list
  <2>4. Supply(list, l)
    BY <2>1, <2>3, SupplyStarts
  <2> QED
    BY <1>1, <1>2, <1>4, <2>4 DEF t
<1>6. CASE Len(l) > 0
  <2>1. b.skip = 0 /\ (b.count = 0 \/ Len(b.list) <= b.count)
    BY <1>6 DEF IradioAfter
  <2>2. l0 = b.list
    <3>1. b.skip + 1 = 1
      BY <2>1
    <3>2. SubSeq(b.list, 1, Len(b.list)) = b.list
      BY <1>2, SubSeqFull
    <3> QED
      BY <3>1, <3>2
  <2> HIDE DEF l0
  <2>3. ~cut
    BY <1>2, <2>1, <2>2
  <2>4. list = b.list
    BY <2>2, <2>3
  <2> HIDE DEF list
  <2> QED
    BY <1>1, <1>2, <1>4, <2>4 DEF t
<1> QED
  BY <1>5, <1>6

LEMMA IradioGoes ==
  ASSUME NEW b \in IradioOp, IradioSpeaks(b), NEW l, Lawful(l), IradioAfter(b, l),
         NEW o \in IradioSteps(b)
  PROVE  Goes(l, o.says, o.op # Over /\ IradioSpeaks(o.op), IradioAfter(o.op, l \o o.says))
<1>1. CASE b.skip # 0 /\ b.skip >= Len(b.list)
  <2>1. o = Outcome([b EXCEPT !.free_req = TRUE], <<Failure>>)
    BY <1>1 DEF IradioSteps, IradioSpeaks
  <2>2. ~IradioSpeaks(o.op) /\ o.says = <<Failure>>
    BY <2>1 DEF Outcome, IradioOp, IradioSpeaks
  <2>3. Lawful(l \o <<Failure>>)
    BY LawfulEnd, SaidOne, ResultTypes
  <2> QED
    BY <2>2, <2>3 DEF Goes
<1>2. CASE ~(b.skip # 0 /\ b.skip >= Len(b.list))
  <2> DEFINE t == Trimmed(b)
  <2>1. o = Emitted(t)
    BY <1>2 DEF IradioSteps, IradioSpeaks
  <2>2. /\ Supply(t.list, l) /\ t.next = Len(l) /\ t.skip = 0
        /\ t.count = 0 \/ Len(t.list) <= t.count
    BY <1>2, TrimmedAfter
  <2>3. t \in IradioOp /\ t.list \in Seq(Nat) /\ t.count \in Nat
    BY TrimmedType DEF IradioOp
  <2> HIDE DEF t
  <2>4. CASE t.list = <<>>
    <3>1. o = Outcome([t EXCEPT !.next = @ + 1, !.free_req = TRUE], <<Nothing(t.next)>>)
      BY <2>1, <2>4 DEF Emitted
    <3>2. ~IradioSpeaks(o.op) /\ o.says = <<Nothing(t.next)>>
      BY <2>3, <3>1 DEF Outcome, IradioOp, IradioSpeaks
    <3>3. t.next \in 0 .. MaxItems /\ t.next \in Nat
      <4>1. /\ Len(t.list) + Len(l) <= MaxItems /\ Len(t.list) = 0 /\ Len(l) \in Nat
            /\ MaxItems \in Nat
        BY <2>2, <2>4, ItemsAssumption DEF Supply, Lawful
      <4> QED
        BY <2>2, <4>1
    <3>4. Nothing(t.next) \in AnyResult
      BY <3>3, ResultTypes
    <3>5. Lawful(l \o o.says)
      BY <3>2, <3>3, <3>4, LawfulLast, SaidOne
    <3> QED
      BY <3>2, <3>5 DEF Goes
  <2>5. CASE t.list # <<>>
    <3> DEFINE r == Result(Len(t.list) - 1, Len(l), Head(t.list))
               m == Append(l, r)
               op == [t EXCEPT !.list = Tail(@), !.next = @ + 1, !.free_req = Len(t.list) = 1]
    <3>1. o = Outcome(op, <<r>>)
      BY <2>1, <2>2, <2>5 DEF Emitted
    <3>2. Lawful(m) /\ Supply(Tail(t.list), m)
      BY <2>2, <2>5, Supplies
    <3>3. Len(l) \in Nat /\ r \in AnyResult
      <4>1. Len(l) \in Nat
        BY DEF Lawful
      <4>2. r \in AnyResult
        BY <2>3, <2>5, <4>1, ListResult
      <4> QED
        BY <4>1, <4>2
    <3>4. l \o <<r>> = m
      BY <3>3, SaidOne
    <3>5. op.list = Tail(t.list) /\ op.next = Len(l) + 1 /\ op.skip = 0 /\ op.count = t.count
      BY <2>2, <2>3 DEF IradioOp
    <3> HIDE DEF r, op
    <3>6. Len(m) = Len(l) + 1
      BY <3>3, AppendLong DEF Lawful
    <3> HIDE DEF m
    <3>7. t.count = 0 \/ Len(Tail(t.list)) <= t.count
      <4>1. Len(Tail(t.list)) = Len(t.list) - 1 /\ Len(t.list) \in Nat
        BY <2>3, <2>5, HeadTailProperties
      <4> QED
        BY <2>2, <2>3, <4>1
    <3>8. IradioAfter(op, m)
      BY <3>2, <3>5, <3>6, <3>7 DEF IradioAfter
    <3>9. o.op = op /\ o.says = <<r>>
      BY <3>1 DEF Outcome
    <3> QED
      BY <3>2, <3>4, <3>8, <3>9 DEF Goes
  <2> QED
    BY <2>4, <2>5
<1> QED
  BY <1>1, <1>2

(* A browse begins with all the stations.                                  *)
LEMMA IradioBegins ==
  ASSUME NEW req \in Criteria, NEW stock \in 0 .. MaxItems
  PROVE  IradioAfter(IradioStart(req, stock).op, <<>>)
<1> DEFINE ids == [i \in 1 .. stock |-> i]
           b == IradioStart(req, stock).op
<1>1. b.list = ids /\ b.next = 0
  BY DEF IradioStart, Outcome
<1>2. stock \in Nat /\ stock <= MaxItems
  BY ItemsAssumption
<1>3. ids \in Seq(Nat) /\ Len(ids) = stock /\ \A i \in 1 .. stock : ids[i] = i
  BY <1>2
<1> HIDE DEF ids, b
<1>4. \A i \in 1 .. stock : i \in 1 .. MaxItems /\ \A j \in 1 .. i - 1 : j \in 1 .. stock /\ j # i
  BY <1>2, ItemsAssumption
<1>5. Items(ids)
  BY <1>2, <1>3, <1>4 DEF Items
<1>6. Supply(ids, <<>>) /\ Len(<<>>) = 0
  BY <1>5, SupplyStarts
<1> QED
  BY <1>1, <1>6 DEF IradioAfter, b

(* Tracker: the ids are gathered, each once, before any is handed over.    *)
LEMMA QuietGoes ==
  ASSUME NEW l, Lawful(l), NEW stock, NEW d, TrackerAfter(d, l, stock)
  PROVE  LET o == Outcome(d, <<>>) IN
         Goes(l, o.says, o.op # Over /\ TrackerSpeaks(o.op), TrackerAfter(o.op, l \o o.says, stock))
BY SaidNothing DEF Goes, Outcome

LEMMA ErredGoes ==
  ASSUME NEW c \in TrackerOp, NEW l, Lawful(l), NEW stock
  PROVE  LET o == Erred(c) IN
         Goes(l, o.says, o.op # Over /\ TrackerSpeaks(o.op), TrackerAfter(o.op, l \o o.says, stock))
<1>1. Erred(c).says \in {<<>>, <<Failure>>} /\ Erred(c).op = [c EXCEPT !.st = "stuck"]
  BY DEF Erred, Outcome
<1>2. ~TrackerSpeaks(Erred(c).op)
  BY <1>1 DEF TrackerOp, TrackerSpeaks
<1>3. Lawful(l \o <<Failure>>) /\ Lawful(l \o <<>>)
  BY LawfulEnd, SaidOne, SaidNothing, ResultTypes
<1> QED
  BY <1>1, <1>2, <1>3 DEF Goes

LEMMA EmitsAfter ==
  ASSUME NEW c \in TrackerOp, NEW d, Kept(c, d), Items(d.ids), NEW l, Lawful(l), Len(l) = 0,
         NEW stock
  PROVE  TrackerAfter(Emits(d), l, stock)
<1>1. l = <<>>
  BY NoneSaid
<1>2. Emits(d).st = "emit" /\ Emits(d).index = 0 /\ Emits(d).ids = d.ids
  BY DEF Emits, Kept, TrackerOp
<1>3. Supply(d.ids, l)
  BY <1>1, SupplyStarts
<1> QED
  BY <1>2, <1>3 DEF TrackerAfter

LEMMA WaitsAfter ==
  ASSUME NEW d, d.st \in {"durations", "asking", "lookup"}, Items(d.ids), NEW l, Len(l) = 0, NEW stock
  PROVE  TrackerAfter(d, l, stock)
BY DEF TrackerAfter

(* Two lists without common items, one after the other.                    *)
LEMMA ItemsTogether ==
  ASSUME NEW x, Items(x), NEW y, Items(y), Len(x) + Len(y) <= MaxItems,
         \A i \in 1 .. Len(x), j \in 1 .. Len(y) : x[i] # y[j]
  PROVE  Items(x \o y)
<1>1. /\ x \in Seq(Nat) /\ y \in Seq(Nat) /\ Len(x) \in Nat /\ Len(y) \in Nat
      /\ \A i \in 1 .. Len(x) : x[i] \in 1 .. MaxItems /\ \A j \in 1 .. i - 1 : x[j] # x[i]
      /\ \A i \in 1 .. Len(y) : y[i] \in 1 .. MaxItems /\ \A j \in 1 .. i - 1 : y[j] # y[i]
  BY DEF Items
<1> DEFINE z == x \o y
           a == Len(x)
           b == Len(y)
<1>2. /\ z \in Seq(Nat) /\ Len(z) = a + b
      /\ \A i \in 1 .. a : z[i] = x[i]
      /\ \A i \in 1 .. b : z[a + i] = y[i]
  BY <1>1, ConcatLong
<1> HIDE DEF z
<1>3. ASSUME NEW i \in 1 .. Len(z)
      PROVE  z[i] \in 1 .. MaxItems /\ \A j \in 1 .. i - 1 : z[j] # z[i]
  <2>1. CASE i <= a
    <3>1. i \in 1 .. a /\ \A j \in 1 .. i - 1 : j \in 1 .. a
      BY <1>1, <1>2, <2>1
    <3> QED
      BY <1>1, <1>2, <3>1
  <2>2. CASE i > a
    <3>1. PICK k \in 1 .. b : i = a + k
      <4>1. i - a \in 1 .. b /\ i = a + (i - a)
        BY <1>1, <1>2, <2>2
      <4> QED
        BY <4>1
    <3>2. z[i] = y[k] /\ z[i] \in 1 .. MaxItems
      BY <1>1, <1>2, <3>1
    <3>3. ASSUME NEW j \in 1 .. i - 1 PROVE z[j] # z[i]
      <4>1. CASE j <= a
        <5>1. j \in 1 .. a
          BY <1>1, <4>1
        <5>2. z[j] = x[j]
          BY <1>2, <5>1
        <5>3. x[j] # y[k]
          BY <5>1
        <5> QED
          BY <3>2, <5>2, <5>3
      <4>2. CASE j > a
        <5>1. PICK m \in 1 .. k - 1 : j = a + m /\ m \in 1 .. b
          <6>1. j - a \in 1 .. k - 1 /\ j = a + (j - a) /\ j - a \in 1 .. b
            BY <1>1, <3>1, <4>2
          <6> QED
            BY <6>1
        <5>2. z[j] = y[m]
          BY <1>2, <5>1
        <5>3. y[m] # y[k]
          BY <1>1, <5>1
        <5> QED
          BY <3>2, <5>2, <5>3
      <4> QED
        BY <1>1, <4>1, <4>2
    <3> QED
      BY <3>2, <3>3
  <2> QED
    BY <1>1, <1>2, <2>1, <2>2
<1>4. Len(z) <= MaxItems
  BY <1>2
<1> QED
  BY <1>2, <1>3, <1>4 DEF Items, z

LEMMA BranchGoes ==
  ASSUME NEW c \in TrackerOp, c.st = "query", c.what = "branches", NEW l, Lawful(l),
         NEW stock, TrackerAfter(c, l, stock), NEW o \in BranchSteps(c)
  PROVE  Goes(l, o.says, o.op # Over /\ TrackerSpeaks(o.op), TrackerAfter(o.op, l \o o.says, stock))
<1>1. PICK b \in c.awaited, ok \in BOOLEAN : o = Consolidated(c, b, ok)
  BY DEF BranchSteps
<1> DEFINE ids == IF ok THEN <<b>> \o c.ids ELSE c.ids
           a == c.awaited \ {b}
           u == [c EXCEPT !.ids = ids]
           v == [c EXCEPT !.ids = ids, !.awaited = a]
<1>2. /\ c.ids \in Seq(Nat) /\ Items(c.ids) /\ Len(l) = 0 /\ c.awaited \subseteq Branches
      /\ Len(c.ids) \in Nat
      /\ \A i \in 1 .. Len(c.ids) : c.ids[i] \in Branches \ c.awaited
  BY TrackerTypes DEF TrackerAfter, Items
<1>3. /\ MaxItems \in Nat /\ 2 <= MaxItems /\ b \in {1, 2} /\ b \in Nat
  BY <1>2, ItemsAssumption DEF Branches
<1>4. Len(c.ids) <= 1
  <2> SUFFICES ASSUME ~(Len(c.ids) <= 1) PROVE FALSE
    OBVIOUS
  <2>1. 1 \in 1 .. Len(c.ids) /\ 2 \in 1 .. Len(c.ids) /\ 1 \in 1 .. 2 - 1
    BY <1>2
  <2>2. c.ids[1] # c.ids[2]
    BY <1>2, <2>1 DEF Items
  <2>3. c.ids[1] \in {1, 2} \ {b} /\ c.ids[2] \in {1, 2} \ {b}
    BY <1>2, <2>1 DEF Branches
  <2> QED
    BY <1>3, <2>2, <2>3
<1>5. /\ Items(ids) /\ ids \in Seq(Nat)
      /\ \A i \in 1 .. Len(ids) : ids[i] \in Branches \ a
  <2>1. CASE ~ok
    BY <1>2, <2>1
  <2>2. CASE ok
    <3> DEFINE x == <<b>>
    <3>1. x \in Seq(Nat) /\ Len(x) = 1 /\ x[1] = b
      BY <1>3
    <3>2. b \in 1 .. MaxItems
      BY <1>3
    <3> HIDE DEF x
    <3>3. Items(x)
      <4>1. \A i \in 1 .. 1 : i = 1 /\ ~ \E j \in 1 .. i - 1 : TRUE
        OBVIOUS
      <4> QED
        BY <1>3, <3>1, <3>2, <4>1 DEF Items
    <3>4. \A i \in 1 .. Len(x), j \in 1 .. Len(c.ids) : x[i] # c.ids[j]
      <4>1. \A i \in 1 .. Len(x) : x[i] = b
        BY <3>1
      <4> QED
        BY <1>2, <4>1
    <3>5. Len(x) + Len(c.ids) <= MaxItems
      BY <1>2, <1>3, <1>4, <3>1
    <3>6. Items(x \o c.ids)
      BY <1>2, <3>3, <3>4, <3>5, ItemsTogether
    <3>7. /\ x \o c.ids \in Seq(Nat) /\ Len(x \o c.ids) = 1 + Len(c.ids)
          /\ (x \o c.ids)[1] = b
          /\ \A i \in 1 .. Len(c.ids) : (x \o c.ids)[1 + i] = c.ids[i]
      <4>1. /\ x \o c.ids \in Seq(Nat) /\ Len(x \o c.ids) = Len(x) + Len(c.ids)
            /\ \A i \in 1 .. Len(x) : (x \o c.ids)[i] = x[i]
            /\ \A i \in 1 .. Len(c.ids) : (x \o c.ids)[Len(x) + i] = c.ids[i]
        <5>1. \A p, q \in Seq(Nat) :
                /\ p \o q \in Seq(Nat) /\ Len(p \o q) = Len(p) + Len(q)
                /\ \A i \in 1 .. Len(p) : (p \o q)[i] = p[i]
                /\ \A i \in 1 .. Len(q) : (p \o q)[Len(p) + i] = q[i]
          BY ConcatLong
        <5> QED
          BY <1>2, <3>1, <5>1, Zenon
      <4> QED
        BY <3>1, <4>1
    <3>8. ids = x \o c.ids
      BY <2>2 DEF x
    <3> HIDE DEF ids
    <3>9. ASSUME NEW i \in 1 .. Len(ids) PROVE ids[i] \in Branches \ a
      <4>1. CASE i = 1
        BY <1>2, <3>7, <3>8, <4>1
      <4>2. CASE i # 1
        <5>1. i - 1 \in 1 .. Len(c.ids) /\ i = 1 + (i - 1)
          BY <1>2, <3>7, <3>8, <4>2
        <5>2. ids[i] = c.ids[i - 1]
          BY <3>7, <3>8, <5>1
        <5> QED
          BY <1>2, <5>1, <5>2
      <4> QED
        BY <4>1, <4>2
    <3> QED
      BY <3>6, <3>7, <3>8, <3>9
  <2> QED
    BY <2>1, <2>2
<1>6. o \in {Outcome(Emits(u), <<>>), Outcome(v, <<>>)}
  BY <1>1 DEF Consolidated
<1> HIDE DEF ids, a
<1>7. TrackerAfter(Emits(u), l, stock)
  <2>1. Kept(c, u)
    BY <1>5, TrackerKeeps, Zenon
  <2>2. u.ids = ids
    BY DEF TrackerOp
  <2> QED
    BY <1>2, <1>5, <2>1, <2>2, EmitsAfter
<1>8. TrackerAfter(v, l, stock)
  <2>1. v.ids = ids /\ v.st = "query" /\ v.what = "branches" /\ v.awaited = a
    BY DEF TrackerOp
  <2> HIDE DEF v
  <2> QED
    BY <1>2, <1>5, <2>1 DEF TrackerAfter
<1> QED
  BY <1>6, <1>7, <1>8, QuietGoes

LEMMA SongsSplit ==
  ASSUME NEW stock \in 0 .. MaxItems
  PROVE  Songs(stock) \in 0 .. MaxItems /\ Songs(stock) <= stock /\ stock \in Nat
<1>1. stock \in Nat /\ stock <= MaxItems /\ MaxItems \in Nat
  BY ItemsAssumption
<1>2. Songs(stock) \in Nat /\ Songs(stock) <= stock
  BY <1>1 DEF Songs
<1> QED
  BY <1>1, <1>2

LEMMA QueryGoes ==
  ASSUME NEW c \in TrackerOp, c.st \in {"query", "videos"},
         NEW l, Lawful(l), NEW stock \in 0 .. MaxItems, TrackerAfter(c, l, stock),
         NEW o, \/ c.st = "query" /\ o \in QuerySteps(c, stock)
                \/ c.st = "query" /\ c.what = "all" /\ o \in SongsSteps(c, stock)
                \/ c.st = "videos" /\ o \in VideosSteps(c, stock)
  PROVE  Goes(l, o.says, o.op # Over /\ TrackerSpeaks(o.op), TrackerAfter(o.op, l \o o.says, stock))
<1> DEFINE songs == Songs(stock)
           ids == Window(1, stock, c.skip, c.count)
           sung == Window(1, songs, c.skip, c.count)
           seen == Window(songs + 1, stock, c.skip, c.count)
           rest == c.count - Len(sung)
<1>1. /\ c.skip \in Nat /\ c.count \in Nat \ {0} /\ c.count \in Nat /\ c.ids \in Seq(Nat)
      /\ Len(l) = 0 /\ Items(c.ids)
  BY TrackerTypes DEF TrackerAfter
<1>2. songs \in 0 .. MaxItems /\ songs <= stock /\ songs \in Nat /\ stock \in Nat /\ MaxItems \in Nat
      /\ stock <= MaxItems
  BY SongsSplit, ItemsAssumption
<1>3. /\ Items(ids) /\ Items(sung) /\ Len(sung) <= songs
      /\ \A i \in 1 .. Len(sung) : sung[i] \in 1 .. songs
  <2>1. 1 \in Nat \ {0} /\ 1 <= stock + 1 /\ 1 <= songs + 1 /\ (songs + 1) - 1 = songs
    BY <1>2
  <2>2. Items(ids)
    BY <1>1, <2>1, WindowItems
  <2> HIDE DEF songs
  <2>3. /\ Items(sung) /\ Len(sung) <= songs + 1 - 1
        /\ \A i \in 1 .. Len(sung) : sung[i] \in 1 .. songs
    BY <1>1, <1>2, <2>1, WindowItems
  <2> HIDE DEF sung, ids
  <2>4. Len(sung) <= songs
    <3>1. Len(sung) \in Nat
      BY <2>3 DEF Items
    <3> QED
      BY <1>2, <2>3, <3>1
  <2>5. \A i \in 1 .. Len(sung) : sung[i] \in 1 .. songs
    BY <2>3
  <2> QED
    BY <2>2, <2>3, <2>4, <2>5
<1>4. /\ Items(seen) /\ Len(seen) <= stock - songs
      /\ \A i \in 1 .. Len(seen) : seen[i] \in (songs + 1) .. stock
  <2> HIDE DEF songs
  <2>1. PICK first \in Nat \ {0} : first = songs + 1
    <3>1. songs + 1 \in Nat \ {0}
      BY <1>2
    <3> QED
      BY <3>1
  <2>2. first <= stock + 1 /\ stock + 1 - first = stock - songs
    BY <1>2, <2>1
  <2>3. LET w == Window(first, stock, c.skip, c.count) IN
        /\ Items(w) /\ Len(w) <= stock + 1 - first
        /\ \A i \in 1 .. Len(w) : w[i] \in first .. stock
    BY <1>1, <2>2, WindowItems
  <2> QED
    BY <2>1, <2>2, <2>3
<1> HIDE DEF songs, ids, sung, seen, rest
<1>5. ids \in Seq(Nat) /\ sung \in Seq(Nat) /\ seen \in Seq(Nat)
  BY <1>3, <1>4 DEF Items
<1>6. /\ \A t \in TrackerState : Kept(c, [c EXCEPT !.st = t])
      /\ \A m \in Seq(Nat) : Kept(c, [c EXCEPT !.ids = m])
  BY TrackerKeeps, Zenon
<1>7. \A m \in Seq(Nat) : Items(m) => TrackerAfter(Emits([c EXCEPT !.ids = m]), l, stock)
  <2> TAKE m \in Seq(Nat)
  <2> HAVE Items(m)
  <2>1. [c EXCEPT !.ids = m].ids = m
    BY DEF TrackerOp
  <2>2. Kept(c, [c EXCEPT !.ids = m])
    BY <1>6
  <2> QED
    BY <1>1, <2>1, <2>2, EmitsAfter
<1>8. \A m \in Seq(Nat) : Items(m) =>
        TrackerAfter([c EXCEPT !.st = "durations", !.ids = m], l, stock)
  <2> TAKE m \in Seq(Nat)
  <2> HAVE Items(m)
  <2> DEFINE d == [c EXCEPT !.st = "durations", !.ids = m]
  <2>1. d.ids = m /\ d.st = "durations"
    BY DEF TrackerOp
  <2> HIDE DEF d
  <2>2. TrackerAfter(d, l, stock)
    BY <1>1, <2>1, WaitsAfter
  <2> QED
    BY <2>2 DEF d
<1>9. CASE c.st = "query" /\ o \in QuerySteps(c, stock)
  <2>1. o \in {Erred(c), Outcome(Emits([c EXCEPT !.ids = ids]), <<>>),
               Outcome([c EXCEPT !.st = "durations", !.ids = ids], <<>>)}
    BY <1>9 DEF QuerySteps, ids
  <2> QED
    BY <1>3, <1>5, <1>7, <1>8, <2>1, ErredGoes, QuietGoes
<1>10. CASE c.st = "query" /\ c.what = "all" /\ o \in SongsSteps(c, stock)
  <2> DEFINE u == [c EXCEPT !.st = "videos"]
             v == [c EXCEPT !.st = "videos", !.ids = sung, !.count = rest]
  <2>1. o \in {Outcome(u, <<>>), Outcome(Emits([c EXCEPT !.ids = sung]), <<>>), Outcome(v, <<>>)}
    BY <1>10 DEF SongsSteps, sung, rest, songs
  <2>2. c.ids = <<>>
    BY <1>10 DEF TrackerAfter
  <2>3. u.st = "videos" /\ u.ids = <<>> /\ v.st = "videos" /\ v.ids = sung
    BY <2>2 DEF TrackerOp
  <2> HIDE DEF u, v
  <2>4. Len(<<>>) = 0 /\ 1 .. 0 = {} /\ Items(<<>>)
    BY <1>1, <2>2
  <2>5. TrackerAfter(u, l, stock)
    <3>1. Len(u.ids) <= Songs(stock) /\ \A i \in 1 .. Len(u.ids) : u.ids[i] <= Songs(stock)
      BY <1>2, <2>3, <2>4 DEF songs
    <3>2. Items(u.ids)
      BY <2>3, <2>4
    <3> QED
      BY <1>1, <2>3, <3>1, <3>2 DEF TrackerAfter
  <2>6. TrackerAfter(v, l, stock)
    <3>1. \A i \in 1 .. Len(sung) : sung[i] <= songs
      BY <1>2, <1>3
    <3>2. Len(v.ids) <= Songs(stock) /\ \A i \in 1 .. Len(v.ids) : v.ids[i] <= Songs(stock)
      BY <1>3, <2>3, <3>1 DEF songs
    <3>3. Items(v.ids)
      BY <1>3, <2>3
    <3> QED
      BY <1>1, <2>3, <3>2, <3>3 DEF TrackerAfter
  <2>7. TrackerAfter(Emits([c EXCEPT !.ids = sung]), l, stock)
    BY <1>3, <1>5, <1>7
  <2> QED
    BY <2>1, <2>5, <2>6, <2>7, QuietGoes
<1>11. CASE c.st = "videos" /\ o \in VideosSteps(c, stock)
  <2>1. o \in {Erred(c), Outcome(Emits([c EXCEPT !.ids = c.ids \o seen]), <<>>)}
    BY <1>11 DEF VideosSteps, seen, songs
  <2>2. Len(c.ids) <= songs /\ \A i \in 1 .. Len(c.ids) : c.ids[i] <= songs
    BY <1>11 DEF TrackerAfter, songs
  <2>3. Len(c.ids) \in Nat /\ Len(seen) \in Nat
    BY <1>1, <1>5
  <2>4. Len(c.ids) + Len(seen) <= MaxItems
    BY <1>2, <1>4, <2>2, <2>3
  <2>5. \A i \in 1 .. Len(c.ids), j \in 1 .. Len(seen) : c.ids[i] # seen[j]
    <3>1. \A i \in 1 .. Len(c.ids) : c.ids[i] \in Nat
      BY <1>1, ElementOfSeq
    <3> QED
      BY <1>2, <1>4, <2>2, <3>1
  <2>6. Items(c.ids \o seen)
    BY <1>1, <1>4, <2>4, <2>5, ItemsTogether
  <2>7. c.ids \o seen \in Seq(Nat)
    BY <2>6 DEF Items
  <2>8. TrackerAfter(Emits([c EXCEPT !.ids = c.ids \o seen]), l, stock)
    BY <1>7, <2>6, <2>7
  <2> QED
    BY <2>1, <2>8, ErredGoes, QuietGoes
<1> QED
  BY <1>9, <1>10, <1>11

LEMMA DurationGoes ==
  ASSUME NEW c \in TrackerOp, c.st \in {"durations", "asking", "lookup"}, NEW l, Lawful(l),
         NEW stock, TrackerAfter(c, l, stock),
         NEW o, o \in DurationSteps(c) \/ o = Outcome(Emits(c), <<>>)
  PROVE  Goes(l, o.says, o.op # Over /\ TrackerSpeaks(o.op), TrackerAfter(o.op, l \o o.says, stock))
<1> DEFINE next == [c EXCEPT !.index = @ + 1]
           u == [next EXCEPT !.st = "durations"]
           v == [c EXCEPT !.st = "asking"]
<1>1. Len(l) = 0 /\ Items(c.ids)
  BY DEF TrackerAfter
<1>2. TrackerAfter(Emits(c), l, stock)
  BY <1>1, TrackerTypes, EmitsAfter
<1>3. /\ next.ids = c.ids /\ next.st = c.st /\ u.ids = c.ids /\ u.st = "durations"
      /\ v.ids = c.ids /\ v.st = "asking"
  BY DEF TrackerOp
<1>4. o \in {Outcome(u, <<>>), Outcome(Emits(c), <<>>), Outcome(next, <<>>), Outcome(v, <<>>)}
  BY DEF DurationSteps
<1> HIDE DEF next, u, v
<1>5. TrackerAfter(next, l, stock) /\ TrackerAfter(u, l, stock) /\ TrackerAfter(v, l, stock)
  BY <1>1, <1>3, WaitsAfter
<1> QED
  BY <1>2, <1>4, <1>5, QuietGoes

LEMMA EmitGoes ==
  ASSUME NEW c \in TrackerOp, c.st = "emit", ~c.cancelled, NEW l, Lawful(l),
         NEW stock, TrackerAfter(c, l, stock)
  PROVE  LET o == EmitIdle(c) IN
         Goes(l, o.says, o.op # Over /\ TrackerSpeaks(o.op), TrackerAfter(o.op, l \o o.says, stock))
<1> DEFINE o == EmitIdle(c)
<1>1. Supply(c.ids, l) /\ c.index = Len(l) /\ c.ids \in Seq(Nat) /\ Len(l) \in Nat
  BY TrackerTypes DEF TrackerAfter, Lawful
<1>2. CASE c.ids = <<>>
  <2>1. o = Outcome(Over, <<Nothing(0)>>)
    BY <1>2 DEF EmitIdle
  <2> HIDE DEF o
  <2>1a. o.op = Over /\ o.says = <<Nothing(0)>>
    BY <2>1 DEF Outcome
  <2>2. Lawful(l \o <<Nothing(0)>>)
    <3>1. Nothing(0) \in AnyResult
      BY ResultTypes
    <3>2. Lawful(Append(l, Nothing(0)))
      BY LawfulEnd
    <3> QED
      BY <3>1, <3>2, SaidOne
  <2> QED
    BY <2>1a, <2>2 DEF Goes, o
<1>3. CASE c.ids # <<>>
  <2> DEFINE d == [c EXCEPT !.ids = Tail(@), !.index = @ + 1]
             r == Result(Len(c.ids) - 1, Len(l), Head(c.ids))
             m == Append(l, r)
  <2>1. o.op = (IF Len(c.ids) = 1 THEN Over ELSE d) /\ o.says = <<r>>
    BY <1>1, <1>3 DEF EmitIdle, Outcome
  <2>2. Lawful(m) /\ Supply(Tail(c.ids), m)
    BY <1>1, <1>3, Supplies
  <2>3. r \in AnyResult
    BY <1>1, <1>3, ListResult
  <2>4. l \o <<r>> = m
    BY <2>3, SaidOne
  <2>5. d.ids = Tail(c.ids) /\ d.index = Len(l) + 1 /\ d.st = "emit"
    BY <1>1 DEF TrackerOp
  <2> HIDE DEF r, d, o
  <2>6. Len(m) = Len(l) + 1
    BY <2>3, AppendLong DEF Lawful
  <2> HIDE DEF m
  <2>7. TrackerAfter(d, m, stock)
    BY <2>2, <2>5, <2>6 DEF TrackerAfter
  <2> QED
    BY <2>1, <2>2, <2>4, <2>7 DEF Goes, o
<1> QED
  BY <1>2, <1>3

LEMMA TrackerGoes ==
  ASSUME NEW c \in TrackerOp, TrackerSpeaks(c), NEW l, Lawful(l), NEW stock \in 0 .. MaxItems,
         TrackerAfter(c, l, stock), NEW o \in TrackerSteps(c, stock)
  PROVE  Goes(l, o.says, o.op # Over /\ TrackerSpeaks(o.op), TrackerAfter(o.op, l \o o.says, stock))
<1>1. c.st \in TrackerState
  BY DEF TrackerOp, TrackerState
<1>2. \/ c.st = "query" /\ c.what = "branches" /\ o \in BranchSteps(c)
      \/ c.st = "query" /\ c.what = "all" /\ o \in SongsSteps(c, stock)
      \/ c.st = "query" /\ o \in QuerySteps(c, stock)
      \/ c.st = "videos" /\ o \in VideosSteps(c, stock)
      \/ c.st = "lookup" /\ o = Outcome(Emits(c), <<>>)
      \/ c.st \in {"durations", "asking"} /\ o \in DurationSteps(c)
      \/ c.st = "emit" /\ o = EmitIdle(c)
  BY <1>1 DEF TrackerSteps, TrackerState
<1>3. CASE c.st = "query" /\ c.what = "branches" /\ o \in BranchSteps(c)
  BY <1>3, BranchGoes
<1>4. CASE \/ c.st = "query" /\ c.what = "all" /\ o \in SongsSteps(c, stock)
           \/ c.st = "query" /\ o \in QuerySteps(c, stock)
           \/ c.st = "videos" /\ o \in VideosSteps(c, stock)
  BY <1>4, QueryGoes
<1>5. CASE \/ c.st = "lookup" /\ o = Outcome(Emits(c), <<>>)
           \/ c.st \in {"durations", "asking"} /\ o \in DurationSteps(c)
  BY <1>5, DurationGoes
<1>6. CASE c.st = "emit" /\ o = EmitIdle(c)
  BY <1>6, EmitGoes DEF TrackerSpeaks
<1> QED
  BY <1>2, <1>3, <1>4, <1>5, <1>6

(* How the operations begin.                                               *)
LEMMA UpnpBegins ==
  ASSUME NEW req \in Criteria, NEW stock PROVE UpnpAfter(UpnpStart(req).op, <<>>, stock)
<1>1. Len(<<>>) = 0 /\ 1 .. 0 = {}
  OBVIOUS
<1> QED
  BY <1>1 DEF UpnpAfter, UpnpStart, Outcome

LEMMA ItemsReversed == ASSUME NEW x, Items(x) PROVE Items(Reverse(x))
<1> DEFINE n == Len(x)
           y == Reverse(x)
<1>1. /\ x \in Seq(Nat) /\ n \in Nat /\ n <= MaxItems
      /\ \A i \in 1 .. n : x[i] \in 1 .. MaxItems /\ \A j \in 1 .. i - 1 : x[j] # x[i]
  BY DEF Items
<1>2. \A i \in 1 .. n : (n - i) + 1 \in 1 .. n
  BY <1>1
<1>3. y = [i \in 1 .. n |-> x[(n - i) + 1]]
  BY DEF Reverse
<1> HIDE DEF y
<1>4. y \in Seq(Nat) /\ Len(y) = n
  <2>1. \A i \in 1 .. n : x[(n - i) + 1] \in Nat
    BY <1>1, <1>2, ElementOfSeq
  <2> QED
    BY <1>1, <1>3, <2>1
<1>5. ASSUME NEW i \in 1 .. n PROVE y[i] \in 1 .. MaxItems /\ \A j \in 1 .. i - 1 : y[j] # y[i]
  <2>1. y[i] = x[(n - i) + 1] /\ (n - i) + 1 \in 1 .. n
    BY <1>2, <1>3
  <2>2. ASSUME NEW j \in 1 .. i - 1 PROVE y[j] # y[i]
    <3>1. j \in 1 .. n /\ (n - j) + 1 \in 1 .. n /\ (n - i) + 1 \in 1 .. ((n - j) + 1) - 1
      BY <1>1
    <3>2. y[j] = x[(n - j) + 1]
      BY <1>3, <3>1
    <3>3. x[(n - i) + 1] # x[(n - j) + 1]
      BY <1>1, <3>1
    <3> QED
      BY <2>1, <3>2, <3>3
  <2> QED
    BY <1>1, <2>1, <2>2
<1> QED
  BY <1>1, <1>4, <1>5 DEF Items, y

LEMMA TrackerBegins ==
  ASSUME NEW what \in Category, NEW req \in Criteria, NEW stock \in 0 .. MaxItems,
         NEW parses \in BOOLEAN, NEW local \in BOOLEAN
  PROVE  LET o == TrackerStart(what, req, stock, parses, local) IN
         TrackerSpeaks(o.op) => TrackerAfter(o.op, <<>>, stock)
<1> DEFINE n == IF req.count = 0 THEN Unlimited ELSE req.count
           a == IF what = "branches" THEN Branches ELSE {}
           c == [what |-> what, skip |-> req.skip, count |-> n, st |-> "query",
                 ids |-> <<>>, index |-> 0, cancelled |-> FALSE, awaited |-> a]
           w == Window(1, stock, c.skip, c.count)
           o == TrackerStart(what, req, stock, parses, local)
           u == [c EXCEPT !.ids = Reverse(w)]
           v == [c EXCEPT !.st = "lookup", !.ids = w]
<1>1. n \in Nat \ {0} /\ a \in SUBSET Branches /\ req.skip \in Nat
  BY ItemsAssumption DEF Unlimited, Criteria
<1> HIDE DEF n, a
<1>2. c \in TrackerOp
  BY <1>1 DEF TrackerOp
<1>3. c.st = "query" /\ c.ids = <<>>
  OBVIOUS
<1>4. o = IF what = "entries" THEN EntriesStart(c, stock, parses, local) ELSE Outcome(c, <<>>)
  BY Zenon DEF TrackerStart, n, a
<1> HIDE DEF c, o
<1>5. Items(w)
  <2>1. stock \in Nat /\ 1 \in Nat \ {0}
    BY ItemsAssumption
  <2>2. 1 <= stock + 1
    BY <2>1
  <2>3. c.skip \in Nat /\ c.count \in Nat
    BY <1>2, TrackerTypes
  <2> QED
    BY <2>1, <2>2, <2>3, WindowItems
<1> HIDE DEF w
<1>6. Items(Reverse(w)) /\ Reverse(w) \in Seq(Nat) /\ w \in Seq(Nat)
  BY <1>5, ItemsReversed DEF Items
<1>7. Lawful(<<>>) /\ Len(<<>>) = 0 /\ 1 .. 0 = {} /\ Items(<<>>)
  <2>1. Len(<<>>) = 0 /\ 1 .. 0 = {} /\ <<>> \in Seq(Nat)
    OBVIOUS
  <2>2. 0 <= MaxItems
    BY ItemsAssumption
  <2> QED
    BY <2>1, <2>2, LawfulNothing DEF Items
<1>8. TrackerAfter(Emits(u), <<>>, stock)
  <2>1. Kept(c, u)
    BY <1>2, <1>6, TrackerKeeps, Zenon
  <2>2. u.ids = Reverse(w)
    BY <1>2 DEF TrackerOp
  <2> HIDE DEF u
  <2> QED
    BY <1>2, <1>6, <1>7, <2>1, <2>2, EmitsAfter
<1>9. TrackerAfter(v, <<>>, stock)
  <2>1. v.st = "lookup" /\ v.ids = w
    BY <1>2 DEF TrackerOp
  <2> HIDE DEF v
  <2> QED
    BY <1>5, <1>7, <2>1, WaitsAfter
<1>10. TrackerAfter(c, <<>>, stock)
  BY <1>3, <1>7 DEF TrackerAfter
<1>11. ~TrackerSpeaks([c EXCEPT !.st = "stuck"])
  BY <1>2 DEF TrackerOp, TrackerSpeaks
<1>12. \/ o = Outcome(c, <<>>)
       \/ o = Outcome([c EXCEPT !.st = "stuck"], <<Refusal>>)
       \/ o = Outcome(v, <<>>)
       \/ o = Outcome(Emits(u), <<>>)
  BY <1>4 DEF EntriesStart, w
<1> HIDE DEF u, v
<1>13. o.op \in {c, [c EXCEPT !.st = "stuck"], v, Emits(u)}
  BY <1>12 DEF Outcome
<1> QED
  BY <1>8, <1>9, <1>10, <1>11, <1>13 DEF o

-----------------------------------------------------------------------------
\* the operation of the source at hand goes on after l
After(op, l) == CASE plan.source = "upnp" -> UpnpAfter(op, l, plan.stock)
                  [] plan.source = "iradio" -> IradioAfter(op, l)
                  [] plan.source = "tracker" -> TrackerAfter(op, l, plan.stock)

LEMMA StartGoes ==
  ASSUME plan \in Scenarios, NEW req \in Criteria, NEW o \in Starts(req), Speaks(o.op)
  PROVE  After(o.op, <<>>)
<1>1. plan.stock \in 0 .. MaxItems
  BY ScenariosAssumption
<1>2. ~req.bad
  BY OverSilent DEF Starts, Outcome
<1>3. CASE plan.source = "upnp"
  BY <1>2, <1>3, UpnpBegins DEF Starts, After
<1>4. CASE plan.source = "iradio"
  BY <1>1, <1>2, <1>4, IradioBegins DEF Starts, After
<1>5. CASE plan.source = "tracker"
  <2>1. PICK parses \in BOOLEAN, local \in BOOLEAN :
          o = TrackerStart(plan.what, req, plan.stock, parses, local)
    BY <1>2, <1>5 DEF Starts
  <2>2. TrackerSpeaks(o.op)
    BY <1>5 DEF Speaks, TrackerSpeaks
  <2> QED
    BY <1>1, <1>5, <2>1, <2>2, PlanTypes, TrackerBegins DEF After
<1> QED
  BY <1>3, <1>4, <1>5, PlanTypes

LEMMA StepGoes ==
  ASSUME plan \in Scenarios, NEW op \in Op, op # Over, NEW o \in Steps(op),
         NEW l, Lawful(l), Speaks(op) => After(op, l)
  PROVE  Goes(l, o.says, Speaks(o.op), After(o.op, l \o o.says))
<1>1. plan.stock \in 0 .. MaxItems
  BY ScenariosAssumption
<1>2. CASE ~Speaks(op)
  <2>1. o.says = <<>> /\ ~Speaks(o.op)
    BY <1>2, StepSays
  <2> QED
    BY <2>1, SaidNothing DEF Goes
<1>3. CASE Speaks(op)
  <2>1. CASE plan.source = "upnp"
    <3>1. op \in UpnpOp /\ o \in UpnpSteps(op, plan.stock) /\ UpnpAfter(op, l, plan.stock)
      BY <1>3, <2>1 DEF Op, Steps, After
    <3>2. Goes(l, o.says, o.op # Over, UpnpAfter(o.op, l \o o.says, plan.stock))
      BY <1>1, <3>1, UpnpGoes
    <3> QED
      BY <2>1, <3>2 DEF Goes, Speaks, After
  <2>2. CASE plan.source = "iradio"
    <3>1. op \in IradioOp /\ o \in IradioSteps(op) /\ IradioAfter(op, l) /\ IradioSpeaks(op)
      BY <1>3, <2>2 DEF Op, Steps, After, Speaks, IradioSpeaks
    <3>2. Goes(l, o.says, o.op # Over /\ IradioSpeaks(o.op), IradioAfter(o.op, l \o o.says))
      BY <3>1, IradioGoes
    <3> QED
      BY <2>2, <3>2 DEF Goes, Speaks, After, IradioSpeaks
  <2>3. CASE plan.source = "tracker"
    <3>1. /\ op \in TrackerOp /\ o \in TrackerSteps(op, plan.stock) /\ TrackerSpeaks(op)
          /\ TrackerAfter(op, l, plan.stock)
      BY <1>3, <2>3 DEF Op, Steps, After, Speaks, TrackerSpeaks
    <3>2. Goes(l, o.says, o.op # Over /\ TrackerSpeaks(o.op),
               TrackerAfter(o.op, l \o o.says, plan.stock))
      BY <1>1, <3>1, TrackerGoes
    <3> QED
      BY <2>3, <3>2 DEF Goes, Speaks, After, TrackerSpeaks
  <2> QED
    BY <2>1, <2>2, <2>3, PlanTypes
<1> QED
  BY <1>2, <1>3

(* The results on their way: the messages on the bus b bring l from after  *)
(* the first n of it to the first e, the rest is in the message being      *)
(* built of the request q.                                                 *)
Brings(m, s, l, c, d) ==
  IF m.what = "results" /\ m.s = s THEN m.list # <<>> /\ Part(m.list, l, c, d) ELSE d = c

\* f[k] is the number of results in l before the message k
Carries(b, s, l, n, e) == \E f \in [1 .. Len(b) + 1 -> Nat] :
  /\ f[1] = n /\ f[Len(b) + 1] = e
  /\ \A k \in 1 .. Len(b) : Brings(b[k], s, l, f[k], f[k + 1])

Streams(q, b, s, l, n) == \E e \in Nat :
  /\ Carries(b, s, l, n, e) /\ e <= Len(l)
  /\ q # NoRequest => Part(q.pending, l, e, Len(l))

LEMMA CarriesNone == ASSUME NEW s, NEW l, NEW n \in Nat PROVE Carries(<<>>, s, l, n, n)
<1> DEFINE f == [k \in 1 .. 1 |-> n]
<1>1. Len(<<>>) + 1 = 1 /\ 1 .. Len(<<>>) = {}
  OBVIOUS
<1>2. f \in [1 .. 1 -> Nat] /\ f[1] = n
  OBVIOUS
<1> HIDE DEF f
<1> QED
  BY <1>1, <1>2 DEF Carries

LEMMA CarriesMore ==
  ASSUME NEW b \in Seq(Message), NEW m \in Message, NEW s, NEW l, NEW n, NEW e, NEW d \in Nat,
         Carries(b, s, l, n, e), Brings(m, s, l, e, d)
  PROVE  Carries(Append(b, m), s, l, n, d)
<1>1. PICK f \in [1 .. Len(b) + 1 -> Nat] :
        /\ f[1] = n /\ f[Len(b) + 1] = e
        /\ \A k \in 1 .. Len(b) : Brings(b[k], s, l, f[k], f[k + 1])
  BY DEF Carries
<1> DEFINE a == Append(b, m)
           N == Len(b)
           g == [k \in 1 .. N + 2 |-> IF k = N + 2 THEN d ELSE f[k]]
<1>2. Len(a) = N + 1 /\ N \in Nat /\ a[N + 1] = m /\ \A k \in 1 .. N : a[k] = b[k]
  BY AppendLong
<1> HIDE DEF a, N
<1>3. \A k \in 1 .. N + 1 : k \in 1 .. N + 2 /\ k # N + 2 /\ k \in 1 .. Len(b) + 1
  BY <1>2 DEF N
<1>4. g \in [1 .. N + 2 -> Nat]
  <2>1. \A k \in 1 .. N + 2 : k # N + 2 => k \in 1 .. Len(b) + 1
    BY <1>2 DEF N
  <2> QED
    BY <1>1, <2>1
<1>5. g[N + 2] = d /\ \A k \in 1 .. N + 1 : g[k] = f[k]
  <2>1. N + 2 \in 1 .. N + 2
    BY <1>2
  <2> QED
    BY <1>3, <2>1
<1> HIDE DEF g
<1>6. ASSUME NEW k \in 1 .. Len(a) PROVE Brings(a[k], s, l, g[k], g[k + 1])
  <2>1. CASE k \in 1 .. N
    <3>1. k \in 1 .. N + 1 /\ k + 1 \in 1 .. N + 1
      BY <1>2, <2>1
    <3> QED
      BY <1>1, <1>2, <1>5, <2>1, <3>1 DEF N
  <2>2. CASE k = N + 1
    <3>1. k \in 1 .. N + 1 /\ k + 1 = N + 2
      BY <1>2, <2>2
    <3> QED
      BY <1>1, <1>2, <1>5, <2>2, <3>1 DEF N
  <2> QED
    BY <1>2, <2>1, <2>2
<1>7. Len(a) + 1 = N + 2 /\ 1 \in 1 .. N + 1
  BY <1>2
<1>8. g \in [1 .. Len(a) + 1 -> Nat] /\ g[1] = n /\ g[Len(a) + 1] = d
  BY <1>1, <1>4, <1>5, <1>7
<1>9. Carries(a, s, l, n, d)
  BY <1>6, <1>8 DEF Carries
<1> QED
  BY <1>9 DEF a

LEMMA CarriesGrown ==
  ASSUME NEW b \in Seq(Message), NEW s, NEW l \in Seq(AnyResult), NEW r \in AnyResult, NEW n, NEW e,
         Carries(b, s, l, n, e)
  PROVE  Carries(b, s, Append(l, r), n, e)
<1>1. PICK f \in [1 .. Len(b) + 1 -> Nat] :
        /\ f[1] = n /\ f[Len(b) + 1] = e
        /\ \A k \in 1 .. Len(b) : Brings(b[k], s, l, f[k], f[k + 1])
  BY DEF Carries
<1> DEFINE m == Append(l, r)
<1>2. ASSUME NEW k \in 1 .. Len(b) PROVE Brings(b[k], s, m, f[k], f[k + 1])
  <2>1. f[k] \in Nat /\ f[k + 1] \in Nat /\ Brings(b[k], s, l, f[k], f[k + 1])
    <3>1. k \in 1 .. Len(b) + 1 /\ k + 1 \in 1 .. Len(b) + 1
      OBVIOUS
    <3> QED
      BY <1>1, <3>1
  <2>2. PICK c \in Nat, d \in Nat : c = f[k] /\ d = f[k + 1]
    BY <2>1
  <2>3. Part(b[k].list, l, c, d) => Part(b[k].list, m, c, d)
    BY PartStays
  <2> HIDE DEF m
  <2> QED
    BY <2>1, <2>2, <2>3 DEF Brings
<1> HIDE DEF m
<1>3. Carries(b, s, m, n, e)
  BY <1>1, <1>2 DEF Carries
<1> QED
  BY <1>3 DEF m

LEMMA CarriesFirst ==
  ASSUME NEW b \in Seq(Message), b # <<>>, NEW s, NEW l, NEW n, NEW e, Carries(b, s, l, n, e)
  PROVE  \E d \in Nat : Brings(Head(b), s, l, n, d) /\ Carries(Tail(b), s, l, d, e)
<1>1. PICK f \in [1 .. Len(b) + 1 -> Nat] :
        /\ f[1] = n /\ f[Len(b) + 1] = e
        /\ \A k \in 1 .. Len(b) : Brings(b[k], s, l, f[k], f[k + 1])
  BY DEF Carries
<1> DEFINE a == Tail(b)
           N == Len(b)
           g == [k \in 1 .. N |-> f[k + 1]]
<1>2. /\ Len(a) = N - 1 /\ N \in Nat /\ N # 0 /\ Head(b) = b[1]
      /\ \A k \in 1 .. Len(a) : a[k] = b[k + 1]
  BY HeadTailProperties, EmptySeq
<1> HIDE DEF a, N
<1>3. \A k \in 1 .. N : k + 1 \in 1 .. Len(b) + 1
  BY <1>2 DEF N
<1>4. g \in [1 .. N -> Nat] /\ \A k \in 1 .. N : g[k] = f[k + 1]
  BY <1>1, <1>3
<1> HIDE DEF g
<1>5. ASSUME NEW k \in 1 .. Len(a) PROVE Brings(a[k], s, l, g[k], g[k + 1])
  <2>1. k \in 1 .. N /\ k + 1 \in 1 .. N /\ k + 1 \in 1 .. Len(b)
    BY <1>2 DEF N
  <2> QED
    BY <1>1, <1>2, <1>4, <2>1
<1>6. Len(a) + 1 = N /\ 1 \in 1 .. N /\ N \in 1 .. N /\ 1 + 1 \in 1 .. Len(b) + 1
  BY <1>2 DEF N
<1>7. Carries(a, s, l, f[2], e)
  <2>1. g \in [1 .. Len(a) + 1 -> Nat] /\ g[1] = f[2] /\ g[Len(a) + 1] = e
    BY <1>1, <1>4, <1>6 DEF N
  <2> QED
    BY <1>5, <2>1 DEF Carries
<1>8. f[2] \in Nat /\ Brings(Head(b), s, l, n, f[2])
  <2>1. 1 \in 1 .. Len(b)
    BY <1>6 DEF N
  <2>2. Brings(b[1], s, l, f[1], f[1 + 1])
    BY <1>1, <2>1
  <2> QED
    BY <1>1, <1>2, <1>6, <2>2
<1> QED
  BY <1>7, <1>8 DEF a

LEMMA CarriesWithout ==
  ASSUME NEW b \in Seq(Message), NEW i \in 1 .. Len(b), b[i].what # "results", NEW s, NEW l,
         NEW n, NEW e, Carries(b, s, l, n, e)
  PROVE  Carries(RemoveAt(b, i), s, l, n, e)
<1>1. PICK f \in [1 .. Len(b) + 1 -> Nat] :
        /\ f[1] = n /\ f[Len(b) + 1] = e
        /\ \A k \in 1 .. Len(b) : Brings(b[k], s, l, f[k], f[k + 1])
  BY DEF Carries
<1> DEFINE x == SubSeq(b, 1, i - 1)
           y == SubSeq(b, i + 1, Len(b))
           a == x \o y
           N == Len(b)
           g == [k \in 1 .. N |-> IF k <= i THEN f[k] ELSE f[k + 1]]
<1>2. N \in Nat /\ i \in Nat /\ 1 <= i /\ i <= N
  OBVIOUS
<1>3. /\ x \in Seq(Message) /\ Len(x) = i - 1 /\ \A k \in 1 .. i - 1 : x[k] = b[k]
  <2>1. \A k \in 1 .. i - 1 : k \in 1 .. Len(b) /\ b[k] \in Message
    BY <1>2, ElementOfSeq
  <2>2. /\ x \in Seq(Message) /\ Len(x) = (IF 1 <= i - 1 THEN (i - 1) - 1 + 1 ELSE 0)
        /\ \A k \in 1 .. (i - 1) - 1 + 1 : x[k] = b[1 + k - 1]
    BY <1>2, <2>1, SubSeqProperties
  <2>3. Len(x) = i - 1
    BY <1>2, <2>2
  <2>4. \A k \in 1 .. i - 1 : k \in 1 .. (i - 1) - 1 + 1 /\ 1 + k - 1 = k
    BY <1>2
  <2>5. \A k \in 1 .. i - 1 : x[k] = b[k]
    <3> TAKE k \in 1 .. i - 1
    <3>1. x[k] = b[1 + k - 1] /\ 1 + k - 1 = k
      BY <2>2, <2>4
    <3> QED
      BY <3>1
  <2> QED
    BY <2>2, <2>3, <2>5
<1>4. /\ y \in Seq(Message) /\ Len(y) = N - i /\ \A k \in 1 .. N - i : y[k] = b[i + k]
  <2>1. \A k \in i + 1 .. N : k \in 1 .. Len(b) /\ b[k] \in Message
    BY <1>2, ElementOfSeq
  <2>2. /\ y \in Seq(Message) /\ Len(y) = (IF i + 1 <= N THEN N - (i + 1) + 1 ELSE 0)
        /\ \A k \in 1 .. N - (i + 1) + 1 : y[k] = b[i + 1 + k - 1]
    BY <1>2, <2>1, SubSeqProperties
  <2>3. Len(y) = N - i
    BY <1>2, <2>2
  <2>4. \A k \in 1 .. N - i : k \in 1 .. N - (i + 1) + 1 /\ i + 1 + k - 1 = i + k
    BY <1>2
  <2>5. \A k \in 1 .. N - i : y[k] = b[i + k]
    <3> TAKE k \in 1 .. N - i
    <3>1. y[k] = b[i + 1 + k - 1] /\ i + 1 + k - 1 = i + k
      BY <2>2, <2>4
    <3> QED
      BY <3>1
  <2> QED
    BY <2>2, <2>3, <2>5
<1> HIDE DEF x, y
<1>5. /\ a \in Seq(Message) /\ Len(a) = N - 1
      /\ \A k \in 1 .. i - 1 : a[k] = b[k]
      /\ \A k \in 1 .. N - i : a[(i - 1) + k] = b[i + k]
  <2>1. \A p, q \in Seq(Message) :
          /\ p \o q \in Seq(Message) /\ Len(p \o q) = Len(p) + Len(q)
          /\ \A k \in 1 .. Len(p) : (p \o q)[k] = p[k]
          /\ \A k \in 1 .. Len(q) : (p \o q)[Len(p) + k] = q[k]
    BY ConcatLong
  <2>2. /\ a \in Seq(Message) /\ Len(a) = Len(x) + Len(y)
        /\ \A k \in 1 .. Len(x) : a[k] = x[k]
        /\ \A k \in 1 .. Len(y) : a[Len(x) + k] = y[k]
    BY <1>3, <1>4, <2>1, Zenon
  <2>3. (i - 1) + (N - i) = N - 1
    BY <1>2
  <2> HIDE DEF a
  <2> QED
    BY <1>3, <1>4, <2>2, <2>3
<1>6. RemoveAt(b, i) = a
  BY DEF RemoveAt, x, y
<1> HIDE DEF a
<1>7. ASSUME NEW k \in 1 .. N - 1, k >= i PROVE a[k] = b[k + 1]
  <2>1. PICK j \in 1 .. N - i : k = (i - 1) + j /\ k + 1 = i + j
    <3>1. k - (i - 1) \in 1 .. N - i /\ k = (i - 1) + (k - (i - 1)) /\ k + 1 = i + (k - (i - 1))
      BY <1>2, <1>7
    <3> QED
      BY <3>1
  <2> QED
    BY <1>5, <2>1
<1>8. f[i + 1] = f[i]
  BY <1>1 DEF Brings
<1>9. g \in [1 .. N -> Nat]
  <2>1. \A k \in 1 .. N : k \in 1 .. Len(b) + 1 /\ k + 1 \in 1 .. Len(b) + 1
    BY <1>2
  <2> QED
    BY <1>1, <2>1
<1>10. \A k \in 1 .. N : g[k] = IF k <= i THEN f[k] ELSE f[k + 1]
  OBVIOUS
<1> HIDE DEF g
<1>11. ASSUME NEW k \in 1 .. Len(a) PROVE Brings(a[k], s, l, g[k], g[k + 1])
  <2>1. k \in 1 .. N - 1 /\ k \in 1 .. N /\ k + 1 \in 1 .. N /\ k \in 1 .. Len(b)
        /\ k + 1 \in 1 .. Len(b)
    BY <1>2, <1>5
  <2>2. CASE k < i
    <3>1. k \in 1 .. i - 1 /\ k <= i /\ k + 1 <= i
      BY <1>2, <2>1, <2>2
    <3> QED
      BY <1>1, <1>5, <1>10, <2>1, <3>1
  <2>3. CASE k >= i
    <3>1. a[k] = b[k + 1] /\ ~(k + 1 <= i) /\ (k <= i => k = i)
      BY <1>2, <1>7, <2>1, <2>3
    <3>2. g[k] = f[k + 1]
      BY <1>8, <1>10, <2>1, <3>1
    <3>3. g[k + 1] = f[(k + 1) + 1]
      BY <1>10, <2>1, <3>1
    <3> QED
      BY <1>1, <2>1, <3>1, <3>2, <3>3
  <2> QED
    BY <1>2, <2>1, <2>2, <2>3
<1>12. Len(a) + 1 = N /\ 1 \in 1 .. N /\ N \in 1 .. N
  BY <1>2, <1>5
<1>13. g[1] = n /\ g[N] = e
  <2>1. 1 <= i
    BY <1>2
  <2>2. N <= i => N = i
    BY <1>2
  <2> QED
    BY <1>1, <1>8, <1>10, <1>12, <2>1, <2>2
<1>14. Carries(a, s, l, n, e)
  BY <1>9, <1>11, <1>12, <1>13 DEF Carries
<1> QED
  BY <1>6, <1>14

(* A message that brings nothing of the session is sent, or all of what    *)
(* waits for it; one more result waits; the request is freed.              *)
LEMMA StreamPassed ==
  ASSUME NEW q, NEW b \in Seq(Message), NEW s, NEW l, NEW n, Streams(q, b, s, l, n),
         NEW m \in Message, m.what # "results" \/ m.s # s
  PROVE  Streams(q, Append(b, m), s, l, n)
<1>1. PICK e \in Nat : /\ Carries(b, s, l, n, e) /\ e <= Len(l)
                       /\ q # NoRequest => Part(q.pending, l, e, Len(l))
  BY DEF Streams
<1>2. Brings(m, s, l, e, e)
  BY DEF Brings
<1>3. Carries(Append(b, m), s, l, n, e)
  BY <1>1, <1>2, CarriesMore
<1> QED
  BY <1>1, <1>3 DEF Streams

LEMMA StreamSent ==
  ASSUME NEW q \in Request, NEW b \in Seq(Message), NEW s \in Session, NEW l \in Seq(AnyResult),
         NEW n, Streams(q, b, s, l, n), q.pending # <<>>, NEW p, p.pending = <<>>
  PROVE  Streams(p, Append(b, Results(s, q.pending)), s, l, n)
<1>1. PICK e \in Nat : Carries(b, s, l, n, e) /\ Part(q.pending, l, e, Len(l))
  BY RequestTypes DEF Streams
<1> DEFINE m == Results(s, q.pending)
<1>2. m \in Message /\ Brings(m, s, l, e, Len(l))
  <2>1. q.pending \in Seq(AnyResult)
    BY DEF Request
  <2> QED
    BY <1>1, <2>1, MessageTypes DEF Brings, Results
<1> HIDE DEF m
<1>3. Len(l) \in Nat
  OBVIOUS
<1>4. Carries(Append(b, m), s, l, n, Len(l))
  BY <1>1, <1>2, <1>3, CarriesMore
<1>5. Part(<<>>, l, Len(l), Len(l))
  <2>1. <<>> \in Seq(AnyResult) /\ Len(<<>>) = 0 /\ 1 .. 0 = {}
    OBVIOUS
  <2> QED
    BY <1>3, <2>1 DEF Part
<1>6. Len(l) <= Len(l)
  BY <1>3
<1> QED
  BY <1>3, <1>4, <1>5, <1>6 DEF Streams, m

LEMMA StreamGrows ==
  ASSUME NEW q \in Request, NEW b \in Seq(Message), NEW s, NEW l \in Seq(AnyResult), NEW n,
         Streams(q, b, s, l, n), NEW r \in AnyResult, NEW p, p.pending = Append(q.pending, r)
  PROVE  Streams(p, b, s, Append(l, r), n)
<1>1. PICK e \in Nat : /\ Carries(b, s, l, n, e) /\ e <= Len(l)
                       /\ Part(q.pending, l, e, Len(l))
  BY RequestTypes DEF Streams
<1>2. Part(p.pending, Append(l, r), e, Len(l) + 1)
  BY <1>1, PartGrows
<1>3. Len(Append(l, r)) = Len(l) + 1 /\ Len(l) \in Nat
  BY AppendLong
<1>4. Carries(b, s, Append(l, r), n, e)
  BY <1>1, CarriesGrown
<1>5. e <= Len(Append(l, r))
  BY <1>1, <1>3
<1> QED
  BY <1>2, <1>3, <1>4, <1>5 DEF Streams

LEMMA StreamForgotten ==
  ASSUME NEW q, NEW b, NEW s, NEW l, NEW n, Streams(q, b, s, l, n)
  PROVE  Streams(NoRequest, b, s, l, n)
BY DEF Streams

(* The wrapper hears one result of the session t.                          *)
LEMMA StreamHears ==
  ASSUME NEW w \in WrapperState, NEW t \in Session, w.requests[t] \in Request,
         NEW r \in AnyResult, r.id,
         NEW s \in Session, NEW l \in Seq(AnyResult), NEW n,
         Streams(w.requests[s], w.bus, s, l, n)
  PROVE  LET e == emit_browse_result(w, t, r) IN
         /\ e \in WrapperState /\ e.requests[t] \in Request
         /\ Streams(e.requests[s], e.bus, s, IF t = s THEN Append(l, r) ELSE l, n)
<1> DEFINE q == w.requests[t]
           h == Append(q.pending, r)
           e == emit_browse_result(w, t, r)
           m == Results(t, h)
<1>1. \E p \in Request : \E i, c :
        /\ Becoming(w, e, t, p, i, c)
        /\ \/ p.pending = <<>> /\ c = Append(w.bus, m)
           \/ p.pending = h /\ c = w.bus
  BY HeardOne
<1>2. PICK p \in Request : \E c :
        /\ e \in WrapperState /\ e.requests[t] = p /\ e.bus = c
        /\ \A u \in Session \ {t} : e.requests[u] = w.requests[u]
        /\ \/ p.pending = <<>> /\ c = Append(w.bus, m)
           \/ p.pending = h /\ c = w.bus
  BY <1>1 DEF Becoming
<1>3. PICK c :
        /\ e \in WrapperState /\ e.requests[t] = p /\ e.bus = c
        /\ \A u \in Session \ {t} : e.requests[u] = w.requests[u]
        /\ \/ p.pending = <<>> /\ c = Append(w.bus, m)
           \/ p.pending = h /\ c = w.bus
  BY <1>2
<1> HIDE DEF e
<1>4. w.bus \in Seq(Message)
  BY Shape
<1>5. h \in Seq(AnyResult) /\ h # <<>> /\ m \in Message /\ m.s = t
  <2>1. q.pending \in Seq(AnyResult)
    BY DEF Request
  <2>2. h \in Seq(AnyResult) /\ h # <<>>
    BY <2>1, AppendProperties
  <2> HIDE DEF h
  <2> QED
    BY <2>2, MessageTypes DEF Results
<1>6. CASE t # s
  <2>1. e.requests[s] = w.requests[s]
    BY <1>3, <1>6
  <2>2. Streams(w.requests[s], c, s, l, n)
    <3>1. CASE c = w.bus
      BY <3>1
    <3>2. CASE c = Append(w.bus, m)
      <4> HIDE DEF m
      <4> QED
        BY <1>4, <1>5, <1>6, <3>2, StreamPassed
    <3> QED
      BY <1>3, <3>1, <3>2
  <2> QED
    BY <1>3, <1>6, <2>1, <2>2 DEF e
<1>7. CASE t = s
  <2>1. CASE p.pending = h /\ c = w.bus
    <3>1. Streams(p, c, s, Append(l, r), n)
      BY <1>4, <1>7, <2>1, StreamGrows
    <3> QED
      BY <1>3, <1>7, <3>1 DEF e
  <2>2. CASE p.pending = <<>> /\ c = Append(w.bus, m)
    <3> DEFINE p0 == [q EXCEPT !.pending = h]
    <3>1. p0 \in Request /\ p0.pending = h
      BY <1>5, RequestTypes DEF Request
    <3> HIDE DEF p0
    <3>2. Streams(p0, w.bus, s, Append(l, r), n)
      BY <1>4, <1>7, <3>1, StreamGrows
    <3>3. Append(l, r) \in Seq(AnyResult)
      BY AppendLong
    <3>4. p0.pending # <<>> /\ Results(s, p0.pending) = m
      BY <1>5, <1>7, <3>1
    <3>5. Streams(p, Append(w.bus, Results(s, p0.pending)), s, Append(l, r), n)
      BY <1>4, <2>2, <3>1, <3>2, <3>3, <3>4, StreamSent
    <3> QED
      BY <1>3, <1>7, <2>2, <3>4, <3>5 DEF e
  <2> QED
    BY <1>3, <2>1, <2>2
<1> QED
  BY <1>6, <1>7

\* k is l and the first i of the results says
Longer(k, l, says, i) ==
  /\ k \in Seq(AnyResult) /\ Len(k) = Len(l) + i
  /\ \A j \in 1 .. Len(l) : k[j] = l[j]
  /\ \A j \in 1 .. i : k[Len(l) + j] = says[j]

LEMMA LongerGrows ==
  ASSUME NEW l \in Seq(AnyResult), NEW says \in Seq(AnyResult), NEW i \in 1 .. Len(says),
         NEW j, j = i - 1, NEW k, Longer(k, l, says, j)
  PROVE  Longer(Append(k, says[i]), l, says, i)
<1> DEFINE m == Append(k, says[i])
<1>1. says[i] \in AnyResult /\ Len(l) \in Nat /\ i \in Nat /\ j \in Nat
  BY ElementOfSeq
<1>2. /\ k \in Seq(AnyResult) /\ Len(k) = Len(l) + j
      /\ \A a \in 1 .. Len(l) : k[a] = l[a]
      /\ \A a \in 1 .. j : k[Len(l) + a] = says[a]
  BY DEF Longer
<1>3. /\ m \in Seq(AnyResult) /\ Len(m) = Len(k) + 1 /\ m[Len(k) + 1] = says[i]
      /\ \A a \in 1 .. Len(k) : m[a] = k[a]
  BY <1>1, <1>2, AppendLong
<1> HIDE DEF m
<1>4. Len(k) + 1 = Len(l) + i
  BY <1>1, <1>2
<1>5. \A a \in 1 .. Len(l) : a \in 1 .. Len(k)
  BY <1>1, <1>2
<1>6. \A a \in 1 .. Len(l) : m[a] = l[a]
  BY <1>2, <1>3, <1>5
<1>7. \A a \in 1 .. i : m[Len(l) + a] = says[a]
  <2> TAKE a \in 1 .. i
  <2>1. CASE a = i
    BY <1>3, <1>4, <2>1
  <2>2. CASE a # i
    <3>1. a \in 1 .. j /\ Len(l) + a \in 1 .. Len(k)
      BY <1>1, <1>2, <2>2
    <3> QED
      BY <1>2, <1>3, <3>1
  <2> QED
    BY <2>1, <2>2
<1>8. Longer(m, l, says, i)
  BY <1>3, <1>4, <1>6, <1>7 DEF Longer
<1> QED
  BY <1>8 DEF m

LEMMA LongerAll ==
  ASSUME NEW l \in Seq(AnyResult), NEW says \in Seq(AnyResult), NEW k,
         Longer(k, l, says, Len(says))
  PROVE  k = l \o says
<1> DEFINE m == l \o says
<1>1. /\ m \in Seq(AnyResult) /\ Len(m) = Len(l) + Len(says) /\ Len(l) \in Nat /\ Len(says) \in Nat
      /\ \A j \in 1 .. Len(l) : m[j] = l[j]
      /\ \A j \in 1 .. Len(says) : m[Len(l) + j] = says[j]
  BY ConcatLong
<1> HIDE DEF m
<1>2. /\ k \in Seq(AnyResult) /\ Len(k) = Len(l) + Len(says)
      /\ \A j \in 1 .. Len(l) : k[j] = l[j]
      /\ \A j \in 1 .. Len(says) : k[Len(l) + j] = says[j]
  BY DEF Longer
<1>3. \A i \in 1 .. Len(k) : k[i] = m[i]
  <2> TAKE i \in 1 .. Len(k)
  <2>1. CASE i <= Len(l)
    <3>1. i \in 1 .. Len(l)
      BY <1>1, <1>2, <2>1
    <3> QED
      BY <1>1, <1>2, <3>1
  <2>2. CASE i > Len(l)
    <3>1. PICK j \in 1 .. Len(says) : i = Len(l) + j
      <4>1. i - Len(l) \in 1 .. Len(says) /\ i = Len(l) + (i - Len(l))
        BY <1>1, <1>2, <2>2
      <4> QED
        BY <4>1
    <3> QED
      BY <1>1, <1>2, <3>1
  <2> QED
    BY <1>1, <1>2, <2>1, <2>2
<1>4. Len(k) = Len(m)
  BY <1>1, <1>2
<1> QED
  BY <1>1, <1>2, <1>3, <1>4, SeqEqual DEF m

(* It hears several of them.                                               *)
LEMMA StreamHeard ==
  ASSUME NEW w \in WrapperState, NEW t \in Session, NEW says \in Sayings,
         says # <<>> => w.requests[t] # NoRequest,
         NEW s \in Session, NEW l \in Seq(AnyResult), NEW n,
         Streams(w.requests[s], w.bus, s, l, n)
  PROVE  LET x == Heard(w, t, says) IN
         Streams(x.requests[s], x.bus, s, IF t = s THEN l \o says ELSE l, n)
<1>1. CASE says = <<>>
  <2>1. Heard(w, t, says) = w /\ l \o says = l
    BY <1>1, HeardNothing, ConcatEmptySeq
  <2> QED
    BY <2>1
<1>2. CASE says # <<>>
  <2> DEFINE N == Len(says)
             Fine(x, i) ==
               /\ x \in WrapperState /\ x.requests[t] \in Request
               /\ IF t = s THEN \E k : Longer(k, l, says, i) /\ Streams(x.requests[s], x.bus, s, k, n)
                  ELSE Streams(x.requests[s], x.bus, s, l, n)
  <2>1. N \in Nat /\ says \in Seq(AnyResult) /\ \A i \in 1 .. N : says[i] \in AnyResult /\ says[i].id
    <3>1. says \in Seq(AnyResult) /\ DOMAIN says = 1 .. Len(says) /\ \A i \in DOMAIN says : says[i].id
      BY DEF Sayings
    <3> QED
      BY <3>1, ElementOfSeq
  <2>2. PICK h : Hearing(w, t, says, N, h) /\ Heard(w, t, says) = h[N]
    BY <2>1, HeardThrough
  <2>3. h[0] = w /\ \A i \in 1 .. N : h[i] = emit_browse_result(h[i - 1], t, says[i])
    BY <2>1, <2>2 DEF Hearing
  <2> HIDE DEF N
  <2>4. Fine(w, 0)
    <3>1. w.requests[t] \in Request
      BY <1>2, Shape
    <3>2. Longer(l, l, says, 0)
      <4>1. Len(l) \in Nat /\ 1 .. 0 = {}
        OBVIOUS
      <4> QED
        BY <4>1 DEF Longer
    <3> QED
      BY <3>1, <3>2
  <2>5. ASSUME NEW i \in 1 .. N, NEW j, j = i - 1, Fine(h[j], j) PROVE Fine(h[i], i)
    <3> DEFINE e == emit_browse_result(h[j], t, says[i])
    <3>1. h[i] = e /\ says[i] \in AnyResult /\ says[i].id
      BY <2>1, <2>3, <2>5
    <3>2. h[j] \in WrapperState /\ h[j].requests[t] \in Request
      BY <2>5
    <3>3. CASE t # s
      <4>1. Streams(h[j].requests[s], h[j].bus, s, l, n)
        BY <2>5, <3>3
      <4>2. /\ e \in WrapperState /\ e.requests[t] \in Request
            /\ Streams(e.requests[s], e.bus, s, l, n)
        BY <3>1, <3>2, <3>3, <4>1, StreamHears
      <4> HIDE DEF e
      <4> QED
        BY <3>1, <3>3, <4>2
    <3>4. CASE t = s
      <4>1. PICK k : Longer(k, l, says, j) /\ Streams(h[j].requests[s], h[j].bus, s, k, n)
        BY <2>5, <3>4
      <4>2. k \in Seq(AnyResult)
        BY <4>1 DEF Longer
      <4>3. /\ e \in WrapperState /\ e.requests[t] \in Request
            /\ Streams(e.requests[s], e.bus, s, Append(k, says[i]), n)
        BY <3>1, <3>2, <3>4, <4>1, <4>2, StreamHears
      <4>4. Longer(Append(k, says[i]), l, says, i)
        BY <2>1, <2>5, <4>1, LongerGrows DEF N
      <4> HIDE DEF e
      <4> QED
        BY <3>1, <3>4, <4>3, <4>4
    <3> QED
      BY <3>3, <3>4
  <2> HIDE DEF Fine
  <2>6. \A i \in 0 .. N : Fine(h[i], i)
    <3> DEFINE T == {i \in 0 .. N : ~Fine(h[i], i)}
    <3> SUFFICES ASSUME T # {} PROVE FALSE
      OBVIOUS
    <3>1. T \subseteq Nat
      BY <2>1
    <3>2. \E m \in T : \A k \in T : <<k, m>> \notin OpToRel(<, Nat)
      BY <3>1, WFMin, NatLessThanWellFounded
    <3>3. PICK m \in T : \A k \in T : ~ (k < m)
      BY <3>1, <3>2 DEF OpToRel
    <3>4. m \in 0 .. N /\ ~Fine(h[m], m)
      OBVIOUS
    <3>5. m # 0
      BY <2>3, <2>4, <3>4
    <3>6. PICK j : j = m - 1
      OBVIOUS
    <3>7. m \in 1 .. N /\ j \in 0 .. N /\ j < m
      BY <2>1, <3>4, <3>5, <3>6
    <3>8. Fine(h[j], j)
      BY <3>3, <3>7
    <3> QED
      BY <2>5, <3>4, <3>6, <3>7, <3>8
  <2>7. Fine(h[N], N)
    <3>1. N \in 0 .. N
      BY <2>1
    <3> QED
      BY <2>6, <3>1
  <2>8. CASE t # s
    BY <2>2, <2>7, <2>8 DEF Fine
  <2>9. CASE t = s
    <3>1. PICK k : Longer(k, l, says, N) /\ Streams(h[N].requests[s], h[N].bus, s, k, n)
      BY <2>7, <2>9 DEF Fine
    <3>2. k = l \o says
      BY <2>1, <3>1, LongerAll DEF N
    <3> QED
      BY <2>2, <2>9, <3>1, <3>2
  <2> QED
    BY <2>8, <2>9
<1> QED
  BY <1>1, <1>2

-----------------------------------------------------------------------------
(* The client's side: of a session that is done with, nothing is given any *)
(* more, for it is no longer known, or the handling of a message of it is  *)
(* about to stop.                                                          *)
AwaitsBrowse(s) == waits # None /\ waits.to = "browse" /\ waits.s = s
CancelCalled(s) == \E i \in DOMAIN calls : calls[i].to = "cancel" /\ calls[i].s = s

ClientTyped ==
  /\ waits \in ClientCall \cup {None} /\ giving \in Giving \cup {None}
  /\ known \in SUBSET Session /\ cancelled \in SUBSET Session
  /\ got \in [Session -> Seq(AnyResult)]

ClientKeeps(s) ==
  /\ AwaitsBrowse(s) => s \notin known /\ got[s] = <<>> /\ s \notin cancelled
  /\ asked[s] = None =>
       ~AwaitsBrowse(s) /\ s \notin known /\ s \notin cancelled /\ got[s] = <<>>
  /\ asked[s] # None /\ ~Done(s) => s \in known \/ AwaitsBrowse(s)
  /\ s \in known /\ Done(s) => Emitting(s) /\ (s \in cancelled => giving.stop)
  /\ Emitting(s) => /\ s \in known /\ got[s] # <<>> /\ giving.now = Last(got[s])
                    /\ giving.stop => s \in cancelled
  /\ CancelCalled(s) => s \in cancelled

(* Nothing of the session changed for the client.                          *)
Aside(s) ==
  /\ got'[s] = got[s] /\ asked'[s] = asked[s]
  /\ s \in known' <=> s \in known
  /\ s \in cancelled' <=> s \in cancelled
  /\ AwaitsBrowse(s)' <=> AwaitsBrowse(s)
  /\ Emitting(s)' <=> Emitting(s)
  /\ Emitting(s) => giving' = giving
  /\ CancelCalled(s)' => CancelCalled(s)

LEMMA KeptAside == ASSUME NEW s, ClientKeeps(s), Aside(s)
                   PROVE  ClientKeeps(s)' /\ (Done(s)' <=> Done(s))
<1>1. Done(s)' <=> Done(s)
  BY DEF Aside, Done, Ended
<1> HIDE DEF Aside
<1> QED
  BY <1>1 DEF Aside, ClientKeeps

LEMMA CallsLeft ==
  ASSUME calls \in Seq(ClientCall), calls' = calls \/ (calls # <<>> /\ calls' = Tail(calls)),
         NEW s, CancelCalled(s)'
  PROVE  CancelCalled(s)
<1>1. CASE calls' = calls
  BY <1>1 DEF CancelCalled
<1>2. CASE calls # <<>> /\ calls' = Tail(calls)
  <2>1. \A i \in DOMAIN calls' : i + 1 \in DOMAIN calls /\ calls'[i] = calls[i + 1]
    BY <1>2, CallTaken
  <2>2. PICK i \in DOMAIN calls' : calls'[i].to = "cancel" /\ calls'[i].s = s
    BY DEF CancelCalled
  <2>3. PICK j \in DOMAIN calls : calls[j] = calls'[i]
    BY <2>1
  <2> QED
    BY <2>2, <2>3 DEF CancelCalled
<1> QED
  BY <1>1, <1>2

LEMMA CallsMore ==
  ASSUME calls \in Seq(ClientCall), NEW c \in ClientCall, calls' = Append(calls, c),
         NEW s, ~(c.to = "cancel" /\ c.s = s), CancelCalled(s)'
  PROVE  CancelCalled(s)
<1>1. PICK n \in DOMAIN calls' :
        /\ calls'[n] = c
        /\ \A i \in DOMAIN calls' : i # n => i \in DOMAIN calls /\ calls'[i] = calls[i]
  BY CallAdded
<1>2. PICK i \in DOMAIN calls' : calls'[i].to = "cancel" /\ calls'[i].s = s
  BY DEF CancelCalled
<1>3. i # n
  BY <1>1, <1>2
<1> QED
  BY <1>1, <1>2, <1>3 DEF CancelCalled

\* no step of the client
ClientRests ==
  /\ UNCHANGED <<waits, known, giving, got, asked, cancelled>>
  /\ calls' = calls \/ (calls # <<>> /\ calls' = Tail(calls))

LEMMA RestsAside ==
  ASSUME calls \in Seq(ClientCall), ClientRests, NEW s PROVE Aside(s)
<1>1. CancelCalled(s)' => CancelCalled(s)
  BY CallsLeft DEF ClientRests
<1> QED
  BY <1>1 DEF ClientRests, Aside, AwaitsBrowse, Emitting

(* A call to browse, and one to cancel.                                    *)
LEMMA BrowseKeeps ==
  ASSUME Typed, ClientTyped, NEW s \in Session, ClientKeeps(s),
         NEW t \in Session, NEW req \in Criteria, mafw_proxy_source_browse(t, req)
  PROVE  ClientTyped' /\ ClientKeeps(s)' /\ (s # t => Aside(s))
<1> DEFINE c == [to |-> "browse", s |-> t, req |-> req]
<1>1. c \in ClientCall /\ c.to = "browse" /\ c.s = t /\ c # None
  BY NoneAssumption DEF ClientCall
<1>2. /\ waits = None /\ asked[t] = None /\ waits' = c /\ calls' = Append(calls, c)
      /\ asked' = [asked EXCEPT ![t] = req]
      /\ UNCHANGED <<known, giving, got, cancelled>>
  BY DEF mafw_proxy_source_browse, Free, Calls
<1> HIDE DEF c
<1>3. calls \in Seq(ClientCall) /\ asked \in [Session -> Criteria \cup {None}] /\ req # None
  BY NoneAssumption DEF Typed
<1>4. ClientTyped'
  BY <1>1, <1>2 DEF ClientTyped
<1>5. CancelCalled(s)' => CancelCalled(s)
  BY <1>1, <1>2, <1>3, CallsMore
<1>6. ~AwaitsBrowse(s) /\ (AwaitsBrowse(s)' <=> s = t)
  BY <1>1, <1>2 DEF AwaitsBrowse
<1>7. CASE s # t
  <2>1. asked'[s] = asked[s]
    BY <1>2, <1>3, <1>7
  <2>2. Aside(s)
    BY <1>2, <1>5, <1>6, <1>7, <2>1 DEF Aside, Emitting
  <2> QED
    BY <1>4, <1>7, <2>2, KeptAside
<1>8. CASE s = t
  <2>1. asked'[s] # None
    BY <1>2, <1>3, <1>8
  <2>2. s \notin known /\ s \notin cancelled /\ got[s] = <<>> /\ ~Emitting(s)
    BY <1>2, <1>8 DEF ClientKeeps
  <2>3. ~Emitting(s)' /\ ~Done(s)'
    BY <1>2, <2>2 DEF Emitting, Done, Ended
  <2>4. CancelCalled(s)' => s \in cancelled'
    BY <1>2, <1>5 DEF ClientKeeps
  <2> QED
    BY <1>2, <1>4, <1>6, <1>8, <2>1, <2>2, <2>3, <2>4 DEF ClientKeeps
<1> QED
  BY <1>7, <1>8

LEMMA CancelKeeps ==
  ASSUME Typed, ClientTyped, NEW s \in Session, ClientKeeps(s),
         NEW t \in Session, mafw_proxy_source_cancel_browse(t)
  PROVE  /\ ClientTyped' /\ ClientKeeps(s)'
         /\ s # t => Aside(s)
         /\ s = t => Done(s)' /\ asked'[s] = asked[s] /\ asked[s] # None /\ s \notin cancelled
<1> DEFINE c == [to |-> "cancel", s |-> t]
<1>1. c \in ClientCall /\ c.to = "cancel" /\ c.s = t /\ c # None
  BY NoneAssumption DEF ClientCall
<1>2. /\ waits = None /\ t \in known /\ t \notin cancelled /\ waits' = c
      /\ calls' = Append(calls, c) /\ cancelled' = cancelled \cup {t}
      /\ UNCHANGED <<got, asked>>
      /\ IF Emitting(t) THEN giving' = [giving EXCEPT !.stop = TRUE] /\ known' = known
         ELSE known' = known \ {t} /\ giving' = giving
  BY DEF mafw_proxy_source_cancel_browse, Free, Calls
<1> HIDE DEF c
<1>3. calls \in Seq(ClientCall)
  BY DEF Typed
<1>4. Emitting(t) => /\ giving \in Giving /\ giving' \in Giving /\ giving'.s = t /\ giving'.stop
                     /\ giving'.now = giving.now /\ giving' # None
  <2>1. ASSUME Emitting(t) PROVE giving \in Giving /\ giving.s = t
    BY <2>1 DEF ClientTyped, Emitting
  <2>2. ASSUME giving \in Giving, giving' = [giving EXCEPT !.stop = TRUE]
        PROVE  giving' \in Giving /\ giving'.s = giving.s /\ giving'.stop
               /\ giving'.now = giving.now
    BY <2>2 DEF Giving
  <2> QED
    BY <1>2, <2>1, <2>2, NoneAssumption
<1>5. ClientTyped'
  BY <1>1, <1>2, <1>4 DEF ClientTyped
<1>6. ~AwaitsBrowse(s) /\ ~AwaitsBrowse(s)'
  BY <1>1, <1>2 DEF AwaitsBrowse
<1>7. CASE s # t
  <2>1. CancelCalled(s)' => CancelCalled(s)
    BY <1>1, <1>2, <1>3, <1>7, CallsMore
  <2>2. (Emitting(s)' <=> Emitting(s)) /\ (Emitting(s) => giving' = giving)
    BY <1>2, <1>4, <1>7 DEF Emitting
  <2>3. Aside(s)
    BY <1>2, <1>6, <1>7, <2>1, <2>2 DEF Aside
  <2> QED
    BY <1>5, <1>7, <2>3, KeptAside
<1>8. CASE s = t
  <2>1. asked'[s] = asked[s] /\ asked[s] # None /\ s \in cancelled' /\ got'[s] = got[s]
    BY <1>2, <1>8 DEF ClientKeeps
  <2>2. Done(s)'
    BY <2>1 DEF Done
  <2>3. CASE Emitting(s)
    <3>1. Emitting(s)' /\ giving'.stop /\ giving'.now = giving.now /\ s \in known'
      BY <1>2, <1>4, <1>8, <2>3 DEF Emitting
    <3>2. got'[s] # <<>> /\ giving'.now = Last(got'[s])
      BY <2>1, <2>3, <3>1 DEF ClientKeeps
    <3> QED
      BY <1>2, <1>5, <1>6, <1>8, <2>1, <2>2, <3>1, <3>2 DEF ClientKeeps
  <2>4. CASE ~Emitting(s)
    <3>1. ~Emitting(s)' /\ s \notin known'
      BY <1>2, <1>8, <2>4 DEF Emitting
    <3> QED
      BY <1>2, <1>5, <1>6, <1>8, <2>1, <2>2, <3>1 DEF ClientKeeps
  <2> QED
    BY <2>3, <2>4
<1> QED
  BY <1>7, <1>8

(* A call returns: what fails to begin is over.                            *)
LEMMA ReturnKeeps ==
  ASSUME Typed, ClientTyped, NEW s \in Session, ClientKeeps(s), ~Free,
         NEW ok \in BOOLEAN, Returns(ok)
  PROVE  /\ ClientTyped' /\ ClientKeeps(s)'
         /\ \/ got'[s] = got[s] /\ asked'[s] = asked[s] /\ (s \in cancelled' <=> s \in cancelled)
               /\ giving' = giving
            \/ /\ AwaitsBrowse(s) /\ got' = [got EXCEPT ![s] = Append(@, Refusal)]
               /\ got[s] = <<>> /\ UNCHANGED <<asked, cancelled>> /\ asked[s] # None
               /\ Done(s)' /\ ~Done(s)
<1>1. /\ waits' = None /\ waits # None /\ waits \in ClientCall
      /\ UNCHANGED <<giving, asked, cancelled, calls>>
      /\ IF waits.to = "cancel" THEN UNCHANGED <<known, got>>
         ELSE IF ok THEN known' = known \cup {waits.s} /\ UNCHANGED got
         ELSE Gets(waits.s, Refusal) /\ UNCHANGED known
  BY DEF Returns, Free, ClientTyped
<1>2. waits.s \in Session /\ waits.to \in {"browse", "cancel"}
  BY <1>1 DEF ClientCall
<1>3. PICK t \in Session : t = waits.s
  BY <1>2
<1>4. got \in [Session -> Seq(AnyResult)] /\ Refusal \in AnyResult
  BY ResultTypes DEF ClientTyped
<1>5. ClientTyped'
  <2>1. Append(got[t], Refusal) \in Seq(AnyResult)
    BY <1>4, AppendLong
  <2>2. got' \in [Session -> Seq(AnyResult)]
    BY <1>1, <1>3, <1>4, <2>1 DEF Gets
  <2>3. known' \in SUBSET Session
    BY <1>1, <1>2 DEF ClientTyped
  <2> QED
    BY <1>1, <2>2, <2>3 DEF ClientTyped
<1>6. ~AwaitsBrowse(s)' /\ (AwaitsBrowse(s) <=> waits.to = "browse" /\ t = s)
  BY <1>1, <1>3 DEF AwaitsBrowse
<1>7. (Emitting(s)' <=> Emitting(s)) /\ (CancelCalled(s)' <=> CancelCalled(s))
  BY <1>1 DEF Emitting, CancelCalled
<1>8. CASE ~AwaitsBrowse(s)
  <2>1. got'[s] = got[s] /\ (s \in known' <=> s \in known)
    BY <1>1, <1>2, <1>3, <1>4, <1>6, <1>8 DEF Gets
  <2>2. Aside(s)
    BY <1>1, <1>6, <1>7, <1>8, <2>1 DEF Aside
  <2> QED
    BY <1>1, <1>5, <2>1, <2>2, KeptAside
<1>9. CASE AwaitsBrowse(s)
  <2>1. /\ s \notin known /\ got[s] = <<>> /\ s \notin cancelled /\ asked[s] # None
        /\ ~Emitting(s) /\ ~CancelCalled(s)
    BY <1>9 DEF ClientKeeps
  <2>2. ~Done(s)
    BY <2>1 DEF Done, Ended
  <2>3. CASE ok
    <3>1. got' = got /\ s \in known'
      BY <1>1, <1>3, <1>6, <1>9, <2>3
    <3>2. ~Done(s)'
      BY <1>1, <2>1, <3>1 DEF Done, Ended
    <3>3. ClientKeeps(s)'
      BY <1>1, <1>6, <1>7, <2>1, <3>1, <3>2 DEF ClientKeeps
    <3> QED
      BY <1>1, <1>5, <3>1, <3>3
  <2>4. CASE ~ok
    <3>1. got' = [got EXCEPT ![s] = Append(@, Refusal)] /\ known' = known
      BY <1>1, <1>3, <1>6, <1>9, <2>4 DEF Gets
    <3>2. got'[s] = Append(<<>>, Refusal)
      BY <1>4, <2>1, <3>1
    <3>3. got'[s] # <<>> /\ Last(got'[s]) = Refusal
      <4>1. <<>> \in Seq(AnyResult) /\ Len(<<>>) = 0
        OBVIOUS
      <4>2. Len(Append(<<>>, Refusal)) = 1 /\ Append(<<>>, Refusal)[1] = Refusal
        BY <1>4, <4>1, AppendLong
      <4>3. Append(<<>>, Refusal) # <<>>
        BY <4>1, <4>2
      <4> QED
        BY <3>2, <4>2, <4>3 DEF Last
    <3>4. Refusal.left = 0
      BY DEF Refusal, Failure, Nothing, Result
    <3>5. Done(s)'
      BY <3>3, <3>4 DEF Done, Ended
    <3>6. ClientKeeps(s)'
      BY <1>1, <1>6, <1>7, <2>1, <3>1, <3>5 DEF ClientKeeps
    <3> QED
      BY <1>1, <1>5, <1>9, <2>1, <2>2, <3>1, <3>5, <3>6
  <2> QED
    BY <2>3, <2>4
<1> QED
  BY <1>8, <1>9

(* One result is given to the callback.                                    *)
LEMMA LastAdded ==
  ASSUME NEW l \in Seq(AnyResult), NEW r \in AnyResult
  PROVE  Append(l, r) # <<>> /\ Last(Append(l, r)) = r
<1>1. Len(Append(l, r)) = Len(l) + 1 /\ Append(l, r)[Len(l) + 1] = r
  BY AppendLong
<1>2. Append(l, r) # <<>>
  BY AppendProperties
<1> QED
  BY <1>1, <1>2 DEF Last

LEMMA GiveKeeps ==
  ASSUME Typed, ClientTyped, NEW s \in Session, ClientKeeps(s),
         NEW t \in Session, NEW l \in Seq(AnyResult), l # <<>>,
         Free, t \in known, ~Done(t), giving = None \/ Emitting(t),
         Give(t, l, FALSE), UNCHANGED <<calls, waits, known, asked, cancelled>>
  PROVE  /\ ClientTyped' /\ ClientKeeps(s)'
         /\ s # t => Aside(s)
         /\ s = t => /\ Emitting(s)' /\ giving'.rest = Tail(l)
                     /\ got' = [got EXCEPT ![s] = Append(@, Head(l))]
                     /\ asked[s] # None
<1> DEFINE g == [s |-> t, now |-> Head(l), rest |-> Tail(l), stop |-> FALSE]
<1>1. Head(l) \in AnyResult /\ Tail(l) \in Seq(AnyResult)
  BY HeadTailProperties
<1>2. g \in Giving /\ g.s = t /\ g.now = Head(l) /\ ~g.stop /\ g.rest = Tail(l) /\ g # None
  <2>1. g \in Giving
    BY <1>1 DEF Giving
  <2>2. g.s = t /\ g.now = Head(l) /\ ~g.stop /\ g.rest = Tail(l)
    OBVIOUS
  <2> HIDE DEF g
  <2> QED
    BY <2>1, <2>2, NoneAssumption
<1>3. giving' = g /\ got' = [got EXCEPT ![t] = Append(@, Head(l))]
  BY DEF Give, Gets
<1> HIDE DEF g
<1>4. got \in [Session -> Seq(AnyResult)] /\ got[t] \in Seq(AnyResult)
  BY DEF ClientTyped
<1>5. Append(got[t], Head(l)) \in Seq(AnyResult)
  BY <1>1, <1>4, AppendLong
<1>6. ClientTyped'
  <2>1. got' \in [Session -> Seq(AnyResult)]
    BY <1>3, <1>4, <1>5
  <2> QED
    BY <1>2, <1>3, <2>1 DEF ClientTyped
<1>7. ~AwaitsBrowse(s) /\ ~AwaitsBrowse(s)' /\ (CancelCalled(s)' <=> CancelCalled(s))
  BY DEF AwaitsBrowse, Free, CancelCalled
<1>8. CASE s # t
  <2>1. ~Emitting(s) /\ ~Emitting(s)'
    BY <1>2, <1>3, <1>8 DEF Emitting
  <2>2. got'[s] = got[s]
    BY <1>3, <1>4, <1>8
  <2>3. Aside(s)
    BY <1>7, <2>1, <2>2 DEF Aside
  <2> QED
    BY <1>6, <1>8, <2>3, KeptAside
<1>9. CASE s = t
  <2>1. Emitting(s)' /\ giving'.now = Head(l) /\ ~giving'.stop /\ giving'.rest = Tail(l)
    BY <1>2, <1>3, <1>9 DEF Emitting
  <2>2. got'[s] = Append(got[s], Head(l))
    BY <1>3, <1>4, <1>9
  <2>3. got'[s] # <<>> /\ Last(got'[s]) = Head(l)
    BY <1>1, <1>4, <1>9, <2>2, LastAdded
  <2>4. s \in known' /\ asked'[s] = asked[s] /\ asked[s] # None /\ s \notin cancelled'
        /\ (CancelCalled(s) => s \in cancelled)
    BY <1>9 DEF ClientKeeps, Done
  <2>5. ClientKeeps(s)'
    BY <1>7, <2>1, <2>3, <2>4 DEF ClientKeeps
  <2> QED
    BY <1>3, <1>6, <1>9, <2>1, <2>4, <2>5
<1> QED
  BY <1>8, <1>9

LEMMA DispatchKeeps ==
  ASSUME Typed, ClientTyped, NEW s \in Session, ClientKeeps(s),
         NEW t \in Session, NEW l \in Seq(AnyResult), Dispatch(t, l), ClientKeeps(t),
         t \in known /\ ~Done(t) => l # <<>>
  PROVE  /\ ClientTyped' /\ ClientKeeps(s)'
         /\ s # t \/ s \notin known => Aside(s)
         /\ s = t /\ s \in known =>
              /\ ~Done(s) /\ ~Emitting(s) /\ Emitting(s)' /\ giving'.rest = Tail(l) /\ l # <<>>
              /\ got' = [got EXCEPT ![s] = Append(@, Head(l))]
              /\ asked[s] # None /\ asked' = asked /\ cancelled' = cancelled
         /\ UNCHANGED <<calls, asked, cancelled>>
<1>1. Free /\ giving = None /\ UNCHANGED <<calls, waits, known, asked, cancelled>>
  BY DEF Dispatch
<1>2. CASE t \in known
  <2>1. Give(t, l, FALSE)
    BY <1>2 DEF Dispatch
  <2>2. ~Emitting(t)
    BY <1>1 DEF Emitting
  <2>3. ~Done(t)
    BY <1>2, <2>2 DEF ClientKeeps
  <2> QED
    BY <1>1, <1>2, <2>1, <2>2, <2>3, GiveKeeps
<1>3. CASE t \notin known
  <2>1. giving' = giving /\ got' = got
    BY <1>3 DEF Dispatch
  <2>2. Aside(s)
    BY <1>1, <2>1 DEF Aside, AwaitsBrowse, Emitting, CancelCalled
  <2>3. ClientTyped'
    BY <1>1, <2>1 DEF ClientTyped
  <2> QED
    BY <1>1, <1>3, <2>2, <2>3, KeptAside
<1> QED
  BY <1>2, <1>3

LEMMA CallbackKeeps ==
  ASSUME Typed, ClientTyped, NEW s \in Session, ClientKeeps(s), CallbackReturns,
         \A t \in Session : ClientKeeps(t)
  PROVE  /\ ClientTyped' /\ ClientKeeps(s)' /\ UNCHANGED <<calls, asked, cancelled>>
         /\ \/ Aside(s)
            \/ Emitting(s) /\ got' = got /\ Done(s) /\ ~Emitting(s)'
            \/ Emitting(s) /\ got' = got /\ ~Emitting(s)' /\ giving.rest = <<>>
            \/ /\ ~Done(s) /\ Emitting(s) /\ Emitting(s)' /\ giving.rest # <<>>
               /\ giving'.rest = Tail(giving.rest)
               /\ got' = [got EXCEPT ![s] = Append(@, Head(giving.rest))]
               /\ asked[s] # None
<1>1. Free /\ giving # None /\ UNCHANGED <<calls, waits, asked, cancelled>> /\ giving \in Giving
  BY DEF CallbackReturns, ClientTyped
<1>2. PICK t \in Session : t = giving.s
  BY <1>1 DEF Giving
<1>3. Emitting(t) /\ (s # t => ~Emitting(s)) /\ giving.rest \in Seq(AnyResult)
      /\ giving.stop \in BOOLEAN
  BY <1>1, <1>2 DEF Emitting, Giving
<1>4. /\ t \in known /\ got[t] # <<>> /\ giving.now = Last(got[t])
      /\ giving.stop => t \in cancelled
      /\ Done(t) => (t \in cancelled => giving.stop)
  BY <1>3 DEF ClientKeeps
<1>5. Done(t) <=> giving.now.left = 0 \/ giving.stop
  BY <1>4 DEF Done, Ended
<1>6. ~AwaitsBrowse(s) /\ ~AwaitsBrowse(s)' /\ (CancelCalled(s)' <=> CancelCalled(s))
  BY <1>1 DEF AwaitsBrowse, Free, CancelCalled
<1>7. CASE giving.now.left = 0 \/ giving.stop
  <2>1. giving' = None /\ known' = known \ {t} /\ got' = got
    BY <1>2, <1>7 DEF CallbackReturns
  <2>2. ClientTyped'
    BY <1>1, <2>1 DEF ClientTyped
  <2>3. ~Emitting(s)'
    BY <2>1 DEF Emitting
  <2>4. CASE s # t
    <3>1. Aside(s)
      BY <1>1, <1>3, <1>6, <2>1, <2>3, <2>4 DEF Aside
    <3> QED
      BY <1>1, <2>2, <3>1, KeptAside
  <2>5. CASE s = t
    <3>1. Done(s)'
      BY <1>1, <1>5, <1>7, <2>1, <2>5 DEF Done, Ended
    <3>2. asked'[s] # None /\ s \notin known' /\ (CancelCalled(s)' => s \in cancelled')
      BY <1>1, <1>4, <1>6, <2>1, <2>5 DEF ClientKeeps
    <3>3. ClientKeeps(s)'
      BY <1>6, <2>3, <3>1, <3>2 DEF ClientKeeps
    <3> QED
      BY <1>1, <1>3, <1>5, <1>7, <2>1, <2>2, <2>3, <2>5, <3>3
  <2> QED
    BY <2>4, <2>5
<1>8. CASE ~(giving.now.left = 0 \/ giving.stop)
  <2>1. known' = known /\ ~Done(t)
    BY <1>5, <1>8 DEF CallbackReturns
  <2>2. CASE giving.rest = <<>>
    <3>1. giving' = None /\ got' = got
      BY <1>8, <2>2 DEF CallbackReturns
    <3>2. ClientTyped'
      BY <1>1, <2>1, <3>1 DEF ClientTyped
    <3>3. ~Emitting(s)'
      BY <3>1 DEF Emitting
    <3>4. CASE s # t
      <4>1. Aside(s)
        BY <1>1, <1>3, <1>6, <2>1, <3>1, <3>3, <3>4 DEF Aside
      <4> QED
        BY <1>1, <3>2, <4>1, KeptAside
    <3>5. CASE s = t
      <4>1. ~Done(s)' /\ asked'[s] = asked[s] /\ asked[s] # None /\ s \in known'
            /\ (CancelCalled(s)' => s \in cancelled')
        BY <1>1, <1>4, <1>6, <2>1, <3>1, <3>5 DEF Done, Ended, ClientKeeps
      <4>2. ClientKeeps(s)'
        BY <1>6, <3>3, <4>1 DEF ClientKeeps
      <4> QED
        BY <1>1, <1>3, <2>2, <3>1, <3>2, <3>3, <3>5, <4>2
    <3> QED
      BY <3>4, <3>5
  <2>3. CASE giving.rest # <<>>
    <3>1. Give(t, giving.rest, FALSE)
      BY <1>2, <1>3, <1>8, <2>3 DEF CallbackReturns
    <3>2. PICK l \in Seq(AnyResult) : l = giving.rest
      BY <1>3
    <3>3. UNCHANGED <<calls, waits, known, asked, cancelled>> /\ l # <<>> /\ Give(t, l, FALSE)
          /\ (giving = None \/ Emitting(t))
      BY <1>1, <1>3, <2>1, <2>3, <3>1, <3>2
    <3>4. /\ ClientTyped' /\ ClientKeeps(s)'
          /\ s # t => Aside(s)
          /\ s = t => /\ Emitting(s)' /\ giving'.rest = Tail(l)
                      /\ got' = [got EXCEPT ![s] = Append(@, Head(l))]
                      /\ asked[s] # None
      BY <1>1, <1>4, <2>1, <3>3, GiveKeeps
    <3> QED
      BY <1>1, <1>3, <2>1, <2>3, <3>2, <3>4
  <2> QED
    BY <2>2, <2>3
<1> QED
  BY <1>7, <1>8

-----------------------------------------------------------------------------
(* The list of a browse, and where its parts are.                          *)

\* what is left of the message in the client's hands
Rest(s) == IF Emitting(s) THEN giving.rest ELSE <<>>
\* the source was not yet asked
Early(s) == asked[s] = None \/ \E i \in DOMAIN calls : Browses(i, s)

\* the client was given the first results of l, and has the n first of them
Holds(s, l, n) ==
  Part(got[s], l, 0, Len(got[s])) /\ Part(Rest(s), l, Len(got[s]), n)

Behind(s, l, n) ==
  /\ Lawful(l) /\ Holds(s, l, n) /\ Streams(requests[s], bus, s, l, n)
  /\ Speaks(work[s]) => After(work[s], l)
  /\ Early(s) => l = <<>>

Delivered(s) == ~Done(s) => \E l : \E n \in Nat : Behind(s, l, n)

LEMMA PartOn ==
  ASSUME NEW l \in Seq(AnyResult), NEW x \in Seq(AnyResult), NEW p, NEW a \in Nat, NEW b \in Nat,
         Part(p, l, a, b)
  PROVE  Part(p, l \o x, a, b)
<1> DEFINE m == l \o x
<1>1. /\ Len(p) \in Nat /\ b - a = Len(p) /\ b <= Len(l) /\ p \in Seq(AnyResult)
      /\ \A j \in 1 .. Len(p) : p[j] = l[a + j]
  BY DEF Part
<1>2. /\ Len(m) = Len(l) + Len(x) /\ Len(l) \in Nat /\ Len(x) \in Nat
      /\ \A i \in 1 .. Len(l) : m[i] = l[i]
  BY ConcatLong
<1> HIDE DEF m
<1>3. \A j \in 1 .. Len(p) : a + j \in 1 .. Len(l)
  BY <1>1, <1>2
<1>4. \A j \in 1 .. Len(p) : p[j] = m[a + j]
  BY <1>1, <1>2, <1>3
<1>5. b <= Len(m)
  BY <1>1, <1>2
<1>6. Part(p, m, a, b)
  BY <1>1, <1>4, <1>5 DEF Part
<1> QED
  BY <1>6 DEF m

LEMMA PartNone == ASSUME NEW l, NEW a \in Nat, a <= Len(l) PROVE Part(<<>>, l, a, a)
<1>1. <<>> \in Seq(AnyResult) /\ Len(<<>>) = 0 /\ 1 .. 0 = {} /\ a - a = 0
  OBVIOUS
<1> QED
  BY <1>1 DEF Part

(* The next result is given.                                               *)
LEMMA PartGiven ==
  ASSUME NEW l \in Seq(AnyResult), NEW g, NEW p, p # <<>>, NEW n \in Nat,
         Part(g, l, 0, Len(g)), Part(p, l, Len(g), n)
  PROVE  LET h == Append(g, Head(p)) IN
         /\ Len(h) = Len(g) + 1 /\ Len(g) \in Nat /\ Len(g) + 1 <= Len(l)
         /\ Part(h, l, 0, Len(h)) /\ Part(Tail(p), l, Len(h), n)
         /\ Head(p) = l[Len(g) + 1]
<1> DEFINE h == Append(g, Head(p))
           a == Len(g)
           k == Len(p)
           t == Tail(p)
<1>1. /\ g \in Seq(AnyResult) /\ a \in Nat /\ a <= Len(l)
      /\ \A j \in 1 .. a : g[j] = l[0 + j]
  BY DEF Part
<1>2. /\ p \in Seq(AnyResult) /\ k \in Nat /\ n - a = k /\ n <= Len(l)
      /\ \A j \in 1 .. k : p[j] = l[a + j]
  BY DEF Part
<1>3. /\ Head(p) \in AnyResult /\ t \in Seq(AnyResult) /\ Head(p) = p[1] /\ k # 0
      /\ Len(t) = k - 1 /\ \A j \in 1 .. Len(t) : t[j] = p[j + 1]
  BY <1>2, HeadTailProperties, EmptySeq
<1>4. /\ h \in Seq(AnyResult) /\ Len(h) = a + 1 /\ h[a + 1] = Head(p)
      /\ \A j \in 1 .. a : h[j] = g[j]
  BY <1>1, <1>3, AppendLong
<1> HIDE DEF h, t, a, k
<1>5. Head(p) = l[a + 1] /\ a + 1 <= Len(l)
  <2>1. 1 \in 1 .. k /\ a + 1 <= n
    BY <1>1, <1>2, <1>3
  <2>2. p[1] = l[a + 1]
    BY <1>2, <2>1
  <2>3. a + 1 <= Len(l)
    BY <1>1, <1>2, <2>1
  <2> QED
    BY <1>3, <2>2, <2>3
<1>6. Part(h, l, 0, a + 1)
  <2>1. ASSUME NEW j \in 1 .. a + 1 PROVE h[j] = l[0 + j]
    <3>1. CASE j = a + 1
      BY <1>1, <1>4, <1>5, <3>1
    <3>2. CASE j # a + 1
      <4>1. j \in 1 .. a /\ 0 + j = j
        BY <1>1, <3>2
      <4> QED
        BY <1>1, <1>4, <4>1
    <3> QED
      BY <3>1, <3>2
  <2>2. (a + 1) - 0 = a + 1
    BY <1>1
  <2> QED
    BY <1>4, <1>5, <2>1, <2>2 DEF Part
<1>7. Part(t, l, a + 1, n)
  <2>1. ASSUME NEW j \in 1 .. Len(t) PROVE t[j] = l[(a + 1) + j]
    <3>1. j + 1 \in 1 .. k /\ a + (j + 1) = (a + 1) + j
      BY <1>1, <1>2, <1>3
    <3> QED
      BY <1>2, <1>3, <3>1
  <2>2. n - (a + 1) = Len(t)
    BY <1>1, <1>2, <1>3
  <2> QED
    BY <1>2, <1>3, <2>1, <2>2 DEF Part
<1> QED
  BY <1>1, <1>4, <1>5, <1>6, <1>7 DEF h, t, a

(* The next result of a lawful list may follow those given.                *)
LEMMA GivenFollows ==
  ASSUME NEW l, Lawful(l), NEW g, Part(g, l, 0, Len(g)), Len(g) + 1 <= Len(l)
  PROVE  l[Len(g) + 1] \in Given /\ Contract!Follows(l[Len(g) + 1], g)
<1> DEFINE a == Len(g)
           r == l[a + 1]
<1>1. /\ g \in Seq(AnyResult) /\ a \in Nat /\ DOMAIN g = 1 .. a
      /\ \A j \in 1 .. a : g[j] = l[0 + j]
  BY DEF Part
<1>2. Len(l) \in Nat /\ \A i \in 1 .. Len(l) : l[i] \in Given /\ Fits(l, i)
  BY DEF Lawful
<1>3. a + 1 \in 1 .. Len(l) /\ (a + 1) - 1 = a
  BY <1>1, <1>2
<1>4. r \in Given /\ Fits(l, a + 1)
  BY <1>2, <1>3
<1>5. \A j \in 1 .. a : g[j] = l[j]
  BY <1>1
<1>6. g # <<>> => a > 0 /\ a \in 1 .. a /\ Last(g) = l[a]
  <2>1. g # <<>> => a > 0
    BY <1>1, EmptySeq
  <2> QED
    BY <1>1, <1>5, <2>1 DEF Last
<1> HIDE DEF a
<1>7. \/ /\ r.obj # 0 /\ ~r.err /\ r.index = a
         /\ \A j \in 1 .. a : l[j].obj # r.obj
         /\ a + 1 > 1 => r.left < l[a].left
      \/ r.obj = 0 /\ r.left = 0
  BY <1>3, <1>4 DEF Fits
<1>8. a > 0 => a + 1 > 1
  BY <1>1
<1> HIDE DEF r
<1>9. Contract!Follows(r, g)
  BY <1>1, <1>5, <1>6, <1>7, <1>8 DEF Contract!Follows, Contract!Last, Last, a
<1> QED
  BY <1>4, <1>9 DEF r, a

LEMMA SamePlan ==
  ASSUME plan' = plan, NEW s, NEW l
  PROVE  (Speaks(work[s])' <=> Speaks(work'[s])) /\ (After(work[s], l)' <=> After(work'[s], l))
BY DEF Speaks, After

(* What changes nothing of the list and its parts.                         *)
LEMMA DeliveredStill ==
  ASSUME NEW s, Delivered(s), ~Done(s)' => ~Done(s), got'[s] = got[s], Rest(s)' = Rest(s),
         plan' = plan, Speaks(work'[s]) => work'[s] = work[s], Early(s)' => Early(s),
         \A l \in Seq(AnyResult), n \in Nat :
           Streams(requests[s], bus, s, l, n) => Streams(requests'[s], bus', s, l, n)
  PROVE  Delivered(s)'
<1> SUFFICES ASSUME ~Done(s)' PROVE \E l : \E n \in Nat : Behind(s, l, n)'
  BY DEF Delivered
<1>1. PICK l : \E n \in Nat : Behind(s, l, n)
  BY DEF Delivered
<1>2. PICK n \in Nat : Behind(s, l, n)
  BY <1>1
<1>3. l \in Seq(AnyResult)
  BY <1>2 DEF Behind, Lawful
<1>4. Streams(requests'[s], bus', s, l, n)
  BY <1>2, <1>3 DEF Behind
<1>5. Holds(s, l, n)'
  BY <1>2 DEF Behind, Holds
<1>6. Speaks(work[s])' => After(work[s], l)'
  <2>1. (Speaks(work[s])' <=> Speaks(work'[s])) /\ (After(work[s], l)' <=> After(work'[s], l))
    BY SamePlan
  <2>2. Speaks(work[s]) => After(work[s], l)
    BY <1>2 DEF Behind
  <2> QED
    BY <2>1, <2>2
<1>7. Behind(s, l, n)'
  BY <1>2, <1>4, <1>5, <1>6 DEF Behind
<1> QED
  BY <1>7

-----------------------------------------------------------------------------
(* The steps of the daemon.                                                *)

LEMMA EarlyLeft ==
  ASSUME Listened, asked' = asked, calls' = calls \/ (calls # <<>> /\ calls' = Tail(calls)),
         NEW s \in Session, Early(s)'
  PROVE  Early(s)
<1>1. calls \in Seq(ClientCall) /\ BrowsedOnce
  BY DEF Listened, Typed
<1>2. \A i \in DOMAIN calls' : Browses(i, s)' => \E j \in DOMAIN calls : Browses(j, s)
  BY <1>1, BrowsesLeft
<1> QED
  BY <1>2 DEF Early

\* the client and the source of the browse did nothing
Idles(s) ==
  /\ ClientRests /\ plan' = plan
  /\ Speaks(work'[s]) => work'[s] = work[s]

LEMMA RestsDelivered ==
  ASSUME Listened, NEW s \in Session, Delivered(s), Idles(s),
         \A l \in Seq(AnyResult), n \in Nat :
           Streams(requests[s], bus, s, l, n) => Streams(requests'[s], bus', s, l, n)
  PROVE  Delivered(s)'
<1>1. Early(s)' => Early(s)
  BY EarlyLeft DEF Idles, ClientRests
<1>2. (Done(s)' <=> Done(s)) /\ got'[s] = got[s] /\ Rest(s)' = Rest(s)
  BY DEF Idles, ClientRests, Done, Ended, Rest, Emitting
<1>3. plan' = plan /\ (Speaks(work'[s]) => work'[s] = work[s])
  BY DEF Idles
<1> QED
  BY <1>1, <1>2, <1>3, DeliveredStill

\* what the wrapper has for the session does not get lost
Keeps(w, x, s) == \A l \in Seq(AnyResult), n \in Nat :
  Streams(w.requests[s], w.bus, s, l, n) => Streams(x.requests[s], x.bus, s, l, n)

LEMMA BecameDelivered ==
  ASSUME Listened, NEW s \in Session, Delivered(s), Idles(s),
         NEW w, Becomes(w), Keeps(Wrapper, w, s)
  PROVE  Delivered(s)'
<1>1. requests' = w.requests /\ bus' = w.bus /\ Wrapper.requests = requests /\ Wrapper.bus = bus
  BY DEF Becomes, Wrapper
<1>2. \A l \in Seq(AnyResult), n \in Nat :
        Streams(requests[s], bus, s, l, n) => Streams(requests'[s], bus', s, l, n)
  BY <1>1 DEF Keeps
<1> QED
  BY <1>2, RestsDelivered

LEMMA ReplyKeeps ==
  ASSUME NEW w \in WrapperState, NEW m \in Message, m.what = "reply", NEW s \in Session
  PROVE  LET x == [w EXCEPT !.bus = Append(@, m)] IN
         x \in WrapperState /\ x.requests = w.requests /\ Keeps(w, x, s)
<1> DEFINE x == [w EXCEPT !.bus = Append(@, m)]
<1>1. x \in WrapperState /\ x.requests = w.requests /\ x.bus = Append(w.bus, m)
  <2>1. Becoming(w, x, s, w.requests[s], w.idles, Append(w.bus, m))
    BY Changed
  <2>2. x.requests = w.requests
    BY DEF WrapperState
  <2> QED
    BY <2>1, <2>2 DEF Becoming
<1> HIDE DEF x
<1>2. w.bus \in Seq(Message) /\ m.what # "results"
  BY Shape
<1>3. \A l \in Seq(AnyResult), n \in Nat :
        Streams(w.requests[s], w.bus, s, l, n) => Streams(w.requests[s], Append(w.bus, m), s, l, n)
  BY <1>2, StreamPassed
<1> QED
  BY <1>1, <1>3 DEF Keeps, x

LEMMA KeepsTwice ==
  ASSUME NEW w, NEW x, NEW y, NEW s, Keeps(w, x, s), Keeps(x, y, s) PROVE Keeps(w, y, s)
BY DEF Keeps

LEMMA ForgetKeeps ==
  ASSUME NEW w \in WrapperState, NEW t \in Session, NEW s \in Session
  PROVE  Forgotten(w, t) \in WrapperState /\ Keeps(w, Forgotten(w, t), s)
<1> DEFINE x == Forgotten(w, t)
<1>1. Becoming(w, x, t, NoRequest, w.idles, w.bus)
  BY Changed DEF Forgotten
<1> HIDE DEF x
<1>2. /\ x \in WrapperState /\ x.bus = w.bus /\ x.requests[t] = NoRequest
      /\ s # t => x.requests[s] = w.requests[s]
  BY <1>1 DEF Becoming
<1>3. CASE s = t
  <2>1. \A l \in Seq(AnyResult), n \in Nat :
          Streams(w.requests[s], w.bus, s, l, n) => Streams(NoRequest, w.bus, s, l, n)
    BY StreamForgotten
  <2> QED
    BY <1>2, <1>3, <2>1 DEF Keeps, x
<1>4. CASE s # t
  BY <1>2, <1>4 DEF Keeps, x
<1> QED
  BY <1>3, <1>4

LEMMA HeardKeeps ==
  ASSUME NEW w \in WrapperState, NEW t \in Session, NEW says \in Sayings,
         says # <<>> => w.requests[t] # NoRequest, NEW s \in Session, s # t
  PROVE  Keeps(w, Heard(w, t, says), s)
<1>1. ASSUME NEW l \in Seq(AnyResult), NEW n \in Nat, Streams(w.requests[s], w.bus, s, l, n)
      PROVE  Streams(Heard(w, t, says).requests[s], Heard(w, t, says).bus, s, l, n)
  <2>1. Streams(Heard(w, t, says).requests[s], Heard(w, t, says).bus, s,
                IF t = s THEN l \o says ELSE l, n)
    BY <1>1, StreamHeard
  <2> QED
    BY <2>1
<1> QED
  BY <1>1 DEF Keeps

LEMMA RefusalKeeps ==
  ASSUME NEW w \in WrapperState, NEW t \in Session, w.requests[t] \in Request,
         NEW says, says = <<>> \/ says = <<Refusal>>, NEW s \in Session
  PROVE  Heard(w, t, says) \in WrapperState /\ Keeps(w, Heard(w, t, says), s)
<1>1. CASE says = <<>>
  <2>1. Heard(w, t, says) = w
    BY <1>1, HeardNothing
  <2> QED
    BY <2>1 DEF Keeps
<1>2. CASE says = <<Refusal>>
  <2> DEFINE x == Heard(w, t, says)
             m == Reply(t, "browse", FALSE)
  <2>1. /\ x \in WrapperState /\ x.requests[t] = NoRequest /\ x.bus = Append(w.bus, m)
        /\ s # t => x.requests[s] = w.requests[s]
    BY <1>2, HeardRefusal
  <2>2. m \in Message /\ m.what # "results" /\ w.bus \in Seq(Message)
    <3>1. m \in Message
      BY MessageTypes
    <3> QED
      BY <3>1, Shape DEF Reply
  <2> HIDE DEF x, m
  <2>3. ASSUME NEW l \in Seq(AnyResult), NEW n \in Nat, Streams(w.requests[s], w.bus, s, l, n)
        PROVE  Streams(x.requests[s], x.bus, s, l, n)
    <3>1. Streams(w.requests[s], x.bus, s, l, n)
      BY <2>1, <2>2, <2>3, StreamPassed
    <3>2. Streams(NoRequest, x.bus, s, l, n)
      BY <3>1, StreamForgotten
    <3> QED
      BY <2>1, <3>1, <3>2
  <2> QED
    BY <2>1, <2>3 DEF Keeps, x
<1> QED
  BY <1>1, <1>2

\* a request that nothing was said to yet
LEMMA StreamOpens ==
  ASSUME NEW q, NEW b, NEW s, NEW n, Streams(q, b, s, <<>>, n)
  PROVE  Streams(NewRequest, b, s, <<>>, n)
<1>1. PICK e \in Nat : Carries(b, s, <<>>, n, e) /\ e <= Len(<<>>)
  BY DEF Streams
<1>2. Len(<<>>) = 0 /\ e = 0
  BY <1>1
<1>3. Part(<<>>, <<>>, 0, 0)
  BY <1>2, PartNone
<1>4. NewRequest.pending = <<>>
  BY DEF NewRequest
<1> QED
  BY <1>1, <1>2, <1>3, <1>4 DEF Streams

LEMMA DaemonBrowseDelivers ==
  ASSUME Listened, DaemonBrowse, NEW s \in Session, Delivered(s) PROVE Delivered(s)'
<1>1. /\ calls \in Seq(ClientCall) /\ calls # <<>> /\ calls' = Tail(calls)
      /\ plan' = plan /\ asked' = asked /\ plan \in Scenarios /\ Wrapper \in WrapperState
      /\ work \in [Session -> Op \cup {Over}] /\ ClientRests
  BY DEF Listened, Typed, DaemonBrowse, ClientRests
<1>2. PICK c : c = Head(calls)
  OBVIOUS
<1>3. c \in ClientCall /\ c.to = "browse" /\ 1 \in DOMAIN calls /\ calls[1] = c
  BY <1>1, <1>2, CallTaken DEF DaemonBrowse
<1>4. PICK t \in Session, req \in Criteria : c.s = t /\ c.req = req
  BY <1>3 DEF ClientCall
<1>5. PICK o \in Starts(req) : HandleBrowse(t, o.says) /\ work' = [work EXCEPT ![t] = o.op]
  BY <1>2, <1>4 DEF DaemonBrowse, Works
<1>6. o.says = <<>> \/ o.says = <<Refusal>>
  BY <1>1, StartSays
<1> DEFINE v == [Wrapper EXCEPT !.requests[t] = NewRequest]
           x == Heard(v, t, o.says)
           m == Reply(t, "browse", TRUE)
           y == IF x.requests[t] = NoRequest THEN x ELSE [x EXCEPT !.bus = Append(@, m)]
<1>7. /\ v \in WrapperState /\ v.requests[t] = NewRequest /\ v.bus = bus
      /\ \A u \in Session \ {t} : v.requests[u] = requests[u]
  <2>1. v = [Wrapper EXCEPT !.requests[t] = NewRequest]
        /\ NewRequest \in Request \cup {NoRequest}
    BY RequestTypes
  <2>2. Becoming(Wrapper, v, t, NewRequest, Wrapper.idles, Wrapper.bus)
    BY <1>1, <2>1, Changed
  <2> QED
    BY <2>2, WrapperTypes DEF Becoming
<1> HIDE DEF v
<1>8. x \in WrapperState /\ Keeps(v, x, s)
  <2>1. v.requests[t] \in Request
    BY <1>7, RequestTypes
  <2> QED
    BY <1>6, <1>7, <2>1, RefusalKeeps
<1> HIDE DEF x
<1>9. Keeps(v, y, s)
  <2>1. m \in Message /\ m.what = "reply"
    <3>1. m \in Message
      BY MessageTypes
    <3> QED
      BY <3>1 DEF Reply
  <2> HIDE DEF m
  <2>2. Keeps(x, [x EXCEPT !.bus = Append(@, m)], s)
    BY <1>8, <2>1, ReplyKeeps
  <2>3. Keeps(v, [x EXCEPT !.bus = Append(@, m)], s)
    BY <1>8, <2>2, KeepsTwice
  <2> QED
    BY <1>8, <2>3
<1>10. Becomes(y)
  BY <1>5 DEF HandleBrowse, x, v
<1> HIDE DEF y
<1>11. CASE s # t
  <2>1. Idles(s)
    <3>1. work'[s] = work[s]
      BY <1>1, <1>5, <1>11
    <3> QED
      BY <1>1, <3>1 DEF Idles
  <2>2. Keeps(Wrapper, y, s)
    BY <1>7, <1>9, <1>11, WrapperTypes DEF Keeps
  <2> QED
    BY <1>10, <2>1, <2>2, BecameDelivered
<1>12. CASE s = t
  <2> SUFFICES ASSUME ~Done(s)' PROVE \E l : \E n \in Nat : Behind(s, l, n)'
    BY DEF Delivered
  <2>1. ~Done(s)
    BY <1>1 DEF ClientRests, Done, Ended
  <2>2. PICK l : \E n \in Nat : Behind(s, l, n)
    BY <2>1 DEF Delivered
  <2>3. PICK n \in Nat : Behind(s, l, n)
    BY <2>2
  <2>4. Early(s)
    BY <1>3, <1>4, <1>12 DEF Early, Browses
  <2>5. l = <<>> /\ Streams(requests[s], bus, s, <<>>, n) /\ Holds(s, l, n) /\ Lawful(l)
    BY <2>3, <2>4 DEF Behind
  <2>6. Streams(v.requests[s], v.bus, s, <<>>, n)
    BY <1>7, <1>12, <2>5, StreamOpens
  <2>7. Streams(requests'[s], bus', s, l, n)
    <3>1. <<>> \in Seq(AnyResult)
      OBVIOUS
    <3>2. Streams(y.requests[s], y.bus, s, <<>>, n)
      BY <1>9, <2>6, <3>1 DEF Keeps
    <3> QED
      BY <1>10, <2>5, <3>2 DEF Becomes
  <2>8. Holds(s, l, n)'
    BY <1>1, <2>5 DEF ClientRests, Holds, Rest, Emitting
  <2>9. Speaks(work[s])' => After(work[s], l)'
    <3>1. work'[s] = o.op
      BY <1>1, <1>5, <1>12
    <3>2. Speaks(o.op) => After(o.op, <<>>)
      BY <1>1, StartGoes
    <3>3. (Speaks(work[s])' <=> Speaks(work'[s])) /\ (After(work[s], l)' <=> After(work'[s], l))
      BY <1>1, SamePlan
    <3> QED
      BY <2>5, <3>1, <3>2, <3>3
  <2>10. Behind(s, l, n)'
    BY <2>5, <2>7, <2>8, <2>9 DEF Behind
  <2> QED
    BY <2>10
<1> QED
  BY <1>11, <1>12

LEMMA DaemonCancelDelivers ==
  ASSUME Listened, DaemonCancel, NEW s \in Session, Delivered(s), ClientKeeps(s)
  PROVE  Delivered(s)'
<1>1. /\ calls \in Seq(ClientCall) /\ calls # <<>> /\ calls' = Tail(calls)
      /\ plan' = plan /\ asked' = asked /\ plan \in Scenarios /\ Wrapper \in WrapperState
      /\ work \in [Session -> Op \cup {Over}] /\ HasListener /\ ClientRests
  BY DEF Listened, Typed, DaemonCancel, ClientRests
<1>2. 1 \in DOMAIN calls /\ calls[1] = Head(calls) /\ Head(calls) \in ClientCall
  BY <1>1, CallTaken
<1>3. PICK t \in Session : t = Head(calls).s
  BY <1>2 DEF ClientCall
<1>4. CASE s = t
  <2>1. CancelCalled(s)
    BY <1>2, <1>3, <1>4 DEF DaemonCancel, CancelCalled
  <2>2. Done(s)'
    BY <1>1, <2>1 DEF ClientKeeps, ClientRests, Done
  <2> QED
    BY <2>2 DEF Delivered
<1>5. CASE s # t
  <2>1. ASSUME NEW known1 \in BOOLEAN, NEW says \in Sayings, NEW op, HandleCancel(t, known1, says),
               work' = [work EXCEPT ![t] = op], says # <<>> => requests[t] # NoRequest
        PROVE  Delivered(s)'
    <3> DEFINE x == Heard(Wrapper, t, says)
               y == Forgotten(x, t)
               m == Reply(t, "cancel", known1)
               z == [y EXCEPT !.bus = Append(@, m)]
    <3>1. says # <<>> => Wrapper.requests[t] # NoRequest
      BY <2>1, WrapperTypes
    <3>2. x \in WrapperState /\ Keeps(Wrapper, x, s)
      BY <1>1, <1>5, <3>1, HeardSays, HeardKeeps
    <3>3. Becomes(z)
      BY <2>1 DEF HandleCancel
    <3> HIDE DEF x
    <3>4. y \in WrapperState /\ Keeps(x, y, s)
      BY <3>2, ForgetKeeps
    <3> HIDE DEF y
    <3>5. m \in Message /\ m.what = "reply"
      <4>1. m \in Message
        BY MessageTypes
      <4> QED
        BY <4>1 DEF Reply
    <3> HIDE DEF m
    <3>6. Keeps(y, z, s)
      BY <3>4, <3>5, ReplyKeeps
    <3> HIDE DEF z
    <3>7. Keeps(Wrapper, z, s)
      BY <3>2, <3>4, <3>6, KeepsTwice
    <3>8. Idles(s)
      <4>1. work'[s] = work[s]
        BY <1>1, <1>5, <2>1
      <4> QED
        BY <1>1, <4>1 DEF Idles
    <3> QED
      BY <3>3, <3>7, <3>8, BecameDelivered
  <2>2. CASE work[t] = Over
    <3>1. HandleCancel(t, FALSE, <<>>) /\ work' = work
      BY <1>3, <2>2 DEF DaemonCancel
    <3>2. work' = [work EXCEPT ![t] = Over]
      BY <1>1, <2>2, <3>1
    <3> QED
      BY <2>1, <3>1, <3>2, SayingTypes
  <2>3. CASE work[t] # Over
    <3> DEFINE o == Cancelled(work[t])
    <3>1. HandleCancel(t, TRUE, o.says) /\ work' = [work EXCEPT ![t] = o.op]
      BY <1>3, <2>3 DEF DaemonCancel, Works
    <3>2. work[t] \in Op
      BY <1>1, <2>3
    <3>3. o.says \in Sayings /\ (~Speaks(work[t]) => o.says = <<>>)
      BY <1>1, <2>3, <3>2, CancelSays
    <3>4. o.says # <<>> => requests[t] # NoRequest
      BY <1>1, <3>3 DEF HasListener
    <3> HIDE DEF o
    <3> QED
      BY <2>1, <3>1, <3>3, <3>4
  <2> QED
    BY <2>2, <2>3
<1> QED
  BY <1>4, <1>5

(* What the source said goes to the end of the list.                       *)
LEMMA SaidBehind ==
  ASSUME NEW s \in Session, NEW l, NEW n \in Nat, Behind(s, l, n), ~Early(s)',
         NEW says \in Seq(AnyResult), ClientRests, plan' = plan,
         Lawful(l \o says), Speaks(work'[s]) => After(work'[s], l \o says),
         Streams(requests'[s], bus', s, l \o says, n)
  PROVE  Behind(s, l \o says, n)'
<1> DEFINE k == l \o says
<1>1. l \in Seq(AnyResult) /\ Holds(s, l, n)
  BY DEF Behind, Lawful
<1>2. Part(got[s], l, 0, Len(got[s])) /\ Part(Rest(s), l, Len(got[s]), n) /\ Len(got[s]) \in Nat
  <2>1. Part(got[s], l, 0, Len(got[s])) /\ Part(Rest(s), l, Len(got[s]), n)
    BY <1>1 DEF Holds
  <2>2. got[s] \in Seq(AnyResult)
    BY <2>1 DEF Part
  <2> QED
    BY <2>1, <2>2
<1>3. Part(got[s], k, 0, Len(got[s])) /\ Part(Rest(s), k, Len(got[s]), n)
  BY <1>1, <1>2, PartOn
<1> HIDE DEF k
<1>4. Holds(s, k, n)'
  BY <1>3 DEF ClientRests, Holds, Rest, Emitting
<1>5. (Speaks(work[s])' <=> Speaks(work'[s])) /\ (After(work[s], k)' <=> After(work'[s], k))
  BY SamePlan
<1>6. Lawful(k) /\ Streams(requests'[s], bus', s, k, n)
      /\ (Speaks(work'[s]) => After(work'[s], k))
  BY DEF k
<1>7. Behind(s, k, n)'
  BY <1>4, <1>5, <1>6 DEF Behind
<1> QED
  BY <1>7 DEF k

LEMMA SourceDelivers ==
  ASSUME Listened, NEW t \in Session, SourceStep(t), NEW s \in Session, Delivered(s)
  PROVE  Delivered(s)'
<1>1. /\ calls' = calls /\ plan' = plan /\ asked' = asked /\ plan \in Scenarios
      /\ Wrapper \in WrapperState /\ work \in [Session -> Op \cup {Over}]
      /\ HasListener /\ work[t] # Over /\ ClientRests
  BY DEF Listened, Typed, SourceStep, proxy, ClientRests
<1>2. work[t] \in Op
  BY <1>1
<1>3. PICK o \in Steps(work[t]) : HandleResults(t, o.says) /\ work' = [work EXCEPT ![t] = o.op]
  BY DEF SourceStep, Works
<1>4. o.says \in Sayings /\ (~Speaks(work[t]) => o.says = <<>>)
  BY <1>1, <1>2, StepSays
<1>5. o.says # <<>> => Wrapper.requests[t] # NoRequest
  BY <1>1, <1>4, WrapperTypes DEF HasListener
<1>6. Becomes(Heard(Wrapper, t, o.says))
  BY <1>3 DEF HandleResults
<1>7. CASE s # t
  <2>1. Keeps(Wrapper, Heard(Wrapper, t, o.says), s)
    BY <1>1, <1>4, <1>5, <1>7, HeardKeeps
  <2>2. Idles(s)
    <3>1. work'[s] = work[s]
      BY <1>1, <1>3, <1>7
    <3> QED
      BY <1>1, <3>1 DEF Idles
  <2> QED
    BY <1>6, <2>1, <2>2, BecameDelivered
<1>8. CASE s = t
  <2> SUFFICES ASSUME ~Done(s)' PROVE \E l : \E n \in Nat : Behind(s, l, n)'
    BY DEF Delivered
  <2>1. ~Done(s)
    BY <1>1 DEF ClientRests, Done, Ended
  <2>2. PICK l : \E n \in Nat : Behind(s, l, n)
    BY <2>1 DEF Delivered
  <2>3. PICK n \in Nat : Behind(s, l, n)
    BY <2>2
  <2>4. Lawful(l) /\ l \in Seq(AnyResult) /\ o.says \in Seq(AnyResult)
        /\ (Speaks(work[s]) => After(work[s], l))
    BY <1>4, <2>3 DEF Behind, Lawful, Sayings
  <2>5. work'[s] = o.op
    BY <1>1, <1>3, <1>8
  <2>6. Goes(l, o.says, Speaks(o.op), After(o.op, l \o o.says))
    BY <1>1, <1>2, <1>8, <2>4, StepGoes
  <2>7. Streams(requests'[s], bus', s, l \o o.says, n)
    <3>1. Streams(Wrapper.requests[s], Wrapper.bus, s, l, n)
      BY <2>3, WrapperTypes DEF Behind
    <3> DEFINE x == Heard(Wrapper, t, o.says)
    <3>2. Streams(x.requests[s], x.bus, s, IF t = s THEN l \o o.says ELSE l, n)
      BY <1>1, <1>4, <1>5, <2>4, <3>1, StreamHeard
    <3> HIDE DEF x
    <3>3. Streams(x.requests[s], x.bus, s, l \o o.says, n)
      BY <1>8, <3>2
    <3> QED
      BY <1>6, <3>3 DEF Becomes, x
  <2>8. ~Early(s)'
    <3>1. asked[s] # None /\ \A i \in DOMAIN calls' : ~Browses(i, s)'
      BY <1>1, <1>8, Working DEF Untouched
    <3> QED
      BY <1>1, <3>1 DEF Early
  <2>9. Behind(s, l \o o.says, n)'
    BY <1>1, <2>3, <2>4, <2>5, <2>6, <2>7, <2>8, SaidBehind DEF Goes
  <2> QED
    BY <2>9
<1> QED
  BY <1>7, <1>8

LEMMA WrapperDelivers ==
  ASSUME Listened, NEW t \in Session, WrapperTimer(t) \/ WrapperIdle(t),
         NEW s \in Session, Delivered(s)
  PROVE  Delivered(s)'
<1>1. /\ Wrapper \in WrapperState /\ plan' = plan /\ work' = work /\ ClientRests
  BY DEF Listened, Typed, WrapperTimer, WrapperIdle, proxy, ClientRests
<1>2. Idles(s)
  BY <1>1 DEF Idles
<1>3. CASE WrapperTimer(t)
  <2> DEFINE w == Flushed(Wrapper, t)
             q == requests[t]
             p == [q EXCEPT !.pending = <<>>]
             m == Results(t, q.pending)
  <2>1. q \in Request /\ q.pending # <<>> /\ Becomes(w)
    BY <1>1, <1>3, WrapperTypes DEF WrapperTimer, send_browse_res
  <2>2. Becoming(Wrapper, w, t, p, Wrapper.idles, Append(Wrapper.bus, m))
    BY <1>1, <2>1, FlushedTo, WrapperTypes
  <2> HIDE DEF w
  <2>3. /\ w.bus = Append(bus, m) /\ w.requests[t] = p
        /\ s # t => w.requests[s] = requests[s]
    BY <2>2, WrapperTypes DEF Becoming
  <2>4. bus \in Seq(Message) /\ p.pending = <<>>
    BY <1>1, <2>1, WrapperTypes DEF Request
  <2>5. m \in Message /\ m.s = t
    <3>1. q.pending \in Seq(AnyResult)
      BY <2>1 DEF Request
    <3>2. m \in Message
      BY <3>1, MessageTypes
    <3> QED
      BY <3>2 DEF Results
  <2> HIDE DEF p
  <2>6. ASSUME NEW l \in Seq(AnyResult), NEW n \in Nat, Streams(requests[s], bus, s, l, n)
        PROVE  Streams(w.requests[s], w.bus, s, l, n)
    <3>1. CASE s = t
      <4>1. Streams(p, Append(bus, m), s, l, n)
        BY <2>1, <2>4, <2>6, <3>1, StreamSent
      <4> QED
        BY <2>3, <3>1, <4>1
    <3>2. CASE s # t
      <4> HIDE DEF m
      <4>1. Streams(requests[s], Append(bus, m), s, l, n)
        BY <2>4, <2>5, <2>6, <3>2, StreamPassed
      <4> QED
        BY <2>3, <3>2, <4>1
    <3> QED
      BY <3>1, <3>2
  <2>7. Keeps(Wrapper, w, s)
    BY <2>6, WrapperTypes DEF Keeps
  <2> QED
    BY <1>2, <2>1, <2>7, BecameDelivered
<1>4. CASE WrapperIdle(t)
  <2> DEFINE f == Forgotten(Wrapper, t)
             w == [f EXCEPT !.idles = @ \ {t}]
  <2>1. Becomes(w)
    BY <1>4 DEF WrapperIdle, remove_from_hash
  <2>2. f \in WrapperState /\ Keeps(Wrapper, f, s)
    BY <1>1, ForgetKeeps
  <2> HIDE DEF f
  <2>3. w.requests = f.requests /\ w.bus = f.bus
    BY <2>2 DEF WrapperState
  <2>4. Keeps(Wrapper, w, s)
    BY <2>2, <2>3 DEF Keeps
  <2> QED
    BY <1>2, <2>1, <2>4, BecameDelivered
<1> QED
  BY <1>3, <1>4

LEMMA RefusesDelivers ==
  ASSUME Listened, BusRefuses, NEW s \in Session, Delivered(s) PROVE Delivered(s)'
<1>1. /\ Wrapper \in WrapperState /\ calls \in Seq(ClientCall) /\ plan' = plan /\ work' = work
      /\ calls # <<>> /\ calls' = Tail(calls) /\ ClientRests
  BY DEF Listened, Typed, BusRefuses, ClientRests
<1>2. PICK c \in ClientCall : c = Head(calls)
  BY <1>1, CallTaken
<1>3. c.s \in Session /\ c.to \in {"browse", "cancel"}
  BY DEF ClientCall
<1> DEFINE m == Reply(c.s, c.to, FALSE)
           w == [Wrapper EXCEPT !.bus = Append(@, m)]
<1>4. m \in Message /\ m.what = "reply"
  <2>1. m \in Message
    BY <1>3, MessageTypes
  <2> QED
    BY <2>1 DEF Reply
<1>5. Becomes(w)
  BY <1>2 DEF BusRefuses, Becomes, Wrapper
<1> HIDE DEF m
<1>6. Keeps(Wrapper, w, s)
  BY <1>1, <1>4, ReplyKeeps
<1> HIDE DEF w
<1> QED
  BY <1>1, <1>5, <1>6, BecameDelivered DEF Idles

(* The server leaves.  Of an operation that is ended, what that says goes  *)
(* to the end of the list; of the others the list is what it was.          *)
LEMMA LeavesDelivers ==
  ASSUME Listened, ServerLeaves, NEW s \in Session, Delivered(s) PROVE Delivered(s)'
<1>1. /\ plan \in Scenarios /\ plan' = plan /\ asked' = asked /\ calls' = calls
      /\ work' = [t \in Session |-> Over] /\ Becomes(AllCutOff)
      /\ work \in [Session -> Op \cup {Over}] /\ ClientRests
  BY DEF Listened, Typed, ServerLeaves, proxy, ClientRests
<1>2. plan.source = "upnp"
  BY <1>1, PlanTypes DEF ServerLeaves
<1> DEFINE N == Cardinality(Session)
           says(t) == UpnpCancel(work[t], TRUE).says
<1>3. PICK h : /\ h[0] = Wrapper /\ h[N] = AllCutOff
               /\ \A t \in Session : h[t - 1] \in WrapperState /\ Ends(h, t)
  BY <1>2, CutOff
<1>4. N \in Nat /\ Session = 1 .. N /\ s \in Session
  BY SessionAssumption
<1> HIDE DEF N
<1>5. work'[s] = Over /\ ~Speaks(work'[s])
  BY <1>1, OverSilent
<1> SUFFICES ASSUME ~Done(s)' PROVE \E l : \E n \in Nat : Behind(s, l, n)'
  BY DEF Delivered
<1>6. ~Done(s)
  BY <1>1 DEF ClientRests, Done, Ended
<1>7. PICK l : \E n \in Nat : Behind(s, l, n)
  BY <1>6 DEF Delivered
<1>8. PICK n \in Nat : Behind(s, l, n)
  BY <1>7
<1>9. Lawful(l) /\ l \in Seq(AnyResult) /\ Streams(Wrapper.requests[s], Wrapper.bus, s, l, n)
  BY <1>8, WrapperTypes DEF Behind, Lawful
<1> DEFINE k(m) == IF work[s] # Over /\ s <= m THEN l \o says(s) ELSE l
           Fine(m) == Streams(h[m].requests[s], h[m].bus, s, k(m), n)
<1>10. Fine(0)
  <2>1. k(0) = l
    <3>1. ~(s <= 0)
      BY <1>4
    <3> QED
      BY <3>1
  <2> QED
    BY <1>3, <1>9, <2>1
<1> HIDE DEF says
<1>11. ASSUME NEW t \in Session, NEW m, m = t - 1, Fine(m) PROVE Fine(t)
  <2>1. h[m] \in WrapperState /\ Ends(h, t)
    BY <1>3, <1>11
  <2>2. s # t => k(t) = k(m)
    <3>1. s # t => (s <= t <=> s <= m)
      BY <1>4, <1>11
    <3> QED
      BY <3>1
  <2>3. s = t => k(m) = l /\ (work[t] # Over => k(t) = l \o says(t)) /\ (work[t] = Over => k(t) = l)
    <3>1. s = t => ~(s <= m) /\ s <= t
      BY <1>4, <1>11
    <3> QED
      BY <3>1
  <2>4. k(m) \in Seq(AnyResult)
    <3>1. CASE work[s] = Over
      BY <1>9, <3>1
    <3>2. CASE work[s] # Over
      <4>1. says(s) \in Seq(AnyResult)
        BY <1>3, <3>2 DEF Ends, says, Sayings
      <4>2. l \o says(s) \in Seq(AnyResult)
        BY <1>9, <4>1, ConcatLong
      <4> QED
        BY <1>9, <4>2
    <3> QED
      BY <3>1, <3>2
  <2> HIDE DEF k
  <2>5. CASE work[t] = Over
    <3>1. h[t] = h[m]
      BY <1>11, <2>1, <2>5 DEF Ends
    <3>2. k(t) = k(m)
      BY <2>2, <2>3, <2>5
    <3> QED
      BY <1>11, <3>1, <3>2
  <2>6. CASE work[t] # Over
    <3> DEFINE x == Heard(h[m], t, says(t))
    <3>1. says(t) \in Sayings /\ h[m].requests[t] # NoRequest /\ h[t] = x
      BY <1>11, <2>1, <2>6 DEF Ends, says
    <3>2. PICK j : j = k(m)
      OBVIOUS
    <3>3. j \in Seq(AnyResult)
      BY <2>4, <3>2
    <3>4. Streams(h[m].requests[s], h[m].bus, s, j, n)
      BY <1>11, <3>2
    <3>5. Streams(x.requests[s], x.bus, s, IF t = s THEN j \o says(t) ELSE j, n)
      BY <2>1, <3>1, <3>3, <3>4, StreamHeard
    <3> HIDE DEF x
    <3>6. k(t) = IF t = s THEN j \o says(t) ELSE j
      BY <2>2, <2>3, <2>6, <3>2
    <3> QED
      BY <3>1, <3>5, <3>6
  <2> QED
    BY <2>5, <2>6
<1>12. \A m \in 0 .. N : Fine(m)
  <2> HIDE DEF Fine
  <2> DEFINE T == {m \in 0 .. N : ~Fine(m)}
  <2> SUFFICES ASSUME T # {} PROVE FALSE
    OBVIOUS
  <2>1. T \subseteq Nat
    BY <1>4
  <2>2. \E m \in T : \A j \in T : <<j, m>> \notin OpToRel(<, Nat)
    BY <2>1, WFMin, NatLessThanWellFounded
  <2>3. PICK t \in T : \A j \in T : ~ (j < t)
    BY <2>1, <2>2 DEF OpToRel
  <2>4. t \in 0 .. N /\ ~Fine(t)
    OBVIOUS
  <2>5. t # 0
    BY <1>10, <2>4
  <2>6. PICK m : m = t - 1
    OBVIOUS
  <2>7. t \in Session /\ m \in 0 .. N /\ m < t
    BY <1>4, <2>4, <2>5, <2>6
  <2>8. Fine(m)
    BY <2>3, <2>7
  <2> QED
    BY <1>11, <2>4, <2>6, <2>7, <2>8
<1>13. Streams(requests'[s], bus', s, k(N), n)
  <2>1. N \in 0 .. N
    BY <1>4
  <2>2. Fine(N)
    BY <1>12, <2>1
  <2> QED
    BY <1>1, <1>3, <2>2 DEF Becomes
<1>14. CASE work[s] = Over
  <2>1. k(N) = l
    BY <1>14
  <2>2. Streams(requests'[s], bus', s, l, n)
    BY <1>13, <2>1
  <2>3. Early(s)' => Early(s)
    BY <1>1, EarlyLeft
  <2>4. Holds(s, l, n)'
    BY <1>1, <1>8 DEF Behind, ClientRests, Holds, Rest, Emitting
  <2>5. Speaks(work[s])' <=> Speaks(work'[s])
    BY <1>1, SamePlan
  <2>6. Behind(s, l, n)'
    BY <1>5, <1>8, <2>2, <2>3, <2>4, <2>5 DEF Behind
  <2> QED
    BY <2>6
<1>15. CASE work[s] # Over
  <2>1. s <= N
    BY <1>4
  <2>2. Streams(requests'[s], bus', s, l \o says(s), n)
    BY <1>13, <1>15, <2>1
  <2>3. ~Early(s)'
    <3>1. asked[s] # None /\ \A i \in DOMAIN calls' : ~Browses(i, s)'
      BY <1>1, <1>15, Working DEF Untouched
    <3> QED
      BY <1>1, <3>1 DEF Early
  <2>4. says(s) \in Sayings
    BY <1>3, <1>15 DEF Ends, says
  <2>5. Lawful(l \o says(s))
    <3> DEFINE o == UpnpCancel(work[s], TRUE)
    <3>1. work[s] \in UpnpOp /\ plan.stock \in 0 .. MaxItems
      BY <1>1, <1>2, <1>15, ScenariosAssumption DEF Op
    <3>2. Speaks(work[s]) /\ After(work[s], l) = UpnpAfter(work[s], l, plan.stock)
      BY <1>2, <1>15 DEF Speaks, After
    <3>3. UpnpAfter(work[s], l, plan.stock)
      BY <1>8, <3>2 DEF Behind
    <3>4. o \in UpnpSteps(work[s], plan.stock) \cup {UpnpCancel(work[s], TRUE)}
      OBVIOUS
    <3> HIDE DEF o
    <3>5. Goes(l, o.says, o.op # Over, UpnpAfter(o.op, l \o o.says, plan.stock))
      BY <1>9, <3>1, <3>3, <3>4, UpnpGoes
    <3> QED
      BY <3>5 DEF Goes, o, says
  <2>6. PICK z : z = says(s)
    OBVIOUS
  <2>7. z \in Seq(AnyResult) /\ Lawful(l \o z) /\ Streams(requests'[s], bus', s, l \o z, n)
    BY <2>2, <2>4, <2>5, <2>6 DEF Sayings
  <2>8. ClientRests /\ plan' = plan /\ (Speaks(work'[s]) => After(work'[s], l \o z))
    BY <1>1, <1>5
  <2>9. Behind(s, l \o z, n)'
    BY <1>8, <2>3, <2>7, <2>8, SaidBehind
  <2> QED
    BY <2>9
<1> QED
  BY <1>14, <1>15

-----------------------------------------------------------------------------
(* The steps of the client.                                                *)

Promised == Listened /\ ClientTyped /\ \A s \in Session : ClientKeeps(s) /\ Delivered(s)

\* the callback of s is given something that may follow
Gives(s) == \E r \in Given :
  Contract!Follows(r, got[s]) /\ got' = [got EXCEPT ![s] = Append(@, r)]

LEMMA NextGiven ==
  ASSUME NEW s \in Session, got \in [Session -> Seq(AnyResult)], NEW l, NEW n \in Nat, Lawful(l),
         NEW p, p # <<>>, Part(got[s], l, 0, Len(got[s])), Part(p, l, Len(got[s]), n),
         got' = [got EXCEPT ![s] = Append(@, Head(p))], Emitting(s)', giving'.rest = Tail(p)
  PROVE  Holds(s, l, n)' /\ Gives(s)
<1> DEFINE g == got[s]
           h == Append(g, Head(p))
<1>1. l \in Seq(AnyResult) /\ got'[s] = h /\ Rest(s)' = Tail(p)
  BY DEF Lawful, Rest
<1>2. Part(g, l, 0, Len(g)) /\ Part(p, l, Len(g), n)
  OBVIOUS
<1> HIDE DEF g
<1>3. /\ Part(h, l, 0, Len(h)) /\ Part(Tail(p), l, Len(h), n) /\ Head(p) = l[Len(g) + 1]
      /\ Len(g) + 1 <= Len(l)
  BY <1>1, <1>2, PartGiven
<1>4. Head(p) \in Given /\ Contract!Follows(Head(p), g)
  BY <1>2, <1>3, GivenFollows
<1>5. Gives(s)
  BY <1>4 DEF Gives, g
<1> HIDE DEF h
<1>6. Holds(s, l, n)'
  BY <1>1, <1>3 DEF Holds
<1> QED
  BY <1>5, <1>6

LEMMA BrowseKept ==
  ASSUME Promised, ClientBrowse, NEW s \in Session
  PROVE  ClientTyped' /\ ClientKeeps(s)' /\ Delivered(s)'
<1>1. Listened /\ Typed /\ ClientTyped /\ ClientKeeps(s) /\ Delivered(s)
  BY DEF Promised, Listened
<1>2. PICK t \in plan.sessions, req \in plan.requests :
        mafw_proxy_source_browse(t, req) /\ UNCHANGED <<wrapper, plan, work, gone>>
  BY DEF ClientBrowse
<1>3. t \in Session /\ req \in Criteria
  BY <1>1, <1>2, PlanTypes DEF Typed
<1>4. ClientTyped' /\ ClientKeeps(s)' /\ (s # t => Aside(s))
  BY <1>1, <1>2, <1>3, BrowseKeeps
<1>5. /\ asked[t] = None /\ asked' = [asked EXCEPT ![t] = req]
      /\ calls' = Append(calls, [to |-> "browse", s |-> t, req |-> req])
      /\ UNCHANGED <<known, giving, got, cancelled>>
  BY <1>2 DEF mafw_proxy_source_browse, Calls
<1>6. Early(s)' => Early(s)
  <2> DEFINE c == [to |-> "browse", s |-> t, req |-> req]
  <2>1. CASE s = t
    BY <1>5, <2>1 DEF Early
  <2>2. CASE s # t
    <3>1. c \in ClientCall /\ c.s = t
      BY <1>3 DEF ClientCall
    <3> HIDE DEF c
    <3>2. calls' = Append(calls, c) /\ calls \in Seq(ClientCall) /\ asked'[s] = asked[s]
      BY <1>1, <1>5, <2>2 DEF Typed, c
    <3>3. PICK n \in DOMAIN calls' :
            /\ calls'[n] = c
            /\ \A i \in DOMAIN calls' : i # n => i \in DOMAIN calls /\ calls'[i] = calls[i]
      BY <3>1, <3>2, CallAdded
    <3>4. ASSUME NEW i \in DOMAIN calls', Browses(i, s)' PROVE i \in DOMAIN calls /\ Browses(i, s)
      <4>1. i # n
        BY <2>2, <3>1, <3>3, <3>4 DEF Browses
      <4> QED
        BY <3>3, <3>4, <4>1 DEF Browses
    <3> QED
      BY <3>2, <3>4 DEF Early
  <2> QED
    BY <2>1, <2>2
<1>7. (Done(s)' <=> Done(s)) /\ Rest(s)' = Rest(s) /\ got'[s] = got[s]
  BY <1>5 DEF Done, Ended, Rest, Emitting
<1>8. plan' = plan /\ work' = work /\ requests' = requests /\ bus' = bus
  BY <1>2 DEF wrapper
<1> QED
  BY <1>1, <1>4, <1>6, <1>7, <1>8, DeliveredStill

\* calls other than to browse
LEMMA EarlyCancels ==
  ASSUME Listened, NEW t \in Session, calls' = Append(calls, [to |-> "cancel", s |-> t]),
         asked' = asked, NEW s \in Session, Early(s)'
  PROVE  Early(s)
<1> DEFINE c == [to |-> "cancel", s |-> t]
<1>1. c \in ClientCall /\ c.to = "cancel" /\ calls \in Seq(ClientCall)
  BY DEF ClientCall, Listened, Typed
<1> HIDE DEF c
<1>2. PICK n \in DOMAIN calls' :
        /\ calls'[n] = c
        /\ \A i \in DOMAIN calls' : i # n => i \in DOMAIN calls /\ calls'[i] = calls[i]
  BY <1>1, CallAdded DEF c
<1>3. ASSUME NEW i \in DOMAIN calls', Browses(i, s)' PROVE i \in DOMAIN calls /\ Browses(i, s)
  <2>1. i # n
    BY <1>1, <1>2, <1>3 DEF Browses
  <2> QED
    BY <1>2, <1>3, <2>1 DEF Browses
<1> QED
  BY <1>3 DEF Early

LEMMA CancelKept ==
  ASSUME Promised, ClientCancel, NEW s \in Session
  PROVE  ClientTyped' /\ ClientKeeps(s)' /\ Delivered(s)'
<1>1. Listened /\ Typed /\ ClientTyped /\ ClientKeeps(s) /\ Delivered(s)
  BY DEF Promised, Listened
<1>2. PICK t \in Session :
        mafw_proxy_source_cancel_browse(t) /\ UNCHANGED <<wrapper, plan, work, gone>>
  BY DEF ClientCancel
<1>3. /\ ClientTyped' /\ ClientKeeps(s)'
      /\ s # t => Aside(s)
      /\ s = t => Done(s)'
  BY <1>1, <1>2, CancelKeeps
<1>4. CASE s = t
  BY <1>3, <1>4 DEF Delivered
<1>5. CASE s # t
  <2>1. calls' = Append(calls, [to |-> "cancel", s |-> t]) /\ asked' = asked
    BY <1>2 DEF mafw_proxy_source_cancel_browse, Calls
  <2>2. Early(s)' => Early(s)
    BY <1>1, <2>1, EarlyCancels
  <2>3. (Done(s)' <=> Done(s)) /\ Rest(s)' = Rest(s) /\ got'[s] = got[s]
    BY <1>3, <1>5 DEF Aside, Done, Ended, Rest
  <2>4. plan' = plan /\ work' = work /\ requests' = requests /\ bus' = bus
    BY <1>2 DEF wrapper
  <2> QED
    BY <1>1, <1>3, <2>2, <2>3, <2>4, DeliveredStill
<1> QED
  BY <1>4, <1>5

LEMMA ReturnKept ==
  ASSUME Promised, ~Free, NEW ok \in BOOLEAN, Returns(ok), UNCHANGED <<requests, plan, work>>,
         NEW s \in Session,
         \A l \in Seq(AnyResult), n \in Nat :
           Streams(requests[s], bus, s, l, n) => Streams(requests[s], bus', s, l, n)
  PROVE  ClientTyped' /\ ClientKeeps(s)' /\ Delivered(s)'
<1>1. Listened /\ Typed /\ ClientTyped /\ ClientKeeps(s) /\ Delivered(s)
  BY DEF Promised, Listened
<1>2. /\ ClientTyped' /\ ClientKeeps(s)'
      /\ \/ got'[s] = got[s] /\ asked'[s] = asked[s] /\ (s \in cancelled' <=> s \in cancelled)
            /\ giving' = giving
         \/ Done(s)'
  BY <1>1, ReturnKeeps
<1>3. CASE Done(s)'
  BY <1>2, <1>3 DEF Delivered
<1>4. CASE got'[s] = got[s] /\ (s \in cancelled' <=> s \in cancelled) /\ giving' = giving
  <2>1. calls' = calls /\ asked' = asked
    BY DEF Returns
  <2>2. Early(s)' => Early(s)
    BY <2>1 DEF Early, Browses
  <2>3. (Done(s)' <=> Done(s)) /\ Rest(s)' = Rest(s) /\ got'[s] = got[s]
    BY <1>4 DEF Done, Ended, Rest, Emitting
  <2> QED
    BY <1>1, <1>2, <2>2, <2>3, DeliveredStill
<1> QED
  BY <1>2, <1>3, <1>4

LEMMA ReplyKept ==
  ASSUME Promised, ClientReply \/ ClientTimeout, NEW s \in Session
  PROVE  ClientTyped' /\ ClientKeeps(s)' /\ Delivered(s)'
<1>1. CASE ClientReply
  <2>1. PICK i \in DOMAIN bus :
          bus[i].what = "reply" /\ Returns(bus[i].ok) /\ bus' = RemoveAt(bus, i)
    BY <1>1 DEF ClientReply
  <2>2. ~Free /\ UNCHANGED <<requests, plan, work>>
    BY <1>1 DEF ClientReply
  <2>3. bus \in Seq(Message)
    BY WrapperTypes DEF Promised, Listened, Typed
  <2>4. i \in 1 .. Len(bus) /\ bus[i] \in Message /\ bus[i].what # "results"
    <3>1. DOMAIN bus = 1 .. Len(bus)
      BY <2>3
    <3> QED
      BY <2>1, <2>3, <3>1, ElementOfSeq
  <2>5. bus[i].ok \in BOOLEAN
    BY <2>1, <2>4 DEF Message
  <2>6. ASSUME NEW l \in Seq(AnyResult), NEW n \in Nat, Streams(requests[s], bus, s, l, n)
        PROVE  Streams(requests[s], bus', s, l, n)
    <3>1. PICK e \in Nat : /\ Carries(bus, s, l, n, e) /\ e <= Len(l)
                           /\ requests[s] # NoRequest => Part(requests[s].pending, l, e, Len(l))
      BY <2>6 DEF Streams
    <3>2. Carries(RemoveAt(bus, i), s, l, n, e)
      BY <2>3, <2>4, <3>1, CarriesWithout
    <3> QED
      BY <2>1, <3>1, <3>2 DEF Streams
  <2> QED
    BY <2>1, <2>2, <2>5, <2>6, ReturnKept
<1>2. CASE ClientTimeout
  <2>1. ~Free /\ Returns(FALSE) /\ UNCHANGED <<requests, plan, work>> /\ bus' = bus
    BY <1>2 DEF ClientTimeout, wrapper
  <2> QED
    BY <2>1, ReturnKept
<1> QED
  BY <1>1, <1>2

\* the first message is taken
LEMMA StreamTaken ==
  ASSUME NEW q, NEW b \in Seq(Message), b # <<>>, NEW s, NEW l, NEW n \in Nat,
         Streams(q, b, s, l, n)
  PROVE  \E d \in Nat : Brings(Head(b), s, l, n, d) /\ Streams(q, Tail(b), s, l, d)
<1>1. PICK e \in Nat : /\ Carries(b, s, l, n, e) /\ e <= Len(l)
                       /\ q # NoRequest => Part(q.pending, l, e, Len(l))
  BY DEF Streams
<1>2. PICK d \in Nat : Brings(Head(b), s, l, n, d) /\ Carries(Tail(b), s, l, d, e)
  BY <1>1, CarriesFirst
<1> QED
  BY <1>1, <1>2 DEF Streams

\* a message that the client gives nothing of
LEMMA TakenAside ==
  ASSUME Listened, NEW s \in Session, Delivered(s), Aside(s), bus # <<>>, bus' = Tail(bus),
         UNCHANGED <<requests, plan, work, calls, asked>>,
         ~(Head(bus).what = "results" /\ Head(bus).s = s)
  PROVE  Delivered(s)'
<1>1. bus \in Seq(Message)
  BY WrapperTypes DEF Listened, Typed
<1>2. ASSUME NEW l \in Seq(AnyResult), NEW n \in Nat, Streams(requests[s], bus, s, l, n)
      PROVE  Streams(requests'[s], bus', s, l, n)
  <2>1. PICK d \in Nat : Brings(Head(bus), s, l, n, d) /\ Streams(requests[s], Tail(bus), s, l, d)
    BY <1>1, <1>2, StreamTaken
  <2>2. d = n
    BY <2>1 DEF Brings
  <2> QED
    BY <2>1, <2>2
<1>3. (Done(s)' <=> Done(s)) /\ Rest(s)' = Rest(s) /\ got'[s] = got[s]
  BY DEF Aside, Done, Ended, Rest
<1>4. Early(s)' => Early(s)
  BY DEF Early, Browses
<1> QED
  BY <1>2, <1>3, <1>4, DeliveredStill

\* a message with results of a browse that is not done with
LEMMA MessageHolds ==
  ASSUME Listened, NEW s \in Session, ~Done(s), Delivered(s), bus # <<>>, NEW m, m = Head(bus),
         m.what = "results", m.s = s, ~Emitting(s)
  PROVE  /\ m.list # <<>> /\ ~Early(s)
         /\ \E l : \E d \in Nat :
              /\ Lawful(l) /\ Part(got[s], l, 0, Len(got[s])) /\ Part(m.list, l, Len(got[s]), d)
              /\ Streams(requests[s], Tail(bus), s, l, d)
              /\ Speaks(work[s]) => After(work[s], l)
<1>1. PICK l : \E n \in Nat : Behind(s, l, n)
  BY DEF Delivered
<1>2. PICK n \in Nat : Behind(s, l, n)
  BY <1>1
<1>3. bus \in Seq(Message) /\ Lawful(l) /\ Streams(requests[s], bus, s, l, n)
  BY <1>2, WrapperTypes DEF Behind, Listened, Typed
<1>4. PICK d \in Nat : Brings(m, s, l, n, d) /\ Streams(requests[s], Tail(bus), s, l, d)
  BY <1>3, StreamTaken
<1>5. m.list # <<>> /\ Part(m.list, l, n, d)
  BY <1>4 DEF Brings
<1>6. Part(got[s], l, 0, Len(got[s])) /\ Part(<<>>, l, Len(got[s]), n)
  BY <1>2 DEF Behind, Holds, Rest
<1>7. n = Len(got[s])
  <2>1. got[s] \in Seq(AnyResult) /\ n - Len(got[s]) = Len(<<>>)
    BY <1>6 DEF Part
  <2>2. Len(got[s]) \in Nat /\ Len(<<>>) = 0
    BY <2>1
  <2> QED
    BY <2>1, <2>2
<1>8. ~Early(s)
  <2> SUFFICES ASSUME Early(s) PROVE FALSE
    OBVIOUS
  <2>1. l = <<>> /\ Len(<<>>) = 0
    BY <1>2 DEF Behind
  <2>2. m.list \in Seq(AnyResult) /\ d - n = Len(m.list) /\ d <= 0
    BY <1>5, <2>1 DEF Part
  <2>3. Len(m.list) \in Nat /\ Len(m.list) # 0
    BY <1>5, <2>2, EmptySeq
  <2> QED
    BY <2>2, <2>3
<1> QED
  BY <1>2, <1>3, <1>4, <1>5, <1>6, <1>7, <1>8 DEF Behind

LEMMA DispatchKept ==
  ASSUME Promised, ClientDispatch, NEW s \in Session
  PROVE  /\ ClientTyped' /\ ClientKeeps(s)' /\ Delivered(s)'
         /\ UNCHANGED <<asked, cancelled>>
         /\ got'[s] # got[s] => Gives(s) /\ ~Done(s) /\ asked[s] # None
<1>1. /\ Listened /\ Typed /\ ClientTyped /\ ClientKeeps(s) /\ Delivered(s)
      /\ \A t \in Session : ClientKeeps(t) /\ Delivered(t)
  BY DEF Promised, Listened
<1>2. bus # <<>> /\ bus' = Tail(bus) /\ UNCHANGED <<requests, plan, work>>
  BY DEF ClientDispatch
<1>3. PICK m : m = Head(bus)
  OBVIOUS
<1>4. m \in Message
  <2>1. bus \in Seq(Message)
    BY <1>1, WrapperTypes DEF Typed
  <2> QED
    BY <1>2, <1>3, <2>1, HeadTailProperties
<1>5. CASE m.what # "results"
  <2>1. UNCHANGED proxy
    BY <1>3, <1>5 DEF ClientDispatch
  <2>2. UNCHANGED <<calls, waits, known, giving, got, asked, cancelled>>
    BY <2>1 DEF proxy
  <2>3. Aside(s)
    BY <2>2 DEF Aside, AwaitsBrowse, Emitting, CancelCalled
  <2>4. ClientTyped'
    BY <1>1, <2>2 DEF ClientTyped
  <2> QED
    BY <1>1, <1>2, <1>3, <1>5, <2>2, <2>3, <2>4, TakenAside, KeptAside
<1>6. CASE m.what = "results"
  <2>1. m.s \in Session /\ m.list \in Seq(AnyResult) /\ Dispatch(m.s, m.list)
    BY <1>3, <1>4, <1>6 DEF Message, ClientDispatch
  <2>2. PICK t \in Session, p \in Seq(AnyResult) : m.s = t /\ m.list = p
    BY <2>1
  <2>3. Dispatch(t, p) /\ Free /\ giving = None
    BY <2>1, <2>2 DEF Dispatch
  <2>4. ~Emitting(t) /\ ~AwaitsBrowse(t)
    BY <2>3 DEF Emitting, AwaitsBrowse, Free
  <2>5. t \in known /\ ~Done(t) => p # <<>>
    BY <1>1, <1>2, <1>3, <1>6, <2>2, <2>4, MessageHolds
  <2>6. /\ ClientTyped' /\ ClientKeeps(s)'
        /\ s # t \/ s \notin known => Aside(s)
        /\ s = t /\ s \in known =>
             /\ ~Done(s) /\ ~Emitting(s) /\ Emitting(s)' /\ giving'.rest = Tail(p) /\ p # <<>>
             /\ got' = [got EXCEPT ![s] = Append(@, Head(p))]
             /\ asked[s] # None /\ asked' = asked /\ cancelled' = cancelled
        /\ UNCHANGED <<calls, asked, cancelled>>
    BY <1>1, <2>3, <2>5, DispatchKeeps
  <2>7. CASE s # t
    <3>1. Aside(s) /\ UNCHANGED <<calls, asked, cancelled>>
      BY <2>6, <2>7
    <3>2. Delivered(s)'
      BY <1>1, <1>2, <1>3, <2>2, <2>7, <3>1, TakenAside
    <3> QED
      BY <2>6, <3>1, <3>2 DEF Aside
  <2>8. CASE s = t /\ s \notin known
    <3>1. Aside(s) /\ UNCHANGED <<calls, asked, cancelled>>
      BY <2>6, <2>8
    <3>2. Done(s)
      <4> SUFFICES ASSUME ~Done(s) PROVE FALSE
        OBVIOUS
      <4>1. ~Early(s)
        BY <1>1, <1>2, <1>3, <1>6, <2>2, <2>4, <2>8, MessageHolds
      <4>2. asked[s] = None
        BY <1>1, <2>4, <2>8 DEF ClientKeeps
      <4> QED
        BY <4>1, <4>2 DEF Early
    <3>3. Done(s)'
      BY <3>1, <3>2 DEF Aside, Done, Ended
    <3> QED
      BY <2>6, <3>1, <3>3 DEF Aside, Delivered
  <2>9. CASE s = t /\ s \in known
    <3>1. /\ ~Done(s) /\ ~Emitting(s) /\ Emitting(s)' /\ giving'.rest = Tail(p) /\ p # <<>>
          /\ got' = [got EXCEPT ![s] = Append(@, Head(p))]
          /\ asked[s] # None /\ UNCHANGED <<calls, asked, cancelled>>
      BY <2>6, <2>9
    <3>2. /\ ~Early(s)
          /\ \E l : \E d \in Nat :
               /\ Lawful(l) /\ Part(got[s], l, 0, Len(got[s])) /\ Part(p, l, Len(got[s]), d)
               /\ Streams(requests[s], Tail(bus), s, l, d)
               /\ Speaks(work[s]) => After(work[s], l)
      BY <1>1, <1>2, <1>3, <1>6, <2>2, <2>9, <3>1, MessageHolds
    <3>3. PICK l : \E d \in Nat :
               /\ Lawful(l) /\ Part(got[s], l, 0, Len(got[s])) /\ Part(p, l, Len(got[s]), d)
               /\ Streams(requests[s], Tail(bus), s, l, d)
               /\ Speaks(work[s]) => After(work[s], l)
      BY <3>2
    <3>4. PICK d \in Nat :
               /\ Lawful(l) /\ Part(got[s], l, 0, Len(got[s])) /\ Part(p, l, Len(got[s]), d)
               /\ Streams(requests[s], Tail(bus), s, l, d)
               /\ Speaks(work[s]) => After(work[s], l)
      BY <3>3
    <3>5. Holds(s, l, d)' /\ Gives(s)
      <4>1. got \in [Session -> Seq(AnyResult)]
        BY <1>1 DEF ClientTyped
      <4> QED
        BY <3>1, <3>4, <4>1, NextGiven
    <3>6. ~Early(s)'
      BY <3>1, <3>2 DEF Early, Browses
    <3>7. (Speaks(work[s])' <=> Speaks(work'[s])) /\ (After(work[s], l)' <=> After(work'[s], l))
      BY <1>2, SamePlan
    <3>8. Behind(s, l, d)'
      BY <1>2, <3>4, <3>5, <3>6, <3>7 DEF Behind
    <3> QED
      BY <2>6, <3>1, <3>5, <3>8 DEF Delivered
  <2> QED
    BY <2>7, <2>8, <2>9
<1> QED
  BY <1>5, <1>6

LEMMA CallbackKept ==
  ASSUME Promised, ClientCallback, NEW s \in Session
  PROVE  /\ ClientTyped' /\ ClientKeeps(s)' /\ Delivered(s)'
         /\ UNCHANGED <<asked, cancelled>>
         /\ got'[s] # got[s] => Gives(s) /\ ~Done(s) /\ asked[s] # None
<1>1. /\ Listened /\ Typed /\ ClientTyped /\ ClientKeeps(s) /\ Delivered(s)
      /\ \A t \in Session : ClientKeeps(t)
  BY DEF Promised, Listened
<1>2. CallbackReturns /\ UNCHANGED <<requests, bus, plan, work>>
  BY DEF ClientCallback, wrapper
<1>3. /\ ClientTyped' /\ ClientKeeps(s)' /\ UNCHANGED <<calls, asked, cancelled>>
      /\ \/ Aside(s)
         \/ Emitting(s) /\ got' = got /\ Done(s) /\ ~Emitting(s)'
         \/ Emitting(s) /\ got' = got /\ ~Emitting(s)' /\ giving.rest = <<>>
         \/ /\ ~Done(s) /\ Emitting(s) /\ Emitting(s)' /\ giving.rest # <<>>
            /\ giving'.rest = Tail(giving.rest)
            /\ got' = [got EXCEPT ![s] = Append(@, Head(giving.rest))]
            /\ asked[s] # None
  BY <1>1, <1>2, CallbackKeeps
<1>4. Early(s)' => Early(s)
  BY <1>3 DEF Early, Browses
<1>5. ASSUME got'[s] = got[s], Rest(s)' = Rest(s) PROVE Delivered(s)'
  <2>1. Done(s)' <=> Done(s)
    BY <1>3, <1>5 DEF Done, Ended
  <2> QED
    BY <1>1, <1>2, <1>4, <1>5, <2>1, DeliveredStill
<1>6. CASE Aside(s)
  <2>1. got'[s] = got[s] /\ Rest(s)' = Rest(s)
    BY <1>6 DEF Aside, Rest
  <2> QED
    BY <1>3, <1>5, <2>1
<1>7. CASE got' = got /\ Done(s)
  <2>1. Done(s)'
    BY <1>3, <1>7 DEF Done, Ended
  <2> QED
    BY <1>3, <1>7, <2>1 DEF Delivered
<1>8. CASE Emitting(s) /\ got' = got /\ ~Emitting(s)' /\ giving.rest = <<>>
  <2>1. Rest(s)' = Rest(s)
    BY <1>8 DEF Rest
  <2> QED
    BY <1>3, <1>5, <1>8, <2>1
<1>9. CASE /\ ~Done(s) /\ Emitting(s) /\ Emitting(s)' /\ giving.rest # <<>>
           /\ giving'.rest = Tail(giving.rest)
           /\ got' = [got EXCEPT ![s] = Append(@, Head(giving.rest))]
           /\ asked[s] # None
  <2>1. PICK l : \E n \in Nat : Behind(s, l, n)
    BY <1>1, <1>9 DEF Delivered
  <2>2. PICK n \in Nat : Behind(s, l, n)
    BY <2>1
  <2>3. PICK p : p = giving.rest
    OBVIOUS
  <2>4. Lawful(l) /\ Part(got[s], l, 0, Len(got[s])) /\ Part(p, l, Len(got[s]), n)
    BY <1>9, <2>2, <2>3 DEF Behind, Holds, Rest
  <2>5. Holds(s, l, n)' /\ Gives(s)
    <3>1. got \in [Session -> Seq(AnyResult)]
      BY <1>1 DEF ClientTyped
    <3> QED
      BY <1>9, <2>3, <2>4, <3>1, NextGiven
  <2>6. (Speaks(work[s])' <=> Speaks(work'[s])) /\ (After(work[s], l)' <=> After(work'[s], l))
    BY <1>2, SamePlan
  <2>7. Behind(s, l, n)'
    BY <1>2, <1>4, <2>2, <2>5, <2>6 DEF Behind
  <2> QED
    BY <1>3, <1>9, <2>5, <2>7 DEF Delivered
<1> QED
  BY <1>3, <1>6, <1>7, <1>8, <1>9

-----------------------------------------------------------------------------
(* The invariant.                                                          *)

LEMMA InitPromised == Init => Promised
<1> SUFFICES ASSUME Init PROVE Promised
  OBVIOUS
<1>1. Listened
  BY InitListened
<1>2. /\ calls = <<>> /\ waits = None /\ known = {} /\ giving = None /\ cancelled = {}
      /\ got = [s \in Session |-> <<>>] /\ asked = [s \in Session |-> None]
      /\ work = [s \in Session |-> Over] /\ bus = <<>>
      /\ requests = [s \in Session |-> NoRequest]
  BY DEF Init
<1>3. <<>> \in Seq(AnyResult) /\ Len(<<>>) = 0 /\ 1 .. 0 = {} /\ DOMAIN <<>> = {}
  OBVIOUS
<1>4. ClientTyped
  BY <1>2, <1>3 DEF ClientTyped
<1>5. ASSUME NEW s \in Session PROVE ClientKeeps(s) /\ Delivered(s)
  <2>1. ~AwaitsBrowse(s) /\ ~CancelCalled(s) /\ ~Emitting(s) /\ got[s] = <<>> /\ asked[s] = None
    BY <1>2, <1>3, <1>5 DEF AwaitsBrowse, CancelCalled, Emitting
  <2>2. ClientKeeps(s)
    BY <1>2, <2>1 DEF ClientKeeps
  <2>3. Lawful(<<>>)
    BY <1>3 DEF Lawful
  <2>4. Part(<<>>, <<>>, 0, 0)
    BY <1>3, PartNone
  <2>5. Holds(s, <<>>, 0)
    BY <1>3, <2>1, <2>4 DEF Holds, Rest
  <2>6. Streams(requests[s], bus, s, <<>>, 0)
    <3>1. Carries(<<>>, s, <<>>, 0, 0) /\ 0 \in Nat
      BY CarriesNone
    <3>2. 0 <= Len(<<>>)
      BY <1>3
    <3> QED
      BY <1>2, <1>5, <3>1, <3>2 DEF Streams
  <2>7. ~Speaks(work[s])
    BY <1>2, <1>5, OverSilent
  <2>8. Behind(s, <<>>, 0)
    BY <2>3, <2>5, <2>6, <2>7 DEF Behind
  <2> QED
    BY <2>2, <2>8 DEF Delivered
<1> QED
  BY <1>1, <1>4, <1>5 DEF Promised

\* the daemon's steps leave the client alone
Daemon ==
  \/ DaemonBrowse \/ DaemonCancel \/ ServerLeaves \/ BusRefuses
  \/ \E s \in Session : SourceStep(s) \/ WrapperTimer(s) \/ WrapperIdle(s)

LEMMA DaemonRests ==
  ASSUME Daemon PROVE UNCHANGED <<waits, known, giving, got, asked, cancelled>> /\ ClientRests
<1>1. CASE DaemonBrowse
  BY <1>1 DEF DaemonBrowse, ClientRests
<1>2. CASE DaemonCancel
  BY <1>2 DEF DaemonCancel, ClientRests
<1>3. CASE ServerLeaves
  BY <1>3 DEF ServerLeaves, proxy, ClientRests
<1>4. CASE BusRefuses
  BY <1>4 DEF BusRefuses, ClientRests
<1>5. ASSUME NEW s \in Session, SourceStep(s) \/ WrapperTimer(s) \/ WrapperIdle(s)
      PROVE  UNCHANGED <<waits, known, giving, got, asked, cancelled>> /\ ClientRests
  BY <1>5 DEF SourceStep, WrapperTimer, WrapperIdle, proxy, ClientRests
<1> QED
  BY <1>1, <1>2, <1>3, <1>4, <1>5 DEF Daemon

LEMMA DaemonKept ==
  ASSUME Promised, Daemon, NEW s \in Session
  PROVE  ClientTyped' /\ ClientKeeps(s)' /\ Delivered(s)'
<1>1. Listened /\ ClientTyped /\ ClientKeeps(s) /\ Delivered(s) /\ calls \in Seq(ClientCall)
  BY DEF Promised, Listened, Typed
<1>2. UNCHANGED <<waits, known, giving, got, asked, cancelled>> /\ ClientRests
  BY DaemonRests
<1>3. ClientTyped'
  BY <1>1, <1>2 DEF ClientTyped
<1>4. ClientKeeps(s)'
  BY <1>1, <1>2, RestsAside, KeptAside
<1>5. Delivered(s)'
  <2>1. CASE DaemonBrowse
    BY <1>1, <2>1, DaemonBrowseDelivers
  <2>2. CASE DaemonCancel
    BY <1>1, <2>2, DaemonCancelDelivers
  <2>3. CASE ServerLeaves
    BY <1>1, <2>3, LeavesDelivers
  <2>4. CASE BusRefuses
    BY <1>1, <2>4, RefusesDelivers
  <2>5. ASSUME NEW t \in Session, SourceStep(t) \/ WrapperTimer(t) \/ WrapperIdle(t)
        PROVE  Delivered(s)'
    BY <1>1, <2>5, SourceDelivers, WrapperDelivers
  <2> QED
    BY <2>1, <2>2, <2>3, <2>4, <2>5 DEF Daemon
<1> QED
  BY <1>3, <1>4, <1>5

\* there may be no sessions at all
LEMMA NobodyKept == ASSUME Promised, [Next]_vars, Session = {} PROVE ClientTyped'
<1>1. ClientTyped /\ plan.sessions \subseteq Session /\ bus \in Seq(Message)
  BY PlanTypes, WrapperTypes DEF Promised, Listened, Typed
<1>2. waits = None /\ giving = None /\ Message = {} /\ plan.sessions = {}
  <2>1. ClientCall = {} /\ Giving = {}
    BY DEF ClientCall, Giving
  <2>2. Message = {}
    BY DEF Message
  <2> QED
    BY <1>1, <2>1, <2>2 DEF ClientTyped
<1>3. bus = <<>>
  <2> SUFFICES ASSUME bus # <<>> PROVE FALSE
    OBVIOUS
  <2>1. Head(bus) \in Message
    BY <1>1, HeadTailProperties
  <2> QED
    BY <1>2, <2>1
<1>4. ~ClientBrowse /\ ~ClientCancel /\ ~ClientCallback /\ ~ClientDispatch
  BY <1>2, <1>3 DEF ClientBrowse, ClientCancel, ClientCallback, CallbackReturns, ClientDispatch
<1>5. ~ClientReply /\ ~ClientTimeout
  BY <1>2 DEF ClientReply, ClientTimeout, Free
<1>6. CASE Daemon
  BY <1>1, <1>6, DaemonRests DEF ClientTyped
<1>7. CASE UNCHANGED vars
  BY <1>1, <1>7 DEF vars, proxy, ClientTyped
<1> QED
  BY <1>4, <1>5, <1>6, <1>7 DEF Next, Daemon

LEMMA NextPromised == Promised /\ [Next]_vars => Promised'
<1> SUFFICES ASSUME Promised, [Next]_vars PROVE Promised'
  OBVIOUS
<1>1. Listened'
  BY NextListened DEF Promised
<1>2. ASSUME NEW s \in Session PROVE ClientTyped' /\ ClientKeeps(s)' /\ Delivered(s)'
  <2>1. CASE Daemon
    BY <2>1, DaemonKept
  <2>2. CASE ClientBrowse
    BY <2>2, BrowseKept
  <2>3. CASE ClientCancel
    BY <2>3, CancelKept
  <2>4. CASE ClientReply \/ ClientTimeout
    BY <2>4, ReplyKept
  <2>5. CASE ClientDispatch
    BY <2>5, DispatchKept
  <2>6. CASE ClientCallback
    BY <2>6, CallbackKept
  <2>7. CASE UNCHANGED vars
    <3>1. UNCHANGED <<requests, bus, plan, work>> /\ UNCHANGED proxy
      BY <2>7 DEF vars, wrapper
    <3>2. UNCHANGED <<calls, waits, known, giving, got, asked, cancelled>>
      BY <3>1 DEF proxy
    <3>3. Listened /\ ClientTyped /\ ClientKeeps(s) /\ Delivered(s) /\ calls \in Seq(ClientCall)
      BY DEF Promised, Listened, Typed
    <3>4. ClientTyped' /\ Idles(s)
      BY <3>1, <3>2, <3>3 DEF ClientTyped, Idles, ClientRests
    <3>5. ClientKeeps(s)'
      BY <3>3, <3>4, RestsAside, KeptAside DEF Idles
    <3> QED
      BY <3>1, <3>3, <3>4, <3>5, RestsDelivered
  <2> QED
    BY <2>1, <2>2, <2>3, <2>4, <2>5, <2>6, <2>7 DEF Next, Daemon
<1>3. ClientTyped'
  <2>1. CASE Session # {}
    BY <1>2, <2>1
  <2>2. CASE Session = {}
    BY <2>2, NobodyKept
  <2> QED
    BY <2>1, <2>2
<1> QED
  BY <1>1, <1>2, <1>3 DEF Promised

-----------------------------------------------------------------------------
(* The steps of the contract.                                              *)

LEMMA PhaseTypes ==
  ASSUME NEW s \in Session
  PROVE  /\ Phase[s] = IF asked[s] = None THEN "idle" ELSE IF Ended(s) THEN "ended"
                       ELSE IF s \in cancelled THEN "cancelled" ELSE "open"
         /\ Phase'[s] = IF asked'[s] = None THEN "idle" ELSE IF Ended(s)' THEN "ended"
                        ELSE IF s \in cancelled' THEN "cancelled" ELSE "open"
BY DEF Phase

LEMMA PhaseIs ==
  ASSUME NEW x, x \in [Session -> {"idle", "open", "ended", "cancelled"}],
         \A s \in Session : Phase'[s] = x[s]
  PROVE  Phase' = x
<1>1. Phase' \in [Session -> {"idle", "open", "ended", "cancelled"}]
  BY DEF Phase
<1> HIDE DEF Phase
<1> QED
  BY <1>1

\* the callbacks of a step, and nothing else
GivesOnly ==
  /\ UNCHANGED <<asked, cancelled>>
  /\ \A s \in Session : got'[s] # got[s] => Gives(s) /\ ~Done(s) /\ asked[s] # None

LEMMA GivesStep ==
  ASSUME ClientTyped, ClientTyped', GivesOnly
  PROVE  Contract!Next \/ UNCHANGED <<Phase, got>>
<1>1. got \in [Session -> Seq(AnyResult)] /\ got' \in [Session -> Seq(AnyResult)]
  BY DEF ClientTyped
<1>2. CASE \A s \in Session : got'[s] = got[s]
  <2>1. got' = got
    BY <1>1, <1>2
  <2>2. Phase' = Phase
    BY <2>1 DEF GivesOnly, Phase, Ended
  <2> QED
    BY <2>1, <2>2
<1>3. ASSUME NEW s \in Session, got'[s] # got[s] PROVE Contract!Next
  <2>1. ~Done(s) /\ asked[s] # None /\ UNCHANGED <<asked, cancelled>>
    BY <1>3 DEF GivesOnly
  <2>2. PICK r \in Given :
          Contract!Follows(r, got[s]) /\ got' = [got EXCEPT ![s] = Append(@, r)]
    BY <1>3 DEF GivesOnly, Gives
  <2>3. got[s] \in Seq(AnyResult) /\ got'[s] \in Seq(AnyResult) /\ got'[s] = Append(got[s], r)
    BY <1>1, <2>2
  <2>4. r \in AnyResult
    <3>1. Len(got[s]) \in Nat /\ Len(got'[s]) \in Nat
      BY <2>3
    <3> QED
      BY <2>2, ItemsAssumption, ResultTypes DEF Given
  <2>5. got'[s] # <<>> /\ Last(got'[s]) = r
    BY <2>3, <2>4, LastAdded
  <2>6. Ended(s)' <=> r.left = 0
    BY <2>5 DEF Ended
  <2>7. Phase[s] = "open" /\ s \notin cancelled
    BY <2>1, PhaseTypes DEF Done
  <2> DEFINE x == [Phase EXCEPT ![s] = IF r.left = 0 THEN "ended" ELSE @]
  <2>8. Phase' = x
    <3>1. Phase \in [Session -> {"idle", "open", "ended", "cancelled"}]
      BY DEF Phase
    <3>2. x \in [Session -> {"idle", "open", "ended", "cancelled"}]
      BY <3>1
    <3>3. Phase'[s] = x[s]
      <4>1. Phase'[s] = IF r.left = 0 THEN "ended" ELSE "open"
        BY <2>1, <2>6, <2>7, PhaseTypes
      <4> QED
        BY <2>7, <3>1, <4>1
    <3>4. ASSUME NEW t \in Session, t # s PROVE Phase'[t] = x[t]
      <4>1. got'[t] = got[t]
        BY <1>1, <2>2, <3>4
      <4>2. Ended(t)' <=> Ended(t)
        BY <4>1 DEF Ended
      <4>3. Phase'[t] = Phase[t]
        BY <2>1, <4>2, PhaseTypes
      <4> QED
        BY <3>1, <3>4, <4>3
    <3> HIDE DEF x
    <3> QED
      BY <3>2, <3>3, <3>4, PhaseIs
  <2>9. Contract!Give(s)
    BY <2>2, <2>7, <2>8 DEF Contract!Give
  <2> QED
    BY <2>9 DEF Contract!Next
<1> QED
  BY <1>2, <1>3

LEMMA ReturnGives ==
  ASSUME Promised, ~Free, NEW ok \in BOOLEAN, Returns(ok) PROVE GivesOnly
<1>1. Typed /\ ClientTyped /\ \A s \in Session : ClientKeeps(s)
  BY DEF Promised, Listened
<1>2. UNCHANGED <<asked, cancelled>>
  BY DEF Returns
<1>3. ASSUME NEW s \in Session, got'[s] # got[s] PROVE Gives(s) /\ ~Done(s) /\ asked[s] # None
  <2>1. /\ got' = [got EXCEPT ![s] = Append(@, Refusal)] /\ asked[s] # None /\ ~Done(s)
    BY <1>1, <1>3, ReturnKeeps
  <2>2. Refusal \in Given /\ Refusal.obj = 0 /\ Refusal.left = 0
    BY DEF Given, Refusal, Failure, Nothing, Result
  <2>3. Contract!Follows(Refusal, got[s])
    BY <2>2 DEF Contract!Follows
  <2> QED
    BY <2>1, <2>2, <2>3 DEF Gives
<1> QED
  BY <1>2, <1>3 DEF GivesOnly

LEMMA BrowseStep ==
  ASSUME Promised, ClientBrowse PROVE Contract!Next
<1>1. /\ Typed /\ plan \in Scenarios /\ asked \in [Session -> Criteria \cup {None}]
      /\ \A s \in Session : ClientKeeps(s)
  BY DEF Promised, Listened, Typed
<1>2. PICK t \in plan.sessions, req \in plan.requests : mafw_proxy_source_browse(t, req)
  BY DEF ClientBrowse
<1>3. t \in Session /\ req \in Criteria /\ req # None
  BY <1>1, <1>2, PlanTypes, NoneAssumption
<1>4. /\ asked[t] = None /\ asked' = [asked EXCEPT ![t] = req] /\ got' = got
      /\ cancelled' = cancelled
  BY <1>2 DEF mafw_proxy_source_browse
<1>5. got[t] = <<>> /\ t \notin cancelled
  BY <1>1, <1>3, <1>4 DEF ClientKeeps
<1> DEFINE x == [Phase EXCEPT ![t] = "open"]
<1>6. Phase' = x
  <2>1. Phase \in [Session -> {"idle", "open", "ended", "cancelled"}]
    BY DEF Phase
  <2>2. x \in [Session -> {"idle", "open", "ended", "cancelled"}]
    BY <2>1
  <2>3. \A s \in Session : Ended(s)' <=> Ended(s)
    BY <1>4 DEF Ended
  <2>4. Phase'[t] = x[t]
    <3>1. asked'[t] # None /\ ~Ended(t)'
      BY <1>1, <1>3, <1>4, <1>5 DEF Ended
    <3>2. Phase'[t] = "open"
      BY <1>3, <1>4, <1>5, <3>1, PhaseTypes
    <3> QED
      BY <1>3, <2>1, <3>2
  <2>5. ASSUME NEW s \in Session, s # t PROVE Phase'[s] = x[s]
    <3>1. asked'[s] = asked[s]
      BY <1>1, <1>4, <2>5
    <3>2. Phase'[s] = Phase[s]
      BY <1>4, <2>3, <3>1, PhaseTypes
    <3> QED
      BY <2>1, <2>5, <3>2
  <2> HIDE DEF x
  <2> QED
    BY <2>2, <2>4, <2>5, PhaseIs
<1>7. Phase[t] = "idle"
  BY <1>3, <1>4, PhaseTypes
<1>8. Contract!Open(t)
  BY <1>4, <1>6, <1>7 DEF Contract!Open
<1> QED
  BY <1>3, <1>8 DEF Contract!Next

LEMMA CancelStep ==
  ASSUME Promised, ClientCancel PROVE Contract!Next \/ UNCHANGED <<Phase, got>>
<1>1. \A s \in Session : ClientKeeps(s)
  BY DEF Promised
<1>2. PICK t \in Session : mafw_proxy_source_cancel_browse(t)
  BY DEF ClientCancel
<1>3. /\ t \in known /\ t \notin cancelled /\ cancelled' = cancelled \cup {t}
      /\ got' = got /\ asked' = asked
  BY <1>2 DEF mafw_proxy_source_cancel_browse
<1>4. asked[t] # None
  BY <1>1, <1>3 DEF ClientKeeps
<1>5. \A s \in Session : Ended(s)' <=> Ended(s)
  BY <1>3 DEF Ended
<1>6. Phase \in [Session -> {"idle", "open", "ended", "cancelled"}]
  BY DEF Phase
<1>7. ASSUME NEW s \in Session, s # t PROVE Phase'[s] = Phase[s]
  BY <1>3, <1>5, <1>7, PhaseTypes
<1>8. CASE Ended(t)
  <2>1. Phase'[t] = Phase[t]
    BY <1>3, <1>4, <1>5, <1>8, PhaseTypes
  <2>2. PICK y : y = Phase
    OBVIOUS
  <2>3. Phase' = y
    BY <1>6, <1>7, <2>1, <2>2, PhaseIs
  <2> QED
    BY <1>3, <2>2, <2>3
<1>9. CASE ~Ended(t)
  <2> DEFINE x == [Phase EXCEPT ![t] = "cancelled"]
  <2>1. x \in [Session -> {"idle", "open", "ended", "cancelled"}]
    BY <1>6
  <2>2. Phase[t] = "open" /\ Phase'[t] = "cancelled"
    BY <1>3, <1>4, <1>5, <1>9, PhaseTypes
  <2>3. \A s \in Session : Phase'[s] = x[s]
    BY <1>6, <1>7, <2>2
  <2> HIDE DEF x
  <2>4. Phase' = x
    BY <2>1, <2>3, PhaseIs
  <2>5. Contract!Cancel(t)
    BY <1>3, <2>2, <2>4 DEF Contract!Cancel, x
  <2> QED
    BY <2>5 DEF Contract!Next
<1> QED
  BY <1>8, <1>9

LEMMA StepKeepsContract ==
  ASSUME Promised, Promised', [Next]_vars PROVE Contract!Next \/ UNCHANGED <<Phase, got>>
<1>1. ClientTyped /\ ClientTyped' /\ bus \in Seq(Message)
  BY WrapperTypes DEF Promised, Listened, Typed
<1>2. CASE Daemon \/ UNCHANGED vars
  <2>1. UNCHANGED <<got, asked, cancelled>>
    <3>1. CASE Daemon
      BY <3>1, DaemonRests
    <3>2. CASE UNCHANGED vars
      BY <3>2 DEF vars, proxy
    <3> QED
      BY <1>2, <3>1, <3>2
  <2>2. GivesOnly
    BY <2>1 DEF GivesOnly
  <2> QED
    BY <1>1, <2>2, GivesStep
<1>3. CASE ClientBrowse
  BY <1>3, BrowseStep
<1>4. CASE ClientCancel
  BY <1>4, CancelStep
<1>5. CASE ClientReply
  <2>1. PICK i \in DOMAIN bus : bus[i].what = "reply" /\ Returns(bus[i].ok) /\ ~Free
    BY <1>5 DEF ClientReply
  <2>2. bus[i].ok \in BOOLEAN
    <3>1. DOMAIN bus = 1 .. Len(bus)
      BY <1>1
    <3>2. bus[i] \in Message
      BY <1>1, <3>1, ElementOfSeq
    <3> QED
      BY <2>1, <3>2 DEF Message
  <2>3. GivesOnly
    BY <2>1, <2>2, ReturnGives
  <2> QED
    BY <1>1, <2>3, GivesStep
<1>6. CASE ClientTimeout
  <2>1. ~Free /\ Returns(FALSE)
    BY <1>6 DEF ClientTimeout
  <2>2. GivesOnly
    BY <2>1, ReturnGives
  <2> QED
    BY <1>1, <2>2, GivesStep
<1>7. CASE ClientDispatch \/ ClientCallback
  <2>1. UNCHANGED <<asked, cancelled>>
    BY <1>7 DEF ClientDispatch, Dispatch, proxy, ClientCallback, CallbackReturns
  <2>2. GivesOnly
    BY <1>7, <2>1, DispatchKept, CallbackKept DEF GivesOnly
  <2> QED
    BY <1>1, <2>2, GivesStep
<1> QED
  BY <1>2, <1>3, <1>4, <1>5, <1>6, <1>7 DEF Next, Daemon

(* What the client is given keeps to the contract of mafw_source_browse,   *)
(* over D-Bus and with any of the three sources: the batches of            *)
(* source-wrapper.c, calls that block until their reply while results      *)
(* arrive, cancels out of the callback and operations that are cut off     *)
(* lose no result, repeat none and mix up no order.                        *)
THEOREM ContractKept == Spec => ContractSpec
<1>1. Init => Contract!Init
  BY DEF Init, Contract!Init, Phase
<1>2. Init => Promised
  BY InitPromised
<1>3. Promised /\ [Next]_vars => Promised'
  BY NextPromised
<1>4. Promised /\ Promised' /\ [Next]_vars => [Contract!Next]_(Contract!vars)
  BY StepKeepsContract DEF Contract!vars
<1> QED
  BY <1>1, <1>2, <1>3, <1>4, PTL DEF Spec, ContractSpec, Contract!Spec
=============================================================================
