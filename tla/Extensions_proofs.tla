-------------------------- MODULE Extensions_proofs ---------------------------
(***************************************************************************)
(* Proofs about the extensions as an application meets them, for any       *)
(* number of applications, extensions, objects and events:                 *)
(*   Discovery     how an application comes to know the extensions on the  *)
(*                 bus, and how it loses them;                             *)
(*   SourceCalls   the calls it makes of a source, from the daemon's       *)
(*                 handler to the last callback.                           *)
(* The two share no state: each has its own inductive invariant.           *)
(***************************************************************************)
EXTENDS Discovery, SourceCalls, TLAPS, FiniteSetTheorems, FunctionTheorems,
        SequenceTheorems, WellFoundedInduction


-----------------------------------------------------------------------------
(* A finite set put in order: a sequence of its elements, all of them.     *)
LEMMA InOrder ==
  ASSUME NEW S, IsFiniteSet(S)
  PROVE  /\ SetToSeq(S) \in Seq(S)
         /\ \A x \in S : \E k \in DOMAIN SetToSeq(S) : SetToSeq(S)[k] = x
<1> DEFINE n == Cardinality(S)
<1>1. n \in Nat /\ ExistsBijection(1 .. n, S)
  BY FS_CardinalityType
<1>2. PICK f \in [1 .. n -> S] : IsInjective(f)
  BY <1>1 DEF ExistsBijection, Bijection, Injection
<1>3. /\ SetToSeq(S) \in [1 .. n -> S] /\ IsInjective(SetToSeq(S))
  BY <1>2, Zenon DEF SetToSeq
<1>4. SetToSeq(S) \in Injection(1 .. n, S)
  BY <1>3 DEF Injection
<1>5. IsFiniteSet(1 .. n) /\ Cardinality(1 .. n) = n
  BY <1>1, FS_Interval
<1>6. SetToSeq(S) \in Surjection(1 .. n, S)
  BY <1>4, <1>5, FS_Injection
<1>7. SetToSeq(S) \in Seq(S)
  BY <1>1, <1>3
<1> QED BY <1>3, <1>6, <1>7 DEF Surjection

LEMMA FewSignals ==
  ASSUME NEW U \in SUBSET Uuid, NEW w
  PROVE  IsFiniteSet({[what |-> w, u |-> u] : u \in U})
<1> DEFINE T == {[what |-> w, u |-> u] : u \in U}
           g == [u \in U |-> [what |-> w, u |-> u]]
<1>1. IsFiniteSet(U)
  BY DiscoveryConstants, FS_Subset
<1>2. g \in Surjection(U, T)
  BY DEF Surjection
<1> HIDE DEF g
<1> QED BY <1>1, <1>2, FS_Surjection

LEMMA Messages ==
  ASSUME NEW u \in Uuid
  PROVE  /\ Hello(u) \in Signals /\ Gone(u) \in Signals /\ Answered(u) \in Signals
         /\ \A v : /\ Hello(v) # Gone(u) /\ Answered(v) # Gone(u)
                   /\ Hello(v) # Answered(u)
                   /\ Gone(v) = Gone(u) => v = u
                   /\ Hello(v) = Hello(u) => v = u
         /\ \A c \in App, w \in {"ask", "activate", "deactivate"} :
              Asked(c, u, w) \in Calls
BY DEF Hello, Gone, Answered, Asked, Signals, Calls

(* What the applications are told when names are lost.                     *)
LEMMA Told ==
  ASSUME TypeOK, NEW us \in SUBSET Uuid, NEW calls, NEW c \in App,
         NamesLost(us, calls)
  PROVE  /\ inbox'[c] \in Seq(Signals)
         /\ Len(inbox[c]) <= Len(inbox'[c])
         /\ \A k \in 1 .. Len(inbox[c]) : inbox'[c][k] = inbox[c][k]
         /\ \A k \in Len(inbox[c]) + 1 .. Len(inbox'[c]), u \in Uuid :
              inbox'[c][k] # Hello(u)
         /\ \A u \in Lost(c, us) :
              \E k \in 1 .. Len(inbox'[c]) : inbox'[c][k] = Gone(u)
<1> DEFINE G == {Gone(u) : u \in Lost(c, us)}
           A == {Answered(u) : u \in Unanswered(c, calls)}
<1>1. Lost(c, us) \in SUBSET Uuid /\ Unanswered(c, calls) \in SUBSET Uuid
  BY DEF Lost, Unanswered
<1>2. IsFiniteSet(G) /\ IsFiniteSet(A)
  BY <1>1, FewSignals DEF Gone, Answered
<1>3. G \subseteq Signals /\ A \subseteq Signals
  BY <1>1, Messages
<1>4. \A u \in Uuid : Hello(u) \notin G /\ Hello(u) \notin A
  BY <1>1, Messages DEF Hello, Gone, Answered
<1>5. /\ SetToSeq(G) \in Seq(G) /\ SetToSeq(A) \in Seq(A)
      /\ \A x \in G : \E k \in DOMAIN SetToSeq(G) : SetToSeq(G)[k] = x
  BY <1>2, InOrder
<1>6. inbox[c] \in Seq(Signals)
  BY DEF TypeOK
<1>7. inbox'[c] = inbox[c] \o SetToSeq(G) \o SetToSeq(A)
  BY DEF NamesLost
<1>8. \A u \in Lost(c, us) : Gone(u) \in G
  OBVIOUS
<1> HIDE DEF G, A
<1>9. PICK g \in Seq(G), a \in Seq(A) : g = SetToSeq(G) /\ a = SetToSeq(A)
  BY <1>5
<1>10. g \in Seq(Signals) /\ a \in Seq(Signals)
  BY <1>3
<1>11. /\ inbox[c] \o g \in Seq(Signals)
       /\ Len(inbox[c] \o g) = Len(inbox[c]) + Len(g)
       /\ \A k \in 1 .. Len(inbox[c]) + Len(g) : (inbox[c] \o g)[k] =
             IF k <= Len(inbox[c]) THEN inbox[c][k] ELSE g[k - Len(inbox[c])]
  BY <1>6, <1>10, ConcatProperties
<1>12. /\ inbox'[c] \in Seq(Signals)
       /\ Len(inbox'[c]) = Len(inbox[c]) + Len(g) + Len(a)
       /\ \A k \in 1 .. Len(inbox[c]) + Len(g) + Len(a) : inbox'[c][k] =
             IF k <= Len(inbox[c]) + Len(g) THEN (inbox[c] \o g)[k]
             ELSE a[k - (Len(inbox[c]) + Len(g))]
  BY <1>7, <1>9, <1>10, <1>11, ConcatProperties
<1>13. Len(inbox[c]) \in Nat /\ Len(g) \in Nat /\ Len(a) \in Nat
  BY <1>6, <1>10
<1>14. \A k \in 1 .. Len(inbox[c]) : inbox'[c][k] = inbox[c][k]
  BY <1>11, <1>12, <1>13
<1>15. ASSUME NEW k \in Len(inbox[c]) + 1 .. Len(inbox'[c]), NEW u \in Uuid
       PROVE  inbox'[c][k] # Hello(u)
  <2>1. CASE k <= Len(inbox[c]) + Len(g)
    <3>1. inbox'[c][k] = g[k - Len(inbox[c])]
          /\ k - Len(inbox[c]) \in 1 .. Len(g)
      BY <1>11, <1>12, <1>13, <2>1
    <3>2. inbox'[c][k] \in G
      BY <3>1
    <3> QED BY <1>4, <3>2
  <2>2. CASE k > Len(inbox[c]) + Len(g)
    <3>1. inbox'[c][k] = a[k - (Len(inbox[c]) + Len(g))]
          /\ k - (Len(inbox[c]) + Len(g)) \in 1 .. Len(a)
      BY <1>12, <1>13, <2>2
    <3>2. inbox'[c][k] \in A
      BY <3>1
    <3> QED BY <1>4, <3>2
  <2> QED BY <1>12, <1>13, <2>1, <2>2
<1>16. ASSUME NEW u \in Lost(c, us)
       PROVE  \E k \in 1 .. Len(inbox'[c]) : inbox'[c][k] = Gone(u)
  <2>1. PICK j \in 1 .. Len(g) : g[j] = Gone(u)
    BY <1>5, <1>8, <1>9
  <2> DEFINE k == Len(inbox[c]) + j
  <2>2. /\ k \in 1 .. Len(inbox[c]) + Len(g) + Len(a)
        /\ k \in 1 .. Len(inbox[c]) + Len(g)
        /\ k \in 1 .. Len(inbox'[c])
        /\ k <= Len(inbox[c]) + Len(g) /\ ~ (k <= Len(inbox[c]))
        /\ k - Len(inbox[c]) = j
    BY <1>12, <1>13
  <2> HIDE DEF k
  <2>3. inbox'[c][k] = (inbox[c] \o g)[k]
    BY <1>12, <2>2
  <2>4. (inbox[c] \o g)[k] = g[j]
    BY <1>11, <2>2
  <2> QED BY <2>1, <2>2, <2>3, <2>4
<1>17. inbox'[c] \in Seq(Signals) /\ Len(inbox[c]) <= Len(inbox'[c])
  BY <1>12, <1>13
<1> QED BY <1>14, <1>15, <1>16, <1>17, Zenon

-----------------------------------------------------------------------------
(* Types.                                                                  *)

LEMMA InitTyped == Init => TypeOK
BY DiscoveryConstants DEF Init, TypeOK

LEMMA ExtensionsTyped ==
  ASSUME TypeOK, NEW u \in Uuid, Added(u) \/ Removed(u)
  PROVE  TypeOK'
<1>1. CASE Added(u)
  <2>1. inbox' \in [App -> Seq(Signals)]
    <3>1. \A c \in App : Append(inbox[c], Hello(u)) \in Seq(Signals)
      BY Messages, AppendProperties DEF TypeOK
    <3> QED BY <1>1, <3>1 DEF Added, TypeOK
  <2>2. events' \in 0 .. MaxEvents
    BY <1>1, DiscoveryConstants DEF Added, Happens, TypeOK
  <2> QED BY <1>1, <2>1, <2>2 DEF Added, TypeOK, client
<1>2. CASE Removed(u)
  <2>1. inbox' \in [App -> Seq(Signals)]
    <3>1. \A c \in App : inbox'[c] \in Seq(Signals)
      BY <1>2, Told DEF Removed
    <3> QED BY <1>2, <3>1 DEF Removed, NamesLost
  <2>2. events' \in 0 .. MaxEvents
    BY <1>2, DiscoveryConstants DEF Removed, Happens, TypeOK
  <2>3. hasty' \in [App -> SUBSET Uuid]
    BY <1>2 DEF Removed, NamesLost, TypeOK
  <2> QED BY <1>2, <2>1, <2>2, <2>3 DEF Removed, TypeOK, client
<1> QED BY <1>1, <1>2

LEMMA CrashTyped ==
  ASSUME TypeOK, Crash \/ Start PROVE TypeOK'
<1>1. CASE Crash
  <2>1. inbox' \in [App -> Seq(Signals)]
    <3>1. \A c \in App : inbox'[c] \in Seq(Signals)
      BY <1>1, Told DEF Crash, TypeOK
    <3> QED BY <1>1, <3>1 DEF Crash, NamesLost
  <2>2. events' \in 0 .. MaxEvents
    BY <1>1, DiscoveryConstants DEF Crash, Happens, TypeOK
  <2>3. hasty' \in [App -> SUBSET Uuid]
    BY <1>1 DEF Crash, NamesLost, TypeOK
  <2>4. /\ activators' \in [App -> SUBSET {}] /\ refcount' \in [Uuid -> Nat]
        /\ dbox' \in Seq(Calls)
    BY <1>1 DEF Crash
  <2> QED BY <1>1, <2>1, <2>2, <2>3, <2>4 DEF Crash, TypeOK, client
<1>2. CASE Start
  BY <1>2 DEF Start, TypeOK, client, story
<1> QED BY <1>1, <1>2

(* What the daemon finds at the head of its queue.                         *)
LEMMA ReadTyped ==
  ASSUME TypeOK, NEW w, Reads(w)
  PROVE  /\ Head(dbox) \in Calls /\ dbox' \in Seq(Calls) /\ Head(dbox).what = w
         /\ dbox # <<>>
BY HeadTailProperties DEF TypeOK, Reads

LEMMA CallTyped ==
  ASSUME NEW m \in Calls
  PROVE  /\ m.app \in App
         /\ m.what \in {"ask", "activate", "deactivate"} => m.u \in Uuid
         /\ m.what = "exit" => m = Exited(m.app)
BY DEF Calls, Exited

LEMMA UnregisteredTyped ==
  ASSUME TypeOK, NEW c \in App, NEW us \in SUBSET Uuid, Unregistered(c, us)
  PROVE  /\ activators' \in [App -> SUBSET exts] /\ dwatch' \subseteq App
         /\ refcount' \in [Uuid -> Nat] /\ active' \subseteq exts
<1>1. \A u \in Uuid : refcount[u] \in Nat
                      /\ (refcount[u] > 0 => refcount[u] - 1 \in Nat)
  BY DEF TypeOK
<1> QED BY <1>1 DEF TypeOK, Unregistered

LEMMA DaemonTyped ==
  ASSUME TypeOK, DaemonServes PROVE TypeOK'
<1> DEFINE m == Head(dbox)
<1>0. ASSUME NEW w, Reads(w)
      PROVE  UNCHANGED <<up, exts, client, matches, hasty, events>>
             /\ dbox' \in Seq(Calls) /\ up
  BY <1>0, ReadTyped DEF Reads
<1>1. CASE HandleAsk
  <2>1. m.app \in App /\ m.u \in Uuid
    BY <1>1, ReadTyped, CallTyped DEF HandleAsk
  <2>2. Append(inbox[m.app], Answered(m.u)) \in Seq(Signals)
    BY <2>1, Messages, AppendProperties DEF TypeOK
  <2>3. inbox' \in [App -> Seq(Signals)]
    BY <1>1, <2>1, <2>2 DEF HandleAsk, TypeOK
  <2>4. UNCHANGED <<up, exts, client, matches, hasty, events>>
        /\ dbox' \in Seq(Calls) /\ up
    BY <1>0, <1>1 DEF HandleAsk
  <2> QED BY <1>1, <2>3, <2>4 DEF HandleAsk, TypeOK, client
<1>2. CASE HandleActivate
  <2>1. m.app \in App /\ m.u \in Uuid
    BY <1>2, ReadTyped, CallTyped DEF HandleActivate
  <2>2. UNCHANGED <<up, exts, client, matches, hasty, events>>
        /\ dbox' \in Seq(Calls) /\ up
    BY <1>0, <1>2 DEF HandleActivate
  <2>3. CASE UNCHANGED <<activators, refcount, active, dwatch, ghosts>>
    BY <1>2, <2>2, <2>3 DEF HandleActivate, TypeOK, client
  <2>4. CASE /\ m.u \in exts
             /\ active' = active \cup {m.u}
             /\ activators' = [activators EXCEPT ![m.app] = @ \cup {m.u}]
             /\ refcount' = [refcount EXCEPT ![m.u] =
                               IF m.u \in activators[m.app] THEN @ ELSE @ + 1]
             /\ dwatch' = dwatch \cup {m.app}
             /\ ghosts' = IF phase[m.app] = "exited" /\ m.app \notin dwatch
                          THEN ghosts \cup {m.app} ELSE ghosts
    BY <1>2, <2>1, <2>2, <2>4 DEF HandleActivate, TypeOK, client
  <2> QED BY <1>2, <2>3, <2>4 DEF HandleActivate
<1>3. ASSUME NEW us \in SUBSET Uuid, Unregistered(m.app, us), UNCHANGED <<inbox, ghosts>>,
             NEW w, Reads(w)
      PROVE  TypeOK'
  <2>1. m.app \in App
    BY <1>3, ReadTyped, CallTyped
  <2>2. UNCHANGED <<up, exts, client, matches, hasty, events>>
        /\ dbox' \in Seq(Calls) /\ up
    BY <1>0, <1>3
  <2>3. /\ activators' \in [App -> SUBSET exts] /\ dwatch' \subseteq App
        /\ refcount' \in [Uuid -> Nat] /\ active' \subseteq exts
    BY <1>3, <2>1, UnregisteredTyped
  <2> QED BY <1>3, <2>2, <2>3 DEF TypeOK, client
<1>4. {m.u} \cap exts \in SUBSET Uuid
  BY DEF TypeOK
<1> QED BY <1>1, <1>2, <1>3, <1>4
        DEF DaemonServes, HandleDeactivate, _handle_client_exits

LEMMA ApplicationInitTyped ==
  ASSUME TypeOK, NEW c \in App, InitMatch(c) \/ InitList(c) PROVE TypeOK'
<1>1. SetToSeq(exts) \in Seq(Uuid)
  <2>1. IsFiniteSet(exts)
    BY DiscoveryConstants, FS_Subset DEF TypeOK
  <2>2. SetToSeq(exts) \in Seq(exts)
    BY <2>1, InOrder
  <2> QED BY <2>2 DEF TypeOK
<1>2. CASE InitMatch(c)
  BY <1>2 DEF InitMatch, TypeOK, daemon, story
<1>3. CASE InitList(c)
  BY <1>1, <1>3 DEF InitList, TypeOK, daemon, story
<1> QED BY <1>2, <1>3

LEMMA AskTyped ==
  ASSUME TypeOK, NEW c \in App, NEW u \in Uuid, NEW box \in [App -> Seq(Signals)],
         Ask(c, u, box)
  PROVE  /\ dbox' \in Seq(Calls) /\ inbox' \in [App -> Seq(Signals)]
         /\ ~up => dbox' = dbox
<1>1. Append(dbox, Asked(c, u, "ask")) \in Seq(Calls)
  BY Messages, AppendProperties DEF TypeOK
<1>2. Append(box[c], Answered(u)) \in Seq(Signals)
  BY Messages, AppendProperties
<1> QED BY <1>1, <1>2 DEF Ask, TypeOK

LEMMA ProxyTyped ==
  ASSUME TypeOK, NEW c \in App, CreateProxy(c) \/ AddWatch(c) PROVE TypeOK'
<1>0. todo[c] # <<>> => /\ Head(todo[c]) \in Uuid
                        /\ Tail(todo[c]) \in Seq(Uuid)
  BY HeadTailProperties DEF TypeOK
<1>1. CASE CreateProxy(c)
  <2> DEFINE u == Head(todo[c])
  <2>1. u \in Uuid /\ Tail(todo[c]) \in Seq(Uuid) /\ watching[c] = None
        /\ UNCHANGED <<daemon, phase, registry, matches, story, events>>
    BY <1>0, <1>1 DEF CreateProxy
  <2>2. CASE u \in registry[c]
    <3>1. todo' = [todo EXCEPT ![c] = Tail(@)]
          /\ UNCHANGED <<proxy, watching, inbox, dbox>>
      BY <1>1, <2>2 DEF CreateProxy
    <3> QED BY <2>1, <3>1 DEF TypeOK, daemon, story
  <2>3. CASE u \notin registry[c]
    <3>1. watching' = [watching EXCEPT ![c] = u] /\ todo' = todo
      BY <1>1, <2>3 DEF CreateProxy
    <3>2. /\ dbox' \in Seq(Calls) /\ inbox' \in [App -> Seq(Signals)]
          /\ ~up => dbox' = dbox
          /\ proxy' \in [App -> [Uuid -> {"none", "naming", "listing"}]]
      <4>1. inbox \in [App -> Seq(Signals)]
        BY DEF TypeOK
      <4>2. CASE proxy[c][u] # "none"
        BY <1>1, <2>3, <4>2 DEF CreateProxy, TypeOK
      <4>3. CASE proxy[c][u] = "none"
        <5>1. proxy' = [proxy EXCEPT ![c][u] = "naming"] /\ Ask(c, u, inbox)
          BY <1>1, <2>3, <4>3 DEF CreateProxy
        <5>2. proxy' \in [App -> [Uuid -> {"none", "naming", "listing"}]]
          BY <2>1, <5>1 DEF TypeOK
        <5> QED BY <2>1, <4>1, <5>1, <5>2, AskTyped
      <4> QED BY <4>2, <4>3
    <3>3. todo[c] # <<>> /\ phase[c] = "on"
      BY <1>1 DEF CreateProxy
    <3> HIDE DEF u
    <3>4. \A d \in App : watching'[d] # None =>
             phase'[d] = "on" /\ todo'[d] # <<>> /\ watching'[d] = Head(todo'[d])
      BY <2>1, <3>1, <3>3 DEF u, TypeOK
    <3> QED BY <2>1, <3>1, <3>2, <3>4 DEF TypeOK, daemon, story
  <2> QED BY <2>2, <2>3
<1>2. CASE AddWatch(c)
  <2>1. watching[c] \in Uuid /\ todo[c] # <<>>
    BY <1>2 DEF AddWatch, TypeOK
  <2>2. matches' \in [App -> [Uuid -> Nat]]
    BY <1>2, <2>1 DEF AddWatch, TypeOK
  <2> QED BY <1>0, <1>2, <2>1, <2>2 DEF AddWatch, TypeOK, daemon, story
<1> QED BY <1>1, <1>2

(* What an application finds at the head of its queue.                     *)
LEMMA GetsTyped ==
  ASSUME TypeOK, NEW c \in App, NEW w, Gets(c, w)
  PROVE  /\ phase[c] = "on" /\ todo[c] = <<>> /\ watching[c] = None
         /\ inbox[c] \in Seq(Signals) /\ inbox[c] # <<>>
         /\ Head(inbox[c]).u \in Uuid
         /\ Head(inbox[c]) = [what |-> w, u |-> Head(inbox[c]).u]
         /\ Rest(c) \in [App -> Seq(Signals)] /\ Rest(c)[c] = Tail(inbox[c])
         /\ \A d \in App \ {c} : Rest(c)[d] = inbox[d]
         /\ UNCHANGED <<daemon, phase, watching, story, events>>
<1>1. inbox[c] \in Seq(Signals) /\ inbox[c] # <<>>
  BY DEF TypeOK, Gets
<1>2. Head(inbox[c]) \in Signals /\ Tail(inbox[c]) \in Seq(Signals)
  BY <1>1, HeadTailProperties
<1>3. Head(inbox[c]) = [what |-> w, u |-> Head(inbox[c]).u]
      /\ Head(inbox[c]).u \in Uuid
  BY <1>2 DEF Gets, Signals
<1>4. phase[c] = "on" /\ todo[c] = <<>>
  BY DEF Gets, Blocked
<1>5. watching[c] = None
  BY <1>4 DEF TypeOK
<1>6. /\ Rest(c) \in [App -> Seq(Signals)] /\ Rest(c)[c] = Tail(inbox[c])
      /\ \A d \in App \ {c} : Rest(c)[d] = inbox[d]
  BY <1>2 DEF Rest, TypeOK
<1> QED BY <1>1, <1>3, <1>4, <1>5, <1>6 DEF Gets

LEMMA GettingTyped ==
  ASSUME TypeOK, NEW c \in App,
         OnHello(c) \/ OnGone(c) \/ GotName(c) \/ GotPropLists(c)
  PROVE  TypeOK'
<1> DEFINE u == Head(inbox[c]).u
<1>0. ASSUME NEW w, Gets(c, w)
      PROVE  /\ u \in Uuid /\ Rest(c) \in [App -> Seq(Signals)]
             /\ watching[c] = None /\ todo[c] = <<>> /\ phase[c] = "on"
             /\ UNCHANGED <<daemon, phase, watching, story, events>>
  BY <1>0, GetsTyped
<1>1. CASE OnHello(c)
  <2>1. /\ u \in Uuid /\ Rest(c) \in [App -> Seq(Signals)]
        /\ watching[c] = None /\ phase[c] = "on"
        /\ UNCHANGED <<daemon, phase, watching, story, events>>
    BY <1>0, <1>1 DEF OnHello
  <2>2. <<u>> \in Seq(Uuid)
    BY <2>1
  <2>3. todo' = [todo EXCEPT ![c] = <<u>>]
    BY <1>1 DEF OnHello
  <2>4. inbox' = Rest(c) /\ UNCHANGED <<dbox, proxy, registry, matches>>
    BY <1>1 DEF OnHello
  <2> HIDE DEF u
  <2>5. todo' \in [App -> Seq(Uuid)]
    BY <2>2, <2>3 DEF TypeOK
  <2>6. \A d \in App : watching'[d] # None => d # c
    BY <2>1
  <2>7. \A d \in App : d # c => todo'[d] = todo[d]
    BY <2>3 DEF TypeOK
  <2> QED BY <2>1, <2>4, <2>5, <2>6, <2>7 DEF TypeOK, daemon, story
<1>2. CASE OnGone(c)
  <2>1. /\ u \in Uuid /\ Rest(c) \in [App -> Seq(Signals)]
        /\ UNCHANGED <<daemon, phase, watching, story, events>>
    BY <1>0, <1>2 DEF OnGone
  <2>2. matches' \in [App -> [Uuid -> Nat]]
    <3>1. matches[c][u] \in Nat
      BY <2>1 DEF TypeOK
    <3>2. (IF matches[c][u] = 0 THEN 0 ELSE matches[c][u] - 1) \in Nat
      BY <3>1
    <3> QED BY <1>2, <2>1, <3>2 DEF OnGone, TypeOK
  <2>3. registry' \in [App -> SUBSET Uuid]
    BY <1>2 DEF OnGone, TypeOK
  <2> QED BY <1>2, <2>1, <2>2, <2>3 DEF OnGone, TypeOK, daemon, story
<1>3. CASE GotName(c)
  <2>1. /\ u \in Uuid /\ Rest(c) \in [App -> Seq(Signals)]
        /\ UNCHANGED <<daemon, phase, watching, story, events>>
    BY <1>0, <1>3 DEF GotName
  <2>2. proxy' = [proxy EXCEPT ![c][u] = "listing"] /\ Ask(c, u, Rest(c))
    BY <1>3 DEF GotName
  <2>3. /\ dbox' \in Seq(Calls) /\ inbox' \in [App -> Seq(Signals)]
        /\ ~up => dbox' = dbox
    BY <2>1, <2>2, AskTyped
  <2>4. proxy' \in [App -> [Uuid -> {"none", "naming", "listing"}]]
    BY <2>1, <2>2 DEF TypeOK
  <2> QED BY <1>3, <2>1, <2>3, <2>4 DEF GotName, TypeOK, daemon, story
<1>4. CASE GotPropLists(c)
  <2>1. /\ u \in Uuid /\ Rest(c) \in [App -> Seq(Signals)]
        /\ UNCHANGED <<daemon, phase, watching, story, events>>
    BY <1>0, <1>4 DEF GotPropLists
  <2>2. /\ proxy' = [proxy EXCEPT ![c][u] = "none"]
        /\ registry' = [registry EXCEPT ![c] = @ \cup {u}]
    BY <1>4 DEF GotPropLists
  <2>3. /\ proxy' \in [App -> [Uuid -> {"none", "naming", "listing"}]]
        /\ registry' \in [App -> SUBSET Uuid]
    BY <2>1, <2>2 DEF TypeOK
  <2> QED BY <1>4, <2>1, <2>3 DEF GotPropLists, TypeOK, daemon, story
<1> QED BY <1>1, <1>2, <1>3, <1>4

LEMMA ApplicationTyped ==
  ASSUME TypeOK, NEW c \in App, SetActive(c) \/ Exit(c) PROVE TypeOK'
<1>0. events < MaxEvents /\ events' = events + 1 => events' \in 0 .. MaxEvents
  BY DiscoveryConstants DEF TypeOK
<1>1. CASE SetActive(c)
  <2>1. dbox' \in Seq(Calls) /\ (~up => dbox' = dbox)
    <3>1. PICK u \in registry[c], w \in {"activate", "deactivate"} :
             dbox' = IF u \in exts THEN Append(dbox, Asked(c, u, w)) ELSE dbox
      BY <1>1 DEF SetActive
    <3>2. Append(dbox, Asked(c, u, w)) \in Seq(Calls)
      BY Messages, AppendProperties DEF TypeOK
    <3> QED BY <3>1, <3>2 DEF TypeOK
  <2>2. events' \in 0 .. MaxEvents
    BY <1>0, <1>1 DEF SetActive, Happens
  <2> QED BY <1>1, <2>1, <2>2 DEF SetActive, TypeOK, daemon, client, story
<1>2. CASE Exit(c)
  <2>1. Append(dbox, Exited(c)) \in Seq(Calls)
    BY AppendProperties DEF TypeOK, Calls
  <2>2. events' \in 0 .. MaxEvents
    BY <1>0, <1>2 DEF Exit, Happens
  <2>3. <<>> \in Seq(Uuid) /\ <<>> \in Seq(Signals)
    OBVIOUS
  <2>4. dbox' \in Seq(Calls) /\ (~up => dbox' = <<>>)
    BY <1>2, <2>1 DEF Exit, TypeOK
  <2> QED BY <1>2, <2>2, <2>3, <2>4 DEF Exit, TypeOK, daemon, story
<1> QED BY <1>1, <1>2

LEMMA NextTyped == TypeOK /\ [Next]_vars => TypeOK'
<1> SUFFICES ASSUME TypeOK, [Next]_vars PROVE TypeOK'
  OBVIOUS
<1>1. CASE UNCHANGED vars
  BY <1>1 DEF vars, daemon, client, story, TypeOK
<1>2. CASE Next
  BY <1>2, ExtensionsTyped, CrashTyped, DaemonTyped, ApplicationInitTyped,
     ProxyTyped, GettingTyped, ApplicationTyped
  DEF Next, MainLoop
<1> QED BY <1>1, <1>2

(* The state keeps its types: what is on its way has been sent to somebody *)
(* who can be asked, an application waits for a match rule only for the    *)
(* name it is working at, a daemon that is down knows and exports nothing. *)
THEOREM TypeCorrect == Spec => []TypeOK
<1>1. Init => TypeOK BY InitTyped
<1>2. TypeOK /\ [Next]_vars => TypeOK' BY NextTyped
<1> QED BY <1>1, <1>2, PTL DEF Spec

-----------------------------------------------------------------------------
(* Which extensions are in use.                                            *)

Users(u) == {c \in App : u \in activators[c]}

(* The count is that of the users, and the extension active while it is    *)
(* not zero.                                                               *)
Counted ==
  \A u \in Uuid : /\ refcount[u] = Cardinality(Users(u))
                  /\ u \in active <=> refcount[u] > 0

(* The daemon watches every application that uses something, and has been  *)
(* told when one it watches has exited.                                    *)
Watched ==
  \A c \in App :
    /\ activators[c] # {} => c \in dwatch
    /\ phase[c] = "exited" /\ c \in dwatch =>
         \/ \E k \in DOMAIN dbox : dbox[k] = Exited(c)
         \/ c \in ghosts

LEMMA FewUsers ==
  ASSUME NEW u PROVE IsFiniteSet(Users(u)) /\ Cardinality(Users(u)) \in Nat
<1>1. Users(u) \in SUBSET App BY DEF Users
<1> QED BY <1>1, DiscoveryConstants, FS_Subset, FS_CardinalityType

(* Nothing of it changes.                                                  *)
LEMMA SameUse ==
  ASSUME Counted, UNCHANGED <<activators, refcount, active>> PROVE Counted'
BY DEF Counted, Users

(* An application gives up some extensions, those it has not activated too. *)
LEMMA UnregisteredCounted ==
  ASSUME TypeOK, Counted, NEW c \in App, NEW us \in SUBSET Uuid,
         Unregistered(c, us)
  PROVE  Counted'
<1> DEFINE held == us \cap activators[c]
<1>1. /\ activators' = [activators EXCEPT ![c] = @ \ held]
      /\ refcount' = [u \in Uuid |-> IF u \in held /\ refcount[u] > 0
                                     THEN refcount[u] - 1 ELSE refcount[u]]
      /\ active' = active \ {u \in held : refcount[u] = 1}
  BY DEF Unregistered
<1>2. activators \in [App -> SUBSET exts] /\ refcount \in [Uuid -> Nat]
  BY DEF TypeOK
<1> SUFFICES ASSUME NEW u \in Uuid
             PROVE  /\ refcount'[u] = Cardinality(Users(u)')
                    /\ u \in active' <=> refcount'[u] > 0
  BY DEF Counted
<1>3. refcount[u] = Cardinality(Users(u)) /\ (u \in active <=> refcount[u] > 0)
      /\ refcount[u] \in Nat
  BY <1>2 DEF Counted
<1>4. CASE u \in held
  <2>1. c \in Users(u) /\ Users(u)' = Users(u) \ {c}
    BY <1>1, <1>2, <1>4 DEF Users
  <2>2. Cardinality(Users(u)') = Cardinality(Users(u)) - 1
    BY <2>1, FewUsers, FS_RemoveElement
  <2>3. Cardinality(Users(u)') \in Nat
    BY <2>1, FewUsers, FS_RemoveElement, FS_CardinalityType
  <2>4. refcount[u] > 0
    BY <1>3, <2>2, <2>3
  <2>5. refcount'[u] = refcount[u] - 1
    BY <1>1, <1>4, <2>4
  <2>6. u \in active' <=> u \in active /\ refcount[u] # 1
    BY <1>1, <1>4
  <2> QED BY <1>3, <2>2, <2>4, <2>5, <2>6
<1>5. CASE u \notin held
  <2>1. Users(u)' = Users(u)
    BY <1>1, <1>2, <1>5 DEF Users
  <2>2. refcount'[u] = refcount[u] /\ (u \in active' <=> u \in active)
    BY <1>1, <1>5
  <2> QED BY <1>3, <2>1, <2>2
<1> QED BY <1>4, <1>5

LEMMA ActivateCounted ==
  ASSUME TypeOK, Counted, HandleActivate PROVE Counted'
<1> DEFINE c == Head(dbox).app
           e == Head(dbox).u
<1>1. c \in App /\ e \in Uuid
  BY ReadTyped, CallTyped DEF HandleActivate
<1>2. CASE UNCHANGED <<activators, refcount, active>>
  BY <1>2, SameUse
<1>3. CASE /\ active' = active \cup {e}
           /\ activators' = [activators EXCEPT ![c] = @ \cup {e}]
           /\ refcount' = [refcount EXCEPT ![e] =
                             IF e \in activators[c] THEN @ ELSE @ + 1]
  <2> HIDE DEF c, e
  <2>1. activators \in [App -> SUBSET exts] /\ refcount \in [Uuid -> Nat]
    BY DEF TypeOK
  <2> SUFFICES ASSUME NEW u \in Uuid
               PROVE  /\ refcount'[u] = Cardinality(Users(u)')
                      /\ u \in active' <=> refcount'[u] > 0
    BY DEF Counted
  <2>2. refcount[u] = Cardinality(Users(u)) /\ (u \in active <=> refcount[u] > 0)
        /\ refcount[u] \in Nat
    BY <2>1 DEF Counted
  <2>3. CASE u = e
    <3>1. Users(u)' = Users(u) \cup {c}
      BY <1>1, <1>3, <2>1, <2>3 DEF Users
    <3>2. c \in Users(u) <=> e \in activators[c]
      BY <1>1, <2>3 DEF Users
    <3>3. Cardinality(Users(u)') = IF c \in Users(u) THEN Cardinality(Users(u))
                                   ELSE Cardinality(Users(u)) + 1
      BY <3>1, FewUsers, FS_AddElement
    <3>4. refcount'[u] = Cardinality(Users(u)')
      BY <1>1, <1>3, <2>1, <2>2, <2>3, <3>2, <3>3
    <3>5. Cardinality(Users(u)') > 0
      <4>1. c \in Users(u)' /\ IsFiniteSet(Users(u)')
        BY <3>1, FewUsers, FS_AddElement
      <4> QED BY <4>1, FS_EmptySet, FS_CardinalityType
    <3> QED BY <1>3, <2>3, <3>4, <3>5
  <2>4. CASE u # e
    <3>1. Users(u)' = Users(u)
      BY <1>1, <1>3, <2>1, <2>4 DEF Users
    <3>2. refcount'[u] = refcount[u] /\ (u \in active' <=> u \in active)
      BY <1>1, <1>3, <2>1, <2>4
    <3> QED BY <2>2, <3>1, <3>2
  <2> QED BY <2>3, <2>4
<1> QED BY <1>2, <1>3 DEF HandleActivate

(* An extension, or the daemon, goes.                                      *)
LEMMA GoneCounted ==
  ASSUME TypeOK, Counted, Crash \/ \E u \in Uuid : Removed(u) PROVE Counted'
<1>1. CASE Crash
  <2> SUFFICES ASSUME NEW u \in Uuid
               PROVE  /\ refcount'[u] = Cardinality(Users(u)')
                      /\ u \in active' <=> refcount'[u] > 0
    BY DEF Counted
  <2>1. Users(u)' = {} /\ refcount'[u] = 0 /\ active' = {}
    BY <1>1 DEF Crash, Users
  <2> QED BY <2>1, FS_EmptySet
<1>2. ASSUME NEW e \in Uuid, Removed(e) PROVE Counted'
  <2>1. /\ activators' = [c \in App |-> activators[c] \ {e}]
        /\ refcount' = [refcount EXCEPT ![e] = 0] /\ active' = active \ {e}
        /\ refcount \in [Uuid -> Nat]
    BY <1>2 DEF Removed, TypeOK
  <2> SUFFICES ASSUME NEW u \in Uuid
               PROVE  /\ refcount'[u] = Cardinality(Users(u)')
                      /\ u \in active' <=> refcount'[u] > 0
    BY DEF Counted
  <2>2. CASE u = e
    <3>1. Users(u)' = {} /\ refcount'[u] = 0 /\ u \notin active'
      BY <2>1, <2>2 DEF Users
    <3> QED BY <3>1, FS_EmptySet
  <2>3. CASE u # e
    <3>1. Users(u)' = Users(u)
      BY <2>1, <2>3 DEF Users
    <3> QED BY <2>1, <2>3, <3>1 DEF Counted
  <2> QED BY <2>2, <2>3
<1> QED BY <1>1, <1>2

LEMMA NextCounted == TypeOK /\ Counted /\ [Next]_vars => Counted'
<1> SUFFICES ASSUME TypeOK, Counted, [Next]_vars PROVE Counted'
  OBVIOUS
<1>1. CASE UNCHANGED <<activators, refcount, active>>
  BY <1>1, SameUse
<1>2. CASE Crash \/ \E u \in Uuid : Removed(u)
  BY <1>2, GoneCounted
<1>3. CASE DaemonServes
  <2>1. CASE HandleAsk
    BY <1>1, <2>1 DEF HandleAsk
  <2>2. CASE HandleActivate
    BY <2>2, ActivateCounted
  <2>3. CASE HandleDeactivate
    BY <2>3, UnregisteredCounted, ReadTyped, CallTyped DEF HandleDeactivate
  <2>4. CASE _handle_client_exits
    BY <2>4, UnregisteredCounted, ReadTyped, CallTyped DEF _handle_client_exits
  <2> QED BY <1>3, <2>1, <2>2, <2>3, <2>4 DEF DaemonServes
<1>4. CASE \/ UNCHANGED vars \/ Start \/ \E u \in Uuid : Added(u)
           \/ \E c \in App : InitMatch(c) \/ MainLoop(c) \/ SetActive(c) \/ Exit(c)
  <2>1. UNCHANGED <<activators, refcount, active>>
    BY <1>4 DEF vars, Start, Added, InitMatch, MainLoop, InitList, CreateProxy,
                AddWatch, OnHello, OnGone, GotName, GotPropLists, Gets,
                SetActive, Exit, daemon
  <2> QED BY <1>1, <2>1
<1> QED BY <1>2, <1>3, <1>4 DEF Next

(* The queue of the daemon: what is read is the head, the rest stays.      *)
LEMMA StillComing ==
  ASSUME TypeOK, NEW m,
         \/ dbox' = dbox
         \/ \E x \in Calls : dbox' = Append(dbox, x)
         \/ dbox # <<>> /\ dbox' = Tail(dbox) /\ Head(dbox) # m,
         \E k \in DOMAIN dbox : dbox[k] = m
  PROVE  \E k \in DOMAIN dbox' : dbox'[k] = m
<1>0. dbox \in Seq(Calls)
  BY DEF TypeOK
<1>1. PICK k \in 1 .. Len(dbox) : dbox[k] = m
  BY <1>0
<1>2. CASE \E x \in Calls : dbox' = Append(dbox, x)
  <2>1. Len(dbox') = Len(dbox) + 1 /\ dbox' \in Seq(Calls) /\ dbox'[k] = dbox[k]
    BY <1>0, <1>2, AppendProperties
  <2>2. k \in DOMAIN dbox'
    BY <1>0, <2>1
  <2> QED BY <1>1, <2>1, <2>2
<1>3. CASE dbox # <<>> /\ dbox' = Tail(dbox) /\ Head(dbox) # m
  <2>1. k # 1 /\ k - 1 \in 1 .. Len(dbox) - 1
    BY <1>0, <1>1, <1>3
  <2>2. /\ dbox' \in Seq(Calls) /\ Len(dbox') = Len(dbox) - 1
        /\ \A i \in 1 .. Len(dbox') : dbox'[i] = dbox[i + 1]
    BY <1>0, <1>3, HeadTailProperties
  <2>3. dbox'[k - 1] = dbox[k] /\ k - 1 \in DOMAIN dbox'
    BY <2>1, <2>2
  <2> QED BY <1>1, <2>3
<1> QED BY <1>1, <1>2, <1>3

LEMMA UnregisteredWatched ==
  ASSUME TypeOK, Watched, NEW c \in App, NEW us \in SUBSET Uuid,
         NEW w, Reads(w), Head(dbox).app = c, w = "exit" => us = Uuid,
         Unregistered(c, us), UNCHANGED ghosts
  PROVE  Watched'
<1>1. activators' = [activators EXCEPT ![c] = @ \ (us \cap activators[c])]
      /\ activators \in [App -> SUBSET exts] /\ exts \subseteq Uuid
  BY DEF Unregistered, TypeOK
<1>2. dwatch' = IF activators'[c] = {} THEN dwatch \ {c} ELSE dwatch
  BY DEF Unregistered
<1>3. phase' = phase /\ ghosts' = ghosts /\ dbox # <<>> /\ dbox' = Tail(dbox)
  BY DEF Reads, client
<1>4. \A d \in App : activators'[d] # {} => d \in dwatch'
  BY <1>1, <1>2 DEF Watched
<1>5. ASSUME NEW d \in App, phase[d] = "exited", d \in dwatch', d \notin ghosts
      PROVE  \E k \in DOMAIN dbox' : dbox'[k] = Exited(d)
  <2>1. \E k \in DOMAIN dbox : dbox[k] = Exited(d)
    BY <1>2, <1>5 DEF Watched
  <2>2. Head(dbox) # Exited(d)
    <3>1. CASE w = "exit"
      <4>1. activators'[c] = {}
        BY <1>1, <3>1
      <4>2. d # c
        BY <1>2, <1>5, <4>1
      <4> QED BY <4>2 DEF Exited
    <3>2. CASE w # "exit"
      BY <3>2 DEF Reads, Exited
    <3> QED BY <3>1, <3>2
  <2> QED BY <1>3, <2>1, <2>2, StillComing
<1> QED BY <1>3, <1>4, <1>5 DEF Watched

LEMMA ActivateWatched ==
  ASSUME TypeOK, Watched, HandleActivate PROVE Watched'
<1> DEFINE c == Head(dbox).app
           e == Head(dbox).u
<1>1. c \in App /\ dbox # <<>> /\ dbox' = Tail(dbox) /\ phase' = phase
      /\ \A d : Head(dbox) # Exited(d)
  BY ReadTyped, CallTyped DEF HandleActivate, Reads, client, Exited
<1>2. \A d \in App : (\E k \in DOMAIN dbox : dbox[k] = Exited(d))
                       => \E k \in DOMAIN dbox' : dbox'[k] = Exited(d)
  BY <1>1, StillComing
<1>3. CASE UNCHANGED <<activators, refcount, active, dwatch, ghosts>>
  BY <1>1, <1>2, <1>3 DEF Watched
<1>4. CASE /\ activators' = [activators EXCEPT ![c] = @ \cup {e}]
           /\ dwatch' = dwatch \cup {c}
           /\ ghosts' = IF phase[c] = "exited" /\ c \notin dwatch
                        THEN ghosts \cup {c} ELSE ghosts
  <2> HIDE DEF c, e
  <2>1. \A d \in App : activators'[d] # {} => d \in dwatch'
    BY <1>4 DEF Watched, TypeOK
  <2>2. ASSUME NEW d \in App, phase[d] = "exited", d \in dwatch', d \notin ghosts'
        PROVE  \E k \in DOMAIN dbox' : dbox'[k] = Exited(d)
    BY <1>2, <1>4, <2>2 DEF Watched
  <2> QED BY <1>1, <2>1, <2>2 DEF Watched
<1> QED BY <1>3, <1>4 DEF HandleActivate

LEMMA NextWatched == TypeOK /\ Watched /\ [Next]_vars => Watched'
<1> SUFFICES ASSUME TypeOK, Watched, [Next]_vars PROVE Watched'
  OBVIOUS
<1>1. CASE DaemonServes
  <2>1. CASE HandleAsk
    <3>1. /\ UNCHANGED <<activators, dwatch, phase, ghosts>>
          /\ dbox # <<>> /\ dbox' = Tail(dbox)
          /\ \A d : Head(dbox) # Exited(d)
      BY <2>1 DEF HandleAsk, Reads, client, Exited
    <3>2. \A d \in App : (\E k \in DOMAIN dbox : dbox[k] = Exited(d))
                           => \E k \in DOMAIN dbox' : dbox'[k] = Exited(d)
      BY <3>1, StillComing
    <3> QED BY <3>1, <3>2 DEF Watched
  <2>2. CASE HandleActivate
    BY <2>2, ActivateWatched
  <2>3. CASE HandleDeactivate
    BY <2>3, UnregisteredWatched, ReadTyped, CallTyped DEF HandleDeactivate
  <2>4. CASE _handle_client_exits
    BY <2>4, UnregisteredWatched, ReadTyped, CallTyped DEF _handle_client_exits
  <2> QED BY <1>1, <2>1, <2>2, <2>3, <2>4 DEF DaemonServes
<1>2. CASE Crash
  BY <1>2 DEF Crash, Watched
<1>3. ASSUME NEW u \in Uuid, Removed(u) PROVE Watched'
  BY <1>3 DEF Removed, Watched, client, TypeOK
<1>4. ASSUME NEW c \in App, Exit(c) PROVE Watched'
  <2>1. /\ UNCHANGED <<activators, dwatch, ghosts>>
        /\ phase' = [phase EXCEPT ![c] = "exited"]
        /\ dbox' = IF c \in dwatch THEN Append(dbox, Exited(c)) ELSE dbox
    BY <1>4 DEF Exit, daemon, story
  <2>2. Exited(c) \in Calls
    BY DEF Calls
  <2>3. ASSUME NEW d \in App, phase'[d] = "exited", d \in dwatch, d \notin ghosts
        PROVE  \E k \in DOMAIN dbox' : dbox'[k] = Exited(d)
    <3>1. CASE d = c
      <4>1. dbox' = Append(dbox, Exited(c)) /\ dbox \in Seq(Calls)
        BY <2>1, <2>3, <3>1 DEF TypeOK
      <4>2. dbox'[Len(dbox) + 1] = Exited(c) /\ Len(dbox) + 1 \in DOMAIN dbox'
        BY <2>2, <4>1, AppendProperties
      <4> QED BY <3>1, <4>2
    <3>2. CASE d # c
      <4>1. phase[d] = "exited"
        BY <2>1, <2>3, <3>2 DEF TypeOK
      <4>2. \E k \in DOMAIN dbox : dbox[k] = Exited(d)
        BY <2>3, <4>1 DEF Watched
      <4> QED BY <2>1, <2>2, <4>2, StillComing
    <3> QED BY <3>1, <3>2
  <2> QED BY <2>1, <2>3 DEF Watched
<1>5. CASE \/ UNCHANGED vars \/ Start \/ \E u \in Uuid : Added(u)
           \/ \E c \in App : InitMatch(c) \/ MainLoop(c) \/ SetActive(c)
  <2>1. UNCHANGED <<activators, dwatch, ghosts>>
    BY <1>5 DEF vars, Start, Added, InitMatch, MainLoop, InitList, CreateProxy,
                AddWatch, OnHello, OnGone, GotName, GotPropLists, Gets,
                SetActive, daemon, story
  <2>2. \A d \in App : phase'[d] = "exited" => phase[d] = "exited"
    <3>1. \/ phase' = phase
          \/ \E c \in App : \/ phase' = [phase EXCEPT ![c] = "matched"]
                            \/ phase' = [phase EXCEPT ![c] = "on"]
      BY <1>5 DEF vars, Start, Added, InitMatch, MainLoop, InitList, CreateProxy,
                  AddWatch, OnHello, OnGone, GotName, GotPropLists, Gets,
                  SetActive, client
    <3> QED BY <3>1 DEF TypeOK
  <2>3. \/ dbox' = dbox
        \/ \E x \in Calls : dbox' = Append(dbox, x)
    <3>1. ASSUME NEW c \in App, NEW u \in Uuid, NEW box, Ask(c, u, box)
          PROVE  dbox' = dbox \/ \E x \in Calls : dbox' = Append(dbox, x)
      BY <3>1, Messages DEF Ask
    <3>2. ASSUME NEW c \in App, CreateProxy(c)
          PROVE  dbox' = dbox \/ \E x \in Calls : dbox' = Append(dbox, x)
      <4>1. Head(todo[c]) \in Uuid
        BY <3>2, HeadTailProperties DEF CreateProxy, TypeOK
      <4>2. dbox' = dbox \/ Ask(c, Head(todo[c]), inbox)
        BY <3>2, Zenon DEF CreateProxy
      <4> QED BY <3>1, <4>1, <4>2
    <3>3. ASSUME NEW c \in App, GotName(c)
          PROVE  dbox' = dbox \/ \E x \in Calls : dbox' = Append(dbox, x)
      BY <3>1, <3>3, GetsTyped DEF GotName
    <3>4. ASSUME NEW c \in App, SetActive(c)
          PROVE  dbox' = dbox \/ \E x \in Calls : dbox' = Append(dbox, x)
      <4>1. PICK u \in registry[c], w \in {"activate", "deactivate"} :
              dbox' = IF u \in exts THEN Append(dbox, Asked(c, u, w)) ELSE dbox
        BY <3>4 DEF SetActive
      <4>2. Asked(c, u, w) \in Calls
        BY Messages DEF TypeOK
      <4> QED BY <4>1, <4>2
    <3>5. CASE \/ UNCHANGED vars \/ Start \/ \E u \in Uuid : Added(u)
               \/ \E c \in App : \/ InitMatch(c) \/ InitList(c) \/ AddWatch(c)
                                 \/ OnHello(c) \/ OnGone(c) \/ GotPropLists(c)
      BY <3>5 DEF vars, Start, Added, InitMatch, InitList, AddWatch, OnHello,
                  OnGone, GotPropLists
    <3> QED BY <1>5, <3>2, <3>3, <3>4, <3>5 DEF MainLoop
  <2>4. \A d \in App : (\E k \in DOMAIN dbox : dbox[k] = Exited(d))
                         => \E k \in DOMAIN dbox' : dbox'[k] = Exited(d)
    BY <2>3, StillComing
  <2> QED BY <2>1, <2>2, <2>4 DEF Watched
<1> QED BY <1>1, <1>2, <1>3, <1>4, <1>5 DEF Next

(* The use count of an extension is the number of applications that have   *)
(* activated it, each counted once, and the extension is active while it   *)
(* is not zero; what an application had activated is given up when it      *)
(* exits, unless it had exited before its request was handled.             *)
THEOREM ActiveWhileActivated == Spec => []ActiveIfActivated
<1>1. Init => TypeOK /\ Counted /\ Watched
  <2> SUFFICES ASSUME Init PROVE Counted /\ Watched
    BY InitTyped
  <2>1. \A u \in Uuid : Users(u) = {}
    BY DEF Init, Users
  <2>2. Counted
    <3>1. \A u \in Uuid : Cardinality(Users(u)) = 0
      BY <2>1, FS_EmptySet
    <3> QED BY <3>1 DEF Init, Counted
  <2>3. Watched
    BY DEF Init, Watched
  <2> QED BY <2>2, <2>3
<1>2. TypeOK /\ Counted /\ Watched /\ [Next]_vars
      => (TypeOK /\ Counted /\ Watched)'
  BY NextTyped, NextCounted, NextWatched
<1>3. TypeOK /\ Counted /\ Watched => ActiveIfActivated
  BY DEF Counted, Watched, ActiveIfActivated, Users
<1> QED BY <1>1, <1>2, <1>3, PTL DEF Spec

-----------------------------------------------------------------------------
(* Word of what has left.                                                  *)

(* What an application that knew u well when it left knows of it: it will  *)
(* be told, and until then nothing makes it take u for new.                *)
Leaving(c, u) ==
  /\ proxy[c][u] = "none"
  /\ u \in registry[c] => Coming(c, Gone(u))
  /\ (\E k \in DOMAIN todo[c] : todo[c][k] = u) => u \in registry[c]
  /\ \A k \in DOMAIN inbox[c] : inbox[c][k] = Hello(u) =>
       u \in registry[c] /\ \A j \in 1 .. k - 1 : inbox[c][j] # Gone(u)

Informed ==
  /\ \A c \in App : registry[c] # {} => phase[c] = "on"
  /\ \A c \in App, u \in Uuid : proxy[c][u] # "none" => u \notin registry[c]
  /\ \A c \in App, u \in Uuid : u \in exts \/ u \in hasty[c] \/ Leaving(c, u)

LEMMA InformedInit == Init => Informed
BY DEF Init, Informed, Leaving

(* More comes to the end of the queue, and no hello of u.                  *)
LEMMA LeavingMore ==
  ASSUME TypeOK, TypeOK', NEW c \in App, NEW u \in Uuid, Leaving(c, u),
         proxy'[c][u] = proxy[c][u], u \in registry'[c] <=> u \in registry[c],
         todo'[c] = todo[c], Len(inbox[c]) <= Len(inbox'[c]),
         \A k \in 1 .. Len(inbox[c]) : inbox'[c][k] = inbox[c][k],
         \A k \in Len(inbox[c]) + 1 .. Len(inbox'[c]) : inbox'[c][k] # Hello(u)
  PROVE  Leaving(c, u)'
<1>1. /\ inbox[c] \in Seq(Signals) /\ inbox'[c] \in Seq(Signals)
      /\ Len(inbox[c]) \in Nat /\ Len(inbox'[c]) \in Nat
      /\ DOMAIN inbox[c] = 1 .. Len(inbox[c])
      /\ DOMAIN inbox'[c] = 1 .. Len(inbox'[c])
  BY DEF TypeOK
<1>2. u \in registry'[c] => Coming(c, Gone(u))'
  <2> SUFFICES ASSUME u \in registry'[c]
               PROVE  \E k \in DOMAIN inbox'[c] : inbox'[c][k] = Gone(u)
    BY DEF Coming
  <2>1. PICK k \in DOMAIN inbox[c] : inbox[c][k] = Gone(u)
    BY DEF Leaving, Coming
  <2>2. k \in DOMAIN inbox'[c] /\ inbox'[c][k] = Gone(u)
    BY <1>1, <2>1
  <2> QED BY <2>2
<1>3. ASSUME NEW k \in DOMAIN inbox'[c], inbox'[c][k] = Hello(u)
      PROVE  u \in registry'[c] /\ \A j \in 1 .. k - 1 : inbox'[c][j] # Gone(u)
  <2>1. k \in DOMAIN inbox[c] /\ inbox[c][k] = Hello(u)
    BY <1>1, <1>3
  <2>2. u \in registry[c] /\ \A j \in 1 .. k - 1 : inbox[c][j] # Gone(u)
    BY <2>1 DEF Leaving
  <2>3. \A j \in 1 .. k - 1 : inbox'[c][j] = inbox[c][j]
    BY <1>1, <2>1
  <2> QED BY <2>2, <2>3
<1> QED BY <1>2, <1>3 DEF Leaving

(* The head of the queue, neither a hello nor the loss of u, is read.      *)
LEMMA LeavingRead ==
  ASSUME TypeOK, NEW c \in App, NEW u \in Uuid, Leaving(c, u),
         proxy'[c][u] = proxy[c][u], u \in registry'[c] <=> u \in registry[c],
         todo'[c] = todo[c], inbox[c] # <<>>, inbox'[c] = Tail(inbox[c]),
         Head(inbox[c]) # Gone(u)
  PROVE  Leaving(c, u)'
<1>1. inbox[c] \in Seq(Signals) /\ Len(inbox[c]) \in Nat
      /\ DOMAIN inbox[c] = 1 .. Len(inbox[c])
  BY DEF TypeOK
<1>2. /\ inbox'[c] \in Seq(Signals) /\ Len(inbox'[c]) = Len(inbox[c]) - 1
      /\ \A k \in 1 .. Len(inbox'[c]) : inbox'[c][k] = inbox[c][k + 1]
      /\ Head(inbox[c]) = inbox[c][1]
  BY <1>1, HeadTailProperties
<1>3. DOMAIN inbox'[c] = 1 .. Len(inbox'[c])
  BY <1>2
<1>4. u \in registry'[c] => Coming(c, Gone(u))'
  <2> SUFFICES ASSUME u \in registry'[c]
               PROVE  \E k \in DOMAIN inbox'[c] : inbox'[c][k] = Gone(u)
    BY DEF Coming
  <2>1. PICK k \in DOMAIN inbox[c] : inbox[c][k] = Gone(u)
    BY DEF Leaving, Coming
  <2>2. k # 1
    BY <1>2, <2>1
  <2>3. k - 1 \in DOMAIN inbox'[c] /\ inbox'[c][k - 1] = Gone(u)
    BY <1>1, <1>2, <1>3, <2>1, <2>2
  <2> QED BY <2>3
<1>5. ASSUME NEW k \in DOMAIN inbox'[c], inbox'[c][k] = Hello(u)
      PROVE  u \in registry'[c] /\ \A j \in 1 .. k - 1 : inbox'[c][j] # Gone(u)
  <2>1. k + 1 \in DOMAIN inbox[c] /\ inbox[c][k + 1] = Hello(u)
    BY <1>1, <1>2, <1>3, <1>5
  <2>2. u \in registry[c] /\ \A j \in 1 .. k : inbox[c][j] # Gone(u)
    BY <1>3, <2>1 DEF Leaving
  <2>3. \A j \in 1 .. k - 1 : inbox'[c][j] = inbox[c][j + 1] /\ j + 1 \in 1 .. k
    BY <1>1, <1>2, <1>3
  <2> QED BY <2>2, <2>3
<1> QED BY <1>4, <1>5 DEF Leaving

(* u is lost: who knew it well will be told.                               *)
LEMMA LostLeaves ==
  ASSUME TypeOK, TypeOK', Informed, NEW c \in App, NEW u \in Uuid,
         NEW us \in SUBSET Uuid, NEW calls, NamesLost(us, calls),
         UNCHANGED <<proxy, registry, todo>>,
         u \in us \/ u \notin exts, u \notin hasty'[c]
  PROVE  Leaving(c, u)'
<1>1. /\ inbox'[c] \in Seq(Signals)
      /\ Len(inbox[c]) <= Len(inbox'[c])
      /\ \A k \in 1 .. Len(inbox[c]) : inbox'[c][k] = inbox[c][k]
      /\ \A k \in Len(inbox[c]) + 1 .. Len(inbox'[c]), v \in Uuid :
           inbox'[c][k] # Hello(v)
      /\ \A v \in Lost(c, us) :
           \E k \in 1 .. Len(inbox'[c]) : inbox'[c][k] = Gone(v)
  BY Told
<1>2. u \notin hasty[c] /\ (u \in us => KnownWell(c, u))
  BY DEF NamesLost
<1>3. CASE u \in us
  <2>1. u \in registry[c] /\ matches[c][u] > 0 /\ ~Coming(c, Gone(u))
    BY <1>2, <1>3 DEF KnownWell
  <2>2. u \in Lost(c, us)
    BY <1>3, <2>1 DEF Informed, Lost, Live
  <2>3. proxy[c][u] = "none"
    BY <2>1 DEF Informed
  <2>4. /\ inbox[c] \in Seq(Signals)
        /\ Len(inbox[c]) \in Nat /\ Len(inbox'[c]) \in Nat
        /\ DOMAIN inbox[c] = 1 .. Len(inbox[c])
        /\ DOMAIN inbox'[c] = 1 .. Len(inbox'[c])
    BY <1>1 DEF TypeOK
  <2>5. Coming(c, Gone(u))'
    BY <1>1, <2>2, <2>4 DEF Coming
  <2>6. ASSUME NEW k \in DOMAIN inbox'[c], inbox'[c][k] = Hello(u)
        PROVE  \A j \in 1 .. k - 1 : inbox'[c][j] # Gone(u)
    <3>1. k \in 1 .. Len(inbox[c])
      BY <1>1, <2>4, <2>6
    <3>2. \A j \in 1 .. k - 1 : j \in DOMAIN inbox[c]
                               /\ inbox'[c][j] = inbox[c][j]
      BY <1>1, <2>4, <3>1
    <3> QED BY <2>1, <3>2 DEF Coming
  <2> QED BY <2>1, <2>3, <2>5, <2>6 DEF Leaving
<1>4. CASE u \notin us
  <2>1. Leaving(c, u)
    BY <1>2, <1>4 DEF Informed
  <2> QED BY <1>1, <2>1, LeavingMore
<1> QED BY <1>3, <1>4

LEMMA ExtensionsInformed ==
  ASSUME TypeOK, TypeOK', Informed,
         Crash \/ Start \/ \E u \in Uuid : Added(u) \/ Removed(u)
  PROVE  Informed'
<1>1. UNCHANGED <<phase, proxy, registry, todo>>
  BY DEF Crash, Start, Added, Removed, client
<1>2. ASSUME NEW c \in App, NEW u \in Uuid, u \notin exts', u \notin hasty'[c]
      PROVE  Leaving(c, u)'
  <2>1. CASE Crash
    <3>1. NamesLost(exts, Range(dbox)) /\ exts \in SUBSET Uuid
      BY <2>1 DEF Crash, TypeOK
    <3>2. u \in exts \/ u \notin exts
      OBVIOUS
    <3> QED BY <1>1, <1>2, <3>1, <3>2, LostLeaves
  <2>2. ASSUME NEW e \in Uuid, Removed(e) PROVE Leaving(c, u)'
    <3>1. NamesLost({e}, {}) /\ (u \in {e} \/ u \notin exts)
      BY <1>2, <2>2 DEF Removed
    <3>2. {e} \in SUBSET Uuid
      OBVIOUS
    <3> QED BY <1>1, <1>2, <3>1, <3>2, LostLeaves
  <2>3. CASE Start
    <3>1. Leaving(c, u) /\ inbox' = inbox
      BY <1>2, <2>3 DEF Start, Informed, story
    <3> QED BY <1>1, <3>1 DEF Leaving, Coming
  <2>4. ASSUME NEW e \in Uuid, Added(e) PROVE Leaving(c, u)'
    <3>1. u # e /\ u \notin exts /\ u \notin hasty[c]
      BY <1>2, <2>4 DEF Added, TypeOK
    <3>2. Leaving(c, u)
      BY <3>1 DEF Informed
    <3>3. inbox'[c] = inbox[c] \/ inbox'[c] = Append(inbox[c], Hello(e))
      BY <2>4 DEF Added
    <3>4. Hello(e) \in Signals /\ Hello(e) # Hello(u)
      BY <3>1, Messages
    <3>5. /\ Len(inbox[c]) <= Len(inbox'[c])
          /\ \A k \in 1 .. Len(inbox[c]) : inbox'[c][k] = inbox[c][k]
          /\ \A k \in Len(inbox[c]) + 1 .. Len(inbox'[c]) :
               inbox'[c][k] # Hello(u)
      <4>1. inbox[c] \in Seq(Signals) /\ Len(inbox[c]) \in Nat
        BY DEF TypeOK
      <4> QED BY <3>3, <3>4, <4>1, AppendProperties
    <3> QED BY <1>1, <3>2, <3>5, LeavingMore
  <2> QED BY <2>1, <2>2, <2>3, <2>4
<1> QED BY <1>1, <1>2 DEF Informed

(* Everything but answers stays as it was.                                 *)
LEMMA AnswersInformed ==
  ASSUME TypeOK, TypeOK', Informed, UNCHANGED <<exts, hasty, phase, proxy, registry, todo>>,
         \A c \in App : \/ inbox'[c] = inbox[c]
                        \/ \E u \in Uuid : inbox'[c] = Append(inbox[c], Answered(u))
  PROVE  Informed'
<1>1. ASSUME NEW c \in App, NEW u \in Uuid, Leaving(c, u) PROVE Leaving(c, u)'
  <2>1. inbox[c] \in Seq(Signals) /\ Len(inbox[c]) \in Nat
    BY DEF TypeOK
  <2>2. /\ Len(inbox[c]) <= Len(inbox'[c])
        /\ \A k \in 1 .. Len(inbox[c]) : inbox'[c][k] = inbox[c][k]
        /\ \A k \in Len(inbox[c]) + 1 .. Len(inbox'[c]) :
             inbox'[c][k] # Hello(u)
    <3>1. CASE inbox'[c] = inbox[c]
      BY <2>1, <3>1
    <3>2. ASSUME NEW v \in Uuid, inbox'[c] = Append(inbox[c], Answered(v))
          PROVE  /\ Len(inbox[c]) <= Len(inbox'[c])
                 /\ \A k \in 1 .. Len(inbox[c]) : inbox'[c][k] = inbox[c][k]
                 /\ \A k \in Len(inbox[c]) + 1 .. Len(inbox'[c]) :
                      inbox'[c][k] # Hello(u)
      <4>1. Answered(v) \in Signals /\ Answered(v) # Hello(u)
        BY Messages
      <4> QED BY <2>1, <3>2, <4>1, AppendProperties
    <3> QED BY <3>1, <3>2
  <2> QED BY <1>1, <2>2, LeavingMore
<1> QED BY <1>1 DEF Informed

LEMMA DaemonInformed ==
  ASSUME TypeOK, TypeOK', Informed, DaemonServes PROVE Informed'
<1>1. UNCHANGED <<exts, hasty, phase, proxy, registry, todo>>
  BY DEF DaemonServes, HandleAsk, HandleActivate, HandleDeactivate,
         _handle_client_exits, Reads, client
<1>2. \A c \in App : \/ inbox'[c] = inbox[c]
                     \/ \E u \in Uuid : inbox'[c] = Append(inbox[c], Answered(u))
  <2>1. CASE HandleAsk
    <3>1. Head(dbox).u \in Uuid
      BY <2>1, ReadTyped, CallTyped DEF HandleAsk
    <3> QED BY <2>1, <3>1 DEF HandleAsk, TypeOK
  <2>2. CASE ~HandleAsk
    BY <2>2 DEF DaemonServes, HandleActivate, HandleDeactivate,
                _handle_client_exits
  <2> QED BY <2>1, <2>2
<1> QED BY <1>1, <1>2, AnswersInformed

(* What concerns one application only.                                     *)
LEMMA OneInformed ==
  ASSUME TypeOK, TypeOK', Informed, NEW c \in App, UNCHANGED <<exts, hasty>>,
         \A d \in App \ {c} : /\ phase'[d] = phase[d] /\ proxy'[d] = proxy[d]
                              /\ registry'[d] = registry[d]
                              /\ todo'[d] = todo[d] /\ inbox'[d] = inbox[d],
         registry'[c] # {} => phase'[c] = "on",
         \A u \in Uuid : proxy'[c][u] # "none" => u \notin registry'[c],
         \A u \in Uuid : u \notin exts /\ u \notin hasty[c] => Leaving(c, u)'
  PROVE  Informed'
<1>1. ASSUME NEW d \in App \ {c}, NEW u \in Uuid, Leaving(d, u)
      PROVE  Leaving(d, u)'
  BY <1>1 DEF Leaving, Coming
<1> QED BY <1>1 DEF Informed

LEMMA ApplicationInitInformed ==
  ASSUME TypeOK, TypeOK', Informed, NEW c \in App,
         InitMatch(c) \/ InitList(c) \/ AddWatch(c)
  PROVE  Informed'
<1>1. /\ UNCHANGED <<exts, hasty, proxy, registry, inbox>>
      /\ \A d \in App \ {c} : phase'[d] = phase[d] /\ todo'[d] = todo[d]
  BY DEF InitMatch, InitList, AddWatch, daemon, story, TypeOK
<1>2. registry[c] # {} => phase'[c] = "on"
  BY DEF InitMatch, InitList, AddWatch, Informed, TypeOK
<1>3. todo[c] \in Seq(Uuid)
  BY DEF TypeOK
<1>4. ASSUME NEW u \in Uuid, u \notin exts,
             \E k \in DOMAIN todo'[c] : todo'[c][k] = u
      PROVE  \E k \in DOMAIN todo[c] : todo[c][k] = u
  <2>1. CASE InitMatch(c)
    BY <1>4, <2>1 DEF InitMatch
  <2>2. CASE InitList(c)
    <3>1. IsFiniteSet(exts)
      BY DiscoveryConstants, FS_Subset DEF TypeOK
    <3>2. SetToSeq(exts) \in Seq(exts)
      BY <3>1, InOrder
    <3>3. todo'[c] # SetToSeq(exts)
      BY <1>4, <3>2
    <3>4. todo'[c] = todo[c]
      BY <2>2, <3>3 DEF InitList, TypeOK
    <3> QED BY <1>4, <3>4
  <2>3. CASE AddWatch(c)
    <3>1. todo'[c] = Tail(todo[c]) /\ todo[c] # <<>>
      BY <2>3 DEF AddWatch, TypeOK
    <3>2. /\ todo'[c] \in Seq(Uuid) /\ Len(todo'[c]) = Len(todo[c]) - 1
          /\ \A k \in 1 .. Len(todo'[c]) : todo'[c][k] = todo[c][k + 1]
      BY <1>3, <3>1, HeadTailProperties
    <3>3. PICK k \in 1 .. Len(todo'[c]) : todo'[c][k] = u
      BY <1>4, <3>2
    <3>4. k + 1 \in DOMAIN todo[c] /\ todo[c][k + 1] = u
      BY <1>3, <3>2, <3>3
    <3> QED BY <3>4
  <2> QED BY <2>1, <2>2, <2>3
<1>5. ASSUME NEW u \in Uuid, u \notin exts, u \notin hasty[c]
      PROVE  Leaving(c, u)'
  <2>1. Leaving(c, u)
    BY <1>5 DEF Informed
  <2> QED BY <1>1, <1>4, <1>5, <2>1 DEF Leaving, Coming
<1>6. \A u \in Uuid : proxy'[c][u] # "none" => u \notin registry'[c]
  BY <1>1 DEF Informed
<1> QED BY <1>1, <1>2, <1>5, <1>6, OneInformed

(* A call changes nothing but the queues.                                  *)
LEMMA AskLeaves ==
  ASSUME TypeOK, TypeOK', NEW c \in App, NEW v \in Uuid,
         NEW u \in Uuid, Leaving(c, u), Ask(c, v, inbox),
         proxy'[c][u] = proxy[c][u], UNCHANGED <<registry, todo>>
  PROVE  Leaving(c, u)'
<1>1. inbox[c] \in Seq(Signals) /\ Len(inbox[c]) \in Nat
  BY DEF TypeOK
<1>2. inbox'[c] = inbox[c] \/ inbox'[c] = Append(inbox[c], Answered(v))
  BY DEF Ask, TypeOK
<1>3. Answered(v) \in Signals /\ Answered(v) # Hello(u)
  BY Messages
<1>4. /\ Len(inbox[c]) <= Len(inbox'[c])
      /\ \A k \in 1 .. Len(inbox[c]) : inbox'[c][k] = inbox[c][k]
      /\ \A k \in Len(inbox[c]) + 1 .. Len(inbox'[c]) : inbox'[c][k] # Hello(u)
  BY <1>1, <1>2, <1>3, AppendProperties
<1> QED BY <1>4, LeavingMore

LEMMA CreateProxyInformed ==
  ASSUME TypeOK, TypeOK', Informed, NEW c \in App, CreateProxy(c)
  PROVE  Informed'
<1> DEFINE v == Head(todo[c])
<1>1. /\ todo[c] # <<>> /\ todo[c] \in Seq(Uuid) /\ v \in Uuid
      /\ v = todo[c][1] /\ 1 \in DOMAIN todo[c]
      /\ UNCHANGED <<exts, hasty, phase, registry>>
  BY HeadTailProperties DEF CreateProxy, TypeOK, daemon, story
<1>2. CASE v \in registry[c]
  <2>1. todo' = [todo EXCEPT ![c] = Tail(@)] /\ UNCHANGED <<proxy, inbox>>
    BY <1>2 DEF CreateProxy
  <2>2. ASSUME NEW u \in Uuid, u \notin exts, u \notin hasty[c]
        PROVE  Leaving(c, u)'
    <3>1. Leaving(c, u)
      BY <2>2 DEF Informed
    <3>2. ASSUME NEW k \in DOMAIN todo'[c], todo'[c][k] = u
          PROVE  u \in registry[c]
      <4>1. todo'[c] = Tail(todo[c])
        BY <2>1 DEF TypeOK
      <4>2. k + 1 \in DOMAIN todo[c] /\ todo[c][k + 1] = u
        BY <1>1, <3>2, <4>1, HeadTailProperties
      <4> QED BY <3>1, <4>2 DEF Leaving
    <3> QED BY <1>1, <2>1, <3>1, <3>2 DEF Leaving, Coming
  <2>3. \A d \in App \ {c} : todo'[d] = todo[d]
    BY <2>1 DEF TypeOK
  <2>4. registry'[c] # {} => phase'[c] = "on"
    BY <1>1 DEF Informed
  <2>5. \A u \in Uuid : proxy'[c][u] # "none" => u \notin registry'[c]
    BY <1>1, <2>1 DEF Informed
  <2> QED BY <1>1, <2>1, <2>2, <2>3, <2>4, <2>5, OneInformed
<1>3. CASE v \notin registry[c] /\ proxy[c][v] # "none"
  <2>1. UNCHANGED <<todo, proxy, inbox>>
    BY <1>3 DEF CreateProxy
  <2> QED BY <1>1, <2>1, AnswersInformed
<1>4. CASE v \notin registry[c] /\ proxy[c][v] = "none"
  <2>1. /\ proxy' = [proxy EXCEPT ![c][v] = "naming"] /\ Ask(c, v, inbox)
        /\ todo' = todo
    BY <1>4 DEF CreateProxy
  <2>2. \A d \in App \ {c} : proxy'[d] = proxy[d] /\ inbox'[d] = inbox[d]
    BY <2>1 DEF TypeOK, Ask
  <2>3. \A u \in Uuid \ {v} : proxy'[c][u] = proxy[c][u]
    BY <2>1 DEF TypeOK
  <2>4. ASSUME NEW u \in Uuid, u \notin exts, u \notin hasty[c]
        PROVE  Leaving(c, u)'
    <3>1. Leaving(c, u)
      BY <2>4 DEF Informed
    <3>2. u # v
      BY <1>1, <1>4, <3>1 DEF Leaving
    <3> QED BY <1>1, <2>1, <2>3, <3>1, <3>2, AskLeaves
  <2>5. registry'[c] # {} => phase'[c] = "on"
    BY <1>1 DEF Informed
  <2>6. \A u \in Uuid : proxy'[c][u] # "none" => u \notin registry'[c]
    BY <1>1, <1>4, <2>3 DEF Informed
  <2> QED BY <1>1, <2>1, <2>2, <2>4, <2>5, <2>6, OneInformed
<1> QED BY <1>2, <1>3, <1>4

LEMMA OnHelloInformed ==
  ASSUME TypeOK, TypeOK', Informed, NEW c \in App, OnHello(c) PROVE Informed'
<1> DEFINE v == Head(inbox[c]).u
<1>1. /\ v \in Uuid /\ Head(inbox[c]) = Hello(v) /\ inbox[c] # <<>>
      /\ inbox[c] \in Seq(Signals) /\ todo[c] = <<>>
      /\ inbox'[c] = Tail(inbox[c])
      /\ \A d \in App \ {c} : inbox'[d] = inbox[d]
      /\ UNCHANGED <<exts, hasty, phase, proxy, registry>>
      /\ todo' = [todo EXCEPT ![c] = <<v>>]
  BY GetsTyped DEF OnHello, daemon, story, Hello
<1>2. todo'[c] = <<v>> /\ \A d \in App \ {c} : todo'[d] = todo[d]
  BY <1>1 DEF TypeOK
<1> HIDE DEF v
<1>3. ASSUME NEW u \in Uuid, u \notin exts, u \notin hasty[c]
      PROVE  Leaving(c, u)'
  <2>1. Leaving(c, u)
    BY <1>3 DEF Informed
  <2>2. Head(inbox[c]) # Gone(u)
    BY <1>1, <1>3, Messages
  <2>3. u = v => u \in registry[c]
    <3>1. 1 \in DOMAIN inbox[c] /\ inbox[c][1] = Hello(v)
      BY <1>1
    <3> QED BY <2>1, <3>1 DEF Leaving
  <2>4. /\ u \in registry[c] => \E k \in DOMAIN inbox'[c] : inbox'[c][k] = Gone(u)
        /\ \A k \in DOMAIN inbox'[c] : inbox'[c][k] = Hello(u) =>
             u \in registry[c] /\ \A j \in 1 .. k - 1 : inbox'[c][j] # Gone(u)
    <3>1. /\ Len(inbox[c]) \in Nat /\ DOMAIN inbox[c] = 1 .. Len(inbox[c])
          /\ Len(inbox'[c]) = Len(inbox[c]) - 1
          /\ DOMAIN inbox'[c] = 1 .. Len(inbox'[c])
          /\ \A k \in 1 .. Len(inbox'[c]) : inbox'[c][k] = inbox[c][k + 1]
          /\ Head(inbox[c]) = inbox[c][1]
      BY <1>1, HeadTailProperties
    <3>2. ASSUME u \in registry[c]
          PROVE  \E k \in DOMAIN inbox'[c] : inbox'[c][k] = Gone(u)
      <4>1. PICK k \in DOMAIN inbox[c] : inbox[c][k] = Gone(u)
        BY <2>1, <3>2 DEF Leaving, Coming
      <4>2. k # 1
        BY <2>2, <3>1, <4>1
      <4>3. k - 1 \in DOMAIN inbox'[c] /\ inbox'[c][k - 1] = Gone(u)
        BY <3>1, <4>1, <4>2
      <4> QED BY <4>3
    <3>3. ASSUME NEW k \in DOMAIN inbox'[c], inbox'[c][k] = Hello(u)
          PROVE  u \in registry[c] /\ \A j \in 1 .. k - 1 : inbox'[c][j] # Gone(u)
      <4>1. k + 1 \in DOMAIN inbox[c] /\ inbox[c][k + 1] = Hello(u)
        BY <3>1, <3>3
      <4>2. u \in registry[c] /\ \A j \in 1 .. k : inbox[c][j] # Gone(u)
        BY <2>1, <3>1, <4>1 DEF Leaving
      <4>3. \A j \in 1 .. k - 1 : inbox'[c][j] = inbox[c][j + 1] /\ j + 1 \in 1 .. k
        BY <3>1
      <4> QED BY <4>2, <4>3
    <3> QED BY <3>2, <3>3
  <2>5. (\E k \in DOMAIN todo'[c] : todo'[c][k] = u) => u \in registry[c]
    BY <1>2, <2>3
  <2>6. proxy[c][u] = "none"
    BY <2>1 DEF Leaving
  <2> QED BY <1>1, <2>4, <2>5, <2>6 DEF Leaving, Coming
<1>4. registry'[c] # {} => phase'[c] = "on"
  BY <1>1 DEF Informed
<1>5. \A u \in Uuid : proxy'[c][u] # "none" => u \notin registry'[c]
  BY <1>1 DEF Informed
<1> QED BY <1>1, <1>2, <1>3, <1>4, <1>5, OneInformed

LEMMA OnGoneInformed ==
  ASSUME TypeOK, TypeOK', Informed, NEW c \in App, OnGone(c) PROVE Informed'
<1> DEFINE v == Head(inbox[c]).u
<1>1. /\ v \in Uuid /\ Head(inbox[c]) = Gone(v) /\ inbox[c] # <<>>
      /\ inbox[c] \in Seq(Signals) /\ inbox'[c] = Tail(inbox[c])
      /\ todo[c] = <<>>
      /\ \A d \in App \ {c} : inbox'[d] = inbox[d]
      /\ UNCHANGED <<exts, hasty, phase, proxy, todo>>
      /\ registry' = [registry EXCEPT ![c] = @ \ {v}]
  BY GetsTyped DEF OnGone, daemon, story, Gone
<1>2. /\ registry'[c] = registry[c] \ {v}
      /\ \A d \in App \ {c} : registry'[d] = registry[d]
  BY <1>1 DEF TypeOK
<1> HIDE DEF v
<1>3. ASSUME NEW u \in Uuid, u \notin exts, u \notin hasty[c]
      PROVE  Leaving(c, u)'
  <2>1. Leaving(c, u)
    BY <1>3 DEF Informed
  <2>2. CASE u # v
    <3>1. Head(inbox[c]) # Gone(u)
      BY <1>1, <2>2, Messages
    <3>2. u \in registry'[c] <=> u \in registry[c]
      BY <1>2, <2>2
    <3> QED BY <1>1, <2>1, <3>1, <3>2, LeavingRead
  <2>3. CASE u = v
    <3>1. /\ Len(inbox[c]) \in Nat /\ DOMAIN inbox[c] = 1 .. Len(inbox[c])
          /\ Len(inbox'[c]) = Len(inbox[c]) - 1
          /\ DOMAIN inbox'[c] = 1 .. Len(inbox'[c])
          /\ \A k \in 1 .. Len(inbox'[c]) : inbox'[c][k] = inbox[c][k + 1]
          /\ Head(inbox[c]) = inbox[c][1]
      BY <1>1, HeadTailProperties
    <3>2. \A k \in DOMAIN inbox'[c] : inbox'[c][k] # Hello(u)
      <4>1. SUFFICES ASSUME NEW k \in DOMAIN inbox'[c], inbox'[c][k] = Hello(u)
                     PROVE  FALSE
        OBVIOUS
      <4>2. k + 1 \in DOMAIN inbox[c] /\ inbox[c][k + 1] = Hello(u)
            /\ 1 \in 1 .. (k + 1) - 1
        BY <3>1, <4>1
      <4>3. inbox[c][1] # Gone(u)
        BY <2>1, <4>2 DEF Leaving
      <4> QED BY <1>1, <2>3, <3>1, <4>3
    <3>3. proxy[c][u] = "none"
      BY <2>1 DEF Leaving
    <3>4. u \notin registry'[c]
      BY <1>2, <2>3
    <3>5. todo'[c] = <<>>
      BY <1>1
    <3> QED BY <1>1, <3>2, <3>3, <3>4, <3>5 DEF Leaving
  <2> QED BY <2>2, <2>3
<1>4. registry'[c] # {} => phase'[c] = "on"
  BY <1>1, <1>2 DEF Informed
<1>5. \A u \in Uuid : proxy'[c][u] # "none" => u \notin registry'[c]
  BY <1>1, <1>2 DEF Informed
<1> QED BY <1>1, <1>2, <1>3, <1>4, <1>5, OneInformed

LEMMA GotNameInformed ==
  ASSUME TypeOK, TypeOK', Informed, NEW c \in App, GotName(c) PROVE Informed'
<1> DEFINE v == Head(inbox[c]).u
<1>1. /\ v \in Uuid /\ Head(inbox[c]) = Answered(v) /\ inbox[c] # <<>>
      /\ inbox[c] \in Seq(Signals) /\ Tail(inbox[c]) \in Seq(Signals)
      /\ Rest(c) \in [App -> Seq(Signals)] /\ Rest(c)[c] = Tail(inbox[c])
      /\ \A d \in App \ {c} : Rest(c)[d] = inbox[d]
      /\ UNCHANGED <<exts, hasty, phase, registry, todo>>
      /\ proxy[c][v] = "naming" /\ Ask(c, v, Rest(c))
      /\ proxy' = [proxy EXCEPT ![c][v] = "listing"]
  BY GetsTyped, HeadTailProperties DEF GotName, daemon, story, Answered
<1>2. /\ \A d \in App \ {c} : proxy'[d] = proxy[d]
      /\ \A u \in Uuid \ {v} : proxy'[c][u] = proxy[c][u]
  BY <1>1 DEF TypeOK
<1>3. /\ \A d \in App \ {c} : inbox'[d] = inbox[d]
      /\ \/ inbox'[c] = Tail(inbox[c])
         \/ inbox'[c] = Append(Tail(inbox[c]), Answered(v))
  BY <1>1 DEF Ask
<1>4. v \notin registry[c]
  BY <1>1 DEF Informed
<1> HIDE DEF v
<1>5. ASSUME NEW u \in Uuid, u \notin exts, u \notin hasty[c]
      PROVE  Leaving(c, u)'
  <2>1. Leaving(c, u) /\ u # v
    BY <1>1, <1>5 DEF Informed, Leaving
  <2>2. Answered(v) # Gone(u) /\ Answered(v) # Hello(u) /\ Answered(v) \in Signals
    BY <1>1, Messages
  <2>3. /\ Len(inbox[c]) \in Nat /\ DOMAIN inbox[c] = 1 .. Len(inbox[c])
        /\ Len(Tail(inbox[c])) = Len(inbox[c]) - 1
        /\ \A k \in 1 .. Len(Tail(inbox[c])) : Tail(inbox[c])[k] = inbox[c][k + 1]
        /\ Head(inbox[c]) = inbox[c][1]
    BY <1>1, HeadTailProperties
  <2>4. /\ inbox'[c] \in Seq(Signals) /\ Len(inbox'[c]) \in Nat
        /\ DOMAIN inbox'[c] = 1 .. Len(inbox'[c])
        /\ Len(inbox'[c]) >= Len(inbox[c]) - 1
        /\ \A k \in 1 .. Len(inbox[c]) - 1 : inbox'[c][k] = inbox[c][k + 1]
        /\ \A k \in 1 .. Len(inbox'[c]) : k > Len(inbox[c]) - 1
                                            => inbox'[c][k] = Answered(v)
    <3>1. CASE inbox'[c] = Tail(inbox[c])
      BY <1>1, <2>3, <3>1
    <3>2. CASE inbox'[c] = Append(Tail(inbox[c]), Answered(v))
      BY <1>1, <2>2, <2>3, <3>2, AppendProperties
    <3> QED BY <1>3, <3>1, <3>2
  <2>5. ASSUME u \in registry[c]
        PROVE  \E k \in DOMAIN inbox'[c] : inbox'[c][k] = Gone(u)
    <3>1. PICK k \in DOMAIN inbox[c] : inbox[c][k] = Gone(u)
      BY <2>1, <2>5 DEF Leaving, Coming
    <3>2. k # 1
      BY <1>1, <2>2, <2>3, <3>1
    <3>3. k - 1 \in DOMAIN inbox'[c] /\ inbox'[c][k - 1] = Gone(u)
      BY <2>3, <2>4, <3>1, <3>2
    <3> QED BY <3>3
  <2>6. ASSUME NEW k \in DOMAIN inbox'[c], inbox'[c][k] = Hello(u)
        PROVE  u \in registry[c] /\ \A j \in 1 .. k - 1 : inbox'[c][j] # Gone(u)
    <3>1. k <= Len(inbox[c]) - 1
      BY <2>2, <2>3, <2>4, <2>6
    <3>2. k + 1 \in DOMAIN inbox[c] /\ inbox[c][k + 1] = Hello(u)
      BY <2>3, <2>4, <2>6, <3>1
    <3>3. u \in registry[c] /\ \A j \in 1 .. k : inbox[c][j] # Gone(u)
      <4>1. /\ u \in registry[c]
            /\ \A j \in 1 .. (k + 1) - 1 : inbox[c][j] # Gone(u)
        BY <2>1, <3>2 DEF Leaving
      <4>2. (k + 1) - 1 = k
        BY <2>4
      <4> QED BY <4>1, <4>2
    <3>4. \A j \in 1 .. k - 1 : inbox'[c][j] = inbox[c][j + 1] /\ j + 1 \in 1 .. k
      BY <2>3, <2>4, <3>1
    <3> QED BY <3>3, <3>4
  <2>7. /\ proxy'[c][u] = "none"
        /\ (\E k \in DOMAIN todo[c] : todo[c][k] = u) => u \in registry[c]
    BY <1>2, <2>1 DEF Leaving
  <2> QED BY <1>1, <2>5, <2>6, <2>7 DEF Leaving, Coming
<1>6. registry'[c] # {} => phase'[c] = "on"
  BY <1>1 DEF Informed
<1>7. \A u \in Uuid : proxy'[c][u] # "none" => u \notin registry'[c]
  BY <1>1, <1>2, <1>4 DEF Informed
<1> QED BY <1>1, <1>2, <1>3, <1>5, <1>6, <1>7, OneInformed

LEMMA GotPropListsInformed ==
  ASSUME TypeOK, TypeOK', Informed, NEW c \in App, GotPropLists(c)
  PROVE  Informed'
<1> DEFINE v == Head(inbox[c]).u
<1>1. /\ v \in Uuid /\ Head(inbox[c]) = Answered(v) /\ inbox[c] # <<>>
      /\ inbox'[c] = Tail(inbox[c]) /\ phase[c] = "on"
      /\ \A d \in App \ {c} : inbox'[d] = inbox[d]
      /\ UNCHANGED <<exts, hasty, phase, todo>>
      /\ proxy[c][v] = "listing" /\ proxy' = [proxy EXCEPT ![c][v] = "none"]
      /\ registry' = [registry EXCEPT ![c] = @ \cup {v}]
  BY GetsTyped DEF GotPropLists, daemon, story, Answered
<1>2. /\ \A d \in App \ {c} : proxy'[d] = proxy[d] /\ registry'[d] = registry[d]
      /\ \A u \in Uuid \ {v} : proxy'[c][u] = proxy[c][u]
      /\ proxy'[c][v] = "none" /\ registry'[c] = registry[c] \cup {v}
  BY <1>1 DEF TypeOK
<1> HIDE DEF v
<1>3. ASSUME NEW u \in Uuid, u \notin exts, u \notin hasty[c]
      PROVE  Leaving(c, u)'
  <2>1. Leaving(c, u) /\ u # v
    BY <1>1, <1>3 DEF Informed, Leaving
  <2>2. Head(inbox[c]) # Gone(u)
    BY <1>1, <1>3, Messages
  <2>3. u \in registry'[c] <=> u \in registry[c]
    BY <1>2, <2>1
  <2> QED BY <1>1, <1>2, <2>1, <2>2, <2>3, LeavingRead
<1>4. \A u \in Uuid : proxy'[c][u] # "none" => u \notin registry'[c]
  BY <1>2 DEF Informed
<1> QED BY <1>1, <1>2, <1>3, <1>4, OneInformed

LEMMA ExitInformed ==
  ASSUME TypeOK, TypeOK', Informed, NEW c \in App, Exit(c) PROVE Informed'
<1>1. /\ UNCHANGED <<exts, hasty>>
      /\ \A d \in App \ {c} : /\ phase'[d] = phase[d] /\ proxy'[d] = proxy[d]
                              /\ registry'[d] = registry[d]
                              /\ todo'[d] = todo[d] /\ inbox'[d] = inbox[d]
      /\ registry'[c] = {} /\ todo'[c] = <<>> /\ inbox'[c] = <<>>
      /\ \A u \in Uuid : proxy'[c][u] = "none"
  BY DEF Exit, daemon, story, TypeOK
<1>2. \A u \in Uuid : Leaving(c, u)'
  BY <1>1 DEF Leaving
<1> QED BY <1>1, <1>2, OneInformed

LEMMA NextInformed == TypeOK /\ TypeOK' /\ Informed /\ [Next]_vars => Informed'
<1> SUFFICES ASSUME TypeOK, TypeOK', Informed, [Next]_vars PROVE Informed'
  OBVIOUS
<1>1. ASSUME UNCHANGED <<exts, hasty, phase, proxy, registry, todo, inbox>>
      PROVE  Informed'
  BY <1>1 DEF Informed, Leaving, Coming
<1>2. CASE UNCHANGED vars
  BY <1>1, <1>2 DEF vars, daemon, client, story
<1>3. ASSUME NEW c \in App, SetActive(c) PROVE Informed'
  BY <1>1, <1>3 DEF SetActive, daemon, client, story
<1>4. ASSUME NEW c \in App, MainLoop(c) PROVE Informed'
  BY <1>4, ApplicationInitInformed, CreateProxyInformed, OnHelloInformed,
     OnGoneInformed, GotNameInformed, GotPropListsInformed DEF MainLoop
<1> QED BY <1>2, <1>3, <1>4, ExtensionsInformed, DaemonInformed,
           ApplicationInitInformed, ExitInformed DEF Next

(* A proxy of an extension that has left stays in the registry of an       *)
(* application for ever only if the extension left before the application  *)
(* had the proxy and the rule for its loss; in all other cases the word of *)
(* the loss is waiting to be read.                                         *)
THEOREM StaleOnlyWhenHasty == Spec => []StaleOnlyIfHasty
<1>1. Init => TypeOK /\ Informed
  BY InitTyped, InformedInit
<1>2. TypeOK /\ Informed /\ [Next]_vars => (TypeOK /\ Informed)'
  BY NextTyped, NextInformed
<1>3. TypeOK /\ Informed => StaleOnlyIfHasty
  BY DEF TypeOK, Informed, Leaving, StaleOnlyIfHasty
<1> QED BY <1>1, <1>2, <1>3, PTL DEF Spec

(* What the daemon has to do for a call: the tasks of its idle functions,  *)
(* how many of them there are, but for those that emit, and how many       *)
(* emit; the questions other processes have not answered.                  *)
Emission(t) == t.kind = "emit"
Tasks(l, c)   == {l[j].task : j \in {i \in DOMAIN l : l[i].call = c}}
Steps(l, c)   == {j \in DOMAIN l : l[j].call = c /\ ~Emission(l[j].task)}
Endings(l, c) == {j \in DOMAIN l : l[j].call = c /\ Emission(l[j].task)}
Asking(s, c)  == {a.task : a \in {b \in s : b.call = c}}

About(T) == UNION {t.objs : t \in T}

(* The metadata of the objects O is gathered in m: T are the tasks of the  *)
(* idle functions, n of them and e that emit, Q the questions.  What is    *)
(* not there yet is asked for, as much as is waited for at most, and       *)
(* nothing is once it is emitted.                                          *)
Fetching(source, O, T) ==
  \A t \in T : IF Emission(t) THEN t.objs = {}
               ELSE source = "iradio" /\ t.kind = "get" /\ \E o \in O : t.objs = {o}
Querying(source, O, Q) ==
  \A t \in Q : source = "upnp" /\ \E o \in O : t = Todo("metadata", {o})
Collects(source, O, keys, m, T, n, e, Q) ==
  /\ m \in Metadatas(O)
  /\ keys # "none" => m.err \/ m.got \cup About(T) \cup About(Q) = O
  /\ Fetching(source, O, T) /\ Querying(source, O, Q)
  /\ n + Cardinality(About(Q)) <= m.remaining
  /\ e = IF m.queued THEN 1 ELSE 0

(* Of tracker's clips those in C are yet to be asked for, k objects were   *)
(* not looked at.                                                          *)
ClosureKinds == {"clips", "playlists", "container", "videos"}
Counts(O, keys, C, k, m, T, n, e, Q) ==
  /\ m \in Commons(O)
  /\ keys # "none" => m.err \/ m.got \cup About(T) \cup About(Q) \cup C = O
  /\ \A t \in T : IF Emission(t) THEN t.objs = {}
                  ELSE t.kind \in ClosureKinds /\ \E o \in O : t.objs = {o}
  /\ \A t \in Q : /\ t.kind \in ClosureKinds \cup {"duration"}
                  /\ t.objs # {} /\ t.objs \subseteq O
                  /\ t.kind \notin {"clips", "playlists"} => \E o \in O : t.objs = {o}
                  /\ t.kind = "container" => \A o \in t.objs : Category(o) \in Container
  /\ \A t, u \in Q : t # u => t.objs \cap u.objs = {}
  /\ C \subseteq O /\ C \cap About(Q) = {}
  /\ IF keys = "known" THEN n = 0 ELSE Q = {}
  /\ \/ e = 0 /\ k + n + Cardinality(About(Q) \cup C) <= m.remaining
     \/ e = 1 /\ k = 0 /\ n = 0 /\ Q = {} /\ C = {}

\* what is done for a call that gathers nothing: one thing
OneTask(source, q, m, t) ==
  \/ source = "iradio" /\ <<q.op, t.kind>> \in
       {<<"get", "get">>, <<"set", "set">>, <<"create", "created">>,
        <<"destroy", "destroy">>}
  \/ source = "tracker" /\ q.op = "set" /\ t.kind = "set"
  \/ source = "tracker" /\ q.op = "destroy" /\ t.kind = "delete" /\ m \in Removals
OneQuestion(source, q, t) ==
  \/ source = "upnp" /\ q.op = "get" /\ t.kind = "metadata"
  \/ source = "tracker" /\ q.op = "destroy" /\ t.kind = "songs"
DoesOne(source, q, m, T, n, e, Q) ==
  /\ e = 0
  /\ \/ n = 1 /\ Q = {} /\ \E t \in T : T = {t} /\ OneTask(source, q, m, t)
     \/ n = 0 /\ T = {} /\ \E t \in Q : Q = {t} /\ OneQuestion(source, q, t)

Gathering(source, q) == q.op = "getall" \/ (q.op = "get" /\ source = "tracker")
Doing(source, q, m, T, n, e, Q) ==
  IF ~Gathering(source, q) THEN DoesOne(source, q, m, T, n, e, Q)
  ELSE IF source = "tracker"
  THEN Counts(ToSet(Wanted(q)), q.keys, {}, 0, m, T, n, e, Q)
  ELSE Collects(source, ToSet(Wanted(q)), q.keys, m, T, n, e, Q)

\* an answer without an error has all that was asked for
Complete(q, a) ==
  a.ok /\ q.op = "getall" /\ q.keys # "none" => a.got = ToSet(q.objs)

Attended(c) ==
  IF stage[c] = "held"
  THEN Doing(plan.source, req[c], work[c], Tasks(idles, c), Cardinality(Steps(idles, c)),
             Cardinality(Endings(idles, c)), Asking(asked, c))
  ELSE Tasks(idles, c) = {} /\ Asking(asked, c) = {}
WellTold(c) == stage[c] \in {"replied", "told"} => Complete(req[c], reply[c])

Question(t) == t.kind \in {"metadata", "songs", "duration"} \cup ClosureKinds
Ordered(l) == \E S : l \in Seq(S)
Shaped ==
  /\ plan \in Scenarios
  /\ stage \in [Call -> {"none", "sent", "held", "replied", "told"}]
  /\ DOMAIN req = Call /\ DOMAIN work = Call /\ DOMAIN reply = Call
  /\ \A c \in Call : stage[c] # "none" => req[c] \in plan.requests
  /\ Ordered(idles) /\ \A j \in DOMAIN idles : idles[j].call \in Call
  /\ \A a \in asked : a.call \in Call /\ Question(a.task)
                      /\ a = [call |-> a.call, task |-> a.task]

\* no call is held but by a daemon that is up
Downed == daemonIs # "up" => \A c \in Call : stage[c] # "held"

(* The inductive invariant: what is held is attended to, and what is told   *)
(* is complete, but for the calls an odd answer spoilt.                     *)
AllAttended ==
  /\ Shaped /\ Downed /\ broken \in BOOLEAN /\ (broken => spoilt # {})
  /\ \A c \in Call \ spoilt : Attended(c) /\ WellTold(c)

(* Sequences.                                                              *)
LEMMA JoinedOrder ==
  ASSUME NEW l, Ordered(l), NEW m, Ordered(m)
  PROVE  /\ Ordered(l \o m) /\ Len(l) \in Nat /\ Len(m) \in Nat
         /\ DOMAIN l = 1 .. Len(l) /\ DOMAIN m = 1 .. Len(m)
         /\ DOMAIN (l \o m) = 1 .. Len(l) + Len(m)
         /\ \A i \in 1 .. Len(l) : (l \o m)[i] = l[i]
         /\ \A i \in 1 .. Len(m) : (l \o m)[Len(l) + i] = m[i]
<1>1. PICK A : l \in Seq(A)
  BY DEF Ordered
<1>2. PICK B : m \in Seq(B)
  BY DEF Ordered
<1> DEFINE S == A \cup B
<1>3. l \in Seq(S) /\ m \in Seq(S)
  BY <1>1, <1>2
<1> HIDE DEF S
<1>4. /\ l \o m \in Seq(S) /\ Len(l \o m) = Len(l) + Len(m)
      /\ \A i \in 1 .. Len(l) + Len(m) :
           (l \o m)[i] = IF i <= Len(l) THEN l[i] ELSE m[i - Len(l)]
  BY <1>3, ConcatProperties
<1>5. /\ Len(l) \in Nat /\ Len(m) \in Nat /\ DOMAIN l = 1 .. Len(l) /\ DOMAIN m = 1 .. Len(m)
      /\ DOMAIN (l \o m) = 1 .. Len(l) + Len(m)
  BY <1>3, <1>4
<1>6. ASSUME NEW i \in 1 .. Len(m) PROVE (l \o m)[Len(l) + i] = m[i]
  <2> DEFINE k == Len(l) + i
  <2>1. k \in 1 .. Len(l) + Len(m) /\ ~(k <= Len(l)) /\ k - Len(l) = i
    BY <1>5
  <2>2. (l \o m)[k] = m[k - Len(l)]
    BY <1>4, <2>1
  <2> QED
    BY <2>1, <2>2
<1>7. ASSUME NEW i \in 1 .. Len(l) PROVE (l \o m)[i] = l[i]
  <2>1. i \in 1 .. Len(l) + Len(m) /\ i <= Len(l)
    BY <1>5
  <2> QED
    BY <1>4, <2>1
<1>8. Ordered(l \o m)
  BY <1>4 DEF Ordered
<1> QED
  BY <1>5, <1>6, <1>7, <1>8

LEMMA TailOrder ==
  ASSUME NEW l, Ordered(l), l # <<>>
  PROVE  /\ Ordered(Tail(l)) /\ Len(l) \in Nat \ {0} /\ Head(l) = l[1]
         /\ DOMAIN l = 1 .. Len(l) /\ DOMAIN Tail(l) = 1 .. Len(l) - 1
         /\ \A i \in 1 .. Len(l) - 1 : Tail(l)[i] = l[i + 1]
<1>1. PICK S : l \in Seq(S)
  BY DEF Ordered
<1>2. /\ Head(l) = l[1] /\ Tail(l) \in Seq(S) /\ Len(Tail(l)) = Len(l) - 1
      /\ \A i \in 1 .. Len(Tail(l)) : Tail(l)[i] = l[i + 1]
  BY <1>1, HeadTailProperties
<1>3. Len(l) \in Nat \ {0} /\ DOMAIN l = 1 .. Len(l) /\ DOMAIN Tail(l) = 1 .. Len(Tail(l))
  BY <1>1, <1>2, EmptySeq
<1> QED
  BY <1>2, <1>3 DEF Ordered

LEMMA ShortOrder ==
  /\ Ordered(<<>>) /\ DOMAIN <<>> = {} /\ Len(<<>>) = 0
  /\ \A t : /\ Ordered(<<t>>) /\ DOMAIN <<t>> = {1} /\ <<t>>[1] = t /\ Len(<<t>>) = 1
            /\ <<t>> # <<>> /\ Head(<<t>>) = t
<1>1. <<>> \in Seq({}) /\ \A t : <<t>> \in Seq({t})
  OBVIOUS
<1>2. Ordered(<<>>) /\ \A t : Ordered(<<t>>)
  BY <1>1 DEF Ordered
<1>3. \A t : DOMAIN <<t>> = {1} /\ <<t>>[1] = t /\ Len(<<t>>) = 1
  OBVIOUS
<1> QED
  BY <1>2, <1>3

LEMMA NothingAfter ==
  ASSUME NEW l, Ordered(l) PROVE l \o <<>> = l /\ <<>> \o l = l
<1>1. PICK S : l \in Seq(S)
  BY DEF Ordered
<1> QED
  BY <1>1, ConcatEmptySeq

LEMMA Shifted ==
  ASSUME NEW A \in SUBSET Int, IsFiniteSet(A), NEW k \in Int
  PROVE  /\ IsFiniteSet({i + k : i \in A})
         /\ Cardinality({i + k : i \in A}) = Cardinality(A)
<1> DEFINE B == {i + k : i \in A}
           f == [i \in A |-> i + k]
<1>1. f \in Bijection(A, B)
  <2>1. f \in [A -> B]
    OBVIOUS
  <2>2. \A i, j \in A : f[i] = f[j] => i = j
    OBVIOUS
  <2>3. \A b \in B : \E i \in A : f[i] = b
    OBVIOUS
  <2> QED
    BY <2>1, <2>2, <2>3, Fun_IsBij
<1>2. ExistsBijection(A, B)
  BY <1>1 DEF ExistsBijection
<1> QED
  BY <1>2, FS_Bijection

LEMMA Range12 ==
  ASSUME NEW l, Ordered(l) PROVE IsFiniteSet(DOMAIN l) /\ DOMAIN l \in SUBSET Int
<1>1. Len(l) \in Nat /\ DOMAIN l = 1 .. Len(l)
  BY DEF Ordered
<1>2. IsFiniteSet(1 .. Len(l))
  BY <1>1, FS_Interval
<1> QED
  BY <1>1, <1>2

-----------------------------------------------------------------------------
(* What joining and shortening the idle functions do to those of a call.   *)

\* the idle functions for the tasks l of call c
Queued(c, l) == [i \in DOMAIN l |-> [call |-> c, task |-> l[i]]]
Plain(l) == {j \in DOMAIN l : ~Emission(l[j])}
Final(l) == {j \in DOMAIN l : Emission(l[j])}
Listed(l) == {l[j] : j \in DOMAIN l}

LEMMA ViewFinite ==
  ASSUME NEW l, Ordered(l), NEW c
  PROVE  /\ IsFiniteSet(Steps(l, c)) /\ IsFiniteSet(Endings(l, c))
         /\ Cardinality(Steps(l, c)) \in Nat /\ Cardinality(Endings(l, c)) \in Nat
         /\ Steps(l, c) \in SUBSET Int /\ Endings(l, c) \in SUBSET Int
         /\ Cardinality(Steps(l, c)) = 0 /\ Cardinality(Endings(l, c)) = 0 => Tasks(l, c) = {}
<1>1. IsFiniteSet(DOMAIN l) /\ DOMAIN l \in SUBSET Int
  BY Range12
<1>2. Steps(l, c) \subseteq DOMAIN l /\ Endings(l, c) \subseteq DOMAIN l
  BY DEF Steps, Endings
<1>3. IsFiniteSet(Steps(l, c)) /\ IsFiniteSet(Endings(l, c))
  BY <1>1, <1>2, FS_Subset
<1>4. Steps(l, c) = {} /\ Endings(l, c) = {} => Tasks(l, c) = {}
  BY DEF Steps, Endings, Tasks
<1> QED
  BY <1>1, <1>2, <1>3, <1>4, FS_CardinalityType, FS_EmptySet

LEMMA PlainFinite ==
  ASSUME NEW l, Ordered(l)
  PROVE  /\ IsFiniteSet(Plain(l)) /\ IsFiniteSet(Final(l))
         /\ Cardinality(Plain(l)) \in Nat /\ Cardinality(Final(l)) \in Nat
         /\ Plain(l) \in SUBSET Int /\ Final(l) \in SUBSET Int
<1>1. IsFiniteSet(DOMAIN l) /\ DOMAIN l \in SUBSET Int
  BY Range12
<1>2. Plain(l) \subseteq DOMAIN l /\ Final(l) \subseteq DOMAIN l
  BY DEF Plain, Final
<1>3. IsFiniteSet(Plain(l)) /\ IsFiniteSet(Final(l))
  BY <1>1, <1>2, FS_Subset
<1> QED
  BY <1>1, <1>2, <1>3, FS_CardinalityType

LEMMA UnionCount ==
  ASSUME NEW A, IsFiniteSet(A), NEW B, IsFiniteSet(B), A \cap B = {}
  PROVE  /\ IsFiniteSet(A \cup B)
         /\ Cardinality(A \cup B) = Cardinality(A) + Cardinality(B)
<1>1. Cardinality(A \cap B) = 0
  BY FS_EmptySet
<1>2. /\ IsFiniteSet(A \cup B)
      /\ Cardinality(A \cup B) = Cardinality(A) + Cardinality(B) - Cardinality(A \cap B)
  BY FS_Union
<1>3. Cardinality(A) \in Nat /\ Cardinality(B) \in Nat
  BY FS_CardinalityType
<1> QED
  BY <1>1, <1>2, <1>3

\* U is A, of 1 .. n, and B, of 1 .. k, behind it
Behind(n, k, A, B, U) ==
  /\ n \in Nat /\ k \in Nat /\ A \in SUBSET (1 .. n) /\ B \in SUBSET (1 .. k)
  /\ U = A \cup {i + n : i \in B}

LEMMA JoinedCount ==
  ASSUME NEW n, NEW k, NEW A, NEW B, NEW U, Behind(n, k, A, B, U)
  PROVE  Cardinality(U) = Cardinality(A) + Cardinality(B)
<1>0. /\ n \in Nat /\ k \in Nat /\ A \in SUBSET (1 .. n) /\ B \in SUBSET (1 .. k)
      /\ U = A \cup {i + n : i \in B}
  BY DEF Behind
<1> DEFINE C == {i + n : i \in B}
<1>1. IsFiniteSet(A) /\ IsFiniteSet(B)
  <2>1. IsFiniteSet(1 .. n) /\ IsFiniteSet(1 .. k)
    BY <1>0, FS_Interval
  <2> QED
    BY <1>0, <2>1, FS_Subset
<1>2. IsFiniteSet(C) /\ Cardinality(C) = Cardinality(B)
  <2>1. B \in SUBSET Int /\ n \in Int
    BY <1>0
  <2> QED
    BY <1>1, <2>1, Shifted
<1>3. A \cap C = {}
  BY <1>0
<1>3a. U = A \cup C
  BY <1>0
<1> HIDE DEF C
<1>4. Cardinality(A \cup C) = Cardinality(A) + Cardinality(C)
  BY <1>1, <1>2, <1>3, UnionCount
<1> QED
  BY <1>2, <1>3a, <1>4

LEMMA PlainJoined ==
  ASSUME NEW l, Ordered(l), NEW m, Ordered(m)
  PROVE  /\ Ordered(l \o m) /\ Listed(l \o m) = Listed(l) \cup Listed(m)
         /\ Cardinality(Plain(l \o m)) = Cardinality(Plain(l)) + Cardinality(Plain(m))
         /\ Cardinality(Final(l \o m)) = Cardinality(Final(l)) + Cardinality(Final(m))
<1> DEFINE n == Len(l)
           k == Len(m)
           x == l \o m
<1>1. /\ Ordered(x) /\ n \in Nat /\ k \in Nat /\ DOMAIN l = 1 .. n /\ DOMAIN m = 1 .. k
      /\ DOMAIN x = 1 .. n + k /\ \A i \in 1 .. n : x[i] = l[i]
      /\ \A i \in 1 .. k : x[n + i] = m[i]
  BY JoinedOrder
<1> HIDE DEF n, k, x
<1>2. \A j \in 1 .. n + k : j \in 1 .. n \/ \E i \in 1 .. k : j = i + n
  <2>1. ASSUME NEW j \in 1 .. n + k, j \notin 1 .. n PROVE \E i \in 1 .. k : j = i + n
    <3>1. j - n \in 1 .. k /\ j = (j - n) + n
      BY <1>1, <2>1
    <3> QED
      BY <3>1
  <2> QED
    BY <2>1
<1>3. \A i \in 1 .. k : i + n \in 1 .. n + k /\ x[i + n] = m[i]
  <2>1. ASSUME NEW i \in 1 .. k PROVE i + n \in 1 .. n + k /\ i + n = n + i
    BY <1>1
  <2> QED
    BY <1>1, <2>1
<1>4. \A i \in 1 .. n : i \in 1 .. n + k
  BY <1>1
<1>5. Listed(x) = Listed(l) \cup Listed(m)
  <2>1. Listed(x) \subseteq Listed(l) \cup Listed(m)
    <3>1. ASSUME NEW j \in 1 .. n + k PROVE x[j] \in Listed(l) \cup Listed(m)
      <4>1. CASE j \in 1 .. n
        BY <1>1, <4>1 DEF Listed
      <4>2. CASE \E i \in 1 .. k : j = i + n
        BY <1>1, <1>3, <4>2 DEF Listed
      <4> QED
        BY <1>2, <4>1, <4>2
    <3> QED
      BY <1>1, <3>1 DEF Listed
  <2>2. Listed(l) \subseteq Listed(x)
    BY <1>1, <1>4 DEF Listed
  <2>3. Listed(m) \subseteq Listed(x)
    BY <1>1, <1>3 DEF Listed
  <2> QED
    BY <2>1, <2>2, <2>3
<1>6. Plain(x) = Plain(l) \cup {i + n : i \in Plain(m)}
  <2>1. \A j \in Plain(x) : j \in Plain(l) \cup {i + n : i \in Plain(m)}
    BY <1>1, <1>2, <1>3 DEF Plain
  <2>2. \A j \in Plain(l) : j \in Plain(x)
    BY <1>1, <1>4 DEF Plain
  <2>3. \A i \in Plain(m) : i + n \in Plain(x)
    BY <1>1, <1>3 DEF Plain
  <2> QED
    BY <2>1, <2>2, <2>3
<1>7. Final(x) = Final(l) \cup {i + n : i \in Final(m)}
  <2>1. \A j \in Final(x) : j \in Final(l) \cup {i + n : i \in Final(m)}
    BY <1>1, <1>2, <1>3 DEF Final
  <2>2. \A j \in Final(l) : j \in Final(x)
    BY <1>1, <1>4 DEF Final
  <2>3. \A i \in Final(m) : i + n \in Final(x)
    BY <1>1, <1>3 DEF Final
  <2> QED
    BY <2>1, <2>2, <2>3
<1>8. /\ Plain(l) \in SUBSET (1 .. n) /\ Plain(m) \in SUBSET (1 .. k)
      /\ Final(l) \in SUBSET (1 .. n) /\ Final(m) \in SUBSET (1 .. k)
  BY <1>1 DEF Plain, Final
<1>9. Cardinality(Plain(x)) = Cardinality(Plain(l)) + Cardinality(Plain(m))
  <2>1. Behind(n, k, Plain(l), Plain(m), Plain(x))
    BY <1>1, <1>6, <1>8 DEF Behind
  <2> QED
    BY <2>1, JoinedCount
<1>10. Cardinality(Final(x)) = Cardinality(Final(l)) + Cardinality(Final(m))
  <2>1. Behind(n, k, Final(l), Final(m), Final(x))
    BY <1>1, <1>7, <1>8 DEF Behind
  <2> QED
    BY <2>1, JoinedCount
<1> QED
  BY <1>1, <1>5, <1>9, <1>10 DEF x

LEMMA QueuedOrder ==
  ASSUME NEW c, NEW l, Ordered(l)
  PROVE  /\ Ordered(Queued(c, l)) /\ Len(Queued(c, l)) = Len(l)
         /\ DOMAIN Queued(c, l) = DOMAIN l /\ Len(l) \in Nat /\ DOMAIN l = 1 .. Len(l)
         /\ \A i \in DOMAIN l : Queued(c, l)[i].call = c /\ Queued(c, l)[i].task = l[i]
<1>1. Len(l) \in Nat /\ DOMAIN l = 1 .. Len(l)
  BY DEF Ordered
<1> DEFINE S == {[call |-> c, task |-> l[i]] : i \in 1 .. Len(l)}
<1>2. [i \in 1 .. Len(l) |-> [call |-> c, task |-> l[i]]] \in Seq(S)
  BY <1>1, IsASeq
<1>3. Queued(c, l) \in Seq(S)
  BY <1>1, <1>2 DEF Queued
<1>4. DOMAIN Queued(c, l) = 1 .. Len(l)
  BY <1>1 DEF Queued
<1>5. Len(Queued(c, l)) = Len(l)
  BY <1>1, <1>3, <1>4
<1> QED
  BY <1>1, <1>3, <1>4, <1>5 DEF Ordered, Queued

LEMMA ViewJoined ==
  ASSUME NEW l, Ordered(l), NEW c, NEW m, Ordered(m)
  PROVE  LET x == l \o Queued(c, m) IN
         /\ Ordered(x)
         /\ \A j \in DOMAIN x : x[j].call = c \/ \E i \in DOMAIN l : x[j] = l[i]
         /\ Tasks(x, c) = Tasks(l, c) \cup Listed(m)
         /\ Cardinality(Steps(x, c)) = Cardinality(Steps(l, c)) + Cardinality(Plain(m))
         /\ Cardinality(Endings(x, c)) = Cardinality(Endings(l, c)) + Cardinality(Final(m))
         /\ \A d : d # c => /\ Tasks(x, d) = Tasks(l, d) /\ Steps(x, d) = Steps(l, d)
                            /\ Endings(x, d) = Endings(l, d)
<1> DEFINE n == Len(l)
           k == Len(m)
           w == Queued(c, m)
           x == l \o w
<1>1. /\ Ordered(w) /\ Len(w) = k /\ k \in Nat /\ DOMAIN m = 1 .. k
      /\ \A i \in 1 .. k : w[i].call = c /\ w[i].task = m[i]
  BY QueuedOrder
<1> HIDE DEF w
<1>2. /\ Ordered(x) /\ n \in Nat /\ DOMAIN l = 1 .. n
      /\ DOMAIN x = 1 .. n + k /\ \A i \in 1 .. n : x[i] = l[i]
      /\ \A i \in 1 .. k : x[n + i] = w[i]
  <2>1. /\ Ordered(x) /\ n \in Nat /\ DOMAIN l = 1 .. n /\ DOMAIN x = 1 .. n + Len(w)
        /\ \A i \in 1 .. n : x[i] = l[i]
        /\ \A i \in 1 .. Len(w) : x[n + i] = w[i]
    <3>1. Ordered(w)
      BY <1>1
    <3> QED
      BY <3>1, JoinedOrder
  <2> QED
    BY <1>1, <2>1
<1> HIDE DEF n, k, x
<1>3. \A j \in 1 .. n + k : j \in 1 .. n \/ \E i \in 1 .. k : j = i + n
  <2>1. ASSUME NEW j \in 1 .. n + k, j \notin 1 .. n PROVE \E i \in 1 .. k : j = i + n
    <3>1. j - n \in 1 .. k /\ j = (j - n) + n
      BY <1>1, <1>2, <2>1
    <3> QED
      BY <3>1
  <2> QED
    BY <2>1
<1>4. \A i \in 1 .. k : i + n \in 1 .. n + k /\ x[i + n].call = c /\ x[i + n].task = m[i]
  <2>1. ASSUME NEW i \in 1 .. k PROVE i + n \in 1 .. n + k /\ i + n = n + i
    BY <1>1, <1>2
  <2> QED
    BY <1>1, <1>2, <2>1
<1>5. \A i \in 1 .. n : i \in 1 .. n + k
  BY <1>1, <1>2
<1>6. Tasks(x, c) = Tasks(l, c) \cup Listed(m)
  <2>1. Tasks(x, c) \subseteq Tasks(l, c) \cup Listed(m)
    <3>1. ASSUME NEW j \in 1 .. n + k, x[j].call = c
          PROVE  x[j].task \in Tasks(l, c) \cup Listed(m)
      <4>1. CASE j \in 1 .. n
        BY <1>2, <3>1, <4>1 DEF Tasks
      <4>2. CASE \E i \in 1 .. k : j = i + n
        BY <1>1, <1>4, <4>2 DEF Listed
      <4> QED
        BY <1>3, <4>1, <4>2
    <3> QED
      BY <1>2, <3>1 DEF Tasks
  <2>2. Tasks(l, c) \subseteq Tasks(x, c)
    BY <1>2, <1>5 DEF Tasks
  <2>3. Listed(m) \subseteq Tasks(x, c)
    <3>1. ASSUME NEW i \in 1 .. k PROVE m[i] \in Tasks(x, c)
      <4>1. i + n \in DOMAIN x /\ x[i + n].call = c /\ x[i + n].task = m[i]
        BY <1>2, <1>4
      <4> QED
        BY <4>1 DEF Tasks
    <3> QED
      BY <1>1, <3>1 DEF Listed
  <2> QED
    BY <2>1, <2>2, <2>3
<1>7. Steps(x, c) = Steps(l, c) \cup {i + n : i \in Plain(m)}
  <2>1. ASSUME NEW j \in Steps(x, c) PROVE j \in Steps(l, c) \cup {i + n : i \in Plain(m)}
    <3>1. j \in 1 .. n + k /\ j \in DOMAIN x
      BY <1>2, <2>1 DEF Steps
    <3>2. CASE j \in 1 .. n
      <4>1. x[j] = l[j] /\ j \in DOMAIN l
        BY <1>2, <3>2
      <4> QED
        BY <2>1, <4>1 DEF Steps
    <3>3. ASSUME NEW i \in 1 .. k, j = i + n PROVE i \in Plain(m)
      <4>1. x[j].task = m[i] /\ i \in DOMAIN m
        BY <1>1, <1>4, <3>3
      <4> QED
        BY <2>1, <4>1 DEF Steps, Plain
    <3> QED
      BY <1>3, <3>1, <3>2, <3>3
  <2>2. \A j \in Steps(l, c) : j \in Steps(x, c)
    BY <1>2, <1>5 DEF Steps
  <2>3. \A i \in Plain(m) : i + n \in Steps(x, c)
    BY <1>1, <1>2, <1>4 DEF Plain, Steps
  <2> QED
    BY <2>1, <2>2, <2>3
<1>8. Endings(x, c) = Endings(l, c) \cup {i + n : i \in Final(m)}
  <2>1. ASSUME NEW j \in Endings(x, c) PROVE j \in Endings(l, c) \cup {i + n : i \in Final(m)}
    <3>1. j \in 1 .. n + k /\ j \in DOMAIN x
      BY <1>2, <2>1 DEF Endings
    <3>2. CASE j \in 1 .. n
      <4>1. x[j] = l[j] /\ j \in DOMAIN l
        BY <1>2, <3>2
      <4> QED
        BY <2>1, <4>1 DEF Endings
    <3>3. ASSUME NEW i \in 1 .. k, j = i + n PROVE i \in Final(m)
      <4>1. x[j].task = m[i] /\ i \in DOMAIN m
        BY <1>1, <1>4, <3>3
      <4> QED
        BY <2>1, <4>1 DEF Endings, Final
    <3> QED
      BY <1>3, <3>1, <3>2, <3>3
  <2>2. \A j \in Endings(l, c) : j \in Endings(x, c)
    BY <1>2, <1>5 DEF Endings
  <2>3. \A i \in Final(m) : i + n \in Endings(x, c)
    BY <1>1, <1>2, <1>4 DEF Final, Endings
  <2> QED
    BY <2>1, <2>2, <2>3
<1>9. /\ Steps(l, c) \in SUBSET (1 .. n) /\ Plain(m) \in SUBSET (1 .. k)
      /\ Endings(l, c) \in SUBSET (1 .. n) /\ Final(m) \in SUBSET (1 .. k)
  BY <1>1, <1>2 DEF Steps, Endings, Plain, Final
<1>10. ASSUME NEW d, d # c
       PROVE  /\ Tasks(x, d) = Tasks(l, d) /\ Steps(x, d) = Steps(l, d)
              /\ Endings(x, d) = Endings(l, d)
  <2>1. \A j \in 1 .. n + k : x[j].call = d => j \in 1 .. n /\ x[j] = l[j]
    BY <1>2, <1>3, <1>4, <1>10
  <2>2. {j \in DOMAIN x : x[j].call = d} = {j \in DOMAIN l : l[j].call = d}
    BY <1>2, <1>5, <2>1
  <2>3. Steps(x, d) = Steps(l, d) /\ Endings(x, d) = Endings(l, d)
    BY <1>2, <1>5, <2>1 DEF Steps, Endings
  <2>4. Tasks(x, d) = Tasks(l, d)
    BY <1>2, <2>1, <2>2 DEF Tasks
  <2> QED
    BY <2>3, <2>4
<1>11. \A j \in DOMAIN x : x[j].call = c \/ \E i \in DOMAIN l : x[j] = l[i]
  BY <1>2, <1>3, <1>4
<1>12. Cardinality(Steps(x, c)) = Cardinality(Steps(l, c)) + Cardinality(Plain(m))
  <2>1. Behind(n, k, Steps(l, c), Plain(m), Steps(x, c))
    BY <1>1, <1>2, <1>7, <1>9 DEF Behind
  <2> QED
    BY <2>1, JoinedCount
<1>13. Cardinality(Endings(x, c)) = Cardinality(Endings(l, c)) + Cardinality(Final(m))
  <2>1. Behind(n, k, Endings(l, c), Final(m), Endings(x, c))
    BY <1>1, <1>2, <1>8, <1>9 DEF Behind
  <2> QED
    BY <2>1, JoinedCount
<1> QED
  BY <1>2, <1>6, <1>10, <1>11, <1>12, <1>13 DEF x, w

LEMMA ViewTail ==
  ASSUME NEW l, Ordered(l), l # <<>>, NEW d
  PROVE  LET h == Head(l)
             t == Tail(l)
         IN  /\ Ordered(t) /\ \A j \in DOMAIN t : \E i \in DOMAIN l : t[j] = l[i]
             /\ Tasks(l, d) = Tasks(t, d) \cup (IF h.call = d THEN {h.task} ELSE {})
             /\ Cardinality(Steps(l, d)) =
                  Cardinality(Steps(t, d)) + (IF h.call = d /\ ~Emission(h.task) THEN 1 ELSE 0)
             /\ Cardinality(Endings(l, d)) =
                  Cardinality(Endings(t, d)) + (IF h.call = d /\ Emission(h.task) THEN 1 ELSE 0)
<1> DEFINE h == Head(l)
           t == Tail(l)
           n == Len(l)
<1>1. /\ Ordered(t) /\ n \in Nat \ {0} /\ h = l[1] /\ DOMAIN l = 1 .. n
      /\ DOMAIN t = 1 .. n - 1 /\ \A i \in 1 .. n - 1 : t[i] = l[i + 1]
  BY TailOrder
<1> HIDE DEF h, t, n
<1>2. \A j \in 1 .. n : j = 1 \/ \E i \in 1 .. n - 1 : j = i + 1
  <2>1. ASSUME NEW j \in 1 .. n, j # 1 PROVE \E i \in 1 .. n - 1 : j = i + 1
    <3>1. j - 1 \in 1 .. n - 1 /\ j = (j - 1) + 1
      BY <1>1, <2>1
    <3> QED
      BY <3>1
  <2> QED
    BY <2>1
<1>3. \A i \in 1 .. n - 1 : i + 1 \in 1 .. n
  BY <1>1
<1>4. 1 \in 1 .. n
  BY <1>1
<1> DEFINE X == IF h.call = d /\ ~Emission(h.task) THEN {1} ELSE {}
           Y == IF h.call = d /\ Emission(h.task) THEN {1} ELSE {}
<1>5. Steps(l, d) = X \cup {i + 1 : i \in Steps(t, d)}
  <2>1. ASSUME NEW j \in Steps(l, d) PROVE j \in X \cup {i + 1 : i \in Steps(t, d)}
    <3>1. j \in 1 .. n /\ l[j].call = d /\ ~Emission(l[j].task)
      BY <1>1, <2>1 DEF Steps
    <3>2. CASE j = 1
      BY <1>1, <3>1, <3>2
    <3>3. ASSUME NEW i \in 1 .. n - 1, j = i + 1 PROVE i \in Steps(t, d)
      <4>1. t[i] = l[j] /\ i \in DOMAIN t
        BY <1>1, <3>3
      <4> QED
        BY <3>1, <4>1 DEF Steps
    <3> QED
      BY <1>2, <3>1, <3>2, <3>3
  <2>2. X \subseteq Steps(l, d)
    BY <1>1, <1>4 DEF Steps
  <2>3. ASSUME NEW i \in Steps(t, d) PROVE i + 1 \in Steps(l, d)
    <3>1. i \in 1 .. n - 1 /\ t[i].call = d /\ ~Emission(t[i].task)
      BY <1>1, <2>3 DEF Steps
    <3>2. i + 1 \in DOMAIN l /\ l[i + 1] = t[i]
      BY <1>1, <1>3, <3>1
    <3> QED
      BY <3>1, <3>2 DEF Steps
  <2> HIDE DEF X
  <2> QED
    BY <2>1, <2>2, <2>3
<1>6. Endings(l, d) = Y \cup {i + 1 : i \in Endings(t, d)}
  <2>1. ASSUME NEW j \in Endings(l, d) PROVE j \in Y \cup {i + 1 : i \in Endings(t, d)}
    <3>1. j \in 1 .. n /\ l[j].call = d /\ Emission(l[j].task)
      BY <1>1, <2>1 DEF Endings
    <3>2. CASE j = 1
      BY <1>1, <3>1, <3>2
    <3>3. ASSUME NEW i \in 1 .. n - 1, j = i + 1 PROVE i \in Endings(t, d)
      <4>1. t[i] = l[j] /\ i \in DOMAIN t
        BY <1>1, <3>3
      <4> QED
        BY <3>1, <4>1 DEF Endings
    <3> QED
      BY <1>2, <3>1, <3>2, <3>3
  <2>2. Y \subseteq Endings(l, d)
    BY <1>1, <1>4 DEF Endings
  <2>3. ASSUME NEW i \in Endings(t, d) PROVE i + 1 \in Endings(l, d)
    <3>1. i \in 1 .. n - 1 /\ t[i].call = d /\ Emission(t[i].task)
      BY <1>1, <2>3 DEF Endings
    <3>2. i + 1 \in DOMAIN l /\ l[i + 1] = t[i]
      BY <1>1, <1>3, <3>1
    <3> QED
      BY <3>1, <3>2 DEF Endings
  <2> HIDE DEF Y
  <2> QED
    BY <2>1, <2>2, <2>3
<1>7. /\ Steps(t, d) \in SUBSET (1 .. n - 1) /\ Endings(t, d) \in SUBSET (1 .. n - 1)
      /\ X \in SUBSET (1 .. 1) /\ Y \in SUBSET (1 .. 1)
  BY <1>1 DEF Steps, Endings
<1>8. /\ Cardinality(X) = (IF h.call = d /\ ~Emission(h.task) THEN 1 ELSE 0)
      /\ Cardinality(Y) = (IF h.call = d /\ Emission(h.task) THEN 1 ELSE 0)
  <2>1. Cardinality({}) = 0 /\ Cardinality({1}) = 1
    BY FS_EmptySet, FS_Singleton
  <2> QED
    BY <2>1
<1>9. Tasks(l, d) = Tasks(t, d) \cup (IF h.call = d THEN {h.task} ELSE {})
  <2>1. ASSUME NEW j \in 1 .. n, l[j].call = d
        PROVE  l[j].task \in Tasks(t, d) \cup (IF h.call = d THEN {h.task} ELSE {})
    <3>1. CASE j = 1
      BY <1>1, <2>1, <3>1
    <3>2. ASSUME NEW i \in 1 .. n - 1, j = i + 1 PROVE l[j].task \in Tasks(t, d)
      <4>1. t[i] = l[j] /\ i \in DOMAIN t
        BY <1>1, <3>2
      <4> QED
        BY <2>1, <4>1 DEF Tasks
    <3> QED
      BY <1>2, <3>1, <3>2
  <2>2. h.call = d => h.task \in Tasks(l, d)
    BY <1>1, <1>4 DEF Tasks
  <2>3. ASSUME NEW i \in 1 .. n - 1, t[i].call = d PROVE t[i].task \in Tasks(l, d)
    <3>1. i + 1 \in DOMAIN l /\ l[i + 1] = t[i]
      BY <1>1, <1>3
    <3> QED
      BY <2>3, <3>1 DEF Tasks
  <2>4. Tasks(l, d) \subseteq Tasks(t, d) \cup (IF h.call = d THEN {h.task} ELSE {})
    BY <1>1, <2>1 DEF Tasks
  <2>5. Tasks(t, d) \subseteq Tasks(l, d)
    BY <1>1, <2>3 DEF Tasks
  <2> QED
    BY <2>2, <2>4, <2>5
<1> HIDE DEF X, Y
<1>10. n - 1 \in Nat /\ 1 \in Nat
  BY <1>1
<1>11. Cardinality(Steps(l, d)) = Cardinality(X) + Cardinality(Steps(t, d))
  <2>1. Behind(1, n - 1, X, Steps(t, d), Steps(l, d))
    BY <1>5, <1>7, <1>10 DEF Behind
  <2> QED
    BY <2>1, JoinedCount
<1>12. Cardinality(Endings(l, d)) = Cardinality(Y) + Cardinality(Endings(t, d))
  <2>1. Behind(1, n - 1, Y, Endings(t, d), Endings(l, d))
    BY <1>6, <1>7, <1>10 DEF Behind
  <2> QED
    BY <2>1, JoinedCount
<1>13. \A j \in DOMAIN t : \E i \in DOMAIN l : t[j] = l[i]
  BY <1>1, <1>3
<1>14. Cardinality(Steps(t, d)) \in Nat /\ Cardinality(Endings(t, d)) \in Nat
  BY <1>1, ViewFinite
<1>15. Cardinality(Steps(l, d)) = Cardinality(Steps(t, d)) + Cardinality(X)
  BY <1>8, <1>11, <1>14
<1>16. Cardinality(Endings(l, d)) = Cardinality(Endings(t, d)) + Cardinality(Y)
  BY <1>8, <1>12, <1>14
<1> QED
  BY <1>1, <1>8, <1>9, <1>13, <1>15, <1>16 DEF h, t

\* the questions Q of call c
Sent(c, Q) == {[call |-> c, task |-> q] : q \in Q}

\* the questions of a call, with one answered and some asked
Moved(s, a, c, Q) ==
  LET x == (s \ {a}) \cup Sent(c, Q)
      y == s \cup Sent(c, Q)
  IN  /\ \A d : d # c => Asking(y, d) = Asking(s, d)
      /\ \A d : d # c /\ a.call = c => Asking(x, d) = Asking(s, d)
      /\ Asking(y, c) = Asking(s, c) \cup Q
      /\ a.call = c => /\ a.task \in Asking(s, c)
                       /\ Asking(x, c) = (Asking(s, c) \ {a.task}) \cup Q

LEMMA ViewAsked ==
  ASSUME NEW s, NEW a \in s, \A b \in s : b = [call |-> b.call, task |-> b.task],
         NEW c, NEW Q
  PROVE  Moved(s, a, c, Q)
<1> DEFINE N == Sent(c, Q)
           x == (s \ {a}) \cup N
           y == s \cup N
<1>1. \A b \in N : b.call = c /\ b.task \in Q
  BY DEF Sent
<1>2. \A q \in Q : \E b \in N : b.call = c /\ b.task = q
  <2>1. ASSUME NEW q \in Q PROVE \E b \in N : b.call = c /\ b.task = q
    <3>1. /\ [call |-> c, task |-> q] \in N
          /\ [call |-> c, task |-> q].call = c /\ [call |-> c, task |-> q].task = q
      BY DEF Sent
    <3> HIDE DEF N
    <3> QED
      BY <3>1
  <2> QED
    BY <2>1
<1> HIDE DEF N
<1>3. \A d : d # c => Asking(y, d) = Asking(s, d)
  <2>1. ASSUME NEW d, d # c PROVE {b \in y : b.call = d} = {b \in s : b.call = d}
    BY <1>1, <2>1
  <2>2. ASSUME NEW d, d # c PROVE Asking(y, d) = Asking(s, d)
    <3>1. {b \in y : b.call = d} = {b \in s : b.call = d}
      BY <2>1, <2>2
    <3> HIDE DEF y
    <3> QED
      BY <3>1 DEF Asking
  <2> QED
    BY <2>2
<1>4. a.call = c => \A d : d # c => Asking(x, d) = Asking(s, d)
  <2>1. ASSUME a.call = c, NEW d, d # c PROVE {b \in x : b.call = d} = {b \in s : b.call = d}
    BY <1>1, <2>1
  <2>2. ASSUME a.call = c, NEW d, d # c PROVE Asking(x, d) = Asking(s, d)
    <3>1. {b \in x : b.call = d} = {b \in s : b.call = d}
      BY <2>1, <2>2
    <3> HIDE DEF x
    <3> QED
      BY <3>1 DEF Asking
  <2> QED
    BY <2>2
<1>5. \A S, d : \A t : t \in Asking(S, d) <=> \E b \in S : b.call = d /\ b.task = t
  BY DEF Asking
<1>6. \A t : t \in Asking(y, c) <=> t \in Asking(s, c) \cup Q
  <2>1. \A t : t \in Asking(y, c) <=> \E b \in s \cup N : b.call = c /\ b.task = t
    BY <1>5
  <2>2. \A t : t \in Asking(s, c) <=> \E b \in s : b.call = c /\ b.task = t
    BY <1>5
  <2> QED
    BY <1>1, <1>2, <2>1, <2>2
<1>7. Asking(y, c) = Asking(s, c) \cup Q
  BY <1>6
<1>8. a.call = c => a.task \in Asking(s, c)
  BY <1>5
<1>9. a.call = c => \A t : t \in Asking(x, c) <=> t \in (Asking(s, c) \ {a.task}) \cup Q
  <2> SUFFICES ASSUME a.call = c
               PROVE  \A t : t \in Asking(x, c) <=> t \in (Asking(s, c) \ {a.task}) \cup Q
    OBVIOUS
  <2>1. \A t : t \in Asking(x, c) <=> \E b \in (s \ {a}) \cup N : b.call = c /\ b.task = t
    BY <1>5
  <2>2. \A t : t \in Asking(s, c) <=> \E b \in s : b.call = c /\ b.task = t
    BY <1>5
  <2>3. \A b \in s : b.call = c /\ b.task = a.task => b = a
    OBVIOUS
  <2>4. \A t : (\E b \in s \ {a} : b.call = c /\ b.task = t) <=> t \in Asking(s, c) \ {a.task}
    BY <2>2, <2>3
  <2>5. ASSUME NEW t, \E b \in (s \ {a}) \cup N : b.call = c /\ b.task = t
        PROVE  t \in (Asking(s, c) \ {a.task}) \cup Q
    <3>1. PICK b \in (s \ {a}) \cup N : b.call = c /\ b.task = t
      BY <2>5
    <3>2. CASE b \in s \ {a}
      BY <2>4, <3>1, <3>2
    <3>3. CASE b \in N
      BY <1>1, <3>1, <3>3
    <3> QED
      BY <3>1, <3>2, <3>3
  <2>6. ASSUME NEW t \in (Asking(s, c) \ {a.task}) \cup Q
        PROVE  \E b \in (s \ {a}) \cup N : b.call = c /\ b.task = t
    <3>1. CASE t \in Q
      <4>1. \E b \in N : b.call = c /\ b.task = t
        BY <1>2, <3>1
      <4> QED
        BY <4>1
    <3>2. CASE t \in Asking(s, c) \ {a.task}
      <4>1. \E b \in s \ {a} : b.call = c /\ b.task = t
        BY <2>4, <3>2
      <4> QED
        BY <4>1
    <3> QED
      BY <2>6, <3>1, <3>2
  <2> HIDE DEF x, y
  <2> QED
    BY <2>1, <2>5, <2>6
<1>10. a.call = c => Asking(x, c) = (Asking(s, c) \ {a.task}) \cup Q
  BY <1>9
<1> QED
  BY <1>3, <1>4, <1>7, <1>8, <1>10 DEF x, y, N, Moved

-----------------------------------------------------------------------------
(* What handlers leave.  Reactions have their idle functions and answers   *)
(* in an order, and ask what other processes can answer.                   *)

Formed(r) == /\ r = Reaction(r.work, r.later, r.asks, r.says)
             /\ Ordered(r.later) /\ Ordered(r.says) /\ \A t \in r.asks : Question(t)

\* a set of numbers that has 0 and each after one it has, up to n
LEMMA Climbs ==
  ASSUME NEW n \in Nat, NEW S, 0 \in S, \A i \in 1 .. n : i - 1 \in S => i \in S
  PROVE  \A i \in 0 .. n : i \in S
<1> DEFINE T == (0 .. n) \ S
<1> SUFFICES ASSUME T # {} PROVE FALSE
  OBVIOUS
<1>1. T \subseteq Nat
  OBVIOUS
<1>2. \E m \in T : \A k \in T : <<k, m>> \notin OpToRel(<, Nat)
  BY <1>1, WFMin, NatLessThanWellFounded
<1>3. PICK m \in T : \A k \in T : ~ (k < m)
  BY <1>1, <1>2 DEF OpToRel
<1>4. m \in 0 .. n /\ m # 0 /\ m \notin S
  OBVIOUS
<1>5. m \in 1 .. n /\ m - 1 \in 0 .. n /\ m - 1 < m
  BY <1>4
<1>6. m - 1 \in S
  BY <1>3, <1>5
<1> QED
  BY <1>4, <1>5, <1>6

\* a sequence of none, or of one
LEMMA ShortCount ==
  /\ Listed(<<>>) = {} /\ Cardinality(Plain(<<>>)) = 0 /\ Cardinality(Final(<<>>)) = 0
  /\ \A t : /\ Listed(<<t>>) = {t}
            /\ Cardinality(Plain(<<t>>)) = (IF Emission(t) THEN 0 ELSE 1)
            /\ Cardinality(Final(<<t>>)) = (IF Emission(t) THEN 1 ELSE 0)
<1>1. Cardinality({}) = 0 /\ Cardinality({1}) = 1
  BY FS_EmptySet, FS_Singleton
<1>2. Listed(<<>>) = {} /\ Plain(<<>>) = {} /\ Final(<<>>) = {}
  BY ShortOrder DEF Listed, Plain, Final
<1>3. ASSUME NEW t
      PROVE  /\ Listed(<<t>>) = {t}
             /\ Plain(<<t>>) = (IF Emission(t) THEN {} ELSE {1})
             /\ Final(<<t>>) = (IF Emission(t) THEN {1} ELSE {})
  <2> DEFINE l == <<t>>
  <2>1. DOMAIN l = {1} /\ l[1] = t
    BY ShortOrder
  <2> HIDE DEF l
  <2>2. /\ Listed(l) = {t} /\ Plain(l) = (IF Emission(t) THEN {} ELSE {1})
        /\ Final(l) = (IF Emission(t) THEN {1} ELSE {})
    BY <2>1 DEF Listed, Plain, Final
  <2> QED
    BY <2>2 DEF l
<1> QED
  BY <1>1, <1>2, <1>3

\* a handler that does one thing
LEMMA OneThing ==
  ASSUME NEW m
  PROVE  /\ Formed(Reaction(m, <<>>, {}, <<>>))
         /\ \A t : Formed(Reaction(m, <<t>>, {}, <<>>))
         /\ \A t : Question(t) => Formed(Reaction(m, <<>>, {t}, <<>>))
         /\ \A a : Formed(Reaction(m, <<>>, {}, <<a>>))
  BY ShortOrder DEF Formed, Reaction

\* two handlers in a row
LEMMA InARow ==
  ASSUME NEW r, Formed(r), NEW s, Formed(s)
  PROVE  /\ Formed(Then(r, s)) /\ Then(r, s).work = s.work
         /\ Then(r, s).asks = r.asks \cup s.asks /\ Then(r, s).says = r.says \o s.says
         /\ Then(r, s).later = r.later \o s.later
<1>1. /\ Then(r, s).work = s.work /\ Then(r, s).asks = r.asks \cup s.asks
      /\ Then(r, s).says = r.says \o s.says /\ Then(r, s).later = r.later \o s.later
      /\ Then(r, s) = Reaction(Then(r, s).work, Then(r, s).later, Then(r, s).asks,
                               Then(r, s).says)
  BY DEF Then, Reaction
<1>2. /\ Ordered(r.later) /\ Ordered(s.later) /\ Ordered(r.says) /\ Ordered(s.says)
      /\ \A t \in r.asks \cup s.asks : Question(t)
  BY DEF Formed
<1>3. Ordered(r.says \o s.says)
  BY <1>2, JoinedOrder
<1>4. Ordered(r.later \o s.later)
  BY <1>2, JoinedOrder
<1>5. Formed(Then(r, s))
  BY <1>1, <1>2, <1>3, <1>4 DEF Formed
<1> QED
  BY <1>1, <1>5

LEMMA SaysAfter ==
  ASSUME NEW r, r.says = <<>>, NEW s, Formed(s) PROVE Then(r, s).says = s.says
<1>1. Then(r, s).says = r.says \o s.says
  BY DEF Then, Reaction
<1>2. <<>> \o s.says = s.says
  BY NothingAfter DEF Formed
<1> QED
  BY <1>1, <1>2

LEMMA RowCount ==
  ASSUME NEW r, Formed(r), NEW s, Formed(s)
  PROVE  /\ Listed(Then(r, s).later) = Listed(r.later) \cup Listed(s.later)
         /\ Cardinality(Plain(Then(r, s).later))
              = Cardinality(Plain(r.later)) + Cardinality(Plain(s.later))
         /\ Cardinality(Final(Then(r, s).later))
              = Cardinality(Final(r.later)) + Cardinality(Final(s.later))
<1>1. Then(r, s).later = r.later \o s.later
  BY InARow
<1>2. Ordered(r.later) /\ Ordered(s.later)
  BY DEF Formed
<1> QED
  BY <1>1, <1>2, PlainJoined

LEMMA CollectedFormed ==
  ASSUME NEW m, NEW a
  PROVE  Formed(Collected(m, a)) /\ Collected(m, a).says = <<>> /\ Collected(m, a).asks = {}
<1>1. \A w, l : /\ Reaction(w, l, {}, <<>>).says = <<>>
                /\ Reaction(w, l, {}, <<>>).asks = {}
  BY DEF Reaction
<1>2. \E w, t : \/ Collected(m, a) = Reaction(w, <<t>>, {}, <<>>)
                \/ Collected(m, a) = Reaction(w, <<>>, {}, <<>>)
  BY DEF Collected
<1> QED
  BY <1>1, <1>2, OneThing

-----------------------------------------------------------------------------
(* The collector of the base class, for each answer of a get_metadata.     *)

\* h has the reaction after each of the first n answers
Gaining(m, r, n, h) ==
  h = [i \in 0 .. n |-> IF i = 0 THEN Reaction(m, r.later, r.asks, <<>>)
                        ELSE Then(h[i - 1], Collected(h[i - 1].work, r.says[i]))]

LEMMA GainingExists ==
  ASSUME NEW m, NEW r, NEW n \in Nat PROVE \E h : Gaining(m, r, n, h)
<1> DEFINE S == {k \in 0 .. n : \E h : Gaining(m, r, k, h)}
<1>1. 0 \in S
  <2> DEFINE f == [i \in 0 .. 0 |-> Reaction(m, r.later, r.asks, <<>>)]
  <2>1. f = [i \in 0 .. 0 |-> IF i = 0 THEN Reaction(m, r.later, r.asks, <<>>)
                              ELSE Then(f[i - 1], Collected(f[i - 1].work, r.says[i]))]
    OBVIOUS
  <2> HIDE DEF f
  <2> QED
    BY <2>1 DEF Gaining
<1>2. ASSUME NEW k \in 1 .. n, k - 1 \in S PROVE k \in S
  <2>1. PICK g : Gaining(m, r, k - 1, g)
    BY <1>2
  <2> DEFINE f == [i \in 0 .. k |-> IF i = 0 THEN Reaction(m, r.later, r.asks, <<>>)
                      ELSE Then(g[i - 1], Collected(g[i - 1].work, r.says[i]))]
  <2>2. ASSUME NEW i \in 0 .. k, i # 0 PROVE f[i - 1] = g[i - 1]
    <3>1. i - 1 \in 0 .. k /\ i - 1 \in 0 .. (k - 1)
      BY <1>2, <2>2
    <3>2. g[i - 1] = IF i - 1 = 0 THEN Reaction(m, r.later, r.asks, <<>>)
                     ELSE Then(g[(i - 1) - 1], Collected(g[(i - 1) - 1].work, r.says[i - 1]))
      BY <2>1, <3>1 DEF Gaining
    <3>3. f[i - 1] = IF i - 1 = 0 THEN Reaction(m, r.later, r.asks, <<>>)
                     ELSE Then(g[(i - 1) - 1], Collected(g[(i - 1) - 1].work, r.says[i - 1]))
      BY <3>1
    <3> QED
      BY <3>2, <3>3
  <2>3. f = [i \in 0 .. k |-> IF i = 0 THEN Reaction(m, r.later, r.asks, <<>>)
               ELSE Then(f[i - 1], Collected(f[i - 1].work, r.says[i]))]
    BY <2>2
  <2>4. Gaining(m, r, k, f)
    BY <2>3 DEF Gaining
  <2>5. k \in 0 .. n
    BY <1>2
  <2> QED
    BY <2>4, <2>5
<1>3. \A k \in 0 .. n : k \in S
  BY <1>1, <1>2, Climbs
<1> QED
  BY <1>3

\* what that says of the first reaction and of each later one
Gained(m, r, n, h) ==
  /\ h[0] = Reaction(m, r.later, r.asks, <<>>)
  /\ \A i \in 1 .. n : h[i] = Then(h[i - 1], Collected(h[i - 1].work, r.says[i]))

LEMMA GainingSteps ==
  ASSUME NEW m, NEW r, NEW n \in Nat, NEW h, Gaining(m, r, n, h)
  PROVE  Gained(m, r, n, h)
<1>1. 0 \in 0 .. n /\ \A i \in 1 .. n : i \in 0 .. n /\ i # 0
  OBVIOUS
<1> QED
  BY <1>1 DEF Gaining, Gained

LEMMA GatheredThrough ==
  ASSUME NEW m, NEW r, Len(r.says) \in Nat
  PROVE  \E h : Gaining(m, r, Len(r.says), h) /\ Gathered(m, r) = h[Len(r.says)]
<1> DEFINE after == CHOOSE h : Gaining(m, r, Len(r.says), h)
<1>1. Gaining(m, r, Len(r.says), after)
  <2>1. \E h : Gaining(m, r, Len(r.says), h)
    BY GainingExists
  <2> QED
    BY <2>1, Zenon
<1>2. Gathered(m, r) = after[Len(r.says)]
  BY DEF Gathered, Gaining
<1> QED
  BY <1>1, <1>2

LEMMA GatheredFormed ==
  ASSUME NEW m, NEW r, Formed(r)
  PROVE  Formed(Gathered(m, r)) /\ Gathered(m, r).says = <<>>
<1> DEFINE n == Len(r.says)
           Fit(x) == Formed(x) /\ x.says = <<>>
<1>1. n \in Nat
  BY DEF Formed, Ordered
<1>2. PICK h : Gaining(m, r, n, h) /\ Gathered(m, r) = h[n]
  BY <1>1, GatheredThrough
<1> HIDE DEF n
<1>2a. Gaining(m, r, n, h)
  BY <1>2
<1>3. /\ h[0] = Reaction(m, r.later, r.asks, <<>>)
      /\ \A i \in 1 .. n : h[i] = Then(h[i - 1], Collected(h[i - 1].work, r.says[i]))
  <2>1. Gained(m, r, n, h)
    BY <1>1, <1>2a, GainingSteps
  <2> QED
    BY <2>1 DEF Gained
<1> DEFINE S == {i \in 0 .. n : Fit(h[i])}
<1>4. 0 \in S
  <2>1. Fit(h[0])
    BY <1>3, ShortOrder DEF Formed, Reaction
  <2> QED
    BY <1>1, <2>1
<1>5. ASSUME NEW i \in 1 .. n, i - 1 \in S PROVE i \in S
  <2> DEFINE c == Collected(h[i - 1].work, r.says[i])
  <2>1. Formed(c) /\ c.says = <<>>
    BY CollectedFormed
  <2>2. h[i] = Then(h[i - 1], c) /\ Formed(h[i - 1]) /\ h[i - 1].says = <<>>
    BY <1>3, <1>5
  <2> HIDE DEF c
  <2>3. Formed(Then(h[i - 1], c)) /\ Then(h[i - 1], c).says = <<>>
    <3>1. Formed(Then(h[i - 1], c))
      BY <2>1, <2>2, InARow
    <3> QED
      BY <2>1, <2>2, <3>1, SaysAfter
  <2>4. i \in 0 .. n
    BY <1>5
  <2> QED
    BY <2>2, <2>3, <2>4
<1>6. n \in 0 .. n
  BY <1>1
<1>7. n \in S
  BY <1>1, <1>4, <1>5, <1>6, Climbs
<1> QED
  BY <1>2, <1>7

\* a get_metadata that does not answer yet, one that answers at once
LEMMA GatheredNone ==
  ASSUME NEW m, NEW r, r.says = <<>>
  PROVE  Gathered(m, r) = Reaction(m, r.later, r.asks, <<>>)
<1>1. Len(r.says) = 0 /\ Len(r.says) \in Nat
  BY ShortOrder
<1>2. PICK h : Gaining(m, r, Len(r.says), h) /\ Gathered(m, r) = h[Len(r.says)]
  BY <1>1, GatheredThrough
<1> QED
  BY <1>1, <1>2 DEF Gaining

Replying(r, a) == r.later = <<>> /\ r.asks = {} /\ r.says = <<a>>

LEMMA GatheredOne ==
  ASSUME NEW m, NEW a, NEW r, Replying(r, a)
  PROVE  Gathered(m, r) = Collected(m, a)
<1> DEFINE c == Collected(m, a)
           b == Reaction(m, <<>>, {}, <<>>)
<1>0. r.later = <<>> /\ r.asks = {} /\ r.says = <<a>>
  BY DEF Replying
<1>1. Len(r.says) = 1 /\ r.later = <<>> /\ r.asks = {} /\ r.says[1] = a
  BY <1>0, ShortOrder
<1>1a. Len(r.says) \in Nat
  BY <1>1
<1>2. PICK h : Gaining(m, r, Len(r.says), h) /\ Gathered(m, r) = h[Len(r.says)]
  BY <1>1a, GatheredThrough
<1>3. 1 \in 1 .. 1
  OBVIOUS
<1>4. h[0] = b /\ h[1] = Then(h[0], Collected(h[0].work, r.says[1]))
  <2> DEFINE n == Len(r.says)
  <2>1. Gaining(m, r, n, h) /\ n \in Nat
    BY <1>1, <1>2
  <2>2. /\ h[0] = Reaction(m, r.later, r.asks, <<>>)
        /\ \A i \in 1 .. n : h[i] = Then(h[i - 1], Collected(h[i - 1].work, r.says[i]))
    <3>1. Gaining(m, r, n, h)
      BY <2>1
    <3>2. n \in Nat
      BY <2>1
    <3> HIDE DEF b, c
    <3>3. Gained(m, r, n, h)
      BY <3>1, <3>2, GainingSteps
    <3> QED
      BY <3>3 DEF Gained
  <2>3. h[0] = b /\ n = 1
    BY <1>1, <2>2 DEF n
  <2>4. h[1] = Then(h[1 - 1], Collected(h[1 - 1].work, r.says[1]))
    BY <1>3, <2>2, <2>3
  <2>5. 1 - 1 = 0
    OBVIOUS
  <2> QED
    BY <2>3, <2>4, <2>5
<1>5. h[1] = Then(b, c)
  BY <1>1, <1>4 DEF Reaction
<1>6. Formed(c) /\ c.says = <<>> /\ c.asks = {}
  BY CollectedFormed
<1>7. Formed(b) /\ b.says = <<>> /\ b.later = <<>> /\ b.asks = {}
  BY OneThing DEF Reaction
<1> HIDE DEF b, c
<1>8. /\ Formed(Then(b, c)) /\ Then(b, c).work = c.work /\ Then(b, c).asks = {}
      /\ Then(b, c).says = c.says /\ Then(b, c).later = <<>> \o c.later
  <2>0. Formed(b) /\ Formed(c)
    BY <1>6, <1>7
  <2>1. Formed(Then(b, c))
    BY <2>0, InARow
  <2>2. Then(b, c).work = c.work
    BY <2>0, InARow
  <2>3. Then(b, c).asks = b.asks \cup c.asks /\ Then(b, c).later = b.later \o c.later
    BY <2>0, InARow
  <2>4. Then(b, c).says = c.says
    BY <1>7, <2>0, SaysAfter
  <2> QED
    BY <1>6, <1>7, <2>1, <2>2, <2>3, <2>4
<1>9. <<>> \o c.later = c.later
  BY <1>6, NothingAfter DEF Formed
<1>10. Then(b, c) = Reaction(c.work, c.later, {}, c.says)
  BY <1>8, <1>9 DEF Formed
<1>11. c = Reaction(c.work, c.later, {}, c.says)
  BY <1>6 DEF Formed
<1> QED
  BY <1>1, <1>2, <1>5, <1>10, <1>11 DEF c

-----------------------------------------------------------------------------
(* An answer collected for one of the objects.                             *)

Metadata4(k, g, e, q) == [remaining |-> k, got |-> g, err |-> e, queued |-> q]

LEMMA MetadatasParts ==
  ASSUME NEW O
  PROVE  /\ \A m \in Metadatas(O) :
              \E k \in 0 .. UintMod - 1, g \in SUBSET O, e \in BOOLEAN, q \in BOOLEAN :
                m = Metadata4(k, g, e, q)
         /\ \A k \in 0 .. UintMod - 1, g \in SUBSET O, e \in BOOLEAN, q \in BOOLEAN :
              Metadata4(k, g, e, q) \in Metadatas(O)
<1>1. ASSUME NEW m \in Metadatas(O)
      PROVE  \E k \in 0 .. UintMod - 1, g \in SUBSET O, e \in BOOLEAN, q \in BOOLEAN :
               m = Metadata4(k, g, e, q)
  <2>1. /\ m = Metadata4(m.remaining, m.got, m.err, m.queued)
        /\ m.remaining \in 0 .. UintMod - 1 /\ m.got \in SUBSET O
        /\ m.err \in BOOLEAN /\ m.queued \in BOOLEAN
    BY DEF Metadatas, Metadata4
  <2> QED
    BY <2>1
<1> QED
  BY <1>1 DEF Metadatas, Metadata4

LEMMA CollectedGets ==
  ASSUME NEW O, NEW m \in Metadatas(O), m.remaining # 0, NEW a, a.got \subseteq O,
         a.ok \in BOOLEAN
  PROVE  \E w \in Metadatas(O) :
           /\ w.remaining = m.remaining - 1
           /\ w.got = m.got \cup a.got /\ (w.err <=> m.err \/ ~a.ok)
           /\ \/ Collected(m, a) = Reaction(w, <<>>, {}, <<>>) /\ w.queued = m.queued
              \/ /\ Collected(m, a) = Reaction(w, <<Todo("emit", {})>>, {}, <<>>)
                 /\ w.remaining = 0 /\ w.queued /\ ~m.queued
<1>1. PICK k \in 0 .. UintMod - 1, g \in SUBSET O, e \in BOOLEAN, q \in BOOLEAN :
        m = Metadata4(k, g, e, q)
  BY MetadatasParts
<1>2. k \in 1 .. UintMod - 1 /\ UintMod \in Nat \ {0} /\ m.remaining = k
  BY <1>1, UintAssumption DEF Metadata4
<1>3. (k - 1) % UintMod = k - 1 /\ k - 1 \in 0 .. UintMod - 1
  BY <1>2, SMTT(30)
<1> DEFINE f == e \/ ~a.ok
           h == g \cup a.got
           v == Metadata4(k - 1, h, f, q)
           x == Metadata4(k - 1, h, f, TRUE)
           d == [m EXCEPT !.remaining = (@ - 1) % UintMod,
                          !.got = @ \cup a.got, !.err = FirstError(m, a)]
<1>4. f \in BOOLEAN /\ h \in SUBSET O
  BY <1>1
<1>5. v \in Metadatas(O) /\ x \in Metadatas(O)
  BY <1>1, <1>3, <1>4, MetadatasParts
<1>6. FirstError(m, a) = f
  BY <1>1 DEF FirstError, Metadata4
<1>7. d = v
  <2>1. (m.remaining - 1) % UintMod = k - 1 /\ m.got = g
    BY <1>1, <1>3 DEF Metadata4
  <2>2. d = [m EXCEPT !.remaining = k - 1, !.got = h, !.err = f]
    BY <1>6, <2>1
  <2> HIDE DEF d, f, h
  <2> QED
    BY <1>1, <2>2 DEF Metadata4
<1>8. [v EXCEPT !.queued = TRUE] = x
  <2> HIDE DEF f, h
  <2>1. \A y, i, s, t, u, b : y = Metadata4(i, s, t, u)
                              => [y EXCEPT !.queued = b] = Metadata4(i, s, t, b)
    BY DEF Metadata4
  <2>2. ASSUME NEW b PROVE [v EXCEPT !.queued = b] = Metadata4(k - 1, h, f, b)
    BY <2>1
  <2> QED
    BY <2>2
<1>9. Collected(m, a) = IF EmitsNow(v) THEN Reaction(x, <<Todo("emit", {})>>, {}, <<>>)
                        ELSE Reaction(v, <<>>, {}, <<>>)
  <2>1. Collected(m, a) =
          IF EmitsNow(d) THEN Reaction([d EXCEPT !.queued = TRUE], <<Todo("emit", {})>>, {}, <<>>)
          ELSE Reaction(d, <<>>, {}, <<>>)
    BY DEF Collected
  <2> HIDE DEF d, v, x
  <2>2. EmitsNow(d) <=> EmitsNow(v)
    BY <1>7
  <2>3. [d EXCEPT !.queued = TRUE] = x
    BY <1>7, <1>8
  <2>4. CASE EmitsNow(v)
    BY <2>1, <2>2, <2>3, <2>4
  <2>5. CASE ~EmitsNow(v)
    BY <1>7, <2>1, <2>2, <2>5
  <2> QED
    BY <2>4, <2>5
<1>10. /\ v.remaining = k - 1 /\ v.got = h /\ v.queued = q /\ (v.err <=> f)
       /\ x.remaining = k - 1 /\ x.got = h /\ x.queued /\ (x.err <=> f)
  <2> HIDE DEF f, h
  <2> QED
    BY DEF Metadata4
<1>11. m.got = g /\ m.queued = q /\ (m.err <=> e)
  BY <1>1 DEF Metadata4
<1>12. h = m.got \cup a.got /\ (f <=> m.err \/ ~a.ok)
  BY <1>11
<1> HIDE DEF d, v, x, f, h
<1>13. CASE EmitsNow(v)
  <2>1. k - 1 = 0 /\ ~q
    BY <1>10, <1>13 DEF EmitsNow
  <2>2. Collected(m, a) = Reaction(x, <<Todo("emit", {})>>, {}, <<>>)
    BY <1>9, <1>13
  <2> QED
    BY <1>2, <1>5, <1>10, <1>11, <1>12, <2>1, <2>2
<1>14. CASE ~EmitsNow(v)
  <2>1. Collected(m, a) = Reaction(v, <<>>, {}, <<>>)
    BY <1>9, <1>14
  <2> QED
    BY <1>2, <1>5, <1>10, <1>11, <1>12, <2>1
<1> QED
  BY <1>13, <1>14

-----------------------------------------------------------------------------
(* The objects that tasks are about.                                       *)

LEMMA AboutParts ==
  /\ About({}) = {} /\ \A t : About({t}) = t.objs
  /\ \A T, U : About(T \cup U) = About(T) \cup About(U)
  /\ \A T, O : (\A t \in T : t.objs \subseteq O) => About(T) \subseteq O
  BY DEF About

LEMMA AboutFinite ==
  ASSUME NEW O, IsFiniteSet(O), NEW X, X \subseteq O
  PROVE  IsFiniteSet(X) /\ Cardinality(X) \in Nat
<1>1. IsFiniteSet(X)
  BY FS_Subset
<1> QED
  BY <1>1, FS_CardinalityType

LEMMA CountMore ==
  ASSUME NEW X, IsFiniteSet(X), NEW o
  PROVE  /\ IsFiniteSet(X \cup {o}) /\ Cardinality(X \cup {o}) \in Nat
         /\ Cardinality(X) \in Nat /\ Cardinality(X \cup {o}) <= Cardinality(X) + 1
<1>1. Cardinality(X) \in Nat
  BY FS_CardinalityType
<1>2. /\ IsFiniteSet(X \cup {o})
      /\ Cardinality(X \cup {o}) = IF o \in X THEN Cardinality(X) ELSE Cardinality(X) + 1
  BY FS_AddElement
<1> QED
  BY <1>1, <1>2

-----------------------------------------------------------------------------
(* The base class: the metadata of one object o is still to be asked for.  *)

Lacks(source, O, keys, m, T, n, e, Q, o) ==
  /\ IsFiniteSet(O) /\ o \in O /\ n \in Nat /\ m \in Metadatas(O)
  /\ keys # "none" => m.err \/ m.got \cup About(T) \cup About(Q) \cup {o} = O
  /\ Fetching(source, O, T) /\ Querying(source, O, Q)
  /\ n + Cardinality(About(Q)) < m.remaining
  /\ e = IF m.queued THEN 1 ELSE 0

LEMMA QueriedFinite ==
  ASSUME NEW source, NEW O, IsFiniteSet(O), NEW Q, Querying(source, O, Q)
  PROVE  /\ About(Q) \subseteq O /\ IsFiniteSet(About(Q))
         /\ Cardinality(About(Q)) \in Nat /\ (About(Q) = {} => Q = {})
<1>1. \A t \in Q : t.objs \subseteq O /\ t.objs # {}
  BY DEF Querying, Todo
<1>2. About(Q) \subseteq O
  BY <1>1, AboutParts
<1>3. IsFiniteSet(About(Q)) /\ Cardinality(About(Q)) \in Nat
  BY <1>2, AboutFinite
<1>4. About(Q) = {} => Q = {}
  BY <1>1 DEF About
<1> QED
  BY <1>2, <1>3, <1>4

\* what a reaction r makes of the tasks and the questions
Becomes(source, O, keys, T, n, e, Q, r) ==
  Collects(source, O, keys, r.work, T \cup Listed(r.later),
           n + Cardinality(Plain(r.later)), e + Cardinality(Final(r.later)), Q \cup r.asks)

\* it is asked for in an idle function, or another process is asked for it
LEMMA LacksLater ==
  ASSUME NEW source, NEW O, NEW keys, NEW m, NEW T, NEW n, NEW e, NEW Q, NEW o,
         Lacks(source, O, keys, m, T, n, e, Q, o), source = "iradio"
  PROVE  Becomes(source, O, keys, T, n, e, Q, Reaction(m, <<Todo("get", {o})>>, {}, <<>>))
<1> DEFINE t == Todo("get", {o})
           r == Reaction(m, <<t>>, {}, <<>>)
<1>1. t.kind = "get" /\ t.objs = {o} /\ ~Emission(t)
  BY DEF Todo, Emission
<1> HIDE DEF t
<1>2. r.work = m /\ r.later = <<t>> /\ r.asks = {}
  BY DEF Reaction
<1> HIDE DEF r
<1>3. /\ Listed(r.later) = {t} /\ Cardinality(Plain(r.later)) = 1
      /\ Cardinality(Final(r.later)) = 0
  BY <1>1, <1>2, ShortCount
<1>4. /\ IsFiniteSet(O) /\ o \in O /\ n \in Nat /\ m \in Metadatas(O)
      /\ keys # "none" => m.err \/ m.got \cup About(T) \cup About(Q) \cup {o} = O
      /\ Fetching(source, O, T) /\ Querying(source, O, Q)
      /\ n + Cardinality(About(Q)) < m.remaining /\ e = IF m.queued THEN 1 ELSE 0
  BY DEF Lacks
<1>5. Cardinality(About(Q)) \in Nat
  BY <1>4, QueriedFinite
<1>6. m.remaining \in Nat
  BY <1>4, UintAssumption DEF Metadatas
<1>7. About(T \cup {t}) = About(T) \cup {o}
  BY <1>1, AboutParts
<1>8. Fetching(source, O, T \cup {t})
  BY <1>1, <1>4 DEF Fetching
<1>9. n + 1 + Cardinality(About(Q)) <= m.remaining
  BY <1>4, <1>5, <1>6
<1>10. e \in Nat /\ e + 0 = e
  BY <1>4
<1>11. Collects(source, O, keys, m, T \cup {t}, n + 1, e + 0, Q \cup {})
  BY <1>4, <1>7, <1>8, <1>9, <1>10 DEF Collects
<1>12. Becomes(source, O, keys, T, n, e, Q, r)
  BY <1>2, <1>3, <1>11 DEF Becomes
<1> QED
  BY <1>12 DEF r, t

LEMMA LacksAsks ==
  ASSUME NEW source, NEW O, NEW keys, NEW m, NEW T, NEW n, NEW e, NEW Q, NEW o,
         Lacks(source, O, keys, m, T, n, e, Q, o), source = "upnp"
  PROVE  Becomes(source, O, keys, T, n, e, Q,
                 Reaction(m, <<>>, {Todo("metadata", {o})}, <<>>))
<1> DEFINE t == Todo("metadata", {o})
           r == Reaction(m, <<>>, {t}, <<>>)
<1>0. t = Todo("metadata", {o})
  OBVIOUS
<1>1. t.objs = {o}
  BY DEF Todo
<1> HIDE DEF t
<1>2. r.work = m /\ r.later = <<>> /\ r.asks = {t}
  BY DEF Reaction
<1> HIDE DEF r
<1>3. /\ Listed(r.later) = {} /\ Cardinality(Plain(r.later)) = 0
      /\ Cardinality(Final(r.later)) = 0
  BY <1>2, ShortCount
<1>4. /\ IsFiniteSet(O) /\ o \in O /\ n \in Nat /\ m \in Metadatas(O)
      /\ keys # "none" => m.err \/ m.got \cup About(T) \cup About(Q) \cup {o} = O
      /\ Fetching(source, O, T) /\ Querying(source, O, Q)
      /\ n + Cardinality(About(Q)) < m.remaining /\ e = IF m.queued THEN 1 ELSE 0
  BY DEF Lacks
<1>5. IsFiniteSet(About(Q))
  BY <1>4, QueriedFinite
<1>6. m.remaining \in Nat
  BY <1>4, UintAssumption DEF Metadatas
<1>7. About(Q \cup {t}) = About(Q) \cup {o}
  <2>1. About({t}) = {o}
    BY <1>1, AboutParts
  <2>2. About(Q \cup {t}) = About(Q) \cup About({t})
    BY AboutParts
  <2> QED
    BY <2>1, <2>2
<1>8. Querying(source, O, Q \cup {t})
  BY <1>0, <1>4 DEF Querying
<1>9. n + 0 + Cardinality(About(Q) \cup {o}) <= m.remaining
  <2>1. /\ Cardinality(About(Q) \cup {o}) \in Nat /\ Cardinality(About(Q)) \in Nat
        /\ Cardinality(About(Q) \cup {o}) <= Cardinality(About(Q)) + 1
    BY <1>5, CountMore
  <2> QED
    BY <1>4, <1>6, <2>1
<1>10. e \in Nat /\ e + 0 = e
  BY <1>4
<1>11. keys # "none" => m.err \/ m.got \cup About(T) \cup (About(Q) \cup {o}) = O
  BY <1>4
<1>12. Collects(source, O, keys, m, T \cup {}, n + 0, e + 0, Q \cup {t})
  BY <1>4, <1>7, <1>8, <1>9, <1>10, <1>11 DEF Collects
<1>13. Becomes(source, O, keys, T, n, e, Q, r)
  BY <1>2, <1>3, <1>12 DEF Becomes
<1> QED
  BY <1>13 DEF r, t

\* it is answered
LEMMA LacksAnswer ==
  ASSUME NEW source, NEW O, NEW keys, NEW m, NEW T, NEW n, NEW e, NEW Q, NEW o,
         Lacks(source, O, keys, m, T, n, e, Q, o),
         NEW a, a.ok \in BOOLEAN, a.got \subseteq {o}, a.ok /\ keys # "none" => a.got = {o}
  PROVE  /\ Becomes(source, O, keys, T, n, e, Q, Collected(m, a))
         /\ Collected(m, a).work.remaining <= m.remaining
<1> DEFINE r == Collected(m, a)
<1>1. /\ IsFiniteSet(O) /\ o \in O /\ n \in Nat /\ m \in Metadatas(O)
      /\ keys # "none" => m.err \/ m.got \cup About(T) \cup About(Q) \cup {o} = O
      /\ Fetching(source, O, T) /\ Querying(source, O, Q)
      /\ n + Cardinality(About(Q)) < m.remaining /\ e = IF m.queued THEN 1 ELSE 0
  BY DEF Lacks
<1>2. Cardinality(About(Q)) \in Nat /\ (About(Q) = {} => Q = {})
  BY <1>1, QueriedFinite
<1>3. m.remaining \in Nat /\ m.queued \in BOOLEAN
  BY <1>1, UintAssumption DEF Metadatas
<1>4. m.remaining # 0 /\ a.got \subseteq O
  BY <1>1, <1>2, <1>3
<1>5. PICK w \in Metadatas(O) :
        /\ w.remaining = m.remaining - 1
        /\ w.got = m.got \cup a.got /\ (w.err <=> m.err \/ ~a.ok)
        /\ \/ r = Reaction(w, <<>>, {}, <<>>) /\ w.queued = m.queued
           \/ /\ r = Reaction(w, <<Todo("emit", {})>>, {}, <<>>)
              /\ w.remaining = 0 /\ w.queued /\ ~m.queued
  BY <1>1, <1>4, CollectedGets
<1> HIDE DEF r
<1>6. keys # "none" => w.err \/ w.got \cup About(T) \cup About(Q) = O
  BY <1>1, <1>5
<1>7. n + Cardinality(About(Q)) <= w.remaining
  BY <1>1, <1>2, <1>3, <1>5
<1>8. e \in Nat /\ e + 0 = e /\ n + 0 = n
  BY <1>1
<1>9. ASSUME r = Reaction(w, <<>>, {}, <<>>), w.queued = m.queued
      PROVE  Becomes(source, O, keys, T, n, e, Q, r)
  <2>1. r.work = w /\ r.later = <<>> /\ r.asks = {}
    BY <1>9 DEF Reaction
  <2>2. /\ Listed(r.later) = {} /\ Cardinality(Plain(r.later)) = 0
        /\ Cardinality(Final(r.later)) = 0
    BY <2>1, ShortCount
  <2>3. e = IF w.queued THEN 1 ELSE 0
    BY <1>1, <1>9
  <2>4. Collects(source, O, keys, w, T \cup {}, n + 0, e + 0, Q \cup {})
    BY <1>1, <1>6, <1>7, <1>8, <2>3 DEF Collects
  <2> QED
    BY <2>1, <2>2, <2>4 DEF Becomes
<1>10. ASSUME r = Reaction(w, <<Todo("emit", {})>>, {}, <<>>),
              w.remaining = 0, w.queued, ~m.queued
       PROVE  Becomes(source, O, keys, T, n, e, Q, r)
  <2> DEFINE t == Todo("emit", {})
  <2>0. Emission(t) /\ t.objs = {}
    BY DEF Emission, Todo
  <2>1. r.work = w /\ r.later = <<t>> /\ r.asks = {}
    BY <1>10 DEF Reaction
  <2> HIDE DEF t
  <2>2. /\ Listed(r.later) = {t} /\ Cardinality(Plain(r.later)) = 0
        /\ Cardinality(Final(r.later)) = 1
    BY <2>0, <2>1, ShortCount
  <2>3. e + 1 = IF w.queued THEN 1 ELSE 0
    BY <1>1, <1>10
  <2>4. About(T \cup {t}) = About(T)
    <3>1. About({t}) = {}
      BY <2>0, AboutParts
    <3>2. About(T \cup {t}) = About(T) \cup About({t})
      BY AboutParts
    <3> QED
      BY <3>1, <3>2
  <2>5. Fetching(source, O, T \cup {t})
    BY <1>1, <2>0 DEF Fetching
  <2>6. Collects(source, O, keys, w, T \cup {t}, n + 0, e + 1, Q \cup {})
    BY <1>1, <1>6, <1>7, <1>8, <2>3, <2>4, <2>5 DEF Collects
  <2> QED
    BY <2>1, <2>2, <2>6 DEF Becomes
<1>11. Becomes(source, O, keys, T, n, e, Q, r)
  BY <1>5, <1>9, <1>10
<1>12. r.work = w
  BY <1>5 DEF Reaction
<1>13. r.work.remaining <= m.remaining
  BY <1>3, <1>5, <1>12
<1> QED
  BY <1>11, <1>13 DEF r

-----------------------------------------------------------------------------
(* get_metadatas of the base class.                                        *)

\* one more object is asked for
OneMore(m) == [m EXCEPT !.remaining = @ + 1]

\* h has the reaction after each of the first n objects
Starting(objs, gets, n, h) ==
  h = [i \in 0 .. n |-> IF i = 0 THEN Reaction(NoMetadatas, <<>>, {}, <<>>)
         ELSE Then(h[i - 1], Gathered(OneMore(h[i - 1].work),
                                      gets[objs[i]]))]

LEMMA StartingExists ==
  ASSUME NEW objs, NEW gets, NEW n \in Nat PROVE \E h : Starting(objs, gets, n, h)
<1> DEFINE S == {k \in 0 .. n : \E h : Starting(objs, gets, k, h)}
           F(g, i) == IF i = 0 THEN Reaction(NoMetadatas, <<>>, {}, <<>>)
                      ELSE Then(g[i - 1], Gathered(OneMore(g[i - 1].work),
                                                   gets[objs[i]]))
<1>1. 0 \in S
  <2> DEFINE f == [i \in 0 .. 0 |-> Reaction(NoMetadatas, <<>>, {}, <<>>)]
  <2>1. f = [i \in 0 .. 0 |-> F(f, i)]
    OBVIOUS
  <2> HIDE DEF f
  <2>2. Starting(objs, gets, 0, f)
    BY <2>1 DEF Starting
  <2> QED
    BY <2>2
<1>2. ASSUME NEW k \in 1 .. n, k - 1 \in S PROVE k \in S
  <2>1. PICK g : Starting(objs, gets, k - 1, g)
    BY <1>2
  <2> DEFINE f == [i \in 0 .. k |-> F(g, i)]
  <2>2. ASSUME NEW i \in 0 .. k, i # 0 PROVE f[i - 1] = g[i - 1]
    <3>1. i - 1 \in 0 .. k /\ i - 1 \in 0 .. (k - 1)
      BY <1>2, <2>2
    <3>2. g = [j \in 0 .. (k - 1) |-> F(g, j)]
      BY <2>1 DEF Starting
    <3> HIDE DEF F
    <3>3. g[i - 1] = F(g, i - 1)
      BY <3>1, <3>2
    <3>4. f[i - 1] = F(g, i - 1)
      BY <3>1
    <3> QED
      BY <3>3, <3>4
  <2>3. f = [i \in 0 .. k |-> F(f, i)]
    <3>1. ASSUME NEW i \in 0 .. k PROVE F(f, i) = F(g, i)
      <4> HIDE DEF f
      <4> QED
        BY <2>2, <3>1
    <3> HIDE DEF F
    <3> QED
      BY <3>1
  <2> HIDE DEF f
  <2>4. Starting(objs, gets, k, f)
    BY <2>3 DEF Starting
  <2>5. k \in 0 .. n
    BY <1>2
  <2> QED
    BY <2>4, <2>5
<1>3. \A k \in 0 .. n : k \in S
  BY <1>1, <1>2, Climbs
<1> QED
  BY <1>3

LEMMA StartedThrough ==
  ASSUME NEW objs, NEW gets, Len(objs) \in Nat
  PROVE  \E h : Starting(objs, gets, Len(objs), h) /\ GetMetadatas(objs, gets) = h[Len(objs)]
<1> DEFINE after == CHOOSE h : Starting(objs, gets, Len(objs), h)
<1>1. Starting(objs, gets, Len(objs), after)
  <2>1. \E h : Starting(objs, gets, Len(objs), h)
    BY StartingExists
  <2> QED
    BY <2>1, Zenon
<1>2. GetMetadatas(objs, gets) = after[Len(objs)]
  BY DEF GetMetadatas, Starting, OneMore
<1> QED
  BY <1>1, <1>2

LEMMA StartingSteps ==
  ASSUME NEW objs, NEW gets, NEW n \in Nat, NEW h, Starting(objs, gets, n, h)
  PROVE  /\ h[0] = Reaction(NoMetadatas, <<>>, {}, <<>>)
         /\ \A i \in 1 .. n :
              h[i] = Then(h[i - 1], Gathered(OneMore(h[i - 1].work),
                                             gets[objs[i]]))
<1>1. 0 \in 0 .. n /\ \A i \in 1 .. n : i \in 0 .. n /\ i # 0
  OBVIOUS
<1> QED
  BY <1>1 DEF Starting

LEMMA StartedFormed ==
  ASSUME NEW objs, NEW gets, Len(objs) \in Nat,
         \A i \in 1 .. Len(objs) : Formed(gets[objs[i]])
  PROVE  Formed(GetMetadatas(objs, gets)) /\ GetMetadatas(objs, gets).says = <<>>
<1> DEFINE n == Len(objs)
           Fit(x) == Formed(x) /\ x.says = <<>>
<1>0. n \in Nat
  OBVIOUS
<1>1. PICK h : Starting(objs, gets, n, h) /\ GetMetadatas(objs, gets) = h[n]
  BY StartedThrough
<1>2. /\ h[0] = Reaction(NoMetadatas, <<>>, {}, <<>>)
      /\ \A i \in 1 .. n :
           h[i] = Then(h[i - 1], Gathered(OneMore(h[i - 1].work),
                                          gets[objs[i]]))
  <2> HIDE DEF n
  <2> QED
    BY <1>0, <1>1, StartingSteps
<1> DEFINE S == {i \in 0 .. n : Fit(h[i])}
<1>3. 0 \in S
  <2>1. Fit(h[0])
    BY <1>2, ShortOrder DEF Formed, Reaction
  <2> QED
    BY <1>0, <2>1
<1>4. ASSUME NEW i \in 1 .. n, i - 1 \in S PROVE i \in S
  <2> DEFINE c == Gathered(OneMore(h[i - 1].work), gets[objs[i]])
  <2>0. Formed(gets[objs[i]])
    OBVIOUS
  <2>1. Formed(c) /\ c.says = <<>>
    BY <2>0, GatheredFormed
  <2>2. h[i] = Then(h[i - 1], c) /\ Formed(h[i - 1]) /\ h[i - 1].says = <<>>
    BY <1>2, <1>4
  <2> HIDE DEF c
  <2>3. Formed(Then(h[i - 1], c))
    BY <2>1, <2>2, InARow
  <2>4. Then(h[i - 1], c).says = <<>>
    BY <2>1, <2>2, SaysAfter
  <2>5. i \in 0 .. n
    BY <1>4
  <2> QED
    BY <2>2, <2>3, <2>4, <2>5
<1>5. n \in 0 .. n
  OBVIOUS
<1>6. n \in S
  <2> HIDE DEF S
  <2>1. n \in Nat
    OBVIOUS
  <2> QED
    BY <1>3, <1>4, <1>5, <2>1, Climbs
<1> QED
  BY <1>1, <1>6

(* What get_metadata of the sources without a get_metadatas does for o.    *)
Getting(source, keys, o, g) ==
  \/ source = "iradio" /\ g = Reaction(Over, <<Todo("get", {o})>>, {}, <<>>)
  \/ source = "upnp" /\ g = Reaction(Over, <<>>, {Todo("metadata", {o})}, <<>>)
  \/ \E a : /\ g = Reaction(Over, <<>>, {}, <<a>>)
            /\ a.ok \in BOOLEAN /\ a.got \subseteq {o} /\ (a.ok /\ keys # "none" => a.got = {o})

LEMMA GettingFormed ==
  ASSUME NEW source, NEW keys, NEW o, NEW g, Getting(source, keys, o, g) PROVE Formed(g)
<1>1. Question(Todo("metadata", {o}))
  BY DEF Question, Todo
<1> QED
  BY <1>1, OneThing DEF Getting

LEMMA GettingGathers ==
  ASSUME NEW source, NEW O, NEW keys, NEW m, NEW T, NEW n, NEW e, NEW Q, NEW o,
         Lacks(source, O, keys, m, T, n, e, Q, o), NEW g, Getting(source, keys, o, g)
  PROVE  /\ Becomes(source, O, keys, T, n, e, Q, Gathered(m, g))
         /\ Gathered(m, g).work.remaining <= m.remaining
<1>0. m.remaining \in Nat
  BY UintAssumption DEF Lacks, Metadatas
<1>1. ASSUME source = "iradio", g = Reaction(Over, <<Todo("get", {o})>>, {}, <<>>)
      PROVE  /\ Becomes(source, O, keys, T, n, e, Q, Gathered(m, g))
             /\ Gathered(m, g).work.remaining <= m.remaining
  <2>1. g.says = <<>> /\ g.later = <<Todo("get", {o})>> /\ g.asks = {}
    BY <1>1 DEF Reaction
  <2>2. Gathered(m, g) = Reaction(m, g.later, g.asks, <<>>)
    BY <2>1, GatheredNone
  <2>3. Gathered(m, g) = Reaction(m, <<Todo("get", {o})>>, {}, <<>>)
    BY <2>1, <2>2
  <2>4. Gathered(m, g).work = m
    BY <2>3 DEF Reaction
  <2>5. Becomes(source, O, keys, T, n, e, Q, Reaction(m, <<Todo("get", {o})>>, {}, <<>>))
    BY <1>1, LacksLater
  <2> QED
    BY <1>0, <2>3, <2>4, <2>5
<1>2. ASSUME source = "upnp", g = Reaction(Over, <<>>, {Todo("metadata", {o})}, <<>>)
      PROVE  /\ Becomes(source, O, keys, T, n, e, Q, Gathered(m, g))
             /\ Gathered(m, g).work.remaining <= m.remaining
  <2>1. g.says = <<>> /\ g.later = <<>> /\ g.asks = {Todo("metadata", {o})}
    BY <1>2 DEF Reaction
  <2>2. Gathered(m, g) = Reaction(m, g.later, g.asks, <<>>)
    BY <2>1, GatheredNone
  <2>3. Gathered(m, g) = Reaction(m, <<>>, {Todo("metadata", {o})}, <<>>)
    BY <2>1, <2>2
  <2>4. Gathered(m, g).work = m
    BY <2>3 DEF Reaction
  <2>5. Becomes(source, O, keys, T, n, e, Q,
                Reaction(m, <<>>, {Todo("metadata", {o})}, <<>>))
    BY <1>2, LacksAsks
  <2> QED
    BY <1>0, <2>3, <2>4, <2>5
<1>3. ASSUME NEW a, g = Reaction(Over, <<>>, {}, <<a>>), a.ok \in BOOLEAN,
             a.got \subseteq {o}, a.ok /\ keys # "none" => a.got = {o}
      PROVE  /\ Becomes(source, O, keys, T, n, e, Q, Gathered(m, g))
             /\ Gathered(m, g).work.remaining <= m.remaining
  <2>1. Replying(g, a)
    BY <1>3 DEF Replying, Reaction
  <2>2. Gathered(m, g) = Collected(m, a)
    BY <2>1, GatheredOne
  <2>3. /\ Becomes(source, O, keys, T, n, e, Q, Collected(m, a))
        /\ Collected(m, a).work.remaining <= m.remaining
    BY <1>3, LacksAnswer
  <2> QED
    BY <2>2, <2>3
<1> QED
  BY <1>1, <1>2, <1>3 DEF Getting

LEMMA OneMoreParts ==
  ASSUME NEW O, NEW m \in Metadatas(O), m.remaining + 1 < UintMod
  PROVE  /\ OneMore(m) \in Metadatas(O) /\ OneMore(m).remaining = m.remaining + 1
         /\ OneMore(m).got = m.got /\ (OneMore(m).err <=> m.err)
         /\ (OneMore(m).queued <=> m.queued)
<1>1. PICK k \in 0 .. UintMod - 1, g \in SUBSET O, e \in BOOLEAN, q \in BOOLEAN :
        m = Metadata4(k, g, e, q)
  BY MetadatasParts
<1>2. m.remaining = k /\ m.got = g /\ (m.err <=> e) /\ (m.queued <=> q)
  BY <1>1 DEF Metadata4
<1>3. k + 1 \in 0 .. UintMod - 1
  BY <1>2, UintAssumption
<1>4. \A i, s, t, u : [Metadata4(i, s, t, u) EXCEPT !.remaining = @ + 1]
                        = Metadata4(i + 1, s, t, u)
  BY DEF Metadata4
<1>5. OneMore(m) = Metadata4(k + 1, g, e, q)
  BY <1>1, <1>4 DEF OneMore
<1>6. Metadata4(k + 1, g, e, q) \in Metadatas(O)
  BY <1>3, MetadatasParts
<1>7. /\ Metadata4(k + 1, g, e, q).remaining = k + 1 /\ Metadata4(k + 1, g, e, q).got = g
      /\ (Metadata4(k + 1, g, e, q).err <=> e) /\ (Metadata4(k + 1, g, e, q).queued <=> q)
  BY DEF Metadata4
<1> QED
  BY <1>2, <1>5, <1>6, <1>7

LEMMA CollectsMore ==
  ASSUME NEW source, NEW O, IsFiniteSet(O), NEW keys, NEW m, NEW T, NEW n \in Nat, NEW e,
         NEW Q, Collects(source, O, keys, m, T, n, e, Q), m.remaining + 1 < UintMod, NEW o
  PROVE  /\ Lacks(source, O \cup {o}, keys, OneMore(m), T, n, e, Q, o)
         /\ OneMore(m).remaining = m.remaining + 1
<1> DEFINE w == OneMore(m)
           N == O \cup {o}
<1>1. /\ m \in Metadatas(O)
      /\ keys # "none" => m.err \/ m.got \cup About(T) \cup About(Q) = O
      /\ Fetching(source, O, T) /\ Querying(source, O, Q)
      /\ n + Cardinality(About(Q)) <= m.remaining /\ e = IF m.queued THEN 1 ELSE 0
  BY DEF Collects
<1>2. /\ w \in Metadatas(O) /\ w.remaining = m.remaining + 1
      /\ w.got = m.got /\ (w.err <=> m.err) /\ (w.queued <=> m.queued)
  BY <1>1, OneMoreParts
<1> HIDE DEF w
<1>3. IsFiniteSet(N) /\ o \in N /\ O \subseteq N
  BY FS_AddElement
<1>4. Fetching(source, N, T) /\ Querying(source, N, Q)
  BY <1>1 DEF Fetching, Querying
<1>5. w \in Metadatas(N)
  BY <1>2, <1>3 DEF Metadatas
<1>6. keys # "none" => w.err \/ w.got \cup About(T) \cup About(Q) \cup {o} = N
  BY <1>1, <1>2
<1>7. Cardinality(About(Q)) \in Nat /\ m.remaining \in Nat
  BY <1>1, QueriedFinite, UintAssumption DEF Metadatas
<1>8. n + Cardinality(About(Q)) < w.remaining
  BY <1>1, <1>2, <1>7
<1>9. e = IF w.queued THEN 1 ELSE 0
  BY <1>1, <1>2
<1> HIDE DEF N
<1>10. Lacks(source, N, keys, w, T, n, e, Q, o)
  BY <1>3, <1>4, <1>5, <1>6, <1>8, <1>9 DEF Lacks
<1> QED
  BY <1>2, <1>10 DEF w, N

\* what is left by the handlers that led to x
Standing(source, O, keys, x) ==
  Collects(source, O, keys, x.work, Listed(x.later), Cardinality(Plain(x.later)),
           Cardinality(Final(x.later)), x.asks)

LEMMA BecomesStanding ==
  ASSUME NEW source, NEW O, NEW keys, NEW x, Formed(x), NEW g, Formed(g),
         Becomes(source, O, keys, Listed(x.later), Cardinality(Plain(x.later)),
                 Cardinality(Final(x.later)), x.asks, g)
  PROVE  Standing(source, O, keys, Then(x, g))
<1> DEFINE y == Then(x, g)
<1>1. y.work = g.work /\ y.asks = x.asks \cup g.asks
  BY InARow
<1>2. /\ Listed(y.later) = Listed(x.later) \cup Listed(g.later)
      /\ Cardinality(Plain(y.later)) = Cardinality(Plain(x.later)) + Cardinality(Plain(g.later))
      /\ Cardinality(Final(y.later)) = Cardinality(Final(x.later)) + Cardinality(Final(g.later))
  BY RowCount
<1> HIDE DEF y
<1>3. Standing(source, O, keys, y)
  BY <1>1, <1>2 DEF Becomes, Standing
<1> QED
  BY <1>3 DEF y

LEMMA StartedCollects ==
  ASSUME NEW source, NEW keys, NEW S, NEW objs \in Seq(S), Len(objs) < UintMod, NEW gets,
         \A i \in 1 .. Len(objs) : Getting(source, keys, objs[i], gets[objs[i]])
  PROVE  Standing(source, ToSet(objs), keys, GetMetadatas(objs, gets)) /\ IsFiniteSet(ToSet(objs))
<1> DEFINE n == Len(objs)
           P(i) == {objs[j] : j \in 1 .. i}
           Fit(x, i) == /\ Formed(x) /\ x.says = <<>> /\ IsFiniteSet(P(i))
                        /\ Standing(source, P(i), keys, x)
                        /\ x.work.remaining \in Nat /\ x.work.remaining <= i
<1>0. n \in Nat /\ DOMAIN objs = 1 .. n /\ UintMod \in Nat \ {0}
  BY UintAssumption
<1>1. PICK h : Starting(objs, gets, n, h) /\ GetMetadatas(objs, gets) = h[n]
  BY <1>0, StartedThrough
<1>2. /\ h[0] = Reaction(NoMetadatas, <<>>, {}, <<>>)
      /\ \A i \in 1 .. n : h[i] = Then(h[i - 1], Gathered(OneMore(h[i - 1].work), gets[objs[i]]))
  <2>1. n \in Nat
    OBVIOUS
  <2> HIDE DEF n
  <2> QED
    BY <1>1, <2>1, StartingSteps
<1>3. ToSet(objs) = P(n) /\ P(0) = {}
  BY <1>0 DEF ToSet
<1>4. \A i \in 1 .. n : P(i) = P(i - 1) \cup {objs[i]}
  <2>1. ASSUME NEW i \in 1 .. n PROVE P(i) = P(i - 1) \cup {objs[i]}
    <3>1. \A j : j \in 1 .. i <=> j \in 1 .. i - 1 \/ j = i
      BY <2>1
    <3> QED
      BY <3>1
  <2> QED
    BY <2>1
<1> HIDE DEF n, P
<1>5. Fit(h[0], 0)
  <2>1. /\ h[0].work = NoMetadatas /\ h[0].later = <<>> /\ h[0].asks = {} /\ h[0].says = <<>>
        /\ Formed(h[0])
    BY <1>2, OneThing DEF Reaction
  <2>2. IsFiniteSet(P(0)) /\ About({}) = {} /\ Cardinality({}) = 0
    BY <1>3, FS_EmptySet, AboutParts
  <2>3. /\ NoMetadatas \in Metadatas(P(0)) /\ NoMetadatas.remaining = 0
        /\ NoMetadatas.got = {} /\ ~NoMetadatas.queued
    BY <1>0 DEF NoMetadatas, Metadatas
  <2>4. Collects(source, P(0), keys, NoMetadatas, {}, 0, 0, {})
    <3>1. Fetching(source, P(0), {}) /\ Querying(source, P(0), {})
      BY DEF Fetching, Querying
    <3>2. NoMetadatas.got \cup About({}) \cup About({}) = P(0)
      BY <1>3, <2>2, <2>3
    <3>3. 0 + Cardinality(About({})) <= NoMetadatas.remaining
      <4>1. Cardinality(About({})) = 0
        BY <2>2
      <4>2. NoMetadatas.remaining = 0
        BY <2>3
      <4> QED
        BY <4>1, <4>2
    <3>4. 0 = IF NoMetadatas.queued THEN 1 ELSE 0
      BY DEF NoMetadatas
    <3> QED
      BY <2>3, <3>1, <3>2, <3>3, <3>4 DEF Collects
  <2>5. Standing(source, P(0), keys, h[0])
    BY <2>1, <2>4, ShortCount DEF Standing
  <2> QED
    BY <2>1, <2>2, <2>3, <2>5
<1>6. ASSUME NEW i \in 1 .. n, Fit(h[i - 1], i - 1) PROVE Fit(h[i], i)
  <2> DEFINE x == h[i - 1]
             o == objs[i]
             m == OneMore(x.work)
             g == Gathered(m, gets[o])
             l == Cardinality(Plain(x.later))
             f == Cardinality(Final(x.later))
  <2>1. /\ Formed(x) /\ x.says = <<>> /\ IsFiniteSet(P(i - 1))
        /\ Standing(source, P(i - 1), keys, x)
        /\ x.work.remaining \in Nat /\ x.work.remaining <= i - 1
    BY <1>6
  <2>2. h[i] = Then(x, g) /\ Getting(source, keys, o, gets[o]) /\ P(i) = P(i - 1) \cup {o}
    BY <1>2, <1>4, <1>6 DEF n
  <2>3. x.work.remaining + 1 < UintMod /\ x.work.remaining + 1 <= i
    BY <1>0, <1>6, <2>1 DEF n
  <2>4. l \in Nat
    BY <2>1, PlainFinite DEF Formed
  <2>5. Collects(source, P(i - 1), keys, x.work, Listed(x.later), l, f, x.asks)
    BY <2>1 DEF Standing
  <2> HIDE DEF x, o, l, f
  <2>6. /\ Lacks(source, P(i), keys, m, Listed(x.later), l, f, x.asks, o)
        /\ m.remaining = x.work.remaining + 1
    <3>1. IsFiniteSet(P(i - 1)) /\ x.work.remaining + 1 < UintMod
      BY <2>1, <2>3
    <3>2. /\ Lacks(source, P(i - 1) \cup {o}, keys, m, Listed(x.later), l, f, x.asks, o)
          /\ m.remaining = x.work.remaining + 1
      BY <2>4, <2>5, <3>1, CollectsMore
    <3> QED
      BY <2>2, <3>2
  <2> HIDE DEF m
  <2>7. /\ Becomes(source, P(i), keys, Listed(x.later), l, f, x.asks, g)
        /\ g.work.remaining <= m.remaining
    BY <2>2, <2>6, GettingGathers
  <2>8. Formed(g) /\ g.says = <<>>
    <3>1. Formed(gets[o])
      BY <2>2, GettingFormed
    <3> QED
      BY <3>1, GatheredFormed
  <2> HIDE DEF g
  <2>9. Standing(source, P(i), keys, Then(x, g))
    BY <2>1, <2>7, <2>8, BecomesStanding DEF l, f
  <2>10. Formed(Then(x, g)) /\ Then(x, g).work = g.work
    BY <2>1, <2>8, InARow
  <2>11. Then(x, g).says = <<>>
    BY <2>1, <2>8, SaysAfter
  <2>12. IsFiniteSet(P(i))
    BY <2>6 DEF Lacks
  <2>13. g.work \in Metadatas(P(i))
    BY <2>7 DEF Becomes, Collects
  <2>14. g.work.remaining \in Nat
    BY <1>0, <2>13 DEF Metadatas
  <2>15. g.work.remaining <= i
    BY <2>1, <2>3, <2>6, <2>7, <2>14
  <2> QED
    BY <2>2, <2>9, <2>10, <2>11, <2>12, <2>14, <2>15
<1> HIDE DEF Fit
<1> DEFINE R == {i \in 0 .. n : Fit(h[i], i)}
<1>7. 0 \in R
  BY <1>0, <1>5
<1>8. ASSUME NEW i \in 1 .. n, i - 1 \in R PROVE i \in R
  <2>1. Fit(h[i - 1], i - 1) /\ i \in 0 .. n
    BY <1>8
  <2> QED
    BY <1>6, <2>1
<1>9. n \in 0 .. n
  BY <1>0
<1>10. n \in R
  <2> HIDE DEF R
  <2> QED
    BY <1>0, <1>7, <1>8, <1>9, Climbs
<1>11. Fit(h[n], n)
  BY <1>10
<1> QED
  BY <1>1, <1>3, <1>11 DEF Fit

-----------------------------------------------------------------------------
(* What is done for a call when its idle functions and questions are T and *)
(* Q, and a handler reacts with r.                                         *)

Goes(source, q, T, n, e, Q, r) ==
  \/ /\ r.says = <<>>
     /\ Doing(source, q, r.work, T \cup Listed(r.later), n + Cardinality(Plain(r.later)),
              e + Cardinality(Final(r.later)), Q \cup r.asks)
  \/ \E a : /\ r.says = <<a>> /\ Complete(q, a)
            /\ T = {} /\ Q = {} /\ r.later = <<>> /\ r.asks = {}

LEMMA FetchDone ==
  ASSUME NEW source, NEW O, IsFiniteSet(O), NEW keys, NEW m, NEW T, NEW t, NEW n \in Nat,
         NEW e, NEW Q, Collects(source, O, keys, m, T \cup {t}, n + 1, e, Q), ~Emission(t)
  PROVE  /\ source = "iradio" /\ t.kind = "get"
         /\ \E o : t.objs = {o} /\ Lacks(source, O, keys, m, T, n, e, Q, o)
<1>1. /\ m \in Metadatas(O)
      /\ keys # "none" => m.err \/ m.got \cup About(T \cup {t}) \cup About(Q) = O
      /\ Fetching(source, O, T \cup {t}) /\ Querying(source, O, Q)
      /\ n + 1 + Cardinality(About(Q)) <= m.remaining /\ e = IF m.queued THEN 1 ELSE 0
  BY DEF Collects
<1>2. /\ source = "iradio" /\ t.kind = "get" /\ \E o \in O : t.objs = {o}
      /\ Fetching(source, O, T)
  BY <1>1 DEF Fetching
<1>3. PICK o \in O : t.objs = {o}
  BY <1>2
<1>4. About(T \cup {t}) = About(T) \cup {o}
  <2>1. About({t}) = {o}
    BY <1>3, AboutParts
  <2>2. About(T \cup {t}) = About(T) \cup About({t})
    BY AboutParts
  <2> QED
    BY <2>1, <2>2
<1>5. keys # "none" => m.err \/ m.got \cup About(T) \cup About(Q) \cup {o} = O
  BY <1>1, <1>4
<1>6. Cardinality(About(Q)) \in Nat
  BY <1>1, QueriedFinite
<1>7. m.remaining \in Nat
  BY <1>1, UintAssumption DEF Metadatas
<1>8. n + Cardinality(About(Q)) < m.remaining
  BY <1>1, <1>6, <1>7
<1>9. Lacks(source, O, keys, m, T, n, e, Q, o)
  BY <1>1, <1>2, <1>5, <1>8 DEF Lacks
<1> QED
  BY <1>2, <1>3, <1>9

LEMMA QueryDone ==
  ASSUME NEW source, NEW O, IsFiniteSet(O), NEW keys, NEW m, NEW T, NEW n \in Nat,
         NEW e, NEW Q, Collects(source, O, keys, m, T, n, e, Q), NEW t \in Q
  PROVE  /\ source = "upnp"
         /\ \E o : t = Todo("metadata", {o}) /\ Lacks(source, O, keys, m, T, n, e, Q \ {t}, o)
<1>1. /\ m \in Metadatas(O)
      /\ keys # "none" => m.err \/ m.got \cup About(T) \cup About(Q) = O
      /\ Fetching(source, O, T) /\ Querying(source, O, Q)
      /\ n + Cardinality(About(Q)) <= m.remaining /\ e = IF m.queued THEN 1 ELSE 0
  BY DEF Collects
<1> DEFINE R == Q \ {t}
<1>2. source = "upnp" /\ Querying(source, O, R)
  BY <1>1 DEF Querying
<1>3. PICK o \in O : t = Todo("metadata", {o})
  BY <1>1 DEF Querying
<1>4. t.objs = {o}
  BY <1>3 DEF Todo
<1>5. About(Q) = About(R) \cup {o}
  <2>1. About({t}) = {o}
    BY <1>4, AboutParts
  <2>2. About(R \cup {t}) = About(R) \cup About({t})
    BY AboutParts
  <2>3. Q = R \cup {t}
    OBVIOUS
  <2> HIDE DEF R
  <2> QED
    BY <2>1, <2>2, <2>3
<1>6. o \notin About(R)
  <2>1. ASSUME NEW u \in R, o \in u.objs PROVE FALSE
    <3>1. PICK p \in O : u = Todo("metadata", {p})
      BY <1>1, <2>1 DEF Querying
    <3>2. p = o
      BY <2>1, <3>1 DEF Todo
    <3> QED
      BY <1>3, <2>1, <3>1, <3>2
  <2> QED
    BY <2>1 DEF About
<1> HIDE DEF R
<1>7. IsFiniteSet(About(R)) /\ Cardinality(About(R)) \in Nat
  BY <1>2, QueriedFinite
<1>8. Cardinality(About(Q)) = Cardinality(About(R)) + 1
  BY <1>5, <1>6, <1>7, FS_AddElement
<1>9. keys # "none" => m.err \/ m.got \cup About(T) \cup About(R) \cup {o} = O
  BY <1>1, <1>5
<1>10. m.remaining \in Nat
  BY <1>1, UintAssumption DEF Metadatas
<1>11. n + Cardinality(About(R)) < m.remaining
  BY <1>1, <1>7, <1>8, <1>10
<1>12. Lacks(source, O, keys, m, T, n, e, R, o)
  BY <1>1, <1>2, <1>9, <1>11 DEF Lacks
<1> QED
  BY <1>2, <1>3, <1>12 DEF R

\* the idle function that emits
LEMMA EmitDone ==
  ASSUME NEW source, NEW O, IsFiniteSet(O), NEW keys, NEW m, NEW T, NEW t, NEW n \in Nat,
         NEW e \in Nat, NEW Q, Collects(source, O, keys, m, T \cup {t}, n, e + 1, Q),
         Emission(t), n = 0 /\ e = 0 => T = {}
  PROVE  \/ /\ EmitResult(m).says = <<>>
            /\ Becomes(source, O, keys, T, n, e, Q, EmitResult(m))
         \/ \E a : /\ EmitResult(m) = Says(a) /\ T = {} /\ Q = {}
                   /\ a.ok /\ keys # "none" => a.got = O
<1>1. /\ m \in Metadatas(O)
      /\ keys # "none" => m.err \/ m.got \cup About(T \cup {t}) \cup About(Q) = O
      /\ Fetching(source, O, T \cup {t}) /\ Querying(source, O, Q)
      /\ n + Cardinality(About(Q)) <= m.remaining /\ e + 1 = IF m.queued THEN 1 ELSE 0
  BY DEF Collects
<1>2. e = 0 /\ m.queued
  BY <1>1
<1>3. t.objs = {} /\ Fetching(source, O, T)
  BY <1>1 DEF Fetching
<1>4. About(T \cup {t}) = About(T)
  <2>1. About({t}) = {}
    BY <1>3, AboutParts
  <2>2. About(T \cup {t}) = About(T) \cup About({t})
    BY AboutParts
  <2> QED
    BY <2>1, <2>2
<1>5. /\ Cardinality(About(Q)) \in Nat /\ IsFiniteSet(About(Q))
      /\ (About(Q) = {} => Q = {})
  BY <1>1, QueriedFinite
<1>6. PICK k \in 0 .. UintMod - 1, g \in SUBSET O, b \in BOOLEAN, d \in BOOLEAN :
        m = Metadata4(k, g, b, d)
  BY <1>1, MetadatasParts
<1>7. m.remaining = k /\ m.got = g /\ (m.err <=> b) /\ k \in Nat
  BY <1>6, UintAssumption DEF Metadata4
<1>8. ASSUME m.remaining # 0
      PROVE  /\ EmitResult(m).says = <<>>
             /\ Becomes(source, O, keys, T, n, e, Q, EmitResult(m))
  <2> DEFINE w == Metadata4(k, g, b, FALSE)
             r == EmitResult(m)
  <2>1. NotYet(m) = w
    <3>1. \A i, s, u, v, f : [Metadata4(i, s, u, v) EXCEPT !.queued = f] = Metadata4(i, s, u, f)
      BY DEF Metadata4
    <3>2. \A f : [m EXCEPT !.queued = f] = Metadata4(k, g, b, f)
      BY <1>6, <3>1
    <3> QED
      BY <3>2 DEF NotYet
  <2>2. w \in Metadatas(O)
    BY MetadatasParts
  <2>3. w.remaining = k /\ w.got = g /\ (w.err <=> b) /\ ~w.queued
    BY DEF Metadata4
  <2>4. r = Reaction(NotYet(m), <<>>, {}, <<>>)
    BY <1>8 DEF EmitResult
  <2> HIDE DEF w, r
  <2>5. r.work = w /\ r.later = <<>> /\ r.asks = {} /\ r.says = <<>>
    BY <2>1, <2>4 DEF Reaction
  <2>6. /\ Listed(r.later) = {} /\ Cardinality(Plain(r.later)) = 0
        /\ Cardinality(Final(r.later)) = 0
    BY <2>5, ShortCount
  <2>7. keys # "none" => w.err \/ w.got \cup About(T) \cup About(Q) = O
    BY <1>1, <1>4, <1>7, <2>3
  <2>8. n + 0 + Cardinality(About(Q)) <= w.remaining
    BY <1>1, <1>5, <1>7, <2>3
  <2>9. e + 0 = IF w.queued THEN 1 ELSE 0
    BY <1>2, <2>3
  <2>10. Collects(source, O, keys, w, T \cup {}, n + 0, e + 0, Q \cup {})
    BY <1>1, <1>3, <2>2, <2>7, <2>8, <2>9 DEF Collects
  <2>11. Becomes(source, O, keys, T, n, e, Q, r)
    BY <2>5, <2>6, <2>10 DEF Becomes
  <2> QED
    BY <2>5, <2>11 DEF r
<1>9. ASSUME m.remaining = 0
      PROVE  \E a : /\ EmitResult(m) = Says(a) /\ T = {} /\ Q = {}
                    /\ a.ok /\ keys # "none" => a.got = O
  <2> DEFINE a == Answer(~m.err, m.got)
  <2>1. EmitResult(m) = Says(a)
    BY <1>9 DEF EmitResult
  <2>2. (a.ok <=> ~m.err) /\ a.got = m.got
    BY DEF Answer
  <2>3. n = 0 /\ Cardinality(About(Q)) = 0
    BY <1>1, <1>5, <1>9
  <2>4. About(Q) = {}
    BY <1>5, <2>3, FS_EmptySet
  <2>5. T = {} /\ Q = {} /\ About(T) = {}
    BY <1>2, <1>5, <2>3, <2>4, AboutParts
  <2>6. keys # "none" => m.err \/ m.got = O
    BY <1>1, <1>4, <2>4, <2>5
  <2> HIDE DEF a
  <2> QED
    BY <2>1, <2>2, <2>5, <2>6
<1> QED
  BY <1>8, <1>9

-----------------------------------------------------------------------------
(* The closure of tracker: what changes in it.                             *)

Common3(k, g, e) == [remaining |-> k, got |-> g, err |-> e]

LEMMA CommonsParts ==
  ASSUME NEW O
  PROVE  /\ \A m \in Commons(O) :
              \E k \in Nat, g \in SUBSET O, e \in BOOLEAN : m = Common3(k, g, e)
         /\ \A k \in Nat, g \in SUBSET O, e \in BOOLEAN : Common3(k, g, e) \in Commons(O)
<1>1. ASSUME NEW m \in Commons(O)
      PROVE  \E k \in Nat, g \in SUBSET O, e \in BOOLEAN : m = Common3(k, g, e)
  <2>1. /\ m = Common3(m.remaining, m.got, m.err)
        /\ m.remaining \in Nat /\ m.got \in SUBSET O /\ m.err \in BOOLEAN
    BY DEF Commons, Common3
  <2> QED
    BY <2>1
<1> QED
  BY <1>1 DEF Commons, Common3

\* w has less to wait for than m, by d, and what it got is more, by S, unless
\* there is an error
Nearer(O, m, w, d, S) ==
  /\ w \in Commons(O) /\ w.remaining = m.remaining - d
  /\ m.err => w.err
  /\ w.err \/ w.got = m.got \cup S

LEMMA GotOneNearer ==
  ASSUME NEW O, NEW m \in Commons(O), m.remaining # 0, NEW o \in O,
         NEW got \in BOOLEAN, NEW err \in BOOLEAN, got \/ err
  PROVE  \E w : GotOne(m, o, got, err) = IfNone(w) /\ Nearer(O, m, w, 1, {o})
<1>1. PICK k \in Nat, g \in SUBSET O, e \in BOOLEAN : m = Common3(k, g, e)
  BY CommonsParts
<1>2. m.remaining = k /\ m.got = g /\ (m.err <=> e) /\ k - 1 \in Nat
  BY <1>1 DEF Common3
<1> DEFINE h == IF got THEN g \cup {o} ELSE g
           f == e \/ err
           w == Common3(k - 1, h, f)
<1>3. h \in SUBSET O /\ f \in BOOLEAN
  OBVIOUS
<1>4. w \in Commons(O)
  BY <1>2, <1>3, CommonsParts
<1>5. w.remaining = k - 1 /\ w.got = h /\ (w.err <=> f)
  <2> HIDE DEF h, f
  <2> QED
    BY DEF Common3
<1>6. GotOne(m, o, got, err) = IfNone(w)
  <2> DEFINE d == [m EXCEPT !.err = @ \/ err, !.got = IF got THEN @ \cup {o} ELSE @,
                            !.remaining = @ - 1]
  <2>1. m.remaining - 1 = k - 1 /\ (IF got THEN m.got \cup {o} ELSE m.got) = h
    BY <1>2
  <2>2. (m.err \/ err) = f
    BY <1>2
  <2>3. d = [m EXCEPT !.err = f, !.got = h, !.remaining = k - 1]
    BY <2>1, <2>2
  <2> HIDE DEF d, f, h
  <2>4. d = w
    BY <1>1, <2>3 DEF Common3
  <2> QED
    BY <2>4 DEF GotOne, d
<1>7. w.err \/ w.got = m.got \cup {o}
  BY <1>2, <1>5
<1> HIDE DEF w, h
<1>8. Nearer(O, m, w, 1, {o})
  BY <1>2, <1>4, <1>5, <1>7 DEF Nearer
<1> QED
  BY <1>6, <1>8

\* the objects S are got
GotThese(m, S) == [m EXCEPT !.got = @ \cup S, !.remaining = @ - Cardinality(S)]

LEMMA GotSeveralNearer ==
  ASSUME NEW O, IsFiniteSet(O), NEW m \in Commons(O), NEW S, S \subseteq O,
         Cardinality(S) <= m.remaining
  PROVE  Nearer(O, m, GotThese(m, S), Cardinality(S), S)
<1>0. Cardinality(S) \in Nat
  BY AboutFinite
<1>1. PICK k \in Nat, g \in SUBSET O, e \in BOOLEAN : m = Common3(k, g, e)
  BY CommonsParts
<1> DEFINE d == Cardinality(S)
<1>2. m.remaining = k /\ m.got = g /\ (m.err <=> e) /\ k - d \in Nat
  <2>1. m.remaining = k /\ m.got = g /\ (m.err <=> e)
    BY <1>1 DEF Common3
  <2> QED
    BY <1>0, <2>1
<1> HIDE DEF d
<1> DEFINE h == g \cup S
           w == Common3(k - d, h, e)
<1>3. h \in SUBSET O
  OBVIOUS
<1>4. w \in Commons(O)
  BY <1>2, <1>3, CommonsParts
<1>5. w.remaining = k - d /\ w.got = h /\ (w.err <=> e)
  <2> HIDE DEF h
  <2> QED
    BY DEF Common3
<1>6. [m EXCEPT !.got = @ \cup S, !.remaining = @ - d] = w
  <2>1. m.remaining - d = k - d /\ m.got \cup S = h
    BY <1>2
  <2> DEFINE x == [m EXCEPT !.got = @ \cup S, !.remaining = @ - d]
  <2>2. x = [m EXCEPT !.got = h, !.remaining = k - d]
    BY <2>1
  <2> HIDE DEF h, x
  <2>3. x = w
    BY <1>1, <2>2 DEF Common3
  <2> QED
    BY <2>3 DEF x
<1>7. w.got = m.got \cup S
  BY <1>2, <1>5
<1> HIDE DEF w, h
<1>8. Nearer(O, m, w, d, S)
  BY <1>2, <1>4, <1>5, <1>7 DEF Nearer
<1> QED
  BY <1>6, <1>8 DEF d, GotThese

LEMMA BatchFailsNearer ==
  ASSUME NEW O, NEW m \in Commons(O)
  PROVE  \E w \in Commons(O) : BatchFails(m) = Emits(w) /\ w.err
<1>1. PICK k \in Nat, g \in SUBSET O, e \in BOOLEAN : m = Common3(k, g, e)
  BY CommonsParts
<1>2. \A i, s, u, v : [Common3(i, s, u) EXCEPT !.err = v] = Common3(i, s, v)
  BY DEF Common3
<1>3. \A v : [m EXCEPT !.err = v] = Common3(k, g, v)
  BY <1>1, <1>2
<1>4. BatchFails(m) = Emits(Common3(k, g, TRUE))
  BY <1>3 DEF BatchFails
<1>5. Common3(k, g, TRUE) \in Commons(O)
  BY CommonsParts
<1>6. Common3(k, g, TRUE).err
  BY DEF Common3
<1> QED
  BY <1>4, <1>5, <1>6

-----------------------------------------------------------------------------
(* What a reaction r makes of the tasks and the questions of a closure.    *)
Turns(O, keys, C, k, T, n, e, Q, r) ==
  Counts(O, keys, C, k, r.work, T \cup Listed(r.later),
         n + Cardinality(Plain(r.later)), e + Cardinality(Final(r.later)), Q \cup r.asks)

\* the parts of Counts
Closing(O, T) ==
  \A t \in T : IF Emission(t) THEN t.objs = {}
               ELSE t.kind \in ClosureKinds /\ \E o \in O : t.objs = {o}
Inquiring(O, Q) ==
  /\ \A t \in Q : /\ t.kind \in ClosureKinds \cup {"duration"}
                  /\ t.objs # {} /\ t.objs \subseteq O
                  /\ t.kind \notin {"clips", "playlists"} => \E o \in O : t.objs = {o}
                  /\ t.kind = "container" => \A o \in t.objs : Category(o) \in Container
  /\ \A t, u \in Q : t # u => t.objs \cap u.objs = {}

LEMMA CountsParts ==
  ASSUME NEW O, NEW keys, NEW C, NEW k, NEW m, NEW T, NEW n, NEW e, NEW Q
  PROVE  Counts(O, keys, C, k, m, T, n, e, Q)
         <=> /\ m \in Commons(O)
             /\ keys # "none" => m.err \/ m.got \cup About(T) \cup About(Q) \cup C = O
             /\ Closing(O, T) /\ Inquiring(O, Q)
             /\ C \subseteq O /\ C \cap About(Q) = {}
             /\ IF keys = "known" THEN n = 0 ELSE Q = {}
             /\ \/ e = 0 /\ k + n + Cardinality(About(Q) \cup C) <= m.remaining
                \/ e = 1 /\ k = 0 /\ n = 0 /\ Q = {} /\ C = {}
  BY Zenon DEF Counts, Closing, Inquiring

LEMMA InquiringFinite ==
  ASSUME NEW O, IsFiniteSet(O), NEW Q, Inquiring(O, Q), NEW C, C \subseteq O
  PROVE  /\ About(Q) \subseteq O /\ IsFiniteSet(About(Q) \cup C)
         /\ Cardinality(About(Q) \cup C) \in Nat
         /\ (About(Q) \cup C = {} => Q = {} /\ C = {})
<1>1. \A t \in Q : t.objs \subseteq O /\ t.objs # {}
  BY DEF Inquiring
<1>2. About(Q) \subseteq O
  BY <1>1, AboutParts
<1>3. About(Q) \cup C \subseteq O
  BY <1>2
<1>4. IsFiniteSet(About(Q) \cup C) /\ Cardinality(About(Q) \cup C) \in Nat
  BY <1>3, AboutFinite
<1>5. About(Q) \cup C = {} => Q = {} /\ C = {}
  BY <1>1 DEF About
<1> QED
  BY <1>2, <1>4, <1>5

LEMMA WaitsTurns ==
  ASSUME NEW O, NEW keys, NEW C, NEW k, NEW m, NEW T, NEW n \in Nat, NEW e \in Nat, NEW Q,
         Counts(O, keys, C, k, m, T, n, e, Q)
  PROVE  Turns(O, keys, C, k, T, n, e, Q, Waits(m)) /\ Waits(m).says = <<>>
<1> DEFINE r == Waits(m)
<1>1. r.work = m /\ r.later = <<>> /\ r.asks = {} /\ r.says = <<>>
  BY DEF Waits, Reaction
<1> HIDE DEF r
<1>2. /\ Listed(r.later) = {} /\ Cardinality(Plain(r.later)) = 0
      /\ Cardinality(Final(r.later)) = 0
  BY <1>1, ShortCount
<1>3. T \cup {} = T /\ n + 0 = n /\ e + 0 = e /\ Q \cup {} = Q
  OBVIOUS
<1>4. Turns(O, keys, C, k, T, n, e, Q, r)
  BY <1>1, <1>2, <1>3 DEF Turns
<1> QED
  BY <1>1, <1>4 DEF r

\* the idle function that emits is added
LEMMA EmitsTurns ==
  ASSUME NEW O, NEW keys, NEW m \in Commons(O), NEW T,
         keys # "none" => m.err \/ m.got \cup About(T) = O, Closing(O, T)
  PROVE  Turns(O, keys, {}, 0, T, 0, 0, {}, Emits(m)) /\ Emits(m).says = <<>>
<1> DEFINE r == Emits(m)
           t == Todo("emit", {})
<1>1. Emission(t) /\ t.objs = {}
  BY DEF Emission, Todo
<1>2. r.work = m /\ r.later = <<t>> /\ r.asks = {} /\ r.says = <<>>
  BY DEF Emits, Reaction
<1> HIDE DEF r, t
<1>3. /\ Listed(r.later) = {t} /\ Cardinality(Plain(r.later)) = 0
      /\ Cardinality(Final(r.later)) = 1
  BY <1>1, <1>2, ShortCount
<1>4. About(T \cup {t}) = About(T)
  <2>1. About({t}) = {}
    BY <1>1, AboutParts
  <2>2. About(T \cup {t}) = About(T) \cup About({t})
    BY AboutParts
  <2> QED
    BY <2>1, <2>2
<1>5. Closing(O, T \cup {t})
  BY <1>1 DEF Closing
<1>6. About({}) = {} /\ Inquiring(O, {})
  BY AboutParts DEF Inquiring
<1>7. keys # "none" => m.err \/ m.got \cup About(T \cup {t}) \cup About({}) \cup {} = O
  BY <1>4, <1>6
<1>8. Counts(O, keys, {}, 0, m, T \cup {t}, 0, 1, {})
  BY <1>5, <1>6, <1>7, CountsParts
<1>9. 0 + 0 = 0 /\ 0 + 1 = 1 /\ {} \cup {} = {}
  OBVIOUS
<1>10. Turns(O, keys, {}, 0, T, 0, 0, {}, r)
  BY <1>2, <1>3, <1>8, <1>9 DEF Turns
<1> QED
  BY <1>2, <1>10 DEF r

LEMMA IfNoneTurns ==
  ASSUME NEW O, IsFiniteSet(O), NEW keys, NEW C, NEW k \in Nat, NEW m, NEW T, NEW n \in Nat,
         NEW Q, Counts(O, keys, C, k, m, T, n, 0, Q)
  PROVE  Turns(O, keys, C, k, T, n, 0, Q, IfNone(m)) /\ IfNone(m).says = <<>>
<1>1. CASE m.remaining # 0
  <2>1. IfNone(m) = Waits(m)
    BY <1>1 DEF IfNone
  <2> QED
    BY <2>1, WaitsTurns
<1>2. CASE m.remaining = 0
  <2>1. /\ m \in Commons(O) /\ Closing(O, T) /\ Inquiring(O, Q) /\ C \subseteq O
        /\ keys # "none" => m.err \/ m.got \cup About(T) \cup About(Q) \cup C = O
        /\ k + n + Cardinality(About(Q) \cup C) <= m.remaining
    <3>1. /\ m \in Commons(O) /\ Closing(O, T) /\ Inquiring(O, Q) /\ C \subseteq O
          /\ keys # "none" => m.err \/ m.got \cup About(T) \cup About(Q) \cup C = O
      BY CountsParts
    <3>2. \/ 0 = 0 /\ k + n + Cardinality(About(Q) \cup C) <= m.remaining
          \/ 0 = 1 /\ k = 0 /\ n = 0 /\ Q = {} /\ C = {}
      BY CountsParts
    <3> QED
      BY <3>1, <3>2
  <2>2. /\ Cardinality(About(Q) \cup C) \in Nat /\ IsFiniteSet(About(Q) \cup C)
        /\ (About(Q) \cup C = {} => Q = {} /\ C = {})
    BY <2>1, InquiringFinite
  <2>3. k = 0 /\ n = 0 /\ Cardinality(About(Q) \cup C) = 0
    BY <1>2, <2>1, <2>2
  <2>4. Q = {} /\ C = {}
    BY <2>2, <2>3, FS_EmptySet
  <2>5. About(Q) = {}
    BY <2>4, AboutParts
  <2>6. keys # "none" => m.err \/ m.got \cup About(T) = O
    BY <2>1, <2>4, <2>5
  <2>7. Turns(O, keys, {}, 0, T, 0, 0, {}, Emits(m)) /\ Emits(m).says = <<>>
    BY <2>1, <2>6, EmitsTurns
  <2>8. IfNone(m) = Emits(m)
    BY <1>2 DEF IfNone
  <2> QED
    BY <2>3, <2>4, <2>7, <2>8
<1> QED
  BY <1>1, <1>2

-----------------------------------------------------------------------------
(* What idle functions and answers do to the closure of tracker.           *)

\* an idle function in place of tracker's answer
LEMMA TaskDone ==
  ASSUME NEW O, IsFiniteSet(O), NEW keys, NEW m, NEW T, NEW t, NEW n \in Nat, NEW e, NEW Q,
         Counts(O, keys, {}, 0, m, T \cup {t}, n + 1, e, Q), ~Emission(t)
  PROVE  /\ m \in Commons(O) /\ m.remaining # 0 /\ keys # "known" /\ Q = {} /\ e = 0
         /\ t.kind \in ClosureKinds
         /\ \E o \in O :
              /\ t.objs = {o}
              /\ \A w : Nearer(O, m, w, 1, {o}) => Counts(O, keys, {}, 0, w, T, n, 0, {})
              /\ \A u : u.kind \in ClosureKinds \ {"container"} /\ u.objs = {o} /\ ~Emission(u)
                   => Counts(O, keys, {}, 0, m, T \cup {u}, n + 1, 0, {})
<1>1. /\ m \in Commons(O) /\ Closing(O, T \cup {t})
      /\ keys # "none" => m.err \/ m.got \cup About(T \cup {t}) \cup About(Q) \cup {} = O
  BY CountsParts
<1>2. IF keys = "known" THEN n + 1 = 0 ELSE Q = {}
  BY CountsParts
<1>3. \/ e = 0 /\ 0 + (n + 1) + Cardinality(About(Q) \cup {}) <= m.remaining
      \/ e = 1 /\ 0 = 0 /\ n + 1 = 0 /\ Q = {} /\ {} = {}
  BY CountsParts
<1>4. n + 1 # 0 /\ n + 1 \in Nat
  OBVIOUS
<1>5. keys # "known" /\ Q = {} /\ e = 0
  BY <1>2, <1>3, <1>4
<1>6. About({}) = {} /\ Cardinality({}) = 0 /\ Inquiring(O, {})
  BY AboutParts, FS_EmptySet DEF Inquiring
<1>7. n + 1 <= m.remaining
  <2>1. Cardinality(About(Q) \cup {}) = 0
    BY <1>5, <1>6
  <2> QED
    BY <1>3, <1>4, <2>1
<1>8. m.remaining \in Nat
  BY <1>1 DEF Commons
<1>9. PICK o \in O : t.objs = {o}
  BY <1>1 DEF Closing
<1>10. t.kind \in ClosureKinds /\ Closing(O, T)
  BY <1>1 DEF Closing
<1>11. \A u : u.objs = {o} => About(T \cup {u}) = About(T) \cup {o}
  <2>1. ASSUME NEW u, u.objs = {o} PROVE About(T \cup {u}) = About(T) \cup {o}
    <3>1. About({u}) = {o}
      BY <2>1, AboutParts
    <3>2. About(T \cup {u}) = About(T) \cup About({u})
      BY AboutParts
    <3> QED
      BY <3>1, <3>2
  <2> QED
    BY <2>1
<1>12. keys # "none" => m.err \/ m.got \cup (About(T) \cup {o}) = O
  BY <1>1, <1>5, <1>6, <1>9, <1>11
<1>13. ASSUME NEW w, Nearer(O, m, w, 1, {o}) PROVE Counts(O, keys, {}, 0, w, T, n, 0, {})
  <2>1. keys # "none" => w.err \/ w.got \cup About(T) = O
    BY <1>12, <1>13 DEF Nearer
  <2>2. w \in Commons(O) /\ w.remaining = m.remaining - 1
    BY <1>13 DEF Nearer
  <2>3. 0 + n + Cardinality(About({}) \cup {}) <= w.remaining
    <3>1. Cardinality(About({}) \cup {}) = 0
      BY <1>6
    <3> QED
      BY <1>7, <1>8, <2>2, <3>1
  <2>4. keys # "none" => w.err \/ w.got \cup About(T) \cup About({}) \cup {} = O
    BY <1>6, <2>1
  <2>5. /\ {} \subseteq O /\ {} \cap About({}) = {}
        /\ IF keys = "known" THEN n = 0 ELSE {} = {}
    BY <1>5
  <2> QED
    BY <1>6, <1>10, <2>2, <2>3, <2>4, <2>5, CountsParts
<1>14. ASSUME NEW u, u.kind \in ClosureKinds \ {"container"}, u.objs = {o}, ~Emission(u)
       PROVE  Counts(O, keys, {}, 0, m, T \cup {u}, n + 1, 0, {})
  <2>1. Closing(O, T \cup {u})
    BY <1>9, <1>10, <1>14 DEF Closing
  <2>2. keys # "none" => m.err \/ m.got \cup About(T \cup {u}) \cup About({}) \cup {} = O
    BY <1>6, <1>11, <1>12, <1>14
  <2>3. 0 + (n + 1) + Cardinality(About({}) \cup {}) <= m.remaining
    <3>1. Cardinality(About({}) \cup {}) = 0
      BY <1>6
    <3> QED
      BY <1>7, <1>8, <3>1
  <2>4. /\ {} \subseteq O /\ {} \cap About({}) = {}
        /\ IF keys = "known" THEN n + 1 = 0 ELSE {} = {}
    BY <1>5
  <2> QED
    BY <1>1, <1>6, <2>1, <2>2, <2>3, <2>4, CountsParts
<1>15. m.remaining # 0
  BY <1>4, <1>7, <1>8
<1> QED
  BY <1>1, <1>5, <1>9, <1>10, <1>13, <1>14, <1>15

\* what is known of question t, and of an answer to it: some of its objects, S,
\* are got, the others are asked for with N
Questioned(O, keys, m, T, n, e, Q, t) ==
  /\ m \in Commons(O) /\ n = 0 /\ e = 0 /\ keys = "known" /\ Closing(O, T)
  /\ t.objs # {} /\ t.objs \subseteq O
  /\ t.kind \in ClosureKinds \cup {"duration"}
  /\ t.kind \notin {"clips", "playlists"} => \E o \in O : t.objs = {o}
  /\ t.kind = "container" => \A o \in t.objs : Category(o) \in Container
  /\ Cardinality(t.objs) \in Nat /\ Cardinality(t.objs) <= m.remaining
  /\ Q = {t} /\ keys # "none" => m.err \/ m.got \cup About(T) \cup t.objs = O
  /\ \A w, S, N : /\ S \subseteq t.objs /\ Inquiring(O, N) /\ About(N) = t.objs \ S
                  /\ Nearer(O, m, w, Cardinality(S), S)
                  => Counts(O, keys, {}, 0, w, T, 0, 0, (Q \ {t}) \cup N)

LEMMA QuestionDone ==
  ASSUME NEW O, IsFiniteSet(O), NEW keys, NEW m, NEW T, NEW n \in Nat, NEW e, NEW Q,
         Counts(O, keys, {}, 0, m, T, n, e, Q), NEW t \in Q
  PROVE  Questioned(O, keys, m, T, n, e, Q, t)
<1>1. /\ m \in Commons(O) /\ Closing(O, T) /\ Inquiring(O, Q)
      /\ keys # "none" => m.err \/ m.got \cup About(T) \cup About(Q) \cup {} = O
  BY CountsParts
<1>2. IF keys = "known" THEN n = 0 ELSE Q = {}
  BY CountsParts
<1>3. \/ e = 0 /\ 0 + n + Cardinality(About(Q) \cup {}) <= m.remaining
      \/ e = 1 /\ 0 = 0 /\ n = 0 /\ Q = {} /\ {} = {}
  BY CountsParts
<1>4. n = 0 /\ e = 0 /\ keys = "known"
  BY <1>2, <1>3
<1>5. /\ t.objs # {} /\ t.objs \subseteq O
      /\ t.kind \in ClosureKinds \cup {"duration"}
      /\ t.kind \notin {"clips", "playlists"} => \E o \in O : t.objs = {o}
      /\ t.kind = "container" => \A o \in t.objs : Category(o) \in Container
  BY <1>1 DEF Inquiring
<1> DEFINE R == Q \ {t}
<1>6. Inquiring(O, R) /\ \A u \in R : u.objs \cap t.objs = {}
  BY <1>1 DEF Inquiring
<1>7. About(Q) = About(R) \cup t.objs
  <2>1. About({t}) = t.objs
    BY AboutParts
  <2>2. About(R \cup {t}) = About(R) \cup About({t})
    BY AboutParts
  <2>3. Q = R \cup {t}
    OBVIOUS
  <2> HIDE DEF R
  <2> QED
    BY <2>1, <2>2, <2>3
<1>8. About(R) \cap t.objs = {}
  BY <1>6 DEF About
<1>8a. Q = {t} => R = {}
  OBVIOUS
<1>8b. \A N : (Q \ {t}) \cup N = R \cup N
  OBVIOUS
<1> HIDE DEF R
<1>9. About(R) \subseteq O
  BY <1>6, InquiringFinite
<1>10. /\ IsFiniteSet(About(R)) /\ Cardinality(About(R)) \in Nat
       /\ IsFiniteSet(t.objs) /\ Cardinality(t.objs) \in Nat
  BY <1>5, <1>9, AboutFinite
<1>11. Cardinality(About(Q)) = Cardinality(About(R)) + Cardinality(t.objs)
  BY <1>7, <1>8, <1>10, UnionCount
<1>12. m.remaining \in Nat
  BY <1>1 DEF Commons
<1>13. Cardinality(About(R)) + Cardinality(t.objs) <= m.remaining
  <2>1. 0 + n + Cardinality(About(Q) \cup {}) <= m.remaining
    BY <1>3, <1>4
  <2>2. About(Q) \cup {} = About(Q)
    OBVIOUS
  <2> QED
    BY <1>4, <1>10, <1>11, <1>12, <2>1, <2>2
<1>14. ASSUME NEW w, NEW S, NEW N, S \subseteq t.objs, Inquiring(O, N),
              About(N) = t.objs \ S, Nearer(O, m, w, Cardinality(S), S)
       PROVE  Counts(O, keys, {}, 0, w, T, 0, 0, R \cup N)
  <2> DEFINE U == t.objs \ S
  <2>1. /\ IsFiniteSet(S) /\ IsFiniteSet(U) /\ Cardinality(S) \in Nat
        /\ Cardinality(U) \in Nat /\ Cardinality(t.objs) = Cardinality(S) + Cardinality(U)
    <3>1. IsFiniteSet(S) /\ IsFiniteSet(U)
      BY <1>10, <1>14, FS_Subset
    <3>2. S \cap U = {} /\ t.objs = S \cup U
      BY <1>14
    <3>3. Cardinality(S) \in Nat /\ Cardinality(U) \in Nat
      BY <3>1, FS_CardinalityType
    <3> HIDE DEF U
    <3>4. S \cap U = {}
      BY <3>2
    <3>5. Cardinality(S \cup U) = Cardinality(S) + Cardinality(U)
      BY <3>1, <3>4, UnionCount
    <3> QED
      BY <3>1, <3>2, <3>3, <3>5
  <2>2. About(R \cup N) = About(R) \cup U
    <3>1. About(R \cup N) = About(R) \cup About(N)
      BY AboutParts
    <3> QED
      BY <1>14, <3>1
  <2>3. About(R) \cap U = {}
    BY <1>8
  <2>4. U \cup S = t.objs
    BY <1>14
  <2>5. \A u \in N : u.objs \subseteq t.objs
    BY <1>14 DEF About
  <2> HIDE DEF U
  <2>6. Cardinality(About(R) \cup U) = Cardinality(About(R)) + Cardinality(U)
    BY <1>10, <2>1, <2>3, UnionCount
  <2>7. w \in Commons(O) /\ w.remaining = m.remaining - Cardinality(S)
    BY <1>14 DEF Nearer
  <2>8. 0 + 0 + Cardinality(About(R \cup N) \cup {}) <= w.remaining
    <3>1. About(R \cup N) \cup {} = About(R) \cup U
      BY <2>2
    <3>2. Cardinality(About(R)) + Cardinality(U) <= m.remaining - Cardinality(S)
      BY <1>10, <1>12, <1>13, <2>1
    <3>3. Cardinality(About(R \cup N) \cup {}) = Cardinality(About(R)) + Cardinality(U)
      BY <2>6, <3>1
    <3>4. Cardinality(About(R)) + Cardinality(U) \in Nat
      BY <1>10, <2>1
    <3>5. w.remaining = m.remaining - Cardinality(S)
      BY <2>7
    <3> QED
      BY <3>2, <3>3, <3>4, <3>5
  <2>9. Inquiring(O, R \cup N)
    <3>1. \A x \in R \cup N :
            /\ x.kind \in ClosureKinds \cup {"duration"}
            /\ x.objs # {} /\ x.objs \subseteq O
            /\ x.kind \notin {"clips", "playlists"} => \E o \in O : x.objs = {o}
            /\ x.kind = "container" => \A o \in x.objs : Category(o) \in Container
      BY <1>6, <1>14 DEF Inquiring
    <3>2. ASSUME NEW x \in R \cup N, NEW y \in R \cup N, x # y PROVE x.objs \cap y.objs = {}
      <4>1. CASE x \in R /\ y \in R
        BY <1>6, <3>2, <4>1 DEF Inquiring
      <4>2. CASE x \in N /\ y \in N
        BY <1>14, <3>2, <4>2 DEF Inquiring
      <4>3. CASE x \in R /\ y \in N
        BY <1>6, <2>5, <4>3
      <4>4. CASE x \in N /\ y \in R
        BY <1>6, <2>5, <4>4
      <4> QED
        BY <3>2, <4>1, <4>2, <4>3, <4>4
    <3> QED
      BY <3>1, <3>2 DEF Inquiring
  <2>10. keys # "none" => w.err \/ w.got \cup About(T) \cup About(R \cup N) \cup {} = O
    <3>1. keys # "none" => m.err \/ m.got \cup (About(T) \cup About(R) \cup t.objs) = O
      BY <1>1, <1>7
    <3>2. About(T) \cup About(R) \cup t.objs = (About(T) \cup About(R) \cup U) \cup S
      BY <2>4
    <3>3. keys # "none" => w.err \/ w.got \cup (About(T) \cup About(R) \cup U) = O
      BY <1>14, <3>1, <3>2 DEF Nearer
    <3> QED
      BY <2>2, <3>3
  <2>11. /\ {} \subseteq O /\ {} \cap About(R \cup N) = {}
         /\ IF keys = "known" THEN 0 = 0 ELSE R \cup N = {}
    BY <1>4
  <2> QED
    BY <1>1, <2>7, <2>8, <2>9, <2>10, <2>11, CountsParts
<1>15. ASSUME Q = {t}, keys # "none" PROVE m.err \/ m.got \cup About(T) \cup t.objs = O
  <2>1. About(R) = {}
    BY <1>8a, <1>15, AboutParts
  <2> QED
    BY <1>1, <1>7, <1>15, <2>1
<1>16. Cardinality(t.objs) <= m.remaining
  BY <1>10, <1>12, <1>13
<1> QED
  BY <1>1, <1>4, <1>5, <1>8b, <1>10, <1>14, <1>15, <1>16 DEF Questioned

\* the idle function that emits
LEMMA EndingDone ==
  ASSUME NEW O, IsFiniteSet(O), NEW keys, NEW m, NEW T, NEW t, NEW n \in Nat,
         NEW e \in Nat, NEW Q, Counts(O, keys, {}, 0, m, T \cup {t}, n, e + 1, Q),
         Emission(t), n = 0 /\ e = 0 => T = {}
  PROVE  /\ T = {} /\ Q = {}
         /\ \E a : /\ TrackerEmits(m) = Says(a)
                   /\ a.ok /\ keys # "none" => a.got = O
<1>1. /\ Closing(O, T \cup {t})
      /\ keys # "none" => m.err \/ m.got \cup About(T \cup {t}) \cup About(Q) \cup {} = O
  BY CountsParts
<1>2. \/ e + 1 = 0 /\ 0 + n + Cardinality(About(Q) \cup {}) <= m.remaining
      \/ e + 1 = 1 /\ 0 = 0 /\ n = 0 /\ Q = {} /\ {} = {}
  BY CountsParts
<1>3. e = 0 /\ n = 0 /\ Q = {}
  BY <1>2
<1>4. T = {} /\ t.objs = {}
  BY <1>1, <1>3 DEF Closing
<1>5. About({t}) = {} /\ About(Q) = {} /\ T \cup {t} = {t}
  BY <1>3, <1>4, AboutParts
<1>6. keys # "none" => m.err \/ m.got = O
  BY <1>1, <1>5
<1> DEFINE a == Answer(~m.err, m.got)
<1>7. TrackerEmits(m) = Says(a) /\ (a.ok <=> ~m.err) /\ a.got = m.got
  BY DEF TrackerEmits, Answer
<1> HIDE DEF a
<1> QED
  BY <1>3, <1>4, <1>6, <1>7

-----------------------------------------------------------------------------
(* The idle functions and the answers of tracker.                          *)

LEMMA ClosureFormed ==
  ASSUME NEW m
  PROVE  /\ Formed(Emits(m)) /\ Emits(m).says = <<>>
         /\ Formed(Waits(m)) /\ Waits(m).says = <<>>
         /\ Formed(IfNone(m)) /\ IfNone(m).says = <<>>
<1>1. Formed(Emits(m)) /\ Emits(m).says = <<>>
  BY OneThing DEF Emits, Reaction
<1>2. Formed(Waits(m)) /\ Waits(m).says = <<>>
  BY OneThing DEF Waits, Reaction
<1> QED
  BY <1>1, <1>2 DEF IfNone

\* the browses for durations
Measured(u) == {Todo("duration", {o}) : o \in u}

LEMMA PlaylistsParts ==
  ASSUME NEW m, NEW objs, NEW u
  PROVE  \/ /\ objs \ u # {} /\ GotThese(m, objs \ u).remaining = 0
            /\ GotPlaylists(m, objs, u)
                 = Reaction(GotThese(m, objs \ u), <<Todo("emit", {})>>, Measured(u), <<>>)
         \/ GotPlaylists(m, objs, u) = Reaction(GotThese(m, objs \ u), <<>>, Measured(u), <<>>)
<1> DEFINE rest == objs \ u
           w == GotThese(m, rest)
           measure == Measured(u)
           end == IF rest # {} /\ w.remaining = 0 THEN Emits(w) ELSE Waits(w)
<1>1. GotPlaylists(m, objs, u) = [end EXCEPT !.asks = measure]
  BY DEF GotPlaylists, Measured, GotThese
<1> HIDE DEF w, measure
<1>2. \A a, l, q : [Reaction(a, l, q, <<>>) EXCEPT !.asks = measure] = Reaction(a, l, measure, <<>>)
  BY DEF Reaction
<1>3. \/ end = Emits(w) /\ rest # {} /\ w.remaining = 0
      \/ end = Waits(w)
  OBVIOUS
<1> HIDE DEF end
<1>4. CASE end = Emits(w) /\ rest # {} /\ w.remaining = 0
  <2>1. end = Reaction(w, <<Todo("emit", {})>>, {}, <<>>)
    BY <1>4 DEF Emits
  <2>2. GotPlaylists(m, objs, u) = Reaction(w, <<Todo("emit", {})>>, measure, <<>>)
    BY <1>1, <1>2, <2>1
  <2> QED
    BY <1>4, <2>2 DEF w, measure
<1>5. CASE end = Waits(w)
  <2>1. end = Reaction(w, <<>>, {}, <<>>)
    BY <1>5 DEF Waits
  <2>2. GotPlaylists(m, objs, u) = Reaction(w, <<>>, measure, <<>>)
    BY <1>1, <1>2, <2>1
  <2> QED
    BY <2>2 DEF w, measure
<1> QED
  BY <1>3, <1>4, <1>5

\* the answers tracker gives
LEMMA AnswersParts ==
  ASSUME NEW m, NEW q, q.kind \in ClosureKinds \cup {"duration"}, NEW r \in TrackerAnswers(m, q)
  PROVE  \/ q.kind \in {"clips", "playlists"} /\ r = BatchFails(m)
         \/ q.kind = "clips" /\ r = GotSeveral(m, q.objs)
         \/ q.kind = "playlists" /\ \E u \in SUBSET q.objs : r = GotPlaylists(m, q.objs, u)
         \/ /\ q.kind \notin {"clips", "playlists"}
            /\ \E g, e \in BOOLEAN : /\ g \/ e
                                     /\ r = GotOne(m, CHOOSE x \in q.objs : TRUE, g, e)
         \/ /\ q.kind \notin {"clips", "playlists"}
            /\ \E k \in {"videos", "duration"} : r = Reaction(m, <<>>, {Todo(k, q.objs)}, <<>>)
<1> DEFINE o == CHOOSE x \in q.objs : TRUE
           A == TrackerAnswers(m, q)
<1> HIDE DEF o
<1>1. CASE q.kind = "clips"
  <2>1. A = {GotSeveral(m, q.objs), BatchFails(m)}
    BY <1>1 DEF TrackerAnswers
  <2> QED
    BY <1>1, <2>1
<1>2. CASE q.kind = "playlists"
  <2>1. A = {GotPlaylists(m, q.objs, u) : u \in SUBSET q.objs} \cup {BatchFails(m)}
    BY <1>2 DEF TrackerAnswers
  <2> QED
    BY <1>2, <2>1
<1>3. CASE q.kind = "duration"
  <2>1. A = {GotOne(m, o, TRUE, e) : e \in BOOLEAN}
    BY <1>3 DEF TrackerAnswers, o
  <2> QED
    BY <1>3, <2>1 DEF o
<1>4. CASE q.kind = "container" /\ Category(o) = "root"
  <2> DEFINE x == Reaction(m, <<>>, {Todo("videos", q.objs)}, <<>>)
  <2>0. A = CASE q.kind = "clips" -> {GotSeveral(m, q.objs), BatchFails(m)}
              [] q.kind = "playlists" ->
                   {GotPlaylists(m, q.objs, u) : u \in SUBSET q.objs} \cup {BatchFails(m)}
              [] q.kind = "duration" -> {GotOne(m, o, TRUE, e) : e \in BOOLEAN}
              [] q.kind = "container" /\ Category(o) = "root" -> {x}
              [] q.kind = "container" /\ Category(o) = "playlists" ->
                   {GotOne(m, o, FALSE, TRUE), GotOne(m, o, TRUE, FALSE),
                    Reaction(m, <<>>, {Todo("duration", q.objs)}, <<>>)}
              [] q.kind = "container" /\ Category(o) \notin {"root", "playlists"} ->
                   {GotOne(m, o, FALSE, TRUE), GotOne(m, o, TRUE, FALSE)}
              [] q.kind = "videos" ->
                   {GotOne(m, o, g, e) : g \in BOOLEAN, e \in BOOLEAN}
                     \ {GotOne(m, o, FALSE, FALSE)}
    BY DEF TrackerAnswers, o
  <2> HIDE DEF x
  <2>1. A = {x}
    BY <1>4, <2>0
  <2> USE DEF x
  <2> QED
    BY <1>4, <2>1
<1>5. CASE q.kind = "container" /\ Category(o) = "playlists"
  <2>1. A = {GotOne(m, o, FALSE, TRUE), GotOne(m, o, TRUE, FALSE),
             Reaction(m, <<>>, {Todo("duration", q.objs)}, <<>>)}
    BY <1>5 DEF TrackerAnswers, o
  <2> QED
    BY <1>5, <2>1 DEF o
<1>6. CASE q.kind = "container" /\ Category(o) \notin {"root", "playlists"}
  <2>1. A = {GotOne(m, o, FALSE, TRUE), GotOne(m, o, TRUE, FALSE)}
    BY <1>6 DEF TrackerAnswers, o
  <2> QED
    BY <1>6, <2>1 DEF o
<1>7. CASE q.kind = "videos"
  <2> DEFINE X == {GotOne(m, o, g, e) : g \in BOOLEAN, e \in BOOLEAN}
             z == GotOne(m, o, FALSE, FALSE)
  <2>1. A = X \ {z}
    BY <1>7 DEF TrackerAnswers, o
  <2> HIDE DEF z
  <2>2. PICK g \in BOOLEAN, e \in BOOLEAN : r = GotOne(m, o, g, e)
    BY <2>1
  <2> HIDE DEF X
  <2>3. r # z
    BY <2>1
  <2>4. g \/ e
    <3> SUFFICES ASSUME g = FALSE, e = FALSE PROVE FALSE
      OBVIOUS
    <3>1. r = GotOne(m, o, FALSE, FALSE)
      BY <2>2, Zenon
    <3> QED
      BY <2>3, <3>1 DEF z
  <2> QED
    BY <1>7, <2>2, <2>4 DEF o
<1>8. q.kind \in {"clips", "playlists", "container", "videos", "duration"}
  BY DEF ClosureKinds
<1> QED
  BY <1>1, <1>2, <1>3, <1>4, <1>5, <1>6, <1>7, <1>8

LEMMA AnswersFormed ==
  ASSUME NEW m, NEW q, q.kind \in ClosureKinds \cup {"duration"}, NEW r \in TrackerAnswers(m, q)
  PROVE  Formed(r) /\ r.says = <<>>
<1>1. \A S : \A k \in {"videos", "duration"} : Question(Todo(k, S))
  BY DEF Question, Todo, ClosureKinds
<1>2. ASSUME r = BatchFails(m) PROVE Formed(r) /\ r.says = <<>>
  BY <1>2, ClosureFormed DEF BatchFails
<1>3. ASSUME r = GotSeveral(m, q.objs) PROVE Formed(r) /\ r.says = <<>>
  BY <1>3, ClosureFormed DEF GotSeveral
<1>4. ASSUME NEW o, NEW g, NEW e, r = GotOne(m, o, g, e) PROVE Formed(r) /\ r.says = <<>>
  BY <1>4, ClosureFormed DEF GotOne
<1>5. ASSUME NEW k \in {"videos", "duration"}, r = Reaction(m, <<>>, {Todo(k, q.objs)}, <<>>)
      PROVE  Formed(r) /\ r.says = <<>>
  BY <1>1, <1>5, OneThing DEF Reaction
<1>6. ASSUME NEW u, r = GotPlaylists(m, q.objs, u) PROVE Formed(r) /\ r.says = <<>>
  <2> DEFINE N == Measured(u)
  <2>1. \A t \in N : Question(t)
    BY <1>1 DEF Measured
  <2> HIDE DEF N
  <2>2. \A w : Formed(Reaction(w, <<>>, N, <<>>)) /\ Reaction(w, <<>>, N, <<>>).says = <<>>
    BY <2>1, ShortOrder DEF Formed, Reaction
  <2>3. \A w, t : Formed(Reaction(w, <<t>>, N, <<>>)) /\ Reaction(w, <<t>>, N, <<>>).says = <<>>
    BY <2>1, ShortOrder DEF Formed, Reaction
  <2>4. \E w : \/ r = Reaction(w, <<Todo("emit", {})>>, N, <<>>)
               \/ r = Reaction(w, <<>>, N, <<>>)
    BY <1>6, PlaylistsParts DEF N
  <2> QED
    BY <2>2, <2>3, <2>4
<1> QED
  BY <1>2, <1>3, <1>4, <1>5, <1>6, AnswersParts

LEMMA MakesUpFormed ==
  ASSUME NEW m, NEW t PROVE Formed(TrackerMakesUp(m, t)) /\ TrackerMakesUp(m, t).says = <<>>
<1>1. CASE t.kind \in {"clips", "playlists"}
  <2>1. TrackerMakesUp(m, t) = MadeUp(m, t.objs)
    BY <1>1 DEF TrackerMakesUp
  <2> QED
    BY <2>1, ClosureFormed DEF MadeUp
<1>2. CASE t.kind \notin {"clips", "playlists"}
  <2> DEFINE o == CHOOSE x \in t.objs : TRUE
  <2>1. \/ TrackerMakesUp(m, t) = Reaction(m, <<Todo("videos", t.objs)>>, {}, <<>>)
        \/ TrackerMakesUp(m, t) = GotOne(m, o, TRUE, FALSE)
    BY <1>2, Zenon DEF TrackerMakesUp
  <2>2. Formed(GotOne(m, o, TRUE, FALSE)) /\ GotOne(m, o, TRUE, FALSE).says = <<>>
    BY ClosureFormed DEF GotOne
  <2>3. \A u : Formed(Reaction(m, <<u>>, {}, <<>>)) /\ Reaction(m, <<u>>, {}, <<>>).says = <<>>
    BY OneThing DEF Reaction
  <2> HIDE DEF o
  <2> QED
    BY <2>1, <2>2, <2>3
<1> QED
  BY <1>1, <1>2

-----------------------------------------------------------------------------
(* What they do to the closure.                                            *)

LEMMA MadeUpNearer ==
  ASSUME NEW O, NEW m \in Commons(O), m.remaining # 0, NEW o \in O
  PROVE  \E w : MadeUp(m, {o}) = IfNone(w) /\ Nearer(O, m, w, 1, {o})
<1>1. PICK k \in Nat, g \in SUBSET O, e \in BOOLEAN : m = Common3(k, g, e)
  BY CommonsParts
<1>2. m.remaining = k /\ m.got = g /\ (m.err <=> e) /\ k - 1 \in Nat
  BY <1>1 DEF Common3
<1> DEFINE h == g \cup {o}
           w == Common3(k - 1, h, e)
<1>3. w \in Commons(O)
  BY <1>2, CommonsParts
<1>4. w.remaining = k - 1 /\ w.got = h /\ (w.err <=> e)
  <2> HIDE DEF h
  <2> QED
    BY DEF Common3
<1>5. MadeUp(m, {o}) = IfNone(w)
  <2> DEFINE x == [m EXCEPT !.got = @ \cup {o}, !.remaining = @ - 1]
  <2>1. (CHOOSE y \in {o} : TRUE) = o
    OBVIOUS
  <2>2. MadeUp(m, {o}) = IfNone(x)
    BY <2>1 DEF MadeUp
  <2>3. m.remaining - 1 = k - 1 /\ m.got \cup {o} = h
    BY <1>2
  <2>4. x = [m EXCEPT !.got = h, !.remaining = k - 1]
    BY <2>3
  <2> HIDE DEF x, h
  <2>5. x = w
    BY <1>1, <2>4 DEF Common3
  <2> QED
    BY <2>2, <2>5
<1> HIDE DEF w
<1>6. Nearer(O, m, w, 1, {o})
  BY <1>2, <1>3, <1>4 DEF Nearer
<1> QED
  BY <1>5, <1>6

LEMMA AddsTurns ==
  ASSUME NEW O, NEW keys, NEW C, NEW k, NEW m, NEW T, NEW n \in Nat, NEW e \in Nat, NEW Q, NEW u, ~Emission(u),
         Counts(O, keys, C, k, m, T \cup {u}, n + 1, e, Q)
  PROVE  Turns(O, keys, C, k, T, n, e, Q, Reaction(m, <<u>>, {}, <<>>))
<1> DEFINE r == Reaction(m, <<u>>, {}, <<>>)
<1>1. r.work = m /\ r.later = <<u>> /\ r.asks = {}
  BY DEF Reaction
<1> HIDE DEF r
<1>2. /\ Listed(r.later) = {u} /\ Cardinality(Plain(r.later)) = 1
      /\ Cardinality(Final(r.later)) = 0
  BY <1>1, ShortCount
<1>3. e + 0 = e /\ Q \cup {} = Q
  OBVIOUS
<1>4. Turns(O, keys, C, k, T, n, e, Q, r)
  BY <1>1, <1>2, <1>3 DEF Turns
<1> QED
  BY <1>4 DEF r

LEMMA MakesUpTurns ==
  ASSUME NEW O, IsFiniteSet(O), NEW keys, NEW m, NEW T, NEW t, NEW n \in Nat, NEW e, NEW Q,
         Counts(O, keys, {}, 0, m, T \cup {t}, n + 1, e, Q), ~Emission(t)
  PROVE  Turns(O, keys, {}, 0, T, n, e, Q, TrackerMakesUp(m, t))
<1> DEFINE r == TrackerMakesUp(m, t)
<1>1. /\ m \in Commons(O) /\ m.remaining # 0 /\ Q = {} /\ e = 0 /\ t.kind \in ClosureKinds
      /\ \E o \in O :
           /\ t.objs = {o}
           /\ \A w : Nearer(O, m, w, 1, {o}) => Counts(O, keys, {}, 0, w, T, n, 0, {})
           /\ \A u : u.kind \in ClosureKinds \ {"container"} /\ u.objs = {o} /\ ~Emission(u)
                => Counts(O, keys, {}, 0, m, T \cup {u}, n + 1, 0, {})
  BY TaskDone
<1>2. PICK o \in O :
        /\ t.objs = {o}
        /\ \A w : Nearer(O, m, w, 1, {o}) => Counts(O, keys, {}, 0, w, T, n, 0, {})
        /\ \A u : u.kind \in ClosureKinds \ {"container"} /\ u.objs = {o} /\ ~Emission(u)
             => Counts(O, keys, {}, 0, m, T \cup {u}, n + 1, 0, {})
  BY <1>1
<1>3. ASSUME NEW w, r = IfNone(w), Nearer(O, m, w, 1, {o})
      PROVE  Turns(O, keys, {}, 0, T, n, 0, {}, r)
  <2>1. Counts(O, keys, {}, 0, w, T, n, 0, {})
    BY <1>2, <1>3
  <2>2. Turns(O, keys, {}, 0, T, n, 0, {}, IfNone(w))
    BY <2>1, IfNoneTurns
  <2> QED
    BY <1>3, <2>2
<1>4. CASE t.kind \in {"clips", "playlists"}
  <2>1. r = MadeUp(m, {o})
    BY <1>2, <1>4 DEF TrackerMakesUp
  <2>2. PICK w : MadeUp(m, {o}) = IfNone(w) /\ Nearer(O, m, w, 1, {o})
    BY <1>1, MadeUpNearer
  <2> QED
    BY <1>1, <1>3, <2>1, <2>2
<1>5. CASE t.kind \notin {"clips", "playlists"}
  <2> DEFINE u == Todo("videos", t.objs)
  <2>1. (CHOOSE x \in t.objs : TRUE) = o
    BY <1>2
  <2>2. r = Reaction(m, <<u>>, {}, <<>>) \/ r = GotOne(m, o, TRUE, FALSE)
    BY <1>5, <2>1, Zenon DEF TrackerMakesUp
  <2>3. ASSUME r = GotOne(m, o, TRUE, FALSE) PROVE Turns(O, keys, {}, 0, T, n, 0, {}, r)
    <3>1. PICK w : GotOne(m, o, TRUE, FALSE) = IfNone(w) /\ Nearer(O, m, w, 1, {o})
      BY <1>1, GotOneNearer
    <3> QED
      BY <1>3, <2>3, <3>1
  <2>4. u.kind = "videos" /\ u.objs = {o}
    BY <1>2 DEF Todo
  <2>5. u.kind \in ClosureKinds \ {"container"} /\ ~Emission(u)
    BY <2>4 DEF ClosureKinds, Emission
  <2> HIDE DEF u
  <2>6. Counts(O, keys, {}, 0, m, T \cup {u}, n + 1, 0, {})
    BY <1>2, <2>4, <2>5
  <2>7. Turns(O, keys, {}, 0, T, n, 0, {}, Reaction(m, <<u>>, {}, <<>>))
    BY <2>5, <2>6, AddsTurns
  <2> QED
    BY <1>1, <2>2, <2>3, <2>7
<1> QED
  BY <1>4, <1>5

LEMMA AsksTurns ==
  ASSUME NEW O, NEW keys, NEW C, NEW k, NEW m, NEW T, NEW n \in Nat, NEW e \in Nat, NEW Q, NEW N,
         Counts(O, keys, C, k, m, T, n, e, Q \cup N)
  PROVE  Turns(O, keys, C, k, T, n, e, Q, Reaction(m, <<>>, N, <<>>))
<1> DEFINE r == Reaction(m, <<>>, N, <<>>)
<1>1. r.work = m /\ r.later = <<>> /\ r.asks = N
  BY DEF Reaction
<1> HIDE DEF r
<1>2. /\ Listed(r.later) = {} /\ Cardinality(Plain(r.later)) = 0
      /\ Cardinality(Final(r.later)) = 0
  BY <1>1, ShortCount
<1>3. n + 0 = n /\ e + 0 = e /\ T \cup {} = T
  OBVIOUS
<1>4. Turns(O, keys, C, k, T, n, e, Q, r)
  BY <1>1, <1>2, <1>3 DEF Turns
<1> QED
  BY <1>4 DEF r

\* an answer of tracker
LEMMA AnswersTurns ==
  ASSUME NEW O, IsFiniteSet(O), NEW keys, NEW m, NEW T, NEW n \in Nat, NEW e, NEW Q,
         Counts(O, keys, {}, 0, m, T, n, e, Q), NEW t \in Q, NEW r \in TrackerAnswers(m, t),
         t.kind \in {"clips", "playlists"} /\ r = BatchFails(m) => Q = {t}
  PROVE  Turns(O, keys, {}, 0, T, n, e, Q \ {t}, r)
<1> DEFINE R == Q \ {t}
<1>0. Questioned(O, keys, m, T, n, e, Q, t)
  BY QuestionDone
<1>1. /\ m \in Commons(O) /\ n = 0 /\ e = 0 /\ Closing(O, T)
      /\ t.objs # {} /\ t.objs \subseteq O /\ t.kind \in ClosureKinds \cup {"duration"}
      /\ t.kind \notin {"clips", "playlists"} => \E o \in O : t.objs = {o}
      /\ Cardinality(t.objs) \in Nat /\ Cardinality(t.objs) <= m.remaining
      /\ Q = {t} /\ keys # "none" => m.err \/ m.got \cup About(T) \cup t.objs = O
  BY <1>0 DEF Questioned
<1>2. \A w, S, N : /\ S \subseteq t.objs /\ Inquiring(O, N) /\ About(N) = t.objs \ S
                   /\ Nearer(O, m, w, Cardinality(S), S)
                   => Counts(O, keys, {}, 0, w, T, 0, 0, R \cup N)
  BY <1>0 DEF Questioned
<1>2a. Q = {t} => R = {}
  OBVIOUS
<1> HIDE DEF R
<1>3. About({}) = {} /\ Inquiring(O, {}) /\ R \cup {} = R
  BY AboutParts DEF Inquiring
<1>4. m.remaining \in Nat
  BY <1>1 DEF Commons
<1>5. ASSUME NEW w, r = IfNone(w), Nearer(O, m, w, Cardinality(t.objs), t.objs)
      PROVE  Turns(O, keys, {}, 0, T, 0, 0, R, r)
  <2>1. t.objs \subseteq t.objs /\ About({}) = t.objs \ t.objs
    BY <1>3
  <2>2. Counts(O, keys, {}, 0, w, T, 0, 0, R \cup {})
    BY <1>2, <1>3, <1>5, <2>1
  <2>3. Counts(O, keys, {}, 0, w, T, 0, 0, R)
    BY <1>3, <2>2
  <2>4. Turns(O, keys, {}, 0, T, 0, 0, R, IfNone(w))
    BY <2>3, IfNoneTurns
  <2> QED
    BY <1>5, <2>4
<1>6. ASSUME t.kind \in {"clips", "playlists"}, r = BatchFails(m)
      PROVE  Turns(O, keys, {}, 0, T, 0, 0, R, r)
  <2>1. PICK w \in Commons(O) : BatchFails(m) = Emits(w) /\ w.err
    BY <1>1, BatchFailsNearer
  <2>2. keys # "none" => w.err \/ w.got \cup About(T) = O
    BY <2>1
  <2>3. Turns(O, keys, {}, 0, T, 0, 0, {}, Emits(w))
    BY <1>1, <2>2, EmitsTurns
  <2> QED
    BY <1>2a, <1>6, <2>1, <2>3
<1>7. ASSUME r = GotSeveral(m, t.objs) PROVE Turns(O, keys, {}, 0, T, 0, 0, R, r)
  <2>1. r = IfNone(GotThese(m, t.objs))
    BY <1>7 DEF GotSeveral, GotThese
  <2>2. Nearer(O, m, GotThese(m, t.objs), Cardinality(t.objs), t.objs)
    BY <1>1, GotSeveralNearer
  <2> QED
    BY <1>5, <2>1, <2>2
<1>8. ASSUME NEW u \in SUBSET t.objs, r = GotPlaylists(m, t.objs, u)
      PROVE  Turns(O, keys, {}, 0, T, 0, 0, R, r)
  <2> DEFINE S == t.objs \ u
             N == Measured(u)
             w == GotThese(m, S)
  <2>1. /\ S \subseteq t.objs /\ S \subseteq O /\ IsFiniteSet(t.objs)
        /\ t.objs \ S = u
    BY <1>1, AboutFinite
  <2>2. Cardinality(S) <= m.remaining
    <3>1. Cardinality(S) <= Cardinality(t.objs)
      BY <2>1, FS_Subset
    <3>2. Cardinality(S) \in Nat
      BY <2>1, AboutFinite
    <3> QED
      BY <1>1, <1>4, <3>1, <3>2
  <2> HIDE DEF S
  <2>3. Nearer(O, m, w, Cardinality(S), S)
    BY <1>1, <2>1, <2>2, GotSeveralNearer
  <2>4. About(N) = u
    <3>1. \A o : Todo("duration", {o}).objs = {o}
      BY DEF Todo
    <3>2. ASSUME NEW o \in u PROVE o \in About(N)
      <4>1. Todo("duration", {o}) \in N /\ o \in Todo("duration", {o}).objs
        BY <3>1 DEF Measured
      <4> HIDE DEF N
      <4> QED
        BY <4>1 DEF About
    <3>3. ASSUME NEW o \in About(N) PROVE o \in u
      <4>1. PICK x \in N : o \in x.objs
        BY <3>3 DEF About
      <4>2. PICK p \in u : x = Todo("duration", {p})
        BY <4>1 DEF Measured
      <4>3. x.objs = {p}
        BY <3>1, <4>2
      <4> QED
        BY <4>1, <4>3
    <3> QED
      BY <3>2, <3>3
  <2>5. Inquiring(O, N)
    <3>1. ASSUME NEW o \in u PROVE o \in O
      BY <1>1
    <3>2. \A x \in N : x.kind = "duration" /\ \E o \in u : x = Todo("duration", {o})
      BY DEF Measured, Todo
    <3>3. \A o : Todo("duration", {o}).objs = {o}
      BY DEF Todo
    <3>4. \A x \in N : \E o \in O : x.objs = {o}
      BY <3>1, <3>2, <3>3
    <3>5. ASSUME NEW x \in N, NEW y \in N, x # y PROVE x.objs \cap y.objs = {}
      <4>1. PICK o \in u : x = Todo("duration", {o})
        BY <3>2
      <4>2. PICK p \in u : y = Todo("duration", {p})
        BY <3>2
      <4>3. o # p
        BY <3>5, <4>1, <4>2
      <4>4. x.objs = {o} /\ y.objs = {p}
        BY <3>3, <4>1, <4>2
      <4> QED
        BY <4>3, <4>4
    <3> HIDE DEF N
    <3>6. \A x \in N : x.objs # {} /\ x.objs \subseteq O
      BY <3>4
    <3>7. \A x \in N : x.kind \in ClosureKinds \cup {"duration"} /\ x.kind # "container"
      BY <3>2
    <3> QED
      BY <3>4, <3>5, <3>6, <3>7 DEF Inquiring
  <2>6. \/ w.remaining = 0 /\ r = Reaction(w, <<Todo("emit", {})>>, N, <<>>)
        \/ r = Reaction(w, <<>>, N, <<>>)
    BY <1>8, PlaylistsParts DEF S
  <2> HIDE DEF w, N
  <2>7. Counts(O, keys, {}, 0, w, T, 0, 0, R \cup N)
    BY <1>2, <2>1, <2>3, <2>4, <2>5
  <2>8. CASE r = Reaction(w, <<>>, N, <<>>)
    <3>1. Turns(O, keys, {}, 0, T, 0, 0, R, Reaction(w, <<>>, N, <<>>))
      BY <2>7, AsksTurns
    <3> QED
      BY <2>8, <3>1
  <2>9. CASE w.remaining = 0 /\ r = Reaction(w, <<Todo("emit", {})>>, N, <<>>)
    <3>1. /\ w \in Commons(O) /\ Inquiring(O, R \cup N)
          /\ 0 + 0 + Cardinality(About(R \cup N) \cup {}) <= w.remaining
      <4>1. w \in Commons(O) /\ Inquiring(O, R \cup N)
        BY <2>7, CountsParts
      <4>2. \/ 0 = 0 /\ 0 + 0 + Cardinality(About(R \cup N) \cup {}) <= w.remaining
            \/ 0 = 1 /\ 0 = 0 /\ 0 = 0 /\ R \cup N = {} /\ {} = {}
        BY <2>7, CountsParts
      <4> QED
        BY <4>1, <4>2
    <3>2. /\ Cardinality(About(R \cup N) \cup {}) \in Nat /\ IsFiniteSet(About(R \cup N) \cup {})
          /\ (About(R \cup N) \cup {} = {} => R \cup N = {})
      <4>1. {} \subseteq O
        OBVIOUS
      <4> QED
        BY <3>1, <4>1, InquiringFinite
    <3>3. Cardinality(About(R \cup N) \cup {}) = 0
      BY <2>9, <3>1, <3>2
    <3>4. R \cup N = {}
      BY <3>2, <3>3, FS_EmptySet
    <3>5. R = {} /\ N = {}
      BY <3>4
    <3>6. IfNone(w) = Reaction(w, <<Todo("emit", {})>>, {}, <<>>)
      BY <2>9 DEF IfNone, Emits
    <3>7. r = IfNone(w)
      BY <2>9, <3>5, <3>6
    <3>8. Counts(O, keys, {}, 0, w, T, 0, 0, R)
      BY <2>7, <3>4, <3>5
    <3>9. Turns(O, keys, {}, 0, T, 0, 0, R, IfNone(w))
      BY <3>8, IfNoneTurns
    <3> QED
      BY <3>7, <3>9
  <2> QED
    BY <2>6, <2>8, <2>9
<1>9. ASSUME t.kind \notin {"clips", "playlists"}
      PROVE  \E o \in O : t.objs = {o}
  BY <1>1, <1>9
<1>10. ASSUME t.kind \notin {"clips", "playlists"}, NEW g \in BOOLEAN, NEW b \in BOOLEAN, g \/ b,
              r = GotOne(m, CHOOSE x \in t.objs : TRUE, g, b)
       PROVE  Turns(O, keys, {}, 0, T, 0, 0, R, r)
  <2>1. PICK o \in O : t.objs = {o}
    BY <1>9, <1>10
  <2>2. r = GotOne(m, o, g, b)
    <3>1. (CHOOSE x \in t.objs : TRUE) = o
      BY <2>1
    <3> QED
      BY <1>10, <3>1
  <2>3. Cardinality(t.objs) = 1
    BY <2>1, FS_Singleton
  <2>4. m.remaining # 0
    BY <1>1, <1>4, <2>3
  <2>5. PICK w : GotOne(m, o, g, b) = IfNone(w) /\ Nearer(O, m, w, 1, {o})
    BY <1>1, <1>10, <2>4, GotOneNearer
  <2>6. Nearer(O, m, w, Cardinality(t.objs), t.objs)
    BY <2>1, <2>3, <2>5
  <2> QED
    BY <1>5, <2>2, <2>5, <2>6
<1>11. ASSUME t.kind \notin {"clips", "playlists"}, NEW k \in {"videos", "duration"},
              r = Reaction(m, <<>>, {Todo(k, t.objs)}, <<>>)
       PROVE  Turns(O, keys, {}, 0, T, 0, 0, R, r)
  <2> DEFINE u == Todo(k, t.objs)
  <2>1. u.kind = k /\ u.objs = t.objs
    BY DEF Todo
  <2> HIDE DEF u
  <2>2. Inquiring(O, {u})
    <3>1. \E o \in O : u.objs = {o}
      BY <1>9, <1>11, <2>1
    <3>2. u.kind \in ClosureKinds \cup {"duration"} /\ u.kind # "container"
      BY <2>1 DEF ClosureKinds
    <3> QED
      BY <3>1, <3>2 DEF Inquiring
  <2>3. About({u}) = t.objs \ {}
    BY <2>1, AboutParts
  <2>4. Nearer(O, m, m, Cardinality({}), {})
    BY <1>1, <1>4, FS_EmptySet DEF Nearer
  <2>5. {} \subseteq t.objs
    OBVIOUS
  <2>6. Counts(O, keys, {}, 0, m, T, 0, 0, R \cup {u})
    BY <1>2, <2>2, <2>3, <2>4, <2>5
  <2>7. Turns(O, keys, {}, 0, T, 0, 0, R, Reaction(m, <<>>, {u}, <<>>))
    BY <2>6, AsksTurns
  <2> QED
    BY <1>11, <2>7 DEF u
<1>12. \/ t.kind \in {"clips", "playlists"} /\ r = BatchFails(m)
       \/ t.kind = "clips" /\ r = GotSeveral(m, t.objs)
       \/ t.kind = "playlists" /\ \E u \in SUBSET t.objs : r = GotPlaylists(m, t.objs, u)
       \/ /\ t.kind \notin {"clips", "playlists"}
          /\ \E g, b \in BOOLEAN : /\ g \/ b
                                   /\ r = GotOne(m, CHOOSE x \in t.objs : TRUE, g, b)
       \/ /\ t.kind \notin {"clips", "playlists"}
          /\ \E k \in {"videos", "duration"} : r = Reaction(m, <<>>, {Todo(k, t.objs)}, <<>>)
  BY <1>1, AnswersParts
<1>13. Turns(O, keys, {}, 0, T, 0, 0, R, r)
  BY <1>6, <1>7, <1>8, <1>10, <1>11, <1>12
<1> QED
  BY <1>1, <1>13 DEF R

-----------------------------------------------------------------------------
(* get_metadatas of tracker: each object is looked at.                     *)

Looked(r, o, keys) ==
  CASE Category(o) = "bad"       -> Then(r, GotOne(r.work, o, FALSE, TRUE))
    [] Category(o) \in Clip      -> r
    [] Category(o) \in Container ->
         Then(r, Asks(r.work, Todo("container", {o}), keys))

\* h has what is left after each of the first n objects
Looking(objs, keys, n, h) ==
  h = [i \in 0 .. n |-> IF i = 0 THEN Waits(Common(Len(objs)))
                        ELSE Looked(h[i - 1], objs[i], keys)]

LEMMA LookingExists ==
  ASSUME NEW objs, NEW keys, NEW n \in Nat PROVE \E h : Looking(objs, keys, n, h)
<1> DEFINE S == {k \in 0 .. n : \E h : Looking(objs, keys, k, h)}
           F(g, i) == IF i = 0 THEN Waits(Common(Len(objs)))
                      ELSE Looked(g[i - 1], objs[i], keys)
<1>1. 0 \in S
  <2> DEFINE f == [i \in 0 .. 0 |-> Waits(Common(Len(objs)))]
  <2>1. f = [i \in 0 .. 0 |-> F(f, i)]
    OBVIOUS
  <2> HIDE DEF f
  <2>2. Looking(objs, keys, 0, f)
    BY <2>1 DEF Looking
  <2> QED
    BY <2>2
<1>2. ASSUME NEW k \in 1 .. n, k - 1 \in S PROVE k \in S
  <2>1. PICK g : Looking(objs, keys, k - 1, g)
    BY <1>2
  <2> DEFINE f == [i \in 0 .. k |-> F(g, i)]
  <2>2. ASSUME NEW i \in 0 .. k, i # 0 PROVE f[i - 1] = g[i - 1]
    <3>1. i - 1 \in 0 .. k /\ i - 1 \in 0 .. (k - 1)
      BY <1>2, <2>2
    <3>2. g = [j \in 0 .. (k - 1) |-> F(g, j)]
      BY <2>1 DEF Looking
    <3> HIDE DEF F
    <3>3. g[i - 1] = F(g, i - 1)
      BY <3>1, <3>2
    <3>4. f[i - 1] = F(g, i - 1)
      BY <3>1
    <3> QED
      BY <3>3, <3>4
  <2>3. f = [i \in 0 .. k |-> F(f, i)]
    <3>1. ASSUME NEW i \in 0 .. k PROVE F(f, i) = F(g, i)
      <4> HIDE DEF f
      <4> QED
        BY <2>2, <3>1
    <3> HIDE DEF F
    <3> QED
      BY <3>1
  <2> HIDE DEF f
  <2>4. Looking(objs, keys, k, f)
    BY <2>3 DEF Looking
  <2>5. k \in 0 .. n
    BY <1>2
  <2> QED
    BY <2>4, <2>5
<1>3. \A k \in 0 .. n : k \in S
  BY <1>1, <1>2, Climbs
<1> QED
  BY <1>3

LEMMA PreparedThrough ==
  ASSUME NEW objs, NEW keys, Len(objs) \in Nat
  PROVE  \E h : /\ Prepared(objs, keys) = h[Len(objs)]
                /\ h[0] = Waits(Common(Len(objs)))
                /\ \A i \in 1 .. Len(objs) : h[i] = Looked(h[i - 1], objs[i], keys)
<1> DEFINE after == CHOOSE h : Looking(objs, keys, Len(objs), h)
<1>1. Looking(objs, keys, Len(objs), after)
  <2>1. \E h : Looking(objs, keys, Len(objs), h)
    BY LookingExists
  <2> QED
    BY <2>1, Zenon
<1>2. Prepared(objs, keys) = after[Len(objs)]
  BY DEF Prepared, Looking, Looked
<1> HIDE DEF after
<1>3. 0 \in 0 .. Len(objs) /\ \A i \in 1 .. Len(objs) : i \in 0 .. Len(objs) /\ i # 0
  OBVIOUS
<1>4. /\ after[0] = Waits(Common(Len(objs)))
      /\ \A i \in 1 .. Len(objs) : after[i] = Looked(after[i - 1], objs[i], keys)
  BY <1>1, <1>3 DEF Looking
<1> QED
  BY <1>2, <1>4

\* what is left by the handlers that led to x, of the closure
Left(O, keys, C, k, x) ==
  Counts(O, keys, C, k, x.work, Listed(x.later), Cardinality(Plain(x.later)),
         Cardinality(Final(x.later)), x.asks)

LEMMA TurnsLeft ==
  ASSUME NEW O, NEW keys, NEW C, NEW k, NEW x, Formed(x), NEW g, Formed(g),
         Turns(O, keys, C, k, Listed(x.later), Cardinality(Plain(x.later)),
               Cardinality(Final(x.later)), x.asks, g)
  PROVE  Left(O, keys, C, k, Then(x, g))
<1> DEFINE y == Then(x, g)
<1>1. y.work = g.work /\ y.asks = x.asks \cup g.asks
  BY InARow
<1>2. /\ Listed(y.later) = Listed(x.later) \cup Listed(g.later)
      /\ Cardinality(Plain(y.later)) = Cardinality(Plain(x.later)) + Cardinality(Plain(g.later))
      /\ Cardinality(Final(y.later)) = Cardinality(Final(x.later)) + Cardinality(Final(g.later))
  BY RowCount
<1> HIDE DEF y
<1>3. Left(O, keys, C, k, y)
  BY <1>1, <1>2 DEF Turns, Left
<1> QED
  BY <1>3 DEF y

-----------------------------------------------------------------------------
(* One more object o is looked at; N has it.                               *)

Pending(N, keys, C, k, m, T, n, Q, o) ==
  /\ IsFiniteSet(N) /\ o \in N /\ k \in Nat /\ n \in Nat
  /\ m \in Commons(N) /\ Closing(N, T) /\ Inquiring(N, Q)
  /\ keys # "none" => m.err \/ m.got \cup About(T) \cup About(Q) \cup C \cup {o} = N
  /\ C \subseteq N /\ C \cap About(Q) = {}
  /\ IF keys = "known" THEN n = 0 ELSE Q = {}
  /\ k + 1 + n + Cardinality(About(Q) \cup C) <= m.remaining

LEMMA CountsPending ==
  ASSUME NEW O, IsFiniteSet(O), NEW keys, NEW C, NEW k \in Nat, NEW m, NEW T, NEW n \in Nat,
         NEW e, NEW Q, Counts(O, keys, C, k + 1, m, T, n, e, Q), NEW o
  PROVE  e = 0 /\ Pending(O \cup {o}, keys, C, k, m, T, n, Q, o)
<1> DEFINE N == O \cup {o}
<1>1. /\ m \in Commons(O) /\ Closing(O, T) /\ Inquiring(O, Q)
      /\ keys # "none" => m.err \/ m.got \cup About(T) \cup About(Q) \cup C = O
      /\ C \subseteq O /\ C \cap About(Q) = {}
      /\ IF keys = "known" THEN n = 0 ELSE Q = {}
  BY CountsParts
<1>2. \/ e = 0 /\ k + 1 + n + Cardinality(About(Q) \cup C) <= m.remaining
      \/ e = 1 /\ k + 1 = 0 /\ n = 0 /\ Q = {} /\ C = {}
  BY CountsParts
<1>3. e = 0 /\ k + 1 + n + Cardinality(About(Q) \cup C) <= m.remaining
  <2>1. k + 1 # 0
    OBVIOUS
  <2> QED
    BY <1>2, <2>1
<1>4. IsFiniteSet(N) /\ o \in N /\ O \subseteq N
  BY FS_AddElement
<1>5. keys # "none" => m.err \/ m.got \cup About(T) \cup About(Q) \cup C \cup {o} = N
  BY <1>1
<1> HIDE DEF N
<1>6. m \in Commons(N)
  BY <1>1, <1>4 DEF Commons
<1>7. Closing(N, T)
  BY <1>1, <1>4 DEF Closing
<1>8. Inquiring(N, Q)
  BY <1>1, <1>4 DEF Inquiring
<1>9. Pending(N, keys, C, k, m, T, n, Q, o)
  BY <1>1, <1>3, <1>4, <1>5, <1>6, <1>7, <1>8 DEF Pending
<1> QED
  BY <1>3, <1>9 DEF N

LEMMA PendingCount ==
  ASSUME NEW N, NEW keys, NEW C, NEW k, NEW m, NEW T, NEW n, NEW Q, NEW o,
         Pending(N, keys, C, k, m, T, n, Q, o)
  PROVE  /\ m.remaining \in Nat /\ m.remaining # 0 /\ IsFiniteSet(About(Q) \cup C)
         /\ Cardinality(About(Q) \cup C) \in Nat
         /\ k + n + Cardinality(About(Q) \cup C) <= m.remaining - 1
         /\ k + n + Cardinality((About(Q) \cup C) \cup {o}) <= m.remaining
<1>1. /\ IsFiniteSet(N) /\ k \in Nat /\ n \in Nat /\ m \in Commons(N) /\ Inquiring(N, Q)
      /\ C \subseteq N /\ k + 1 + n + Cardinality(About(Q) \cup C) <= m.remaining
  BY DEF Pending
<1> DEFINE X == About(Q) \cup C
<1>2. IsFiniteSet(X) /\ Cardinality(X) \in Nat
  BY <1>1, InquiringFinite
<1>3. m.remaining \in Nat
  BY <1>1 DEF Commons
<1> HIDE DEF X
<1>4. /\ Cardinality(X \cup {o}) \in Nat
      /\ Cardinality(X \cup {o}) <= Cardinality(X) + 1
  BY <1>2, CountMore
<1>5. k + 1 + n + Cardinality(X) <= m.remaining
  BY <1>1 DEF X
<1>6. /\ m.remaining # 0 /\ k + n + Cardinality(X) <= m.remaining - 1
      /\ k + n + Cardinality(X \cup {o}) <= m.remaining
  BY <1>1, <1>2, <1>3, <1>4, <1>5
<1> QED
  BY <1>2, <1>3, <1>6 DEF X

\* there is no such object
LEMMA PendingBad ==
  ASSUME NEW N, NEW keys, NEW C, NEW k, NEW m, NEW T, NEW n, NEW Q, NEW o,
         Pending(N, keys, C, k, m, T, n, Q, o)
  PROVE  Turns(N, keys, C, k, T, n, 0, Q, GotOne(m, o, FALSE, TRUE))
<1>1. /\ IsFiniteSet(N) /\ o \in N /\ k \in Nat /\ n \in Nat
      /\ m \in Commons(N) /\ Closing(N, T) /\ Inquiring(N, Q)
      /\ keys # "none" => m.err \/ m.got \cup About(T) \cup About(Q) \cup C \cup {o} = N
      /\ C \subseteq N /\ C \cap About(Q) = {}
      /\ IF keys = "known" THEN n = 0 ELSE Q = {}
  BY DEF Pending
<1>2. m.remaining # 0 /\ k + n + Cardinality(About(Q) \cup C) <= m.remaining - 1
  BY PendingCount
<1>3. PICK w : GotOne(m, o, FALSE, TRUE) = IfNone(w) /\ Nearer(N, m, w, 1, {o})
  BY <1>1, <1>2, GotOneNearer
<1>4. w \in Commons(N) /\ w.remaining = m.remaining - 1
  BY <1>3 DEF Nearer
<1>5. keys # "none" => w.err \/ w.got \cup About(T) \cup About(Q) \cup C = N
  BY <1>1, <1>3 DEF Nearer
<1>6. k + n + Cardinality(About(Q) \cup C) <= w.remaining
  BY <1>2, <1>4
<1>7. Counts(N, keys, C, k, w, T, n, 0, Q)
  BY <1>1, <1>4, <1>5, <1>6, CountsParts
<1>8. Turns(N, keys, C, k, T, n, 0, Q, IfNone(w))
  BY <1>1, <1>7, IfNoneTurns
<1> QED
  BY <1>3, <1>8

\* a clip is asked for later
LEMMA PendingClip ==
  ASSUME NEW N, NEW keys, NEW C, NEW k, NEW m, NEW T, NEW n, NEW Q, NEW o,
         Pending(N, keys, C, k, m, T, n, Q, o), o \notin About(Q)
  PROVE  Counts(N, keys, C \cup {o}, k, m, T, n, 0, Q)
<1>1. /\ IsFiniteSet(N) /\ o \in N /\ k \in Nat /\ n \in Nat
      /\ m \in Commons(N) /\ Closing(N, T) /\ Inquiring(N, Q)
      /\ keys # "none" => m.err \/ m.got \cup About(T) \cup About(Q) \cup C \cup {o} = N
      /\ C \subseteq N /\ C \cap About(Q) = {}
      /\ IF keys = "known" THEN n = 0 ELSE Q = {}
  BY DEF Pending
<1> DEFINE D == C \cup {o}
<1>2. About(Q) \cup D = (About(Q) \cup C) \cup {o} /\ D \subseteq N /\ D \cap About(Q) = {}
  BY <1>1
<1>3. keys # "none" => m.err \/ m.got \cup About(T) \cup About(Q) \cup D = N
  BY <1>1
<1> HIDE DEF D
<1>4. k + n + Cardinality((About(Q) \cup C) \cup {o}) <= m.remaining
  BY PendingCount
<1>5. k + n + Cardinality(About(Q) \cup D) <= m.remaining
  BY <1>2, <1>4
<1>6. Counts(N, keys, D, k, m, T, n, 0, Q)
  BY <1>1, <1>2, <1>3, <1>5, CountsParts
<1> QED
  BY <1>6 DEF D

\* the questions about containers
Containers(Q) == \A u \in Q : \E p : u = Todo("container", {p}) /\ Category(p) \in Container

LEMMA ContainersAbout ==
  ASSUME NEW Q, Containers(Q), NEW o, o \in About(Q)
  PROVE  Category(o) \in Container /\ Todo("container", {o}) \in Q
<1>1. PICK u \in Q : o \in u.objs
  BY DEF About
<1>2. PICK p : u = Todo("container", {p}) /\ Category(p) \in Container
  BY <1>1 DEF Containers
<1>3. u.objs = {p}
  BY <1>2 DEF Todo
<1>4. o = p
  BY <1>1, <1>3
<1> QED
  BY <1>2, <1>4

LEMMA PendingContainer ==
  ASSUME NEW N, NEW keys, NEW C, NEW k, NEW m, NEW T, NEW n, NEW Q, NEW o,
         Pending(N, keys, C, k, m, T, n, Q, o), o \notin C, Containers(Q),
         Category(o) \in Container
  PROVE  Turns(N, keys, C, k, T, n, 0, Q, Asks(m, Todo("container", {o}), keys))
<1>1. /\ IsFiniteSet(N) /\ o \in N /\ k \in Nat /\ n \in Nat
      /\ m \in Commons(N) /\ Closing(N, T) /\ Inquiring(N, Q)
      /\ keys # "none" => m.err \/ m.got \cup About(T) \cup About(Q) \cup C \cup {o} = N
      /\ C \subseteq N /\ C \cap About(Q) = {}
      /\ IF keys = "known" THEN n = 0 ELSE Q = {}
  BY DEF Pending
<1>2. /\ m.remaining \in Nat /\ k + n + Cardinality(About(Q) \cup C) <= m.remaining - 1
      /\ k + n + Cardinality((About(Q) \cup C) \cup {o}) <= m.remaining
      /\ Cardinality(About(Q) \cup C) \in Nat
  BY PendingCount
<1> DEFINE u == Todo("container", {o})
<1>3. u.kind = "container" /\ u.objs = {o} /\ ~Emission(u)
  BY DEF Todo, Emission
<1>4. o \in About(Q) => u \in Q
  BY ContainersAbout
<1>5. \A x \in Q : o \in x.objs => x = u
  <2>1. ASSUME NEW x \in Q, o \in x.objs PROVE x = u
    <3>1. PICK p : x = Todo("container", {p})
      BY DEF Containers
    <3>2. x.objs = {p}
      BY <3>1 DEF Todo
    <3>3. p = o
      BY <2>1, <3>2
    <3> QED
      BY <3>1, <3>3
  <2> QED
    BY <2>1
<1> HIDE DEF u
<1>6. CASE keys = "known"
  <2> DEFINE R == Q \cup {u}
  <2>1. About(R) = About(Q) \cup {o}
    <3>1. About({u}) = {o}
      BY <1>3, AboutParts
    <3>2. About(Q \cup {u}) = About(Q) \cup About({u})
      BY AboutParts
    <3> QED
      BY <3>1, <3>2
  <2>2. Inquiring(N, R)
    <3>1. \A x \in R : /\ x.kind \in ClosureKinds \cup {"duration"}
                       /\ x.objs # {} /\ x.objs \subseteq N
                       /\ x.kind \notin {"clips", "playlists"} => \E p \in N : x.objs = {p}
                       /\ x.kind = "container" => \A p \in x.objs : Category(p) \in Container
      <4>1. \A x \in Q : /\ x.kind \in ClosureKinds \cup {"duration"}
                         /\ x.objs # {} /\ x.objs \subseteq N
                         /\ x.kind \notin {"clips", "playlists"} => \E p \in N : x.objs = {p}
                         /\ x.kind = "container" => \A p \in x.objs : Category(p) \in Container
        BY <1>1 DEF Inquiring
      <4>2. /\ u.kind \in ClosureKinds \cup {"duration"}
            /\ u.objs # {} /\ u.objs \subseteq N
            /\ u.kind \notin {"clips", "playlists"} => \E p \in N : u.objs = {p}
            /\ u.kind = "container" => \A p \in u.objs : Category(p) \in Container
        BY <1>1, <1>3 DEF ClosureKinds
      <4> QED
        BY <4>1, <4>2
    <3>2. ASSUME NEW x \in R, NEW y \in R, x # y PROVE x.objs \cap y.objs = {}
      <4>1. CASE x \in Q /\ y \in Q
        BY <1>1, <3>2, <4>1 DEF Inquiring
      <4>2. CASE x \in Q /\ y = u
        BY <1>3, <1>5, <3>2, <4>2
      <4>3. CASE x = u /\ y \in Q
        BY <1>3, <1>5, <3>2, <4>3
      <4> QED
        BY <3>2, <4>1, <4>2, <4>3
    <3> HIDE DEF R
    <3> QED
      BY <3>1, <3>2 DEF Inquiring
  <2>3. C \cap About(R) = {} /\ About(R) \cup C = (About(Q) \cup C) \cup {o}
    BY <1>1, <2>1
  <2>4. keys # "none" => m.err \/ m.got \cup About(T) \cup About(R) \cup C = N
    BY <1>1, <2>1
  <2> HIDE DEF R
  <2>5. k + n + Cardinality(About(R) \cup C) <= m.remaining
    BY <1>2, <2>3
  <2>6. IF keys = "known" THEN n = 0 ELSE R = {}
    BY <1>1, <1>6
  <2>7. Counts(N, keys, C, k, m, T, n, 0, R)
    BY <1>1, <2>2, <2>3, <2>4, <2>5, <2>6, CountsParts
  <2>8. Counts(N, keys, C, k, m, T, n, 0, Q \cup {u})
    BY <2>7 DEF R
  <2>9. Turns(N, keys, C, k, T, n, 0, Q, Reaction(m, <<>>, {u}, <<>>))
    BY <1>1, <2>8, AsksTurns
  <2>10. Asks(m, u, keys) = Reaction(m, <<>>, {u}, <<>>)
    BY <1>6 DEF Asks
  <2> QED
    BY <2>9, <2>10 DEF u
<1>7. CASE keys # "known"
  <2> DEFINE U == T \cup {u}
  <2>1. About(U) = About(T) \cup {o}
    <3>1. About({u}) = {o}
      BY <1>3, AboutParts
    <3>2. About(T \cup {u}) = About(T) \cup About({u})
      BY AboutParts
    <3> QED
      BY <3>1, <3>2
  <2>2. Closing(N, U)
    BY <1>1, <1>3 DEF Closing, ClosureKinds
  <2>3. keys # "none" => m.err \/ m.got \cup About(U) \cup About(Q) \cup C = N
    BY <1>1, <2>1
  <2> HIDE DEF U
  <2>4. k + (n + 1) + Cardinality(About(Q) \cup C) <= m.remaining
    BY <1>1, <1>2
  <2>5. IF keys = "known" THEN n + 1 = 0 ELSE Q = {}
    BY <1>1, <1>7
  <2>6. Counts(N, keys, C, k, m, U, n + 1, 0, Q)
    BY <1>1, <2>2, <2>3, <2>4, <2>5, CountsParts
  <2>7. Counts(N, keys, C, k, m, T \cup {u}, n + 1, 0, Q)
    BY <2>6 DEF U
  <2>8. Turns(N, keys, C, k, T, n, 0, Q, Reaction(m, <<u>>, {}, <<>>))
    BY <1>1, <1>3, <2>7, AddsTurns
  <2>9. Asks(m, u, keys) = Reaction(m, <<u>>, {}, <<>>)
    BY <1>7 DEF Asks
  <2> QED
    BY <2>8, <2>9 DEF u
<1> QED
  BY <1>6, <1>7

-----------------------------------------------------------------------------
(* All objects were looked at.                                             *)

AsksFor(o) == Category(o) \in Clip

LEMMA AsksFormed ==
  ASSUME NEW m, NEW t, Question(t), NEW keys
  PROVE  /\ Formed(Asks(m, t, keys)) /\ Asks(m, t, keys).says = <<>>
         /\ Asks(m, t, keys).asks \subseteq {t}
<1>1. /\ Reaction(m, <<>>, {t}, <<>>).says = <<>> /\ Reaction(m, <<>>, {t}, <<>>).asks = {t}
      /\ Reaction(m, <<t>>, {}, <<>>).says = <<>> /\ Reaction(m, <<t>>, {}, <<>>).asks = {}
  BY DEF Reaction
<1> QED
  BY <1>1, OneThing DEF Asks

LEMMA LookedParts ==
  ASSUME NEW x, NEW o, NEW keys
  PROVE  /\ Category(o) = "bad" =>
              Looked(x, o, keys) = Then(x, GotOne(x.work, o, FALSE, TRUE))
         /\ Category(o) \in Clip => Looked(x, o, keys) = x
         /\ Category(o) \in Container =>
              Looked(x, o, keys) = Then(x, Asks(x.work, Todo("container", {o}), keys))
<1> DEFINE a == Category(o)
           u == Then(x, GotOne(x.work, o, FALSE, TRUE))
           w == Then(x, Asks(x.work, Todo("container", {o}), keys))
<1>1. Looked(x, o, keys) = CASE a = "bad" -> u [] a \in Clip -> x [] a \in Container -> w
  BY DEF Looked
<1> HIDE DEF u, w, a
<1>2. a = "bad" => Looked(x, o, keys) = u
  BY <1>1 DEF Clip, Container
<1>3. a \in Clip => Looked(x, o, keys) = x
  BY <1>1 DEF Clip, Container
<1>4. a \in Container => Looked(x, o, keys) = w
  BY <1>1 DEF Clip, Container
<1> QED
  BY <1>2, <1>3, <1>4 DEF u, w, a

\* what is done for each object has the form of a reaction
LEMMA LookedFormed ==
  ASSUME NEW x, Formed(x), x.says = <<>>, Containers(x.asks), NEW o, Category(o) \in Kind, NEW keys
  PROVE  /\ Formed(Looked(x, o, keys)) /\ Looked(x, o, keys).says = <<>>
         /\ Containers(Looked(x, o, keys).asks)
<1> DEFINE y == Looked(x, o, keys)
<1>0. Category(o) \in Clip \/ Category(o) \in Container \/ Category(o) = "bad"
  BY DEF Kind
<1>1. CASE Category(o) \in Clip
  <2>1. y = x
    BY <1>1, LookedParts
  <2> QED
    BY <2>1
<1>2. CASE Category(o) = "bad"
  <2> DEFINE g == GotOne(x.work, o, FALSE, TRUE)
  <2>1. y = Then(x, g)
    BY <1>2, LookedParts
  <2>2. Formed(g) /\ g.says = <<>>
    BY ClosureFormed DEF GotOne
  <2>3. g.asks = {}
    BY DEF GotOne, IfNone, Emits, Waits, Reaction
  <2> HIDE DEF g, y
  <2>4. Formed(Then(x, g)) /\ Then(x, g).asks = x.asks \cup g.asks
    BY <2>2, InARow
  <2>5. Then(x, g).says = <<>>
    BY <2>2, SaysAfter
  <2>6. y.asks = x.asks
    BY <2>1, <2>3, <2>4
  <2>7. Formed(y) /\ y.says = <<>> /\ Containers(y.asks)
    BY <2>1, <2>4, <2>5, <2>6
  <2> QED
    BY <2>7 DEF y
<1>3. CASE Category(o) \in Container
  <2> DEFINE t == Todo("container", {o})
             g == Asks(x.work, t, keys)
  <2>1. y = Then(x, g)
    BY <1>3, LookedParts
  <2>2. Question(t)
    BY DEF Question, Todo, ClosureKinds
  <2>3. Containers({t})
    BY <1>3 DEF Containers
  <2> HIDE DEF t
  <2>4. Formed(g) /\ g.says = <<>> /\ g.asks \subseteq {t}
    BY <2>2, AsksFormed
  <2> HIDE DEF g, y
  <2>5. Formed(Then(x, g)) /\ Then(x, g).asks = x.asks \cup g.asks
    BY <2>4, InARow
  <2>6. Then(x, g).says = <<>>
    BY <2>4, SaysAfter
  <2>7. Containers(x.asks \cup g.asks)
    BY <2>3, <2>4 DEF Containers
  <2>8. Formed(y) /\ y.says = <<>> /\ Containers(y.asks)
    BY <2>1, <2>5, <2>6, <2>7
  <2> QED
    BY <2>8 DEF y
<1> QED
  BY <1>0, <1>1, <1>2, <1>3

LEMMA LookedLeft ==
  ASSUME NEW O, IsFiniteSet(O), NEW keys, NEW k \in Nat, NEW x, Formed(x), Containers(x.asks),
         NEW C, Left(O, keys, C, k + 1, x), \A p \in C : Category(p) \in Clip,
         NEW o, Category(o) \in Kind
  PROVE  Left(O \cup {o}, keys, IF Category(o) \in Clip THEN C \cup {o} ELSE C, k,
              Looked(x, o, keys))
<1> DEFINE N == O \cup {o}
           m == x.work
           T == Listed(x.later)
           n == Cardinality(Plain(x.later))
           e == Cardinality(Final(x.later))
           Q == x.asks
           y == Looked(x, o, keys)
<1>1. n \in Nat
  BY PlainFinite DEF Formed
<1>2. Counts(O, keys, C, k + 1, m, T, n, e, Q)
  BY DEF Left
<1> HIDE DEF m, T, n, e
<1>3. e = 0 /\ Pending(N, keys, C, k, m, T, n, Q, o)
  BY <1>1, <1>2, CountsPending
<1>4. Category(o) \in Clip \/ Category(o) \in Container \/ Category(o) = "bad"
  BY DEF Kind
<1> HIDE DEF N
<1>5. CASE Category(o) \in Clip
  <2>1. y = x
    BY <1>5, LookedParts
  <2>2. Category(o) \notin Container
    BY <1>5 DEF Clip, Container
  <2>3. o \notin About(Q)
    BY <2>2, ContainersAbout
  <2>4. Counts(N, keys, C \cup {o}, k, m, T, n, 0, Q)
    BY <1>3, <2>3, PendingClip
  <2>5. Left(N, keys, C \cup {o}, k, x)
    BY <1>3, <2>4 DEF Left, m, T, n, e
  <2> QED
    BY <1>5, <2>1, <2>5 DEF N
<1>6. CASE Category(o) = "bad"
  <2> DEFINE g == GotOne(m, o, FALSE, TRUE)
  <2>1. y = Then(x, g) /\ Category(o) \notin Clip
    BY <1>6, LookedParts DEF Clip, m
  <2>2. Turns(N, keys, C, k, T, n, 0, Q, g)
    BY <1>3, PendingBad
  <2>3. Formed(g)
    BY ClosureFormed DEF GotOne
  <2> HIDE DEF g, y
  <2>4. Turns(N, keys, C, k, Listed(x.later), Cardinality(Plain(x.later)),
              Cardinality(Final(x.later)), x.asks, g)
    BY <1>3, <2>2 DEF T, n, e
  <2>5. Left(N, keys, C, k, Then(x, g))
    BY <2>3, <2>4, TurnsLeft
  <2> QED
    BY <2>1, <2>5 DEF N, y
<1>7. CASE Category(o) \in Container
  <2> DEFINE g == Asks(m, Todo("container", {o}), keys)
  <2>1. y = Then(x, g) /\ Category(o) \notin Clip
    <3>1. Category(o) \notin Clip
      BY <1>7 DEF Clip, Container
    <3>2. y = Then(x, Asks(x.work, Todo("container", {o}), keys))
      BY <1>7, LookedParts
    <3> QED
      BY <3>1, <3>2 DEF m
  <2>2. o \notin C
    BY <2>1
  <2>3. Turns(N, keys, C, k, T, n, 0, Q, g)
    BY <1>3, <1>7, <2>2, PendingContainer
  <2>4. Formed(g)
    <3>1. Question(Todo("container", {o}))
      BY DEF Question, Todo, ClosureKinds
    <3> QED
      BY <3>1, AsksFormed
  <2> HIDE DEF g, y
  <2>5. Turns(N, keys, C, k, Listed(x.later), Cardinality(Plain(x.later)),
              Cardinality(Final(x.later)), x.asks, g)
    BY <1>3, <2>3 DEF T, n, e
  <2>6. Left(N, keys, C, k, Then(x, g))
    BY <2>4, <2>5, TurnsLeft
  <2> QED
    BY <2>1, <2>6 DEF N, y
<1> QED
  BY <1>4, <1>5, <1>6, <1>7

LEMMA PreparedLeft ==
  ASSUME NEW keys, NEW S, NEW objs \in Seq(S), \A o \in ToSet(objs) : Category(o) \in Kind
  PROVE  LET x == Prepared(objs, keys) IN
         /\ Formed(x) /\ x.says = <<>> /\ IsFiniteSet(ToSet(objs))
         /\ Left(ToSet(objs), keys, {o \in ToSet(objs) : AsksFor(o)}, 0, x)
<1> DEFINE n == Len(objs)
           P(i) == {objs[j] : j \in 1 .. i}
           D(i) == {o \in P(i) : AsksFor(o)}
           Fit(x, i) == /\ Formed(x) /\ x.says = <<>> /\ IsFiniteSet(P(i)) /\ Containers(x.asks)
                        /\ Left(P(i), keys, D(i), n - i, x)
<1>0. n \in Nat /\ DOMAIN objs = 1 .. n
  OBVIOUS
<1>1. PICK h : /\ Prepared(objs, keys) = h[n]
               /\ h[0] = Waits(Common(n))
               /\ \A i \in 1 .. n : h[i] = Looked(h[i - 1], objs[i], keys)
  BY <1>0, PreparedThrough
<1>2. ToSet(objs) = P(n) /\ P(0) = {} /\ D(0) = {}
  BY <1>0 DEF ToSet
<1>3. \A i \in 1 .. n : P(i) = P(i - 1) \cup {objs[i]}
  <2>1. ASSUME NEW i \in 1 .. n PROVE P(i) = P(i - 1) \cup {objs[i]}
    <3>1. \A j : j \in 1 .. i <=> j \in 1 .. i - 1 \/ j = i
      BY <2>1
    <3> QED
      BY <3>1
  <2> QED
    BY <2>1
<1>4. \A i \in 1 .. n : Category(objs[i]) \in Kind
  BY <1>0 DEF ToSet
<1> HIDE DEF n, P
<1>5. Fit(h[0], 0)
  <2> DEFINE m == Common(n)
  <2>1. m \in Commons({}) /\ m.remaining = n /\ m.got = {}
    BY <1>0 DEF Common, Commons
  <2> HIDE DEF m
  <2>2. /\ h[0].work = m /\ h[0].later = <<>> /\ h[0].asks = {} /\ h[0].says = <<>>
        /\ Formed(h[0])
    BY <1>1, OneThing DEF Reaction, Waits, m
  <2>3. IsFiniteSet(P(0)) /\ About({}) = {} /\ Cardinality({}) = 0 /\ Containers({})
    BY <1>2, FS_EmptySet, AboutParts DEF Containers
  <2>4. Counts({}, keys, {}, n, m, {}, 0, 0, {})
    <3>1. Closing({}, {}) /\ Inquiring({}, {})
      BY DEF Closing, Inquiring
    <3>2. m.got \cup About({}) \cup About({}) \cup {} = {}
      BY <2>1, <2>3
    <3>3. n + 0 + Cardinality(About({}) \cup {}) <= m.remaining
      <4>1. Cardinality(About({}) \cup {}) = 0
        BY <2>3
      <4> QED
        BY <1>0, <2>1, <4>1
    <3>4. {} \subseteq {} /\ {} \cap About({}) = {} /\ IF keys = "known" THEN 0 = 0 ELSE {} = {}
      OBVIOUS
    <3> QED
      BY <2>1, <3>1, <3>2, <3>3, <3>4, CountsParts
  <2>5. n - 0 = n
    BY <1>0
  <2>6. Left(P(0), keys, D(0), n - 0, h[0])
    <3>1. Left({}, keys, {}, n, h[0])
      BY <2>2, <2>4, ShortCount DEF Left
    <3> QED
      BY <1>2, <2>5, <3>1
  <2> QED
    BY <2>2, <2>3, <2>6
<1>6. ASSUME NEW i \in 1 .. n, Fit(h[i - 1], i - 1) PROVE Fit(h[i], i)
  <2> DEFINE x == h[i - 1]
             o == objs[i]
             k == n - i
             E == IF Category(o) \in Clip THEN D(i - 1) \cup {o} ELSE D(i - 1)
  <2>1. /\ Formed(x) /\ x.says = <<>> /\ IsFiniteSet(P(i - 1)) /\ Containers(x.asks)
        /\ Left(P(i - 1), keys, D(i - 1), n - (i - 1), x)
    BY <1>6
  <2>2. h[i] = Looked(x, o, keys) /\ P(i) = P(i - 1) \cup {o} /\ Category(o) \in Kind
    BY <1>1, <1>3, <1>4, <1>6
  <2>3. k \in Nat /\ n - (i - 1) = k + 1
    BY <1>0, <1>6
  <2>4. Left(P(i - 1), keys, D(i - 1), k + 1, x)
    BY <2>1, <2>3
  <2>5. \A p \in D(i - 1) : Category(p) \in Clip
    BY DEF AsksFor
  <2>6. D(i) = E
    BY <2>2 DEF AsksFor
  <2> HIDE DEF x, o, k, D
  <2>7. Left(P(i - 1) \cup {o}, keys, E, k, Looked(x, o, keys))
    BY <2>1, <2>2, <2>3, <2>4, <2>5, LookedLeft
  <2>8. /\ Formed(Looked(x, o, keys)) /\ Looked(x, o, keys).says = <<>>
        /\ Containers(Looked(x, o, keys).asks)
    BY <2>1, <2>2, LookedFormed
  <2>9. IsFiniteSet(P(i))
    <3>1. IsFiniteSet(P(i - 1) \cup {o})
      BY <2>1, FS_AddElement
    <3> QED
      BY <2>2, <3>1
  <2>10. Left(P(i), keys, D(i), n - i, h[i])
    <3>1. Left(P(i), keys, D(i), k, h[i])
      BY <2>2, <2>6, <2>7
    <3> QED
      BY <3>1 DEF k
  <2> QED
    BY <2>2, <2>8, <2>9, <2>10
<1> HIDE DEF Fit
<1> DEFINE R == {i \in 0 .. n : Fit(h[i], i)}
<1>7. 0 \in R
  BY <1>0, <1>5
<1>8. ASSUME NEW i \in 1 .. n, i - 1 \in R PROVE i \in R
  <2>1. Fit(h[i - 1], i - 1) /\ i \in 0 .. n
    BY <1>8
  <2> QED
    BY <1>6, <2>1
<1>9. n \in 0 .. n
  BY <1>0
<1>10. n \in R
  <2> HIDE DEF R
  <2> QED
    BY <1>0, <1>7, <1>8, <1>9, Climbs
<1>11. Fit(h[n], n)
  BY <1>10
<1>12. n - n = 0
  BY <1>0
<1> QED
  BY <1>1, <1>2, <1>11, <1>12 DEF Fit

-----------------------------------------------------------------------------
(* The clips of each kind are asked for together.                          *)

ClipsAsked(objs, what) ==
  Todo(IF what = "playlist" THEN "playlists" ELSE "clips", Clips(objs, what))

LEMMA AsksClipsParts ==
  ASSUME NEW x, NEW objs, NEW what, NEW keys
  PROVE  /\ Clips(objs, what) = {} => AsksClips(x, objs, what, keys) = x
         /\ Clips(objs, what) # {} =>
              AsksClips(x, objs, what, keys) = Then(x, Asks(x.work, ClipsAsked(objs, what), keys))
         /\ ClipsAsked(objs, what).kind \in {"clips", "playlists"}
         /\ ClipsAsked(objs, what).objs = Clips(objs, what)
<1>1. /\ Clips(objs, what) = {} => AsksClips(x, objs, what, keys) = x
      /\ Clips(objs, what) # {} =>
           AsksClips(x, objs, what, keys) = Then(x, Asks(x.work, ClipsAsked(objs, what), keys))
  BY DEF AsksClips, ClipsAsked
<1>2. /\ ClipsAsked(objs, what).kind \in {"clips", "playlists"}
      /\ ClipsAsked(objs, what).objs = Clips(objs, what)
  BY DEF ClipsAsked, Todo
<1> QED
  BY <1>1, <1>2

LEMMA AsksClipsFormed ==
  ASSUME NEW x, Formed(x), x.says = <<>>, NEW objs, NEW what, NEW keys
  PROVE  Formed(AsksClips(x, objs, what, keys)) /\ AsksClips(x, objs, what, keys).says = <<>>
<1> DEFINE t == ClipsAsked(objs, what)
           g == Asks(x.work, t, keys)
<1>1. t.kind \in {"clips", "playlists"}
  BY AsksClipsParts
<1>2. Question(t)
  BY <1>1 DEF Question, ClosureKinds
<1> HIDE DEF t
<1>3. Formed(g) /\ g.says = <<>>
  BY <1>2, AsksFormed
<1> HIDE DEF g
<1>4. Formed(Then(x, g))
  BY <1>3, InARow
<1>5. Then(x, g).says = <<>>
  BY <1>3, SaysAfter
<1>6. AsksClips(x, objs, what, keys) = x \/ AsksClips(x, objs, what, keys) = Then(x, g)
  BY AsksClipsParts DEF g, t
<1> QED
  BY <1>4, <1>5, <1>6

LEMMA AsksClipsLeft ==
  ASSUME NEW O, IsFiniteSet(O), NEW keys, NEW x, Formed(x), NEW C, Left(O, keys, C, 0, x),
         NEW objs, NEW what, Clips(objs, what) \subseteq C,
         keys # "known" => Cardinality(Clips(objs, what)) <= 1
  PROVE  Left(O, keys, C \ Clips(objs, what), 0, AsksClips(x, objs, what, keys))
<1> DEFINE U == Clips(objs, what)
           t == ClipsAsked(objs, what)
           y == AsksClips(x, objs, what, keys)
           m == x.work
           T == Listed(x.later)
           n == Cardinality(Plain(x.later))
           e == Cardinality(Final(x.later))
           Q == x.asks
           g == Asks(m, t, keys)
<1>1. /\ U = {} => y = x
      /\ U # {} => y = Then(x, g)
      /\ t.kind \in {"clips", "playlists"} /\ t.objs = U
  BY AsksClipsParts
<1>2. n \in Nat
  BY PlainFinite DEF Formed
<1>3. Counts(O, keys, C, 0, m, T, n, e, Q)
  BY DEF Left
<1>4. U \subseteq C /\ (keys # "known" => Cardinality(U) <= 1)
  OBVIOUS
<1> HIDE DEF U, t, y, m, T, n, e, g
<1>5. CASE U = {}
  <2>1. C \ U = C
    BY <1>5
  <2> QED
    BY <1>1, <1>5, <2>1 DEF U, y
<1>6. CASE U # {}
  <2> DEFINE D == C \ U
  <2>1. /\ m \in Commons(O) /\ Closing(O, T) /\ Inquiring(O, Q)
        /\ keys # "none" => m.err \/ m.got \cup About(T) \cup About(Q) \cup C = O
        /\ C \subseteq O /\ C \cap About(Q) = {}
        /\ IF keys = "known" THEN n = 0 ELSE Q = {}
    BY <1>3, CountsParts
  <2>2. \/ e = 0 /\ 0 + n + Cardinality(About(Q) \cup C) <= m.remaining
        \/ e = 1 /\ 0 = 0 /\ n = 0 /\ Q = {} /\ C = {}
    BY <1>3, CountsParts
  <2>3. e = 0 /\ 0 + n + Cardinality(About(Q) \cup C) <= m.remaining
    BY <1>4, <1>6, <2>2
  <2>4. /\ m.remaining \in Nat /\ IsFiniteSet(C) /\ D \subseteq O
        /\ Cardinality(About(Q) \cup C) \in Nat
    BY <2>1, InquiringFinite, AboutFinite DEF Commons
  <2>5. C = D \cup U /\ D \cap U = {}
    BY <1>4
  <2>6. U \subseteq O
    BY <1>4, <2>1
  <2> HIDE DEF D
  <2>7. Turns(O, keys, D, 0, T, n, e, Q, g)
    <3>1. CASE keys = "known"
      <4> DEFINE R == Q \cup {t}
      <4>1. About(R) = About(Q) \cup U
        <5>1. About({t}) = U
          BY <1>1, AboutParts
        <5>2. About(Q \cup {t}) = About(Q) \cup About({t})
          BY AboutParts
        <5> QED
          BY <5>1, <5>2
      <4>2. \A z \in Q : z.objs \cap U = {}
        <5>1. \A z \in Q : z.objs \subseteq About(Q)
          BY DEF About
        <5> QED
          BY <1>4, <2>1, <5>1
      <4>3. Inquiring(O, R)
        <5>1. \A z \in R : /\ z.kind \in ClosureKinds \cup {"duration"}
                           /\ z.objs # {} /\ z.objs \subseteq O
                           /\ z.kind \notin {"clips", "playlists"} => \E p \in O : z.objs = {p}
                           /\ z.kind = "container" => \A p \in z.objs : Category(p) \in Container
          <6>1. \A z \in Q :
                  /\ z.kind \in ClosureKinds \cup {"duration"}
                  /\ z.objs # {} /\ z.objs \subseteq O
                  /\ z.kind \notin {"clips", "playlists"} => \E p \in O : z.objs = {p}
                  /\ z.kind = "container" => \A p \in z.objs : Category(p) \in Container
            BY <2>1 DEF Inquiring
          <6>2. /\ t.kind \in ClosureKinds \cup {"duration"}
                /\ t.objs # {} /\ t.objs \subseteq O
                /\ t.kind \in {"clips", "playlists"} /\ t.kind # "container"
            BY <1>1, <1>6, <2>6 DEF ClosureKinds
          <6> QED
            BY <6>1, <6>2
        <5>2. ASSUME NEW z \in R, NEW v \in R, z # v PROVE z.objs \cap v.objs = {}
          <6>1. CASE z \in Q /\ v \in Q
            BY <2>1, <5>2, <6>1 DEF Inquiring
          <6>2. CASE z \in Q /\ v = t
            BY <1>1, <4>2, <6>2
          <6>3. CASE z = t /\ v \in Q
            BY <1>1, <4>2, <6>3
          <6> QED
            BY <5>2, <6>1, <6>2, <6>3
        <5> HIDE DEF R
        <5> QED
          BY <5>1, <5>2 DEF Inquiring
      <4>4. D \cap About(R) = {} /\ About(R) \cup D = About(Q) \cup C
        BY <2>1, <2>5, <4>1
      <4>5. keys # "none" => m.err \/ m.got \cup About(T) \cup About(R) \cup D = O
        BY <2>1, <2>5, <4>1
      <4> HIDE DEF R
      <4>6. 0 + n + Cardinality(About(R) \cup D) <= m.remaining
        BY <2>3, <4>4
      <4>7. IF keys = "known" THEN n = 0 ELSE R = {}
        BY <2>1, <3>1
      <4>8. Counts(O, keys, D, 0, m, T, n, 0, R)
        BY <2>1, <2>4, <4>3, <4>4, <4>5, <4>6, <4>7, CountsParts
      <4>9. Counts(O, keys, D, 0, m, T, n, e, Q \cup {t})
        BY <2>3, <4>8 DEF R
      <4>10. e \in Nat
        BY <2>3
      <4>11. Turns(O, keys, D, 0, T, n, e, Q, Reaction(m, <<>>, {t}, <<>>))
        BY <1>2, <4>9, <4>10, AsksTurns
      <4>12. g = Reaction(m, <<>>, {t}, <<>>)
        BY <3>1 DEF Asks, g
      <4> QED
        BY <4>11, <4>12
    <3>2. CASE keys # "known"
      <4> DEFINE V == T \cup {t}
      <4>1. \E o \in O : U = {o}
        <5>1. IsFiniteSet(U) /\ Cardinality(U) \in Nat
          BY <2>6, AboutFinite
        <5>2. Cardinality(U) # 0
          BY <1>6, <5>1, FS_EmptySet
        <5>3. Cardinality(U) = 1
          BY <1>4, <3>2, <5>1, <5>2
        <5>4. \E o : U = {o}
          BY <5>1, <5>3, FS_Singleton
        <5> QED
          BY <2>6, <5>4
      <4>2. PICK o \in O : U = {o}
        BY <4>1
      <4>3. About(V) = About(T) \cup U
        <5>1. About({t}) = U
          BY <1>1, AboutParts
        <5>2. About(T \cup {t}) = About(T) \cup About({t})
          BY AboutParts
        <5> QED
          BY <5>1, <5>2
      <4>4. ~Emission(t)
        BY <1>1 DEF Emission
      <4>5. Closing(O, V)
        <5>1. t.kind \in ClosureKinds /\ \E p \in O : t.objs = {p}
          BY <1>1, <4>2 DEF ClosureKinds
        <5> QED
          BY <2>1, <4>4, <5>1 DEF Closing
      <4>6. Q = {} /\ About(Q) = {}
        BY <2>1, <3>2, AboutParts
      <4>7. Cardinality(C) = Cardinality(D) + 1 /\ Cardinality(D) \in Nat
        <5>1. IsFiniteSet(D) /\ Cardinality(D) \in Nat
          BY <2>4, AboutFinite
        <5>2. o \notin D
          BY <2>5, <4>2
        <5>3. C = D \cup {o}
          BY <2>5, <4>2
        <5>4. Cardinality(D \cup {o}) = Cardinality(D) + 1
          BY <5>1, <5>2, FS_AddElement
        <5> QED
          BY <5>1, <5>3, <5>4
      <4>8. n + Cardinality(C) <= m.remaining
        <5>1. About(Q) \cup C = C
          BY <4>6
        <5>2. 0 + n + Cardinality(C) <= m.remaining
          BY <2>3, <5>1
        <5> QED
          BY <1>2, <4>7, <5>2
      <4>9. 0 + (n + 1) + Cardinality(About(Q) \cup D) <= m.remaining
        <5>1. About(Q) \cup D = D
          BY <4>6
        <5> QED
          BY <1>2, <2>4, <4>7, <4>8, <5>1
      <4>10. keys # "none" => m.err \/ m.got \cup About(V) \cup About(Q) \cup D = O
        BY <2>1, <2>5, <4>3
      <4>11. D \cap About(Q) = {} /\ IF keys = "known" THEN n + 1 = 0 ELSE Q = {}
        BY <3>2, <4>6
      <4> HIDE DEF V
      <4>12. Counts(O, keys, D, 0, m, V, n + 1, 0, Q)
        BY <2>1, <2>4, <4>5, <4>9, <4>10, <4>11, CountsParts
      <4>13. Counts(O, keys, D, 0, m, T \cup {t}, n + 1, e, Q)
        BY <2>3, <4>12 DEF V
      <4>14. e \in Nat
        BY <2>3
      <4>15. Turns(O, keys, D, 0, T, n, e, Q, Reaction(m, <<t>>, {}, <<>>))
        BY <1>2, <4>4, <4>13, <4>14, AddsTurns
      <4>16. g = Reaction(m, <<t>>, {}, <<>>)
        BY <3>2 DEF Asks, g
      <4> QED
        BY <4>15, <4>16
    <3> QED
      BY <3>1, <3>2
  <2>8. Formed(g)
    <3>1. Question(t)
      BY <1>1 DEF Question, ClosureKinds
    <3> QED
      BY <3>1, AsksFormed DEF g
  <2>9. Turns(O, keys, D, 0, Listed(x.later), Cardinality(Plain(x.later)),
              Cardinality(Final(x.later)), x.asks, g)
    BY <2>7 DEF T, n, e
  <2>10. Left(O, keys, D, 0, Then(x, g))
    BY <2>8, <2>9, TurnsLeft
  <2> QED
    BY <1>1, <1>6, <2>10 DEF D, U, y
<1> QED
  BY <1>5, <1>6

LEMMA BatchedFormed ==
  ASSUME NEW x, Formed(x), x.says = <<>>, NEW objs, NEW keys
  PROVE  Formed(Batched(x, objs, keys)) /\ Batched(x, objs, keys).says = <<>>
<1> DEFINE a == AsksClips(x, objs, "audio", keys)
           b == AsksClips(a, objs, "video", keys)
<1>1. Formed(a) /\ a.says = <<>>
  BY AsksClipsFormed
<1> HIDE DEF a
<1>2. Formed(b) /\ b.says = <<>>
  BY <1>1, AsksClipsFormed
<1> HIDE DEF b
<1>3. /\ Formed(AsksClips(b, objs, "playlist", keys))
      /\ AsksClips(b, objs, "playlist", keys).says = <<>>
  BY <1>2, AsksClipsFormed
<1> QED
  BY <1>3 DEF Batched, a, b

LEMMA GetsFormed ==
  ASSUME NEW keys, NEW S, NEW objs \in Seq(S), \A o \in ToSet(objs) : Category(o) \in Kind
  PROVE  Formed(TrackerGets(objs, keys)) /\ TrackerGets(objs, keys).says = <<>>
<1>1. Formed(Emits(Common(Len(objs)))) /\ Emits(Common(Len(objs))).says = <<>>
  BY ClosureFormed
<1>2. Formed(Prepared(objs, keys)) /\ Prepared(objs, keys).says = <<>>
  BY PreparedLeft
<1>3. /\ Formed(Batched(Prepared(objs, keys), objs, keys))
      /\ Batched(Prepared(objs, keys), objs, keys).says = <<>>
  BY <1>2, BatchedFormed
<1> QED
  BY <1>1, <1>3 DEF TrackerGets

LEMMA GetsLeft ==
  ASSUME NEW keys, NEW S, NEW objs \in Seq(S), \A o \in ToSet(objs) : Category(o) \in Kind,
         keys # "known" /\ keys # "none" =>
           \A what \in Clip : Cardinality(Clips(objs, what)) <= 1
  PROVE  Left(ToSet(objs), keys, {}, 0, TrackerGets(objs, keys)) /\ IsFiniteSet(ToSet(objs))
<1> DEFINE O == ToSet(objs)
           C == {o \in O : AsksFor(o)}
           x == Prepared(objs, keys)
<1>1. Formed(x) /\ x.says = <<>> /\ IsFiniteSet(O) /\ Left(O, keys, C, 0, x)
  BY PreparedLeft
<1>2. /\ Clips(objs, "audio") \subseteq C
      /\ Clips(objs, "video") \subseteq C \ Clips(objs, "audio")
      /\ Clips(objs, "playlist") \subseteq (C \ Clips(objs, "audio")) \ Clips(objs, "video")
  BY DEF Clips, AsksFor, Clip
<1>3. ((C \ Clips(objs, "audio")) \ Clips(objs, "video")) \ Clips(objs, "playlist") = {}
  BY DEF Clips, AsksFor, Clip
<1>4. CASE keys = "none"
  <2> DEFINE m == Common(Len(objs))
             r == Emits(m)
  <2>1. Len(objs) \in Nat
    OBVIOUS
  <2>2. m \in Commons(O)
    BY <2>1 DEF Common, Commons
  <2> HIDE DEF m
  <2>3. Closing(O, {}) /\ (keys # "none" => m.err \/ m.got \cup About({}) = O)
    BY <1>4 DEF Closing
  <2> HIDE DEF O
  <2>4. Turns(O, keys, {}, 0, {}, 0, 0, {}, r)
    BY <2>2, <2>3, EmitsTurns
  <2>5. Formed(r)
    BY ClosureFormed
  <2> HIDE DEF r
  <2>6. Cardinality(Plain(r.later)) \in Nat /\ Cardinality(Final(r.later)) \in Nat
    BY <2>5, PlainFinite DEF Formed
  <2>7. /\ {} \cup Listed(r.later) = Listed(r.later) /\ {} \cup r.asks = r.asks
        /\ 0 + Cardinality(Plain(r.later)) = Cardinality(Plain(r.later))
        /\ 0 + Cardinality(Final(r.later)) = Cardinality(Final(r.later))
    BY <2>6
  <2>8. Left(O, keys, {}, 0, r)
    BY <2>4, <2>7 DEF Turns, Left
  <2>9. TrackerGets(objs, keys) = r
    BY <1>4 DEF TrackerGets, r, m
  <2> QED
    BY <1>1, <2>8, <2>9 DEF O
<1>5. CASE keys # "none"
  <2> DEFINE a == AsksClips(x, objs, "audio", keys)
             b == AsksClips(a, objs, "video", keys)
             d == AsksClips(b, objs, "playlist", keys)
             A == C \ Clips(objs, "audio")
             B == A \ Clips(objs, "video")
  <2>1. keys # "known" => /\ Cardinality(Clips(objs, "audio")) <= 1
                          /\ Cardinality(Clips(objs, "video")) <= 1
                          /\ Cardinality(Clips(objs, "playlist")) <= 1
    BY <1>5 DEF Clip
  <2>2. B \ Clips(objs, "playlist") = {}
    BY <1>3
  <2>3. Clips(objs, "video") \subseteq A /\ Clips(objs, "playlist") \subseteq B
    BY <1>2
  <2>4. TrackerGets(objs, keys) = d
    BY <1>5 DEF TrackerGets, Batched
  <2> HIDE DEF O, C, x
  <2>5. Left(O, keys, A, 0, a)
    BY <1>1, <1>2, <2>1, AsksClipsLeft
  <2>6. Formed(a) /\ a.says = <<>>
    BY <1>1, AsksClipsFormed
  <2> HIDE DEF A, a
  <2>7. Left(O, keys, B, 0, b)
    BY <1>1, <2>1, <2>3, <2>5, <2>6, AsksClipsLeft
  <2>8. Formed(b) /\ b.says = <<>>
    BY <2>6, AsksClipsFormed
  <2> HIDE DEF B, b
  <2>9. Left(O, keys, B \ Clips(objs, "playlist"), 0, d)
    BY <1>1, <2>1, <2>3, <2>7, <2>8, AsksClipsLeft
  <2> QED
    BY <1>1, <2>2, <2>4, <2>9 DEF O
<1> QED
  BY <1>4, <1>5

-----------------------------------------------------------------------------
(* The handlers, and the idle functions and answers after them.  The       *)
(* simple reactions: an answer at once, or one thing to do.                *)

Simple(source, q, r) ==
  \/ \E a : r = Says(a) /\ Complete(q, a)
  \/ \E m, t : /\ r = Reaction(m, <<t>>, {}, <<>>) /\ ~Gathering(source, q)
               /\ ~Emission(t) /\ OneTask(source, q, m, t)
  \/ \E m, t : /\ r = Reaction(m, <<>>, {t}, <<>>) /\ ~Gathering(source, q)
               /\ Question(t) /\ OneQuestion(source, q, t)

LEMMA SimpleGoes ==
  ASSUME NEW source, NEW q, NEW r, Simple(source, q, r)
  PROVE  Formed(r) /\ Goes(source, q, {}, 0, 0, {}, r)
<1>1. CASE \E a : r = Says(a) /\ Complete(q, a)
  <2>1. PICK a : r = Says(a) /\ Complete(q, a)
    BY <1>1
  <2>2. r = Reaction(Over, <<>>, {}, <<a>>)
    BY <2>1 DEF Says
  <2>3. Formed(r)
    BY <2>2, OneThing
  <2>4. r.says = <<a>> /\ r.later = <<>> /\ r.asks = {}
    BY <2>2 DEF Reaction
  <2> QED
    BY <2>1, <2>3, <2>4 DEF Goes
<1>2. ASSUME NEW m, NEW t, r = Reaction(m, <<t>>, {}, <<>>), ~Gathering(source, q),
             ~Emission(t), OneTask(source, q, m, t)
      PROVE  Formed(r) /\ Goes(source, q, {}, 0, 0, {}, r)
  <2>1. Formed(r)
    BY <1>2, OneThing
  <2>2. r.work = m /\ r.says = <<>> /\ r.later = <<t>> /\ r.asks = {}
    BY <1>2 DEF Reaction
  <2>3. /\ Listed(r.later) = {t} /\ Cardinality(Plain(r.later)) = 1
        /\ Cardinality(Final(r.later)) = 0
    BY <1>2, <2>2, ShortCount
  <2>4. DoesOne(source, q, m, {t}, 1, 0, {})
    BY <1>2 DEF DoesOne
  <2>5. /\ {} \cup Listed(r.later) = {t} /\ 0 + Cardinality(Plain(r.later)) = 1
        /\ 0 + Cardinality(Final(r.later)) = 0 /\ {} \cup r.asks = {}
    BY <2>2, <2>3
  <2>6. Doing(source, q, r.work, {} \cup Listed(r.later), 0 + Cardinality(Plain(r.later)),
              0 + Cardinality(Final(r.later)), {} \cup r.asks)
    BY <1>2, <2>2, <2>4, <2>5 DEF Doing
  <2> QED
    BY <2>1, <2>2, <2>6 DEF Goes
<1>3. ASSUME NEW m, NEW t, r = Reaction(m, <<>>, {t}, <<>>), ~Gathering(source, q),
             Question(t), OneQuestion(source, q, t)
      PROVE  Formed(r) /\ Goes(source, q, {}, 0, 0, {}, r)
  <2>1. Formed(r)
    BY <1>3, OneThing
  <2>2. r.work = m /\ r.says = <<>> /\ r.later = <<>> /\ r.asks = {t}
    BY <1>3 DEF Reaction
  <2>3. /\ Listed(r.later) = {} /\ Cardinality(Plain(r.later)) = 0
        /\ Cardinality(Final(r.later)) = 0
    BY <2>2, ShortCount
  <2>4. DoesOne(source, q, m, {}, 0, 0, {t})
    BY <1>3 DEF DoesOne
  <2>5. /\ {} \cup Listed(r.later) = {} /\ 0 + Cardinality(Plain(r.later)) = 0
        /\ 0 + Cardinality(Final(r.later)) = 0 /\ {} \cup r.asks = {t}
    BY <2>2, <2>3
  <2>6. Doing(source, q, r.work, {} \cup Listed(r.later), 0 + Cardinality(Plain(r.later)),
              0 + Cardinality(Final(r.later)), {} \cup r.asks)
    BY <1>3, <2>2, <2>4, <2>5 DEF Doing
  <2> QED
    BY <2>1, <2>2, <2>6 DEF Goes
<1> QED
  BY <1>1, <1>2, <1>3 DEF Simple

LEMMA Outcomes ==
  /\ Refused.ok = FALSE /\ Refused.got = {} /\ Fine.ok = TRUE /\ Fine.got = {}
  /\ \A q : Complete(q, Refused)
  /\ \A q, a : q.op # "getall" => Complete(q, a)
  /\ \A d, r : Result(d, r).r = r /\ Result(d, r).db = d
  /\ \A S : \A result \in Leaves(S) : \E r \in S : result = Result(db, r)
<1>1. Refused.ok = FALSE /\ Refused.got = {} /\ Fine.ok = TRUE /\ Fine.got = {}
  BY DEF Refused, Fine, Answer
<1>2. \A q : Complete(q, Refused)
  BY <1>1 DEF Complete
<1>3. \A q, a : q.op # "getall" => Complete(q, a)
  BY DEF Complete
<1>4. \A d, r : Result(d, r).r = r /\ Result(d, r).db = d
  BY DEF Result
<1>5. \A S : \A result \in Leaves(S) : \E r \in S : result = Result(db, r)
  BY DEF Leaves
<1> QED
  BY <1>1, <1>2, <1>3, <1>4, <1>5

\* what the radio source does for one object
LEMMA IradioSimple ==
  ASSUME NEW c, NEW q, q.op \in {"get", "set", "create", "destroy"},
         NEW result \in IradioHandles(c, q)
  PROVE  Simple("iradio", q, result.r)
<1>1. ~Gathering("iradio", q) /\ \A a : Complete(q, a)
  BY Outcomes DEF Gathering
<1>2. \A m, t, r : /\ r = Reaction(m, <<t>>, {}, <<>>)
                   /\ \/ q.op = "get" /\ t.kind = "get"
                      \/ q.op = "set" /\ t.kind = "set"
                      \/ q.op = "create" /\ t.kind = "created"
                      \/ q.op = "destroy" /\ t.kind = "destroy"
                   => Simple("iradio", q, r)
  <2>1. ASSUME NEW m, NEW t, NEW r, r = Reaction(m, <<t>>, {}, <<>>),
               \/ q.op = "get" /\ t.kind = "get"
               \/ q.op = "set" /\ t.kind = "set"
               \/ q.op = "create" /\ t.kind = "created"
               \/ q.op = "destroy" /\ t.kind = "destroy"
        PROVE  Simple("iradio", q, r)
    <3>1. OneTask("iradio", q, m, t)
      BY <2>1 DEF OneTask
    <3>2. ~Emission(t)
      BY <2>1 DEF Emission
    <3> QED
      BY <1>1, <2>1, <3>1, <3>2 DEF Simple
  <2> QED
    BY <2>1
<1>3. \A a, r : r = Says(a) => Simple("iradio", q, r)
  BY <1>1 DEF Simple
<1>4. CASE q.op = "get"
  <2>1. IradioHandles(c, q) = Leaves({get_metadata(q.obj)})
    BY <1>4 DEF IradioHandles
  <2>2. result.r = get_metadata(q.obj)
    BY <2>1, Outcomes
  <2>3. CASE q.obj = Malformed
    BY <1>3, <2>2, <2>3 DEF get_metadata
  <2>4. CASE q.obj # Malformed
    <3> DEFINE t == Todo("get", {q.obj})
    <3>1. result.r = Reaction(Over, <<t>>, {}, <<>>)
      BY <2>2, <2>4 DEF get_metadata, Later
    <3>2. t.kind = "get"
      BY DEF Todo
    <3> HIDE DEF t
    <3> QED
      BY <1>2, <1>4, <3>1, <3>2
  <2> QED
    BY <2>3, <2>4
<1>5. CASE q.op = "set"
  <2>1. result \in set_metadata(db, q.obj, q.keys, q.uri, Fails)
    BY <1>5 DEF IradioHandles
  <2>2. result.r = Says(Refused) \/ result.r = Later(Todo("set", {}))
    BY <2>1, Outcomes DEF set_metadata
  <2>3. Todo("set", {}).kind = "set"
    BY DEF Todo
  <2>4. Later(Todo("set", {})) = Reaction(Over, <<Todo("set", {})>>, {}, <<>>)
    BY DEF Later
  <2> QED
    BY <1>2, <1>3, <1>5, <2>2, <2>3, <2>4
<1>6. CASE q.op = "create"
  <2>1. result \in create_object(db, c, q.uri, Fails)
    BY <1>6 DEF IradioHandles
  <2>2. result.r = Says(Refused) \/ result.r = Later(Todo("created", {}))
    BY <2>1, Outcomes DEF create_object
  <2>3. Todo("created", {}).kind = "created"
    BY DEF Todo
  <2>4. Later(Todo("created", {})) = Reaction(Over, <<Todo("created", {})>>, {}, <<>>)
    BY DEF Later
  <2> QED
    BY <1>2, <1>3, <1>6, <2>2, <2>3, <2>4
<1>7. CASE q.op = "destroy"
  <2>1. \E m, d : result \in destroy_object(db, q.obj, m, d)
    BY <1>7 DEF IradioHandles
  <2>2. PICK m, d : result \in destroy_object(db, q.obj, m, d)
    BY <2>1
  <2> DEFINE t == [kind |-> "destroy", objs |-> {q.obj}, meant |-> m, doomed |-> d]
  <2>3. result.r = Says(Refused) \/ result.r = Later(t)
    BY <2>2, Outcomes DEF destroy_object
  <2>4. t.kind = "destroy"
    OBVIOUS
  <2> HIDE DEF t
  <2>5. Later(t) = Reaction(Over, <<t>>, {}, <<>>)
    BY DEF Later
  <2> QED
    BY <1>2, <1>3, <1>7, <2>3, <2>4, <2>5
<1> QED
  BY <1>4, <1>5, <1>6, <1>7

LEMMA UpnpSimple ==
  ASSUME NEW q, q.op \in {"get", "set", "create", "destroy"}
  PROVE  Simple("upnp", q, UpnpHandles(q))
<1>1. ~Gathering("upnp", q) /\ \A a : Complete(q, a)
  BY Outcomes DEF Gathering
<1>2. \A a, r : r = Says(a) => Simple("upnp", q, r)
  BY <1>1 DEF Simple
<1>3. CASE q.op = "get"
  <2>1. UpnpHandles(q) = UpnpGets(q.obj, q.keys)
    BY <1>3 DEF UpnpHandles
  <2> DEFINE t == Todo("metadata", {q.obj})
  <2>2. \/ UpnpHandles(q) = Says(Fine) \/ UpnpHandles(q) = Says(Refused)
        \/ UpnpHandles(q) = Reaction(Over, <<>>, {t}, <<>>)
    BY <2>1 DEF UpnpGets
  <2>3. t.kind = "metadata"
    BY DEF Todo
  <2> HIDE DEF t
  <2>4. Question(t) /\ OneQuestion("upnp", q, t)
    BY <1>3, <2>3 DEF Question, OneQuestion
  <2>5. \A r : r = Reaction(Over, <<>>, {t}, <<>>) => Simple("upnp", q, r)
    BY <1>1, <2>4 DEF Simple
  <2> QED
    BY <1>2, <2>2, <2>5
<1>4. CASE q.op \in {"set", "create", "destroy"}
  <2>1. UpnpHandles(q) = Unsupported
    BY <1>4 DEF UpnpHandles
  <2> QED
    BY <1>2, <2>1 DEF Unsupported
<1> QED
  BY <1>3, <1>4

LEMMA TrackerSimple ==
  ASSUME NEW q, q.op \in {"set", "create", "destroy"}
  PROVE  Simple("tracker", q, TrackerHandles(q))
<1>1. ~Gathering("tracker", q) /\ \A a : Complete(q, a)
  BY Outcomes DEF Gathering
<1>2. \A a, r : r = Says(a) => Simple("tracker", q, r)
  BY <1>1 DEF Simple
<1>3. CASE q.op = "set"
  <2>1. TrackerHandles(q) = TrackerSets(q.obj)
    BY <1>3 DEF TrackerHandles
  <2> DEFINE t == Todo("set", {})
  <2>2. \/ TrackerHandles(q) = Reaction(Over, <<t>>, {}, <<>>)
        \/ TrackerHandles(q) = Says(Refused)
    BY <2>1 DEF TrackerSets
  <2>3. t.kind = "set"
    BY DEF Todo
  <2> HIDE DEF t
  <2>4. ~Emission(t) /\ \A m : OneTask("tracker", q, m, t)
    BY <1>3, <2>3 DEF Emission, OneTask
  <2>5. \A r : r = Reaction(Over, <<t>>, {}, <<>>) => Simple("tracker", q, r)
    BY <1>1, <2>4 DEF Simple
  <2> QED
    BY <1>2, <2>2, <2>5
<1>4. CASE q.op = "create"
  <2>1. TrackerHandles(q) = Unsupported
    BY <1>4 DEF TrackerHandles
  <2> QED
    BY <1>2, <2>1 DEF Unsupported
<1>5. CASE q.op = "destroy"
  <2>1. TrackerHandles(q) = TrackerDestroys(q.obj)
    BY <1>5 DEF TrackerHandles
  <2> DEFINE t == Todo("delete", {})
             u == Todo("songs", {q.obj})
             m == Removal(1)
  <2>2. \/ TrackerHandles(q) = Reaction(m, <<t>>, {}, <<>>)
        \/ TrackerHandles(q) = Reaction(m, <<>>, {u}, <<>>)
        \/ TrackerHandles(q) = Says(Refused)
    BY <2>1 DEF TrackerDestroys
  <2>3. t.kind = "delete" /\ u.kind = "songs" /\ m \in Removals
    BY DEF Todo, Removal, Removals
  <2> HIDE DEF t, u, m
  <2>4. /\ ~Emission(t) /\ OneTask("tracker", q, m, t)
        /\ Question(u) /\ OneQuestion("tracker", q, u)
    BY <1>5, <2>3 DEF Emission, OneTask, Question, OneQuestion
  <2>5. \A r : r = Reaction(m, <<t>>, {}, <<>>) => Simple("tracker", q, r)
    BY <1>1, <2>4 DEF Simple
  <2>6. \A r : r = Reaction(m, <<>>, {u}, <<>>) => Simple("tracker", q, r)
    BY <1>1, <2>4 DEF Simple
  <2> QED
    BY <1>2, <2>2, <2>5, <2>6
<1> QED
  BY <1>3, <1>4, <1>5

LEMMA Requested ==
  ASSUME Shaped, NEW c \in Call, stage[c] # "none"
  PROVE  Proper(plan.source, req[c]) /\ plan.source \in {"iradio", "upnp", "tracker"}
<1>1. plan \in Scenarios /\ req[c] \in plan.requests
  BY DEF Shaped
<1> QED
  BY <1>1, ScenarioAssumption

\* of what a client asks for metadata
LEMMA WantedParts ==
  ASSUME NEW source, NEW q, Proper(source, q), q.op \in {"get", "getall"}
  PROVE  /\ Wanted(q) \in Seq(ToSet(Wanted(q))) /\ Len(Wanted(q)) < UintMod
         /\ Len(Wanted(q)) \in Nat /\ IsFiniteSet(ToSet(Wanted(q)))
         /\ \A i \in 1 .. Len(Wanted(q)) : Wanted(q)[i] \in ToSet(Wanted(q))
         /\ Over \notin Metadatas(ToSet(Wanted(q))) /\ Over \notin Commons(ToSet(Wanted(q)))
         /\ source = "tracker" => /\ q.keys \in {"known", "unknown", "none"}
                                  /\ \A o \in ToSet(Wanted(q)) : Category(o) \in Kind
         /\ q.op = "getall" => Wanted(q) = q.objs
         /\ q.op = "get" => Wanted(q) = <<q.obj>> /\ ToSet(Wanted(q)) = {q.obj}
<1> DEFINE l == Wanted(q)
           S == ToSet(l)
<1>1. /\ l \in Seq(S) /\ Len(l) < UintMod
      /\ Over \notin Metadatas(S) /\ Over \notin Commons(S)
      /\ source = "tracker" => /\ q.keys \in {"known", "unknown", "none"}
                               /\ \A o \in S : Category(o) \in Kind
  BY DEF Proper
<1>2. S = {l[i] : i \in DOMAIN l}
  BY DEF ToSet
<1>3. q.op = "getall" => l = q.objs
  BY DEF Wanted
<1>4. q.op = "get" => l = <<q.obj>>
  BY DEF Wanted
<1>5. q.op = "get" => S = {q.obj}
  <2> SUFFICES ASSUME q.op = "get" PROVE S = {q.obj}
    OBVIOUS
  <2>1. l = <<q.obj>>
    BY <1>4
  <2>2. DOMAIN l = {1} /\ l[1] = q.obj
    BY <2>1, ShortOrder
  <2> HIDE DEF l, S
  <2> QED
    BY <1>2, <2>2
<1> HIDE DEF l, S
<1>6. Len(l) \in Nat /\ DOMAIN l = 1 .. Len(l)
  BY <1>1
<1>7. \A i \in 1 .. Len(l) : l[i] \in S
  BY <1>2, <1>6
<1>8. IsFiniteSet(DOMAIN l)
  BY <1>6, FS_Interval
<1>9. IsFiniteSet(S)
  <2> DEFINE f == [i \in DOMAIN l |-> l[i]]
  <2>1. f \in Surjection(DOMAIN l, S)
    BY <1>2 DEF Surjection
  <2> HIDE DEF f
  <2> QED
    BY <1>8, <2>1, FS_Surjection
<1> QED
  BY <1>1, <1>3, <1>4, <1>5, <1>6, <1>7, <1>9 DEF l, S

\* what the base class gathers
LEMMA BaseGoes ==
  ASSUME NEW source \in {"iradio", "upnp"}, NEW q, Proper(source, q), q.op = "getall",
         NEW gets, \A i \in 1 .. Len(q.objs) : Getting(source, q.keys, q.objs[i], gets[q.objs[i]])
  PROVE  /\ Formed(GetMetadatas(q.objs, gets))
         /\ Goes(source, q, {}, 0, 0, {}, GetMetadatas(q.objs, gets))
<1> DEFINE l == q.objs
           O == ToSet(l)
           r == GetMetadatas(l, gets)
<1>1. Wanted(q) = l /\ l \in Seq(O) /\ Len(l) < UintMod /\ Len(l) \in Nat
  BY WantedParts
<1>2. \A i \in 1 .. Len(l) : Getting(source, q.keys, l[i], gets[l[i]])
  OBVIOUS
<1>2a. O = ToSet(Wanted(q))
  BY <1>1
<1>2b. \E S : l \in Seq(S)
  BY <1>1
<1> HIDE DEF l
<1>3. \A i \in 1 .. Len(l) : Formed(gets[l[i]])
  BY <1>2, GettingFormed
<1>4. Formed(r) /\ r.says = <<>>
  BY <1>1, <1>3, StartedFormed
<1>5. Standing(source, O, q.keys, r)
  <2>1. PICK S : l \in Seq(S)
    BY <1>2b
  <2> QED
    BY <1>1, <1>2, <2>1, StartedCollects
<1> HIDE DEF r, O
<1>6. Collects(source, O, q.keys, r.work, Listed(r.later), Cardinality(Plain(r.later)),
               Cardinality(Final(r.later)), r.asks)
  BY <1>5 DEF Standing
<1>7. Ordered(r.later)
  BY <1>4 DEF Formed
<1>8. Cardinality(Plain(r.later)) \in Nat /\ Cardinality(Final(r.later)) \in Nat
  BY <1>7, PlainFinite
<1>9. /\ {} \cup Listed(r.later) = Listed(r.later)
      /\ 0 + Cardinality(Plain(r.later)) = Cardinality(Plain(r.later))
      /\ 0 + Cardinality(Final(r.later)) = Cardinality(Final(r.later))
      /\ {} \cup r.asks = r.asks
  BY <1>8
<1>10. Gathering(source, q) /\ source # "tracker"
  BY DEF Gathering
<1>11. Doing(source, q, r.work, {} \cup Listed(r.later), 0 + Cardinality(Plain(r.later)),
             0 + Cardinality(Final(r.later)), {} \cup r.asks)
  BY <1>2a, <1>6, <1>9, <1>10 DEF Doing
<1>12. Goes(source, q, {}, 0, 0, {}, r)
  BY <1>4, <1>11 DEF Goes
<1> QED
  BY <1>4, <1>12 DEF r, l

\* what tracker gathers
LEMMA TrackerGoes ==
  ASSUME NEW q, Proper("tracker", q), q.op \in {"get", "getall"}
  PROVE  LET r == TrackerGets(Wanted(q), q.keys) IN
         /\ Formed(r)
         /\ ~(q.op = "getall" /\ q.keys = "unknown"
                /\ \E what \in Clip : Cardinality(Clips(q.objs, what)) > 1)
            => Goes("tracker", q, {}, 0, 0, {}, r)
<1> DEFINE l == Wanted(q)
           O == ToSet(l)
           r == TrackerGets(l, q.keys)
<1>1. /\ l \in Seq(O) /\ IsFiniteSet(O) /\ \A o \in O : Category(o) \in Kind
      /\ q.keys \in {"known", "unknown", "none"}
      /\ (q.op = "getall" => l = q.objs) /\ (q.op = "get" => O = {q.obj})
  BY WantedParts
<1>1a. O = ToSet(l)
  OBVIOUS
<1>2. \A what : Clips(l, what) \subseteq O
  BY DEF Clips
<1> HIDE DEF l
<1>3. Formed(r) /\ r.says = <<>>
  BY <1>1, GetsFormed
<1> SUFFICES ASSUME ~(q.op = "getall" /\ q.keys = "unknown"
                        /\ \E what \in Clip : Cardinality(Clips(q.objs, what)) > 1)
             PROVE  Goes("tracker", q, {}, 0, 0, {}, r)
  BY <1>3 DEF l
<1>4. \A what : IsFiniteSet(Clips(l, what)) /\ Cardinality(Clips(l, what)) \in Nat
  BY <1>1, <1>2, AboutFinite
<1>5. q.keys # "known" /\ q.keys # "none" =>
        \A what \in Clip : Cardinality(Clips(l, what)) <= 1
  <2> SUFFICES ASSUME q.keys # "known" /\ q.keys # "none", NEW what \in Clip
               PROVE  Cardinality(Clips(l, what)) <= 1
    OBVIOUS
  <2>1. CASE q.op = "getall"
    <3>1. ~(Cardinality(Clips(l, what)) > 1)
      BY <1>1, <2>1
    <3> QED
      BY <1>4, <3>1
  <2>2. CASE q.op = "get"
    <3>1. Clips(l, what) \subseteq {q.obj}
      BY <1>1, <1>2, <2>2
    <3>2. Clips(l, what) = {} \/ Clips(l, what) = {q.obj}
      BY <3>1
    <3>3. Cardinality({}) = 0 /\ Cardinality({q.obj}) = 1
      BY FS_EmptySet, FS_Singleton
    <3> QED
      BY <3>2, <3>3
  <2> QED
    BY <2>1, <2>2
<1>6. Left(O, q.keys, {}, 0, r)
  BY <1>1, <1>5, GetsLeft
<1>6a. O = ToSet(Wanted(q))
  BY DEF l
<1> HIDE DEF r, O
<1>7. Counts(O, q.keys, {}, 0, r.work, Listed(r.later), Cardinality(Plain(r.later)),
             Cardinality(Final(r.later)), r.asks)
  BY <1>6 DEF Left
<1>8. Ordered(r.later)
  BY <1>3 DEF Formed
<1>9. Cardinality(Plain(r.later)) \in Nat /\ Cardinality(Final(r.later)) \in Nat
  BY <1>8, PlainFinite
<1>10. /\ {} \cup Listed(r.later) = Listed(r.later)
       /\ 0 + Cardinality(Plain(r.later)) = Cardinality(Plain(r.later))
       /\ 0 + Cardinality(Final(r.later)) = Cardinality(Final(r.later))
       /\ {} \cup r.asks = r.asks
  BY <1>9
<1>11. Gathering("tracker", q)
  BY DEF Gathering
<1>12. Doing("tracker", q, r.work, {} \cup Listed(r.later), 0 + Cardinality(Plain(r.later)),
             0 + Cardinality(Final(r.later)), {} \cup r.asks)
  BY <1>6a, <1>7, <1>10, <1>11 DEF Doing
<1> QED
  BY <1>3, <1>12 DEF Goes

\* every handler, of every source
LEMMA StartGoes ==
  ASSUME Shaped, NEW c \in Call, stage[c] # "none", NEW result \in Handles(c, req[c])
  PROVE  /\ Formed(result.r)
         /\ ~Unhandled(req[c]) => Goes(plan.source, req[c], {}, 0, 0, {}, result.r)
<1> DEFINE q == req[c]
           s == plan.source
<1>1. Proper(s, q) /\ s \in {"iradio", "upnp", "tracker"}
  BY Requested
<1>2. q.op \in {"get", "getall", "set", "create", "destroy"}
  BY <1>1 DEF Proper
<1>3. result \in Handles(c, q)
  OBVIOUS
<1>4. ASSUME s = "iradio" PROVE Formed(result.r) /\ Goes(s, q, {}, 0, 0, {}, result.r)
  <2>1. result \in IradioHandles(c, q)
    BY <1>3, <1>4 DEF Handles
  <2>2. CASE q.op \in {"get", "set", "create", "destroy"}
    <3>1. Simple("iradio", q, result.r)
      BY <2>1, <2>2, IradioSimple
    <3> QED
      BY <1>4, <3>1, SimpleGoes
  <2>3. CASE q.op = "getall"
    <3> DEFINE gets == [i \in ToSet(q.objs) |-> get_metadata(i)]
    <3>1. IradioHandles(c, q) = Leaves({GetMetadatas(q.objs, gets)})
      BY <2>3 DEF IradioHandles
    <3>2. result.r = GetMetadatas(q.objs, gets)
      BY <2>1, <3>1, Outcomes
    <3>3. \A o : Getting("iradio", q.keys, o, get_metadata(o))
      <4>1. ASSUME NEW o PROVE Getting("iradio", q.keys, o, get_metadata(o))
        <5>1. CASE o = Malformed
          <6>1. get_metadata(o) = Reaction(Over, <<>>, {}, <<Refused>>)
            BY <5>1 DEF get_metadata, Says
          <6> QED
            BY <6>1, Outcomes DEF Getting
        <5>2. CASE o # Malformed
          <6>1. get_metadata(o) = Reaction(Over, <<Todo("get", {o})>>, {}, <<>>)
            BY <5>2 DEF get_metadata, Later
          <6> QED
            BY <6>1 DEF Getting
        <5> QED
          BY <5>1, <5>2
      <4> QED
        BY <4>1
    <3>4. q.objs = Wanted(q) /\ \A i \in 1 .. Len(Wanted(q)) : Wanted(q)[i] \in ToSet(Wanted(q))
      BY <1>1, <2>3, WantedParts
    <3>5. \A i \in 1 .. Len(q.objs) : gets[q.objs[i]] = get_metadata(q.objs[i])
      BY <3>4
    <3> HIDE DEF gets
    <3>6. \A i \in 1 .. Len(q.objs) : Getting("iradio", q.keys, q.objs[i], gets[q.objs[i]])
      BY <3>3, <3>5
    <3> HIDE DEF q, s
    <3>7. Proper("iradio", q)
      BY <1>1, <1>4
    <3> QED
      BY <1>4, <2>3, <3>2, <3>6, <3>7, BaseGoes
  <2> QED
    BY <1>2, <2>2, <2>3
<1>5. ASSUME s = "upnp" PROVE Formed(result.r) /\ Goes(s, q, {}, 0, 0, {}, result.r)
  <2>1. result \in Leaves({UpnpHandles(q)})
    BY <1>3, <1>5 DEF Handles
  <2>2. result.r = UpnpHandles(q)
    BY <2>1, Outcomes
  <2>3. CASE q.op \in {"get", "set", "create", "destroy"}
    <3>1. Simple("upnp", q, result.r)
      BY <2>2, <2>3, UpnpSimple
    <3> QED
      BY <1>5, <3>1, SimpleGoes
  <2>4. CASE q.op = "getall"
    <3> DEFINE gets == [o \in ToSet(q.objs) |-> UpnpGets(o, q.keys)]
    <3>1. result.r = GetMetadatas(q.objs, gets)
      BY <2>2, <2>4 DEF UpnpHandles
    <3>2. \A o : Getting("upnp", q.keys, o, UpnpGets(o, q.keys))
      <4>1. ASSUME NEW o PROVE Getting("upnp", q.keys, o, UpnpGets(o, q.keys))
        <5>1. CASE q.keys = "none"
          <6>1. UpnpGets(o, q.keys) = Reaction(Over, <<>>, {}, <<Fine>>)
            BY <5>1 DEF UpnpGets, Says
          <6> QED
            BY <5>1, <6>1, Outcomes DEF Getting
        <5>2. CASE q.keys # "none" /\ o = "bad"
          <6>1. UpnpGets(o, q.keys) = Reaction(Over, <<>>, {}, <<Refused>>)
            BY <5>2 DEF UpnpGets, Says
          <6> QED
            BY <6>1, Outcomes DEF Getting
        <5>3. CASE q.keys # "none" /\ o # "bad"
          <6>1. UpnpGets(o, q.keys) = Reaction(Over, <<>>, {Todo("metadata", {o})}, <<>>)
            BY <5>3 DEF UpnpGets
          <6> QED
            BY <6>1 DEF Getting
        <5> QED
          BY <5>1, <5>2, <5>3
      <4> QED
        BY <4>1
    <3>3. q.objs = Wanted(q) /\ \A i \in 1 .. Len(Wanted(q)) : Wanted(q)[i] \in ToSet(Wanted(q))
      BY <1>1, <2>4, WantedParts
    <3>4. \A i \in 1 .. Len(q.objs) : gets[q.objs[i]] = UpnpGets(q.objs[i], q.keys)
      BY <3>3
    <3> HIDE DEF gets
    <3>5. \A i \in 1 .. Len(q.objs) : Getting("upnp", q.keys, q.objs[i], gets[q.objs[i]])
      BY <3>2, <3>4
    <3> HIDE DEF q, s
    <3>6. Proper("upnp", q)
      BY <1>1, <1>5
    <3> QED
      BY <1>5, <2>4, <3>1, <3>5, <3>6, BaseGoes
  <2> QED
    BY <1>2, <2>3, <2>4
<1>6. ASSUME s = "tracker"
      PROVE  Formed(result.r) /\ (~Unhandled(q) => Goes(s, q, {}, 0, 0, {}, result.r))
  <2>1. result \in Leaves({TrackerHandles(q)})
    BY <1>3, <1>6 DEF Handles
  <2>2. result.r = TrackerHandles(q)
    BY <2>1, Outcomes
  <2>3. CASE q.op \in {"set", "create", "destroy"}
    <3>1. Simple("tracker", q, result.r)
      BY <2>2, <2>3, TrackerSimple
    <3> QED
      BY <1>6, <3>1, SimpleGoes
  <2>4. CASE q.op \in {"get", "getall"}
    <3>1. TrackerHandles(q) = TrackerGets(Wanted(q), q.keys)
      BY <2>4 DEF TrackerHandles, Wanted
    <3>2. ~Unhandled(q) => ~(q.op = "getall" /\ q.keys = "unknown"
                               /\ \E what \in Clip : Cardinality(Clips(q.objs, what)) > 1)
      BY <1>6 DEF Unhandled
    <3> HIDE DEF q, s
    <3>3. Proper("tracker", q)
      BY <1>1, <1>6
    <3> QED
      BY <1>6, <2>2, <2>4, <3>1, <3>2, <3>3, TrackerGoes
  <2> QED
    BY <1>2, <2>3, <2>4
<1> QED
  BY <1>1, <1>4, <1>5, <1>6

\* the call goes on with what Then does not end
LEMMA BecomesGoes ==
  ASSUME NEW source, NEW q, Gathering(source, q), NEW T, NEW n, NEW e, NEW Q, NEW r, r.says = <<>>,
         \/ /\ source = "tracker"
            /\ Turns(ToSet(Wanted(q)), q.keys, {}, 0, T, n, e, Q, r)
         \/ /\ source # "tracker"
            /\ Becomes(source, ToSet(Wanted(q)), q.keys, T, n, e, Q, r)
  PROVE  Goes(source, q, T, n, e, Q, r)
BY DEF Goes, Doing, Turns, Becomes

LEMMA SaysGoes ==
  ASSUME NEW source, NEW q, NEW a, Complete(q, a), NEW T, T = {}, NEW n, NEW e, NEW Q, Q = {},
         NEW r, r = Says(a)
  PROVE  Goes(source, q, T, n, e, Q, r)
<1>1. r.says = <<a>> /\ r.later = <<>> /\ r.asks = {}
  BY DEF Says, Reaction
<1> QED
  BY <1>1 DEF Goes

\* the reactions of idle functions
LEMMA IdleFormed ==
  ASSUME NEW c, NEW t, NEW result \in IdleResults(c, t) PROVE Formed(result.r)
<1>1. \A a : Formed(Says(a))
  BY OneThing DEF Says
<1>2. \A r : Formed(r) => Formed(ForAll(c, r))
  BY GatheredFormed DEF ForAll
<1>3. Formed(EmitResult(work[c]))
  BY <1>1, OneThing DEF EmitResult
<1>4. Formed(TrackerEmits(work[c]))
  BY <1>1 DEF TrackerEmits
<1>5. Formed(TrackerMakesUp(work[c], t))
  BY MakesUpFormed
<1>6. \A r \in DeletesFile(work[c]) : Formed(r)
  BY <1>1, OneThing DEF DeletesFile
<1>7. CASE t.kind = "destroy"
  <2>1. \E i : result \in destroy_object_cb(db, i, Fails)
    BY <1>7 DEF IdleResults
  <2>2. result.r = Says(Fine) \/ result.r = Says(Refused)
    BY <2>1, Outcomes DEF destroy_object_cb
  <2> QED
    BY <1>1, <2>2
<1>8. CASE t.kind = "get"
  <2>1. \E a : result \in Leaves({ForAll(c, Says(a))})
    BY <1>8 DEF IdleResults
  <2>2. \E a : result.r = ForAll(c, Says(a))
    BY <2>1, Outcomes
  <2> QED
    BY <1>1, <1>2, <2>2
<1>9. CASE t.kind = "emit"
  <2>1. result.r = TrackerEmits(work[c]) \/ result.r = EmitResult(work[c])
    BY <1>9, Outcomes DEF IdleResults
  <2> QED
    BY <1>3, <1>4, <2>1
<1>10. CASE t.kind \in {"created", "set"} /\ plan.source = "iradio"
  <2>1. result \in Leaves({Says(Fine)})
    BY <1>10 DEF IdleResults
  <2> QED
    BY <1>1, <2>1, Outcomes
<1>11. CASE t.kind = "set" /\ plan.source = "tracker"
  <2>1. result \in Leaves({Says(Fine), Says(Refused)})
    BY <1>11 DEF IdleResults
  <2>2. result.r = Says(Fine) \/ result.r = Says(Refused)
    BY <2>1, Outcomes
  <2> QED
    BY <1>1, <2>2
<1>12. CASE t.kind = "delete"
  <2>1. result \in Leaves(DeletesFile(work[c]))
    BY <1>12 DEF IdleResults
  <2>2. \E r \in DeletesFile(work[c]) : result.r = r
    BY <2>1, Outcomes
  <2> QED
    BY <1>6, <2>2
<1>13. CASE /\ t.kind \notin {"destroy", "get", "emit", "delete"}
            /\ ~(t.kind \in {"created", "set"} /\ plan.source = "iradio")
            /\ ~(t.kind = "set" /\ plan.source = "tracker")
  <2>1. result \in Leaves({TrackerMakesUp(work[c], t)})
    BY <1>13 DEF IdleResults
  <2>2. result.r = TrackerMakesUp(work[c], t)
    BY <2>1, Outcomes
  <2> QED
    BY <1>5, <2>2
<1> QED
  BY <1>7, <1>8, <1>9, <1>10, <1>11, <1>12, <1>13

\* the idle function of a call that does one thing
LEMMA OneTaskGoes ==
  ASSUME Shaped, NEW c \in Call, stage[c] # "none", ~Gathering(plan.source, req[c]),
         NEW t, OneTask(plan.source, req[c], work[c], t), NEW result \in IdleResults(c, t)
  PROVE  Goes(plan.source, req[c], {}, 0, 0, {}, result.r)
<1> DEFINE q == req[c]
           s == plan.source
           m == work[c]
<1>1. q.op # "getall" /\ \A a : Complete(q, a)
  BY Outcomes DEF Gathering
<1>2. \A a, r : r = Says(a) => Goes(s, q, {}, 0, 0, {}, r)
  <2>1. \A a, r : r = Says(a) => Simple(s, q, r)
    BY <1>1 DEF Simple
  <2> QED
    BY <2>1, SimpleGoes
<1>3. CASE s = "iradio" /\ q.op = "get" /\ t.kind = "get"
  <2>2. \E a : result \in Leaves({ForAll(c, Says(a))})
    BY <1>3 DEF IdleResults
  <2>3. \E a : result.r = ForAll(c, Says(a))
    BY <2>2, Outcomes
  <2>4. \E a : result.r = Says(a)
    BY <1>1, <2>3 DEF ForAll
  <2> QED
    BY <1>2, <2>4
<1>4. CASE s = "iradio" /\ t.kind \in {"set", "created"}
  <2>2. result \in Leaves({Says(Fine)})
    BY <1>4 DEF IdleResults
  <2> QED
    BY <1>2, <2>2, Outcomes
<1>5. CASE s = "iradio" /\ t.kind = "destroy"
  <2>2. \E i : result \in destroy_object_cb(db, i, Fails)
    BY <1>5 DEF IdleResults
  <2>3. result.r = Says(Fine) \/ result.r = Says(Refused)
    BY <2>2, Outcomes DEF destroy_object_cb
  <2> QED
    BY <1>2, <2>3
<1>6. CASE s = "tracker" /\ t.kind = "set"
  <2>2. result \in Leaves({Says(Fine), Says(Refused)})
    BY <1>6 DEF IdleResults
  <2>3. result.r = Says(Fine) \/ result.r = Says(Refused)
    BY <2>2, Outcomes
  <2> QED
    BY <1>2, <2>3
<1>7. CASE s = "tracker" /\ q.op = "destroy" /\ t.kind = "delete" /\ m \in Removals
  <2>2. result \in Leaves(DeletesFile(m))
    BY <1>7 DEF IdleResults
  <2>3. PICK r \in DeletesFile(m) : result.r = r
    BY <2>2, Outcomes
  <2>4. CASE m.files = 0
    <3>1. \E a : r = Says(a)
      BY <2>4 DEF DeletesFile
    <3> QED
      BY <1>2, <2>3, <3>1
  <2>5. CASE m.files # 0
    <3> DEFINE u == Todo("delete", {})
    <3>1. PICK e \in BOOLEAN :
            r = Reaction([files |-> m.files - 1, err |-> m.err \/ e], <<u>>, {}, <<>>)
      BY <2>5 DEF DeletesFile
    <3> DEFINE w == [files |-> m.files - 1, err |-> m.err \/ e]
    <3>2. m.files \in Nat /\ m.err \in BOOLEAN
      BY <1>7 DEF Removals
    <3>3. m.files - 1 \in Nat /\ (m.err \/ e) \in BOOLEAN
      BY <2>5, <3>2
    <3>4. w \in Removals
      BY <3>3 DEF Removals
    <3>5. u.kind = "delete"
      BY DEF Todo
    <3>6. r = Reaction(w, <<u>>, {}, <<>>)
      BY <3>1
    <3> HIDE DEF u, w
    <3>7. ~Emission(u) /\ OneTask("tracker", q, w, u)
      BY <1>7, <3>4, <3>5 DEF Emission, OneTask
    <3>8. Simple("tracker", q, r)
      BY <1>7, <3>6, <3>7 DEF Simple
    <3> QED
      BY <1>7, <2>3, <3>8, SimpleGoes
  <2> QED
    BY <2>4, <2>5
<1> QED
  BY <1>3, <1>4, <1>5, <1>6, <1>7 DEF OneTask

\* The next idle function t of a call that is held: T are its other tasks.
LEMMA IdleGoes ==
  ASSUME Shaped, NEW c \in Call, stage[c] # "none", NEW T, NEW t, NEW n \in Nat, NEW e \in Nat,
         NEW Q, n = 0 /\ e = 0 => T = {},
         Doing(plan.source, req[c], work[c], T \cup {t}, n + (IF Emission(t) THEN 0 ELSE 1),
               e + (IF Emission(t) THEN 1 ELSE 0), Q),
         NEW result \in IdleResults(c, t)
  PROVE  Goes(plan.source, req[c], T, n, e, Q, result.r)
<1> DEFINE q == req[c]
           s == plan.source
           m == work[c]
           O == ToSet(Wanted(q))
<1>1. Proper(s, q) /\ s \in {"iradio", "upnp", "tracker"}
  BY Requested
<1>2. \/ Emission(t) /\ Doing(s, q, m, T \cup {t}, n, e + 1, Q)
      \/ ~Emission(t) /\ Doing(s, q, m, T \cup {t}, n + 1, e, Q)
  BY DEF Doing
<1>3. CASE ~Gathering(s, q)
  <2>1. /\ ~Emission(t) /\ n + 1 = 1 /\ e = 0 /\ Q = {}
        /\ \E u \in T \cup {t} : T \cup {t} = {u} /\ OneTask(s, q, m, u)
    BY <1>2, <1>3 DEF Doing, DoesOne
  <2>2. n = 0 /\ T = {}
    BY <2>1
  <2>3. OneTask(s, q, m, t)
    BY <2>1, <2>2
  <2>4. Goes(s, q, {}, 0, 0, {}, result.r)
    BY <1>3, <2>3, OneTaskGoes
  <2> QED
    BY <2>1, <2>2, <2>4
<1>4. ASSUME Gathering(s, q)
      PROVE  /\ IsFiniteSet(O) /\ Over \notin Metadatas(O) /\ Over \notin Commons(O)
             /\ (q.op = "getall" => O = ToSet(q.objs))
  <2>1. q.op \in {"get", "getall"}
    BY <1>4 DEF Gathering
  <2> QED
    BY <1>1, <2>1, WantedParts
<1>5. CASE Gathering(s, q) /\ s # "tracker" /\ Emission(t)
  <2>1. Collects(s, O, q.keys, m, T \cup {t}, n, e + 1, Q)
    BY <1>2, <1>5 DEF Doing
  <2>2. m \in Metadatas(O)
    BY <2>1 DEF Collects
  <2>4. result \in Leaves({EmitResult(m)})
    BY <1>5 DEF IdleResults, Emission
  <2>5. result.r = EmitResult(m)
    BY <2>4, Outcomes
  <2>6. q.op = "getall"
    BY <1>5 DEF Gathering
  <2> HIDE DEF O, m, s
  <2>7. \/ /\ EmitResult(m).says = <<>>
           /\ Becomes(s, O, q.keys, T, n, e, Q, EmitResult(m))
        \/ \E a : /\ EmitResult(m) = Says(a) /\ T = {} /\ Q = {}
                  /\ a.ok /\ q.keys # "none" => a.got = O
    BY <1>4, <1>5, <2>1, EmitDone
  <2>8. ASSUME EmitResult(m).says = <<>>, Becomes(s, O, q.keys, T, n, e, Q, EmitResult(m))
        PROVE  Goes(s, q, T, n, e, Q, result.r)
    <3> HIDE DEF q
    <3>1. Becomes(s, ToSet(Wanted(q)), q.keys, T, n, e, Q, result.r)
      BY <2>5, <2>8 DEF O
    <3>2. result.r.says = <<>>
      BY <2>5, <2>8
    <3> QED
      BY <1>5, <3>1, <3>2, BecomesGoes
  <2>9. ASSUME NEW a, EmitResult(m) = Says(a), T = {}, Q = {},
               a.ok /\ q.keys # "none" => a.got = O
        PROVE  Goes(s, q, T, n, e, Q, result.r)
    <3>1. Complete(q, a)
      BY <1>4, <1>5, <2>6, <2>9 DEF Complete
    <3> QED
      BY <2>5, <2>9, <3>1, SaysGoes
  <2> QED
    BY <2>7, <2>8, <2>9 DEF s
<1>6. CASE Gathering(s, q) /\ s # "tracker" /\ ~Emission(t)
  <2>1. Collects(s, O, q.keys, m, T \cup {t}, n + 1, e, Q)
    BY <1>2, <1>6 DEF Doing
  <2>2. m \in Metadatas(O)
    BY <2>1 DEF Collects
  <2>4. q.op = "getall"
    BY <1>6 DEF Gathering
  <2> HIDE DEF O
  <2>5. /\ s = "iradio" /\ t.kind = "get"
        /\ \E o : t.objs = {o} /\ Lacks(s, O, q.keys, m, T, n, e, Q, o)
    <3> HIDE DEF m, s, q
    <3> QED
      BY <1>4, <1>6, <2>1, FetchDone
  <2>6. PICK o : t.objs = {o} /\ Lacks(s, O, q.keys, m, T, n, e, Q, o)
    BY <2>5
  <2> DEFINE a == get_metadata_cb(db, CHOOSE i \in t.objs : TRUE)
  <2>7. result \in Leaves({ForAll(c, Says(a))})
    BY <2>5 DEF IdleResults
  <2>8. (CHOOSE i \in t.objs : TRUE) = o
    BY <2>6
  <2>9. a = Answer(TRUE, {o}) \/ a = Refused
    BY <2>8 DEF get_metadata_cb
  <2> HIDE DEF a
  <2>10. result.r = Gathered(m, Says(a))
    <3>1. result.r = ForAll(c, Says(a))
      BY <2>7, Outcomes
    <3> QED
      BY <2>4, <3>1 DEF ForAll
  <2>11. Replying(Says(a), a)
    BY DEF Replying, Says, Reaction
  <2>12. result.r = Collected(m, a)
    BY <2>10, <2>11, GatheredOne
  <2>13. a.ok \in BOOLEAN /\ a.got \subseteq {o} /\ (a.ok /\ q.keys # "none" => a.got = {o})
    <3>1. Answer(TRUE, {o}).ok = TRUE /\ Answer(TRUE, {o}).got = {o}
      BY DEF Answer
    <3>2. \/ a.ok = TRUE /\ a.got = {o}
          \/ a.ok = FALSE /\ a.got = {}
      BY <2>9, <3>1, Outcomes
    <3> QED
      BY <3>2
  <2> HIDE DEF m, s, q
  <2>14. Becomes(s, O, q.keys, T, n, e, Q, Collected(m, a))
    BY <2>6, <2>13, LacksAnswer
  <2>15. result.r.says = <<>>
    BY <2>12, CollectedFormed
  <2>16. Goes(s, q, T, n, e, Q, result.r)
    BY <1>6, <2>12, <2>14, <2>15, BecomesGoes DEF O
  <2> QED
    BY <2>16 DEF s, q
<1>7. CASE Gathering(s, q) /\ s = "tracker" /\ Emission(t)
  <2>1. Counts(O, q.keys, {}, 0, m, T \cup {t}, n, e + 1, Q)
    BY <1>2, <1>7 DEF Doing
  <2>2. m \in Commons(O)
    BY <2>1 DEF Counts
  <2>4. result \in Leaves({TrackerEmits(m)})
    BY <1>7 DEF IdleResults, Emission
  <2>5. result.r = TrackerEmits(m)
    BY <2>4, Outcomes
  <2> HIDE DEF O, m, s, q
  <2>6. /\ T = {} /\ Q = {}
        /\ \E a : TrackerEmits(m) = Says(a) /\ (a.ok /\ q.keys # "none" => a.got = O)
    BY <1>4, <1>7, <2>1, EndingDone
  <2>7. PICK a : TrackerEmits(m) = Says(a) /\ (a.ok /\ q.keys # "none" => a.got = O)
    BY <2>6
  <2>8. Complete(q, a)
    BY <1>4, <1>7, <2>7 DEF Complete
  <2>9. Goes(s, q, T, n, e, Q, result.r)
    BY <2>5, <2>6, <2>7, <2>8, SaysGoes
  <2> QED
    BY <2>9 DEF s, q
<1>8. CASE Gathering(s, q) /\ s = "tracker" /\ ~Emission(t)
  <2>1. Counts(O, q.keys, {}, 0, m, T \cup {t}, n + 1, e, Q)
    BY <1>2, <1>8 DEF Doing
  <2>2. m \in Commons(O)
    BY <2>1 DEF Counts
  <2>4. t.kind \in ClosureKinds
    <3> HIDE DEF O, m, q
    <3> QED
      BY <1>4, <1>8, <2>1, TaskDone
  <2>5. result \in Leaves({TrackerMakesUp(m, t)})
    BY <1>8, <2>4 DEF IdleResults, ClosureKinds
  <2>6. result.r = TrackerMakesUp(m, t)
    BY <2>5, Outcomes
  <2> HIDE DEF O, m, s, q
  <2>7. Turns(O, q.keys, {}, 0, T, n, e, Q, TrackerMakesUp(m, t))
    BY <1>4, <1>8, <2>1, MakesUpTurns
  <2>8. result.r.says = <<>>
    BY <2>6, MakesUpFormed
  <2>9. Goes(s, q, T, n, e, Q, result.r)
    BY <1>8, <2>6, <2>7, <2>8, BecomesGoes DEF O
  <2> QED
    BY <2>9 DEF s, q
<1> QED
  BY <1>3, <1>5, <1>6, <1>7, <1>8

\* what a UPnP server may answer
LEMMA UpnpParts ==
  ASSUME NEW o, NEW r \in UpnpAnswers(o)
  PROVE  /\ Formed(r) /\ r.later = <<>> /\ r.asks = {}
         /\ \A i \in 1 .. Len(r.says) : r.says[i] = Refused \/ r.says[i] = Answer(TRUE, {o})
<1> DEFINE A == Answer(TRUE, {o})
           items(n) == [i \in 1 .. n |-> A]
           S == {A, Refused}
<1>1. PICK says \in UpnpCallbacks(o) : r = Reaction(Over, <<>>, {}, says)
  BY DEF UpnpAnswers
<1>2. \A n \in 0 .. MaxDidl : items(n) \in Seq(S)
  BY ScenarioAssumption
<1>3. \A l \in Seq(S) : Append(l, Refused) \in Seq(S)
  OBVIOUS
<1>4. <<Refused>> \in Seq(S)
  OBVIOUS
<1>5. \/ says = <<Refused>> \/ \E n \in 0 .. MaxDidl : says = items(n)
      \/ \E n \in 0 .. MaxDidl : says = Append(items(n), Refused)
  BY DEF UpnpCallbacks
<1> HIDE DEF A, items
<1>6. says \in Seq(S)
  BY <1>2, <1>3, <1>4, <1>5
<1>7. r.says = says /\ r.later = <<>> /\ r.asks = {} /\ r.work = Over
  BY <1>1 DEF Reaction
<1>8. Ordered(<<>>) /\ Ordered(says)
  BY <1>6, ShortOrder DEF Ordered
<1>9. Formed(r)
  BY <1>1, <1>7, <1>8 DEF Formed
<1>10. \A i \in 1 .. Len(says) : says[i] \in S
  BY <1>6
<1>11. \A i \in 1 .. Len(says) : says[i] = Refused \/ says[i] = A
  BY <1>10
<1> QED
  BY <1>7, <1>9, <1>11 DEF A

\* one answer of it
LEMMA UpnpOne ==
  ASSUME NEW o, NEW r \in UpnpAnswers(o), Len(r.says) = 1
  PROVE  \E a : Replying(r, a) /\ (a = Refused \/ a = Answer(TRUE, {o}))
<1>1. /\ Formed(r) /\ r.later = <<>> /\ r.asks = {}
      /\ \A i \in 1 .. Len(r.says) : r.says[i] = Refused \/ r.says[i] = Answer(TRUE, {o})
  BY UpnpParts
<1> DEFINE l == r.says
           a == l[1]
<1>2. \E S : l \in Seq(S)
  BY <1>1 DEF Formed, Ordered
<1>3. Len(l) = 1 /\ (a = Refused \/ a = Answer(TRUE, {o}))
  <2>1. 1 \in 1 .. Len(r.says)
    OBVIOUS
  <2> QED
    BY <1>1, <2>1
<1> HIDE DEF l
<1>4. l = <<a>>
  BY <1>2, <1>3
<1>5. Replying(r, a)
  BY <1>1, <1>4 DEF Replying, l
<1> QED
  BY <1>3, <1>5

\* what the reactions to answers look like
LEMMA AnswerFormed ==
  ASSUME NEW c, NEW t, Question(t), NEW r \in AnswerReactions(c, t)
  PROVE  Formed(IF t.kind = "metadata" THEN ForAll(c, r) ELSE r)
<1>1. CASE t.kind = "metadata"
  <2>1. \E o : r \in UpnpAnswers(o)
    BY <1>1 DEF AnswerReactions
  <2>2. Formed(r)
    BY <2>1, UpnpParts
  <2>3. Formed(ForAll(c, r))
    BY <2>2, GatheredFormed DEF ForAll
  <2> QED
    BY <1>1, <2>3
<1>2. CASE t.kind = "songs"
  <2>1. r \in SongsFound(MaxFiles)
    BY <1>2 DEF AnswerReactions
  <2>2. Formed(r)
    BY <2>1, OneThing DEF SongsFound, Says
  <2> QED
    BY <1>2, <2>2
<1>3. CASE t.kind \notin {"metadata", "songs"}
  <2>1. r \in TrackerAnswers(work[c], t)
    BY <1>3 DEF AnswerReactions
  <2>2. t.kind \in ClosureKinds \cup {"duration"}
    BY <1>3 DEF Question
  <2>3. Formed(r)
    BY <2>1, <2>2, AnswersFormed
  <2> QED
    BY <1>3, <2>3
<1> QED
  BY <1>1, <1>2, <1>3

\* the answer to the question of a call that asks one
LEMMA OneQuestionGoes ==
  ASSUME Shaped, NEW c \in Call, stage[c] # "none", ~Gathering(plan.source, req[c]),
         NEW t, OneQuestion(plan.source, req[c], t), NEW r \in AnswerReactions(c, t),
         ~OddAnswer(c, t, r)
  PROVE  Goes(plan.source, req[c], {}, 0, 0, {},
              IF t.kind = "metadata" THEN ForAll(c, r) ELSE r)
<1> DEFINE q == req[c]
           s == plan.source
<1>1. q.op # "getall" /\ \A a : Complete(q, a)
  BY Outcomes DEF Gathering
<1>2. CASE s = "upnp" /\ q.op = "get" /\ t.kind = "metadata"
  <2>2. PICK o : r \in UpnpAnswers(o)
    BY <1>2 DEF AnswerReactions
  <2>3. Len(r.says) = 1
    BY <1>2 DEF OddAnswer
  <2>4. PICK a : Replying(r, a)
    BY <2>2, <2>3, UpnpOne
  <2>5. ForAll(c, r) = r
    BY <1>1 DEF ForAll
  <2>6. Goes(s, q, {}, 0, 0, {}, r)
    BY <1>1, <2>4 DEF Goes, Replying
  <2> QED
    BY <1>2, <2>5, <2>6
<1>3. CASE s = "tracker" /\ q.op = "destroy" /\ t.kind = "songs"
  <2>2. r \in SongsFound(MaxFiles)
    BY <1>3 DEF AnswerReactions
  <2> DEFINE u == Todo("delete", {})
  <2>3. \/ r = Says(Refused)
        \/ \E n \in 0 .. MaxFiles : r = Reaction(Removal(n), <<u>>, {}, <<>>)
    BY <2>2 DEF SongsFound
  <2>4. u.kind = "delete"
    BY DEF Todo
  <2> HIDE DEF u
  <2>5. \A w \in Removals : OneTask("tracker", q, w, u)
    BY <1>3, <2>4 DEF OneTask
  <2>6. \A n \in 0 .. MaxFiles : Removal(n) \in Removals
    BY ScenarioAssumption DEF Removal, Removals
  <2>7. ~Emission(u)
    BY <2>4 DEF Emission
  <2>8. Simple("tracker", q, r)
    <3>1. CASE r = Says(Refused)
      BY <1>1, <3>1 DEF Simple
    <3>2. ASSUME NEW n \in 0 .. MaxFiles, r = Reaction(Removal(n), <<u>>, {}, <<>>)
          PROVE  Simple("tracker", q, r)
      <4> DEFINE w == Removal(n)
      <4>1. r = Reaction(w, <<u>>, {}, <<>>) /\ OneTask("tracker", q, w, u)
        BY <2>5, <2>6, <3>2
      <4> HIDE DEF w
      <4> QED
        BY <1>3, <2>7, <4>1 DEF Simple
    <3> QED
      BY <2>3, <3>1, <3>2
  <2>9. Goes("tracker", q, {}, 0, 0, {}, r)
    BY <2>8, SimpleGoes
  <2> QED
    BY <1>3, <2>9
<1> QED
  BY <1>2, <1>3 DEF OneQuestion

\* An answer to question t of a call that is held: T are its idle functions.
LEMMA AnswerGoes ==
  ASSUME Shaped, NEW c \in Call, stage[c] # "none", NEW T, NEW n \in Nat, NEW e \in Nat,
         Doing(plan.source, req[c], work[c], T, n, e, Asking(asked, c)),
         NEW t \in Asking(asked, c), NEW r \in AnswerReactions(c, t), ~OddAnswer(c, t, r)
  PROVE  Goes(plan.source, req[c], T, n, e, Asking(asked, c) \ {t},
              IF t.kind = "metadata" THEN ForAll(c, r) ELSE r)
<1> DEFINE q == req[c]
           s == plan.source
           m == work[c]
           Q == Asking(asked, c)
           O == ToSet(Wanted(q))
           x == IF t.kind = "metadata" THEN ForAll(c, r) ELSE r
<1>1. Proper(s, q) /\ s \in {"iradio", "upnp", "tracker"}
  BY Requested
<1>2. Doing(s, q, m, T, n, e, Q) /\ t \in Q
  OBVIOUS
<1>2a. t.kind \in {"clips", "playlists"} /\ r = BatchFails(m) => Q = {t}
  <2> SUFFICES ASSUME t.kind \in {"clips", "playlists"}, r = BatchFails(m) PROVE Q = {t}
    OBVIOUS
  <2>1. \A a \in asked : a.call = c => a.task = t
    BY DEF OddAnswer
  <2>2. \A u \in Q : u = t
    BY <2>1 DEF Asking
  <2> HIDE DEF Q
  <2> QED
    BY <1>2, <2>2
<1> HIDE DEF Q
<1>3. CASE ~Gathering(s, q)
  <2>1. DoesOne(s, q, m, T, n, e, Q)
    BY <1>2, <1>3 DEF Doing
  <2>2. n = 0 /\ e = 0 /\ T = {} /\ \E u \in Q : Q = {u} /\ OneQuestion(s, q, u)
    BY <1>2, <2>1 DEF DoesOne
  <2>3. OneQuestion(s, q, t) /\ Q \ {t} = {}
    BY <1>2, <2>2
  <2>4. Goes(s, q, {}, 0, 0, {}, x)
    BY <1>3, <2>3, OneQuestionGoes
  <2>5. Goes(s, q, T, n, e, Q \ {t}, x)
    BY <2>2, <2>3, <2>4
  <2> QED
    BY <2>4, <2>5 DEF Q
<1>4. ASSUME Gathering(s, q)
      PROVE  IsFiniteSet(O) /\ Over \notin Metadatas(O) /\ Over \notin Commons(O)
  <2>1. q.op \in {"get", "getall"}
    BY <1>4 DEF Gathering
  <2> QED
    BY <1>1, <2>1, WantedParts
<1>5. CASE Gathering(s, q) /\ s # "tracker"
  <2>1. Collects(s, O, q.keys, m, T, n, e, Q)
    BY <1>2, <1>5 DEF Doing
  <2>2. m \in Metadatas(O)
    BY <2>1 DEF Collects
  <2>4. q.op = "getall"
    BY <1>5 DEF Gathering
  <2> HIDE DEF O, x
  <2>5. s = "upnp" /\ \E o : /\ t = Todo("metadata", {o})
                            /\ Lacks(s, O, q.keys, m, T, n, e, Q \ {t}, o)
    <3> HIDE DEF m, s, q
    <3> QED
      BY <1>2, <1>4, <1>5, <2>1, QueryDone
  <2>6. PICK o : t = Todo("metadata", {o}) /\ Lacks(s, O, q.keys, m, T, n, e, Q \ {t}, o)
    BY <2>5
  <2>7. t.kind = "metadata" /\ t.objs = {o}
    BY <2>6 DEF Todo
  <2>8. r \in UpnpAnswers(CHOOSE p \in t.objs : TRUE) /\ (CHOOSE p \in t.objs : TRUE) = o
    BY <2>7 DEF AnswerReactions
  <2>9. Len(r.says) = 1
    BY <2>7 DEF OddAnswer
  <2>10. r \in UpnpAnswers(o)
    BY <2>8
  <2>11. PICK a : Replying(r, a) /\ (a = Refused \/ a = Answer(TRUE, {o}))
    BY <2>9, <2>10, UpnpOne
  <2>12. x = Gathered(m, r)
    BY <2>4, <2>7 DEF ForAll, x
  <2>13. x = Collected(m, a)
    BY <2>11, <2>12, GatheredOne
  <2>14. a.ok \in BOOLEAN /\ a.got \subseteq {o} /\ (a.ok /\ q.keys # "none" => a.got = {o})
    <3>1. Answer(TRUE, {o}).ok = TRUE /\ Answer(TRUE, {o}).got = {o}
      BY DEF Answer
    <3>2. \/ a.ok = TRUE /\ a.got = {o}
          \/ a.ok = FALSE /\ a.got = {}
      BY <2>11, <3>1, Outcomes
    <3> QED
      BY <3>2
  <2>14a. Lacks(s, O, q.keys, m, T, n, e, Q \ {t}, o)
    BY <2>6
  <2> HIDE DEF m, s, q
  <2> DEFINE R == Q \ {t}
  <2>15. Lacks(s, O, q.keys, m, T, n, e, R, o)
    BY <2>14a
  <2> HIDE DEF R
  <2>16. Becomes(s, O, q.keys, T, n, e, R, Collected(m, a))
    BY <2>14, <2>15, LacksAnswer
  <2>17. Becomes(s, ToSet(Wanted(q)), q.keys, T, n, e, R, x)
    BY <2>13, <2>16 DEF O
  <2>18. x.says = <<>>
    BY <2>13, CollectedFormed
  <2>19. Goes(s, q, T, n, e, R, x)
    BY <1>5, <2>17, <2>18, BecomesGoes
  <2> QED
    BY <2>19 DEF s, q, Q, R, x
<1>6. CASE Gathering(s, q) /\ s = "tracker"
  <2>1. Counts(O, q.keys, {}, 0, m, T, n, e, Q)
    BY <1>2, <1>6 DEF Doing
  <2>2. m \in Commons(O)
    BY <2>1 DEF Counts
  <2>4. t.kind \in ClosureKinds \cup {"duration"}
    BY <1>2, <2>1 DEF Counts
  <2>5. t.kind \notin {"metadata", "songs"}
    BY <2>4 DEF ClosureKinds
  <2>6. r \in TrackerAnswers(m, t) /\ x = r
    BY <2>5 DEF AnswerReactions
  <2> HIDE DEF O, m, s, q, x
  <2>7. r \in TrackerAnswers(m, t)
    BY <2>6
  <2>8. Turns(O, q.keys, {}, 0, T, n, e, Q \ {t}, r)
    BY <1>2, <1>2a, <1>4, <1>6, <2>1, <2>7, AnswersTurns
  <2>9. x.says = <<>>
    BY <2>4, <2>6, <2>7, AnswersFormed
  <2> DEFINE R == Q \ {t}
  <2>10. Turns(ToSet(Wanted(q)), q.keys, {}, 0, T, n, e, R, x)
    BY <2>6, <2>8 DEF O
  <2> HIDE DEF R
  <2>11. Goes(s, q, T, n, e, R, x)
    BY <1>6, <2>9, <2>10, BecomesGoes
  <2> QED
    BY <2>11 DEF s, q, Q, R, x
<1> QED
  BY <1>3, <1>5, <1>6

\* The operation of a call that is held is not freed.
LEMMA NotFreed ==
  ASSUME Shaped, NEW c \in Call, stage[c] # "none", NEW T, NEW n, NEW e, NEW Q,
         Doing(plan.source, req[c], work[c], T, n, e, Q), NEW t \in T \cup Q
  PROVE  ~Freed(c, t)
<1> DEFINE q == req[c]
           s == plan.source
           m == work[c]
           O == ToSet(Wanted(q))
<1>1. Proper(s, q) /\ s \in {"iradio", "upnp", "tracker"}
  BY Requested
<1>2. CASE ~Gathering(s, q)
  <2>1. DoesOne(s, q, m, T, n, e, Q)
    BY <1>2 DEF Doing
  <2>2. OneTask(s, q, m, t) \/ OneQuestion(s, q, t)
    BY <2>1 DEF DoesOne
  <2>3. q.op # "getall"
    BY <1>2 DEF Gathering
  <2>4. s = "tracker" => t.kind \in {"set", "songs"} \/ m \in Removals
    BY <2>2 DEF OneTask, OneQuestion
  <2> QED
    BY <2>3, <2>4, ScenarioAssumption DEF Freed
<1>3. CASE Gathering(s, q)
  <2>1. q.op \in {"get", "getall"}
    BY <1>3 DEF Gathering
  <2>2. Over \notin Metadatas(O) /\ Over \notin Commons(O)
    BY <1>1, <2>1, WantedParts
  <2>3. m \in Commons(O) \/ m \in Metadatas(O)
    BY <1>3 DEF Doing, Collects, Counts
  <2> QED
    BY <2>2, <2>3 DEF Freed
<1> QED
  BY <1>2, <1>3

-----------------------------------------------------------------------------
(* The steps.  What a handler does to the call it is for, and to others.   *)

Tends(source, q, st, m, l, s, c) ==
  IF st = "held"
  THEN Doing(source, q, m, Tasks(l, c), Cardinality(Steps(l, c)),
             Cardinality(Endings(l, c)), Asking(s, c))
  ELSE Tasks(l, c) = {} /\ Asking(s, c) = {}

LEMMA AttendedParts ==
  ASSUME NEW c
  PROVE  /\ Attended(c) <=> Tends(plan.source, req[c], stage[c], work[c], idles, asked, c)
         /\ Attended(c)' <=> Tends(plan'.source, req'[c], stage'[c], work'[c], idles', asked', c)
BY DEF Attended, Tends

\* what Shaped says, for the state after a step
Shape(p, st, rq, w, rp, l, s) ==
  /\ p \in Scenarios
  /\ st \in [Call -> {"none", "sent", "held", "replied", "told"}]
  /\ DOMAIN rq = Call /\ DOMAIN w = Call /\ DOMAIN rp = Call
  /\ \A c \in Call : st[c] # "none" => rq[c] \in p.requests
  /\ Ordered(l) /\ \A j \in DOMAIN l : l[j].call \in Call
  /\ \A a \in s : a.call \in Call /\ Question(a.task) /\ a = [call |-> a.call, task |-> a.task]

LEMMA ShapedParts ==
  /\ Shaped <=> Shape(plan, stage, req, work, reply, idles, asked)
  /\ Shaped' <=> Shape(plan', stage', req', work', reply', idles', asked')
BY DEF Shaped, Shape

\* what is left of the idle functions and questions
Remains(due, open) ==
  /\ Ordered(due) /\ \A j \in DOMAIN due : \E i \in DOMAIN idles : due[j] = idles[i]
  /\ open \subseteq asked

LEMMA DoesShaped ==
  ASSUME Shaped, NEW c \in Call, NEW result, Formed(result.r), NEW due, NEW open,
         Remains(due, open), Does(c, result, due, open), plan' = plan, req' = req
  PROVE  /\ Shaped'
         /\ idles' = due \o Queued(c, result.r.later)
         /\ asked' = open \cup Sent(c, result.r.asks)
<1> DEFINE r == result.r
<1>1. /\ work' = [work EXCEPT ![c] = r.work]
      /\ idles' = due \o Queued(c, r.later) /\ asked' = open \cup Sent(c, r.asks)
      /\ Replies(c, r.says)
  BY DEF Does, Queued, Sent
<1>2. Formed(r)
  OBVIOUS
<1> HIDE DEF r
<1>3. Ordered(r.later) /\ \A t \in r.asks : Question(t)
  BY <1>2 DEF Formed
<1>4. /\ plan \in Scenarios /\ stage \in [Call -> {"none", "sent", "held", "replied", "told"}]
      /\ DOMAIN req = Call /\ DOMAIN work = Call /\ DOMAIN reply = Call
      /\ \A d \in Call : stage[d] # "none" => req[d] \in plan.requests
      /\ Ordered(idles) /\ \A j \in DOMAIN idles : idles[j].call \in Call
      /\ \A a \in asked : a.call \in Call /\ Question(a.task)
                          /\ a = [call |-> a.call, task |-> a.task]
  BY DEF Shaped
<1>5. /\ stage' \in [Call -> {"none", "sent", "held", "replied", "told"}]
      /\ \A d \in Call : stage'[d] # "none" => stage[d] # "none"
      /\ DOMAIN reply' = Call
  <2>1. CASE r.says = <<>>
    BY <1>1, <1>4, <2>1 DEF Replies
  <2>2. CASE r.says # <<>>
    BY <1>1, <1>4, <2>2 DEF Replies, Waiting
  <2> QED
    BY <2>1, <2>2
<1>6. DOMAIN work' = Call
  BY <1>1, <1>4
<1>7. Ordered(idles') /\ \A j \in DOMAIN idles' : idles'[j].call \in Call
  <2>1. Ordered(due) /\ \A j \in DOMAIN due : \E i \in DOMAIN idles : due[j] = idles[i]
    BY DEF Remains
  <2> DEFINE x == due \o Queued(c, r.later)
  <2>2. /\ Ordered(x)
        /\ \A j \in DOMAIN x : x[j].call = c \/ \E i \in DOMAIN due : x[j] = due[i]
    BY <1>3, <2>1, ViewJoined
  <2> HIDE DEF x
  <2>3. \A j \in DOMAIN x : x[j].call \in Call
    BY <1>4, <2>1, <2>2
  <2> QED
    BY <1>1, <2>2, <2>3 DEF x
<1>8. \A a \in asked' : a.call \in Call /\ Question(a.task)
                        /\ a = [call |-> a.call, task |-> a.task]
  <2>1. \A a \in Sent(c, r.asks) : a.call = c /\ a.task \in r.asks
                                   /\ a = [call |-> a.call, task |-> a.task]
    BY DEF Sent
  <2>2. open \subseteq asked
    BY DEF Remains
  <2>3. \A a \in Sent(c, r.asks) : Question(a.task)
    BY <1>3, <2>1
  <2>4. ASSUME NEW a \in asked'
        PROVE  a.call \in Call /\ Question(a.task) /\ a = [call |-> a.call, task |-> a.task]
    <3>1. CASE a \in open
      BY <1>4, <2>2, <3>1
    <3>2. CASE a \in Sent(c, r.asks)
      BY <2>1, <2>3, <3>2
    <3> QED
      BY <1>1, <2>4, <3>1, <3>2
  <2> QED
    BY <2>4
<1>9. \A d \in Call : stage'[d] # "none" => req'[d] \in plan'.requests
  BY <1>4, <1>5
<1>10. plan' \in Scenarios /\ DOMAIN req' = Call
  BY <1>4
<1>11. Shape(plan', stage', req', work', reply', idles', asked')
  BY <1>5, <1>6, <1>7, <1>8, <1>9, <1>10 DEF Shape
<1>12. Shaped'
  BY <1>11, ShapedParts
<1> QED
  BY <1>1, <1>12 DEF r

\* the other calls
LEMMA DoesOthers ==
  ASSUME Shaped, NEW c \in Call, NEW result, Formed(result.r), NEW due, NEW open,
         Remains(due, open), Does(c, result, due, open), plan' = plan, req' = req,
         NEW d \in Call, d # c, Tasks(due, d) = Tasks(idles, d),
         Cardinality(Steps(due, d)) = Cardinality(Steps(idles, d)),
         Cardinality(Endings(due, d)) = Cardinality(Endings(idles, d)),
         Asking(asked', d) = Asking(asked, d), Attended(d), WellTold(d)
  PROVE  Attended(d)' /\ WellTold(d)'
<1> DEFINE r == result.r
           x == due \o Queued(c, r.later)
<1>1. idles' = x
  BY DoesShaped
<1>2. Ordered(due) /\ Ordered(r.later)
  BY DEF Remains, Formed
<1> HIDE DEF r
<1>3. /\ Tasks(x, d) = Tasks(due, d) /\ Steps(x, d) = Steps(due, d)
      /\ Endings(x, d) = Endings(due, d)
  BY <1>2, ViewJoined
<1> HIDE DEF x
<1>4. /\ stage \in [Call -> {"none", "sent", "held", "replied", "told"}]
      /\ DOMAIN work = Call /\ DOMAIN reply = Call
  BY DEF Shaped
<1>5. work' = [work EXCEPT ![c] = r.work] /\ Replies(c, r.says)
  BY DEF Does, r
<1>6. work'[d] = work[d]
  BY <1>4, <1>5
<1>7. stage'[d] = stage[d] /\ reply'[d] = reply[d]
  <2>1. CASE r.says = <<>>
    BY <1>4, <1>5, <2>1 DEF Replies
  <2>2. CASE r.says # <<>>
    BY <1>4, <1>5, <2>2 DEF Replies
  <2> QED
    BY <2>1, <2>2
<1>8. Tends(plan.source, req[d], stage[d], work[d], idles, asked, d)
  BY AttendedParts
<1>9. Tends(plan'.source, req'[d], stage'[d], work'[d], idles', asked', d)
  BY <1>1, <1>3, <1>6, <1>7, <1>8 DEF Tends
<1>10. Attended(d)'
  BY <1>9, AttendedParts
<1>11. WellTold(d)'
  BY <1>7 DEF WellTold
<1> QED
  BY <1>10, <1>11

\* the call itself
LEMMA DoesSelf ==
  ASSUME Shaped, NEW c \in Call, NEW result, Formed(result.r), NEW due, NEW open,
         Remains(due, open), Does(c, result, due, open), plan' = plan, req' = req,
         stage[c] \in {"sent", "held"}, broken = FALSE,
         Goes(plan.source, req[c], Tasks(due, c), Cardinality(Steps(due, c)),
              Cardinality(Endings(due, c)), Asking(open, c), result.r)
  PROVE  Attended(c)' /\ WellTold(c)' /\ broken' = FALSE
<1> DEFINE r == result.r
           x == due \o Queued(c, r.later)
           y == open \cup Sent(c, r.asks)
<1>1. idles' = x /\ asked' = y
  BY DoesShaped
<1>2. Ordered(due) /\ Ordered(r.later)
  BY DEF Remains, Formed
<1>3. Goes(plan.source, req[c], Tasks(due, c), Cardinality(Steps(due, c)),
           Cardinality(Endings(due, c)), Asking(open, c), r)
  OBVIOUS
<1> HIDE DEF r
<1>4. /\ Tasks(x, c) = Tasks(due, c) \cup Listed(r.later)
      /\ Cardinality(Steps(x, c)) = Cardinality(Steps(due, c)) + Cardinality(Plain(r.later))
      /\ Cardinality(Endings(x, c)) = Cardinality(Endings(due, c)) + Cardinality(Final(r.later))
  BY <1>2, ViewJoined
<1>5. Asking(y, c) = Asking(open, c) \cup r.asks
  <2>1. \A S : \A t : t \in Asking(S, c) <=> \E b \in S : b.call = c /\ b.task = t
    BY DEF Asking
  <2>2. \A b \in Sent(c, r.asks) : b.call = c /\ b.task \in r.asks
    BY DEF Sent
  <2>3. \A t \in r.asks : \E b \in Sent(c, r.asks) : b.call = c /\ b.task = t
    <3>1. ASSUME NEW t \in r.asks PROVE \E b \in Sent(c, r.asks) : b.call = c /\ b.task = t
      <4>1. /\ [call |-> c, task |-> t] \in Sent(c, r.asks)
            /\ [call |-> c, task |-> t].call = c /\ [call |-> c, task |-> t].task = t
        BY DEF Sent
      <4> QED
        BY <4>1
    <3> QED
      BY <3>1
  <2>4. \A t : t \in Asking(y, c) <=> t \in Asking(open, c) \cup r.asks
    <3>1. \A t : t \in Asking(y, c) <=> \E b \in open \cup Sent(c, r.asks) : b.call = c /\ b.task = t
      BY <2>1
    <3>2. \A t : t \in Asking(open, c) <=> \E b \in open : b.call = c /\ b.task = t
      BY <2>1
    <3> HIDE DEF y
    <3> QED
      BY <2>2, <2>3, <3>1, <3>2
  <2> QED
    BY <2>4
<1> HIDE DEF x, y
<1>6. /\ stage \in [Call -> {"none", "sent", "held", "replied", "told"}]
      /\ DOMAIN work = Call /\ DOMAIN reply = Call
  BY DEF Shaped
<1>7. work' = [work EXCEPT ![c] = r.work] /\ Replies(c, r.says)
  BY DEF Does, r
<1>8. work'[c] = r.work
  BY <1>6, <1>7
<1>9. ASSUME r.says = <<>>,
             Doing(plan.source, req[c], r.work, Tasks(due, c) \cup Listed(r.later),
                   Cardinality(Steps(due, c)) + Cardinality(Plain(r.later)),
                   Cardinality(Endings(due, c)) + Cardinality(Final(r.later)),
                   Asking(open, c) \cup r.asks)
      PROVE  Attended(c)' /\ WellTold(c)' /\ broken' = FALSE
  <2>1. stage'[c] = "held" /\ broken' = FALSE
    BY <1>6, <1>7, <1>9 DEF Replies
  <2>2. Doing(plan'.source, req'[c], work'[c], Tasks(idles', c), Cardinality(Steps(idles', c)),
              Cardinality(Endings(idles', c)), Asking(asked', c))
    BY <1>1, <1>4, <1>5, <1>8, <1>9
  <2>3. Tends(plan'.source, req'[c], stage'[c], work'[c], idles', asked', c)
    BY <2>1, <2>2 DEF Tends
  <2>4. WellTold(c)'
    BY <2>1 DEF WellTold
  <2> QED
    BY <2>1, <2>3, <2>4, AttendedParts
<1>10. ASSUME NEW a, r.says = <<a>>, Complete(req[c], a), Tasks(due, c) = {},
              Asking(open, c) = {}, r.later = <<>>, r.asks = {}
       PROVE  Attended(c)' /\ WellTold(c)' /\ broken' = FALSE
  <2>1. r.says # <<>> /\ Head(r.says) = a /\ Len(r.says) = 1
    BY <1>10, ShortOrder
  <2>2. stage'[c] = "replied" /\ reply'[c] = a /\ broken' = FALSE
    <3>1. Waiting(c)
      BY DEF Waiting
    <3>2. /\ stage' = [stage EXCEPT ![c] = IF Waiting(c) THEN "replied" ELSE @]
          /\ reply' = [reply EXCEPT ![c] = IF Waiting(c) THEN Head(r.says) ELSE @]
          /\ broken' = (~Waiting(c) \/ Len(r.says) > 1)
      BY <1>7, <2>1 DEF Replies
    <3>3. stage'[c] = "replied" /\ reply'[c] = a
      BY <1>6, <2>1, <3>1, <3>2
    <3>4. ~(Len(r.says) > 1)
      BY <2>1
    <3>5. broken' = FALSE
      BY <3>1, <3>2, <3>4, Zenon
    <3> QED
      BY <3>3, <3>5
  <2>3. Tasks(idles', c) = {} /\ Asking(asked', c) = {}
    BY <1>1, <1>4, <1>5, <1>10, ShortCount
  <2>4. Tends(plan'.source, req'[c], stage'[c], work'[c], idles', asked', c)
    BY <2>2, <2>3 DEF Tends
  <2>5. Complete(req[c], reply'[c])
    BY <1>10, <2>2
  <2>6. WellTold(c)'
    BY <2>5 DEF WellTold
  <2> QED
    BY <2>2, <2>4, <2>6, AttendedParts
<1> QED
  BY <1>3, <1>9, <1>10 DEF Goes

\* questions of one call are none of another
LEMMA NotAsked ==
  ASSUME NEW s, NEW c, NEW Q, NEW d, d # c
  PROVE  Asking(s \cup Sent(c, Q), d) = Asking(s, d)
<1> DEFINE y == s \cup Sent(c, Q)
<1>1. \A b \in Sent(c, Q) : b.call = c
  BY DEF Sent
<1>2. {b \in y : b.call = d} = {b \in s : b.call = d}
  BY <1>1
<1> HIDE DEF y
<1> QED
  BY <1>2 DEF Asking, y

LEMMA NoSteps ==
  ASSUME NEW l, NEW c, Tasks(l, c) = {}
  PROVE  Cardinality(Steps(l, c)) = 0 /\ Cardinality(Endings(l, c)) = 0
<1>1. \A j \in DOMAIN l : l[j].call # c
  <2>1. ASSUME NEW j \in DOMAIN l, l[j].call = c PROVE l[j].task \in Tasks(l, c)
    BY <2>1 DEF Tasks
  <2> QED
    BY <2>1
<1>2. Steps(l, c) = {} /\ Endings(l, c) = {}
  BY <1>1 DEF Steps, Endings
<1> QED
  BY <1>2, FS_EmptySet

LEMMA BrokenTyped ==
  ASSUME broken = FALSE, NEW c, NEW result, NEW due, NEW open, Does(c, result, due, open)
  PROVE  broken' \in BOOLEAN
BY DEF Does, Replies

\* The call d is not spoilt, nor does the step change what it has.
LEMMA Unchanged ==
  ASSUME Shaped, NEW d \in Call, Attended(d), WellTold(d),
         plan' = plan, req' = req, work' = work, idles' = idles, asked' = asked,
         stage'[d] = stage[d], reply'[d] = reply[d]
  PROVE  Attended(d)' /\ WellTold(d)'
<1>1. Tends(plan.source, req[d], stage[d], work[d], idles, asked, d)
  BY AttendedParts
<1>2. Tends(plan'.source, req'[d], stage'[d], work'[d], idles', asked', d)
  BY <1>1
<1>3. WellTold(d)'
  BY DEF WellTold
<1> QED
  BY <1>2, <1>3, AttendedParts

\* the invariant after a step
LEMMA Kept ==
  ASSUME Shaped', Downed', broken' = TRUE => spoilt' # {}, broken' \in BOOLEAN,
         \A d \in Call \ spoilt' : Attended(d)' /\ WellTold(d)'
  PROVE  AllAttended'
BY DEF AllAttended

\* the wrapper calls the source
LEMMA HandlesAttended ==
  ASSUME AllAttended, broken = FALSE, NEW c \in Call, DaemonHandles(c) PROVE AllAttended'
<1>1. /\ Shaped /\ \A d \in Call \ spoilt : Attended(d) /\ WellTold(d)
      /\ stage[c] = "sent" /\ plan' = plan /\ req' = req
      /\ spoilt' = IF Unhandled(req[c]) THEN spoilt \cup {c} ELSE spoilt
  BY DEF AllAttended, DaemonHandles
<1>2. PICK result \in Handles(c, req[c]) : Does(c, result, idles, asked)
  BY DEF DaemonHandles
<1>3. /\ Formed(result.r)
      /\ ~Unhandled(req[c]) => Goes(plan.source, req[c], {}, 0, 0, {}, result.r)
  BY <1>1, StartGoes
<1>4. Remains(idles, asked) /\ Ordered(idles)
  BY <1>1 DEF Remains, Shaped
<1>5. Shaped' /\ asked' = asked \cup Sent(c, result.r.asks)
  BY <1>1, <1>2, <1>3, <1>4, DoesShaped
<1>6. \A d : d # c => Asking(asked', d) = Asking(asked, d)
  BY <1>5, NotAsked
<1>7. ASSUME NEW d \in Call \ spoilt, d # c PROVE Attended(d)' /\ WellTold(d)'
  <2>1. Attended(d) /\ WellTold(d) /\ Asking(asked', d) = Asking(asked, d)
    BY <1>1, <1>6, <1>7
  <2> QED
    BY <1>1, <1>2, <1>3, <1>4, <1>7, <2>1, DoesOthers
<1>8. ASSUME c \notin spoilt, ~Unhandled(req[c])
      PROVE  Attended(c)' /\ WellTold(c)' /\ broken' = FALSE
  <2>1. Tasks(idles, c) = {} /\ Asking(asked, c) = {}
    BY <1>1, <1>8 DEF Attended
  <2>2. Cardinality(Steps(idles, c)) = 0 /\ Cardinality(Endings(idles, c)) = 0
    BY <2>1, NoSteps
  <2>3. Goes(plan.source, req[c], Tasks(idles, c), Cardinality(Steps(idles, c)),
             Cardinality(Endings(idles, c)), Asking(asked, c), result.r)
    BY <1>3, <1>8, <2>1, <2>2
  <2>4. stage[c] \in {"sent", "held"}
    BY <1>1
  <2> QED
    BY <1>1, <1>2, <1>3, <1>4, <2>3, <2>4, DoesSelf
<1>9. broken' \in BOOLEAN
  BY <1>2, BrokenTyped
<1>10. \A d \in Call \ spoilt' : Attended(d)' /\ WellTold(d)'
  BY <1>1, <1>7, <1>8
<1>11. broken' = TRUE => spoilt' # {}
  BY <1>1, <1>8
<1>12. Downed'
  BY DEF DaemonHandles, Downed
<1> QED
  BY <1>5, <1>9, <1>10, <1>11, <1>12, Kept

\* a handler goes on with what was freed: only for a call that is spoilt
LEMMA BreaksAttended ==
  ASSUME AllAttended, Breaks, spoilt # {}, plan' = plan, req' = req, spoilt' = spoilt,
         daemonIs' = daemonIs
  PROVE  AllAttended'
<1>1. /\ Shaped /\ \A d \in Call \ spoilt : Attended(d) /\ WellTold(d)
      /\ stage' = stage /\ reply' = reply /\ work' = work /\ idles' = idles
      /\ asked' = asked /\ broken' = TRUE
  BY DEF AllAttended, Breaks
<1>2. Shaped'
  BY <1>1, ShapedParts
<1>3. ASSUME NEW d \in Call \ spoilt PROVE Attended(d)' /\ WellTold(d)'
  <2>1. Attended(d) /\ WellTold(d)
    BY <1>1
  <2> QED
    BY <1>1, <2>1, Unchanged
<1>4. \A d \in Call \ spoilt' : Attended(d)' /\ WellTold(d)'
  BY <1>3
<1>5. broken' = TRUE => spoilt' # {}
  OBVIOUS
<1>6. broken' \in BOOLEAN
  BY <1>1
<1>7. Downed'
  BY <1>1 DEF AllAttended, Downed
<1> QED
  BY <1>2, <1>4, <1>5, <1>6, <1>7, Kept

\* an idle function of the main loop
LEMMA IdleAttended ==
  ASSUME AllAttended, broken = FALSE, RunsIdle PROVE AllAttended'
<1> DEFINE t == Head(idles).task
           l == Tail(idles)
<1>0. Shaped /\ Ordered(idles) /\ \A j \in DOMAIN idles : idles[j].call \in Call
  BY DEF AllAttended, Shaped
<1>0a. idles # <<>>
  BY DEF RunsIdle
<1>0b. Head(idles).call \in Call
  BY <1>0, <1>0a, TailOrder
<1> PICK c \in Call : c = Head(idles).call
  BY <1>0b
<1>1. /\ Shaped /\ \A d \in Call \ spoilt : Attended(d) /\ WellTold(d)
      /\ plan' = plan /\ req' = req /\ spoilt' = spoilt /\ idles # <<>>
      /\ IF Freed(c, t) THEN Breaks
         ELSE \E result \in IdleResults(c, t) : Does(c, result, l, asked)
  BY DEF AllAttended, RunsIdle
<1>2. Ordered(idles) /\ \A j \in DOMAIN idles : idles[j].call \in Call
  BY <1>0
<1>3. c \in Call /\ c = Head(idles).call
  OBVIOUS
<1>4. /\ Ordered(l) /\ \A j \in DOMAIN l : \E i \in DOMAIN idles : l[j] = idles[i]
      /\ \A d : /\ Tasks(idles, d) = Tasks(l, d) \cup (IF c = d THEN {t} ELSE {})
                /\ Cardinality(Steps(idles, d)) =
                     Cardinality(Steps(l, d)) + (IF c = d /\ ~Emission(t) THEN 1 ELSE 0)
                /\ Cardinality(Endings(idles, d)) =
                     Cardinality(Endings(l, d)) + (IF c = d /\ Emission(t) THEN 1 ELSE 0)
  BY <1>0a, <1>2, <1>3, ViewTail
<1> HIDE DEF t, l
<1>5. Remains(l, asked)
  BY <1>4 DEF Remains
<1>6. \A d : /\ Cardinality(Steps(l, d)) \in Nat /\ Cardinality(Endings(l, d)) \in Nat
             /\ Cardinality(Steps(l, d)) = 0 /\ Cardinality(Endings(l, d)) = 0
                  => Tasks(l, d) = {}
  BY <1>4, ViewFinite
<1>7. c \notin spoilt => stage[c] = "held"
  <2>1. Tasks(idles, c) # {}
    BY <1>4
  <2> QED
    BY <1>1, <1>3, <2>1 DEF Attended
<1> DEFINE n == Cardinality(Steps(l, c))
           e == Cardinality(Endings(l, c))
<1>8. ASSUME c \notin spoilt
      PROVE  Doing(plan.source, req[c], work[c], Tasks(l, c) \cup {t},
                   n + (IF Emission(t) THEN 0 ELSE 1), e + (IF Emission(t) THEN 1 ELSE 0),
                   Asking(asked, c))
  <2>1. Doing(plan.source, req[c], work[c], Tasks(idles, c), Cardinality(Steps(idles, c)),
              Cardinality(Endings(idles, c)), Asking(asked, c))
    BY <1>1, <1>3, <1>7, <1>8 DEF Attended
  <2>2. /\ Tasks(idles, c) = Tasks(l, c) \cup {t}
        /\ Cardinality(Steps(idles, c)) = n + (IF Emission(t) THEN 0 ELSE 1)
        /\ Cardinality(Endings(idles, c)) = e + (IF Emission(t) THEN 1 ELSE 0)
    BY <1>4
  <2> QED
    BY <2>1, <2>2
<1>8a. daemonIs' = daemonIs /\ Downed'
  BY DEF RunsIdle, Downed
<1>9. CASE Freed(c, t)
  <2>1. c \in spoilt
    <3> SUFFICES ASSUME c \notin spoilt PROVE FALSE
      OBVIOUS
    <3>1. stage[c] # "none" /\ t \in (Tasks(l, c) \cup {t}) \cup Asking(asked, c)
      BY <1>7
    <3> QED
      BY <1>1, <1>3, <1>8, <1>9, <3>1, NotFreed
  <2>2. Breaks
    BY <1>1, <1>9
  <2> QED
    BY <1>1, <1>8a, <2>1, <2>2, BreaksAttended
<1>10. ASSUME ~Freed(c, t) PROVE AllAttended'
  <2>1. PICK result \in IdleResults(c, t) : Does(c, result, l, asked)
    BY <1>1, <1>10
  <2>2. Formed(result.r)
    BY IdleFormed
  <2>3. Shaped' /\ asked' = asked \cup Sent(c, result.r.asks)
    BY <1>1, <1>3, <1>5, <2>1, <2>2, DoesShaped
  <2>4. \A d : d # c => Asking(asked', d) = Asking(asked, d)
    BY <2>3, NotAsked
  <2>5. ASSUME NEW d \in Call \ spoilt, d # c PROVE Attended(d)' /\ WellTold(d)'
    <3>1. Attended(d) /\ WellTold(d) /\ Asking(asked', d) = Asking(asked, d)
      BY <1>1, <2>4, <2>5
    <3>2. /\ Tasks(l, d) = Tasks(idles, d)
          /\ Cardinality(Steps(l, d)) = Cardinality(Steps(idles, d))
          /\ Cardinality(Endings(l, d)) = Cardinality(Endings(idles, d))
      <4>1. /\ Tasks(idles, d) = Tasks(l, d) \cup {}
            /\ Cardinality(Steps(idles, d)) = Cardinality(Steps(l, d)) + 0
            /\ Cardinality(Endings(idles, d)) = Cardinality(Endings(l, d)) + 0
        BY <1>4, <2>5
      <4>2. Cardinality(Steps(l, d)) \in Nat /\ Cardinality(Endings(l, d)) \in Nat
        BY <1>6
      <4> QED
        BY <4>1, <4>2
    <3> QED
      BY <1>1, <1>3, <1>5, <2>1, <2>2, <2>5, <3>1, <3>2, DoesOthers
  <2>6. ASSUME c \notin spoilt PROVE Attended(c)' /\ WellTold(c)' /\ broken' = FALSE
    <3>1. stage[c] # "none"
      BY <1>7, <2>6
    <3>1a. stage[c] \in {"sent", "held"}
      BY <1>7, <2>6
    <3>2. n \in Nat /\ e \in Nat /\ (n = 0 /\ e = 0 => Tasks(l, c) = {})
      BY <1>6
    <3>3. Doing(plan.source, req[c], work[c], Tasks(l, c) \cup {t},
                n + (IF Emission(t) THEN 0 ELSE 1), e + (IF Emission(t) THEN 1 ELSE 0),
                Asking(asked, c))
      BY <1>8, <2>6
    <3> HIDE DEF n, e
    <3>4. Goes(plan.source, req[c], Tasks(l, c), n, e, Asking(asked, c), result.r)
      BY <1>1, <1>3, <3>1, <3>2, <3>3, IdleGoes
    <3>5. Goes(plan.source, req[c], Tasks(l, c), Cardinality(Steps(l, c)),
               Cardinality(Endings(l, c)), Asking(asked, c), result.r)
      BY <3>4 DEF n, e
    <3> QED
      BY <1>1, <1>3, <1>5, <2>1, <2>2, <3>1a, <3>5, DoesSelf
  <2>7. broken' \in BOOLEAN
    BY <2>1, BrokenTyped
  <2>8. \A d \in Call \ spoilt' : Attended(d)' /\ WellTold(d)'
    <3> SUFFICES ASSUME NEW d \in Call \ spoilt PROVE Attended(d)' /\ WellTold(d)'
      BY <1>1
    <3>1. CASE d = c
      BY <2>6, <3>1
    <3> QED
      BY <2>5, <3>1
  <2>9. broken' = TRUE => spoilt' # {}
    BY <1>1, <1>3, <2>6
  <2> QED
    BY <1>8a, <2>3, <2>7, <2>8, <2>9, Kept
<1> QED
  BY <1>9, <1>10

\* an answer of another process
LEMMA AnsweredAttended ==
  ASSUME AllAttended, broken = FALSE, NEW c \in Call, IsAnswered(c) PROVE AllAttended'
<1>1. /\ Shaped /\ \A d \in Call \ spoilt : Attended(d) /\ WellTold(d)
      /\ plan' = plan /\ req' = req
  BY DEF AllAttended, IsAnswered
<1>2. PICK a \in asked :
        /\ a.call = c
        /\ IF Freed(c, a.task) THEN Breaks /\ spoilt' = spoilt
           ELSE \E r \in AnswerReactions(c, a.task) :
                  /\ Does(c, Result(db, IF a.task.kind = "metadata" THEN ForAll(c, r) ELSE r),
                          idles, asked \ {a})
                  /\ spoilt' = IF OddAnswer(c, a.task, r) THEN spoilt \cup {c} ELSE spoilt
  BY DEF IsAnswered
<1> DEFINE t == a.task
           open == asked \ {a}
<1>3. /\ Ordered(idles) /\ Question(t)
      /\ \A b \in asked : b = [call |-> b.call, task |-> b.task]
  BY <1>1 DEF Shaped
<1>4. /\ \A d : d # c => Asking(open, d) = Asking(asked, d)
      /\ t \in Asking(asked, c) /\ Asking(open, c) = Asking(asked, c) \ {t}
  <2> DEFINE x == (asked \ {a}) \cup Sent(c, {})
  <2>1. Sent(c, {}) = {}
    BY DEF Sent
  <2>2. x = open
    BY <2>1
  <2> HIDE DEF t, open, x
  <2>3. ASSUME NEW N
        PROVE  /\ \A d : d # c /\ a.call = c =>
                    Asking((asked \ {a}) \cup Sent(c, N), d) = Asking(asked, d)
               /\ a.call = c => /\ a.task \in Asking(asked, c)
                                /\ Asking((asked \ {a}) \cup Sent(c, N), c)
                                     = (Asking(asked, c) \ {a.task}) \cup N
    <3>1. \A b \in asked : b = [call |-> b.call, task |-> b.task]
      BY <1>3
    <3>2. Moved(asked, a, c, N)
      BY <3>1, ViewAsked
    <3> QED
      BY <3>2 DEF Moved
  <2>4. a.call = c
    BY <1>2
  <2>5. /\ \A d : d # c => Asking(x, d) = Asking(asked, d)
        /\ a.task \in Asking(asked, c)
        /\ Asking(x, c) = (Asking(asked, c) \ {a.task}) \cup {}
    BY <2>3, <2>4 DEF x
  <2> QED
    BY <2>2, <2>5 DEF t
<1>5. Remains(idles, open)
  BY <1>3 DEF Remains
<1>6. IF Freed(c, t) THEN Breaks /\ spoilt' = spoilt
      ELSE \E r \in AnswerReactions(c, t) :
             /\ Does(c, Result(db, IF t.kind = "metadata" THEN ForAll(c, r) ELSE r), idles, open)
             /\ spoilt' = IF OddAnswer(c, t, r) THEN spoilt \cup {c} ELSE spoilt
  BY <1>2
<1> HIDE DEF t, open
<1> DEFINE n == Cardinality(Steps(idles, c))
           e == Cardinality(Endings(idles, c))
<1>7. n \in Nat /\ e \in Nat
  BY <1>3, ViewFinite
<1>8. ASSUME c \notin spoilt
      PROVE  /\ stage[c] = "held"
             /\ Doing(plan.source, req[c], work[c], Tasks(idles, c), n, e, Asking(asked, c))
  BY <1>1, <1>4, <1>8 DEF Attended
<1> HIDE DEF n, e
<1>8a. daemonIs' = daemonIs /\ Downed'
  BY DEF IsAnswered, Downed
<1>9. CASE Freed(c, t)
  <2>1. c \in spoilt
    <3> SUFFICES ASSUME c \notin spoilt PROVE FALSE
      OBVIOUS
    <3>1. stage[c] # "none" /\ t \in Tasks(idles, c) \cup Asking(asked, c)
      BY <1>4, <1>8
    <3> QED
      BY <1>1, <1>8, <1>9, <3>1, NotFreed
  <2>2. Breaks /\ spoilt' = spoilt
    BY <1>6, <1>9
  <2> QED
    BY <1>1, <1>8a, <2>1, <2>2, BreaksAttended
<1>10. ASSUME ~Freed(c, t) PROVE AllAttended'
  <2>1. PICK r \in AnswerReactions(c, t) :
          /\ Does(c, Result(db, IF t.kind = "metadata" THEN ForAll(c, r) ELSE r), idles, open)
          /\ spoilt' = IF OddAnswer(c, t, r) THEN spoilt \cup {c} ELSE spoilt
    BY <1>6, <1>10
  <2> DEFINE x == IF t.kind = "metadata" THEN ForAll(c, r) ELSE r
             result == Result(db, x)
  <2>2. Formed(x)
    BY <1>3, AnswerFormed
  <2>3. ASSUME c \notin spoilt, ~OddAnswer(c, t, r)
        PROVE  Goes(plan.source, req[c], Tasks(idles, c), n, e, Asking(asked, c) \ {t}, x)
    <3>1. /\ stage[c] # "none"
          /\ Doing(plan.source, req[c], work[c], Tasks(idles, c), n, e, Asking(asked, c))
      BY <1>8, <2>3
    <3> QED
      BY <1>1, <1>4, <1>7, <2>3, <3>1, AnswerGoes
  <2>4. Does(c, result, idles, open)
    BY <2>1
  <2> HIDE DEF x
  <2>5. result.r = x
    BY Outcomes
  <2> HIDE DEF result
  <2>6. Formed(result.r)
    BY <2>2, <2>5
  <2>7. Shaped' /\ asked' = open \cup Sent(c, result.r.asks)
    BY <1>1, <1>5, <2>4, <2>6, DoesShaped
  <2>8. \A d : d # c => Asking(asked', d) = Asking(asked, d)
    BY <1>4, <2>7, NotAsked
  <2>9. ASSUME NEW d \in Call \ spoilt, d # c PROVE Attended(d)' /\ WellTold(d)'
    <3>1. Attended(d) /\ WellTold(d) /\ Asking(asked', d) = Asking(asked, d)
      BY <1>1, <2>8, <2>9
    <3> QED
      BY <1>1, <1>5, <2>4, <2>6, <2>9, <3>1, DoesOthers
  <2>10. ASSUME c \notin spoilt, ~OddAnswer(c, t, r)
         PROVE  Attended(c)' /\ WellTold(c)' /\ broken' = FALSE
    <3>1. stage[c] \in {"sent", "held"}
      BY <1>8, <2>10
    <3>2. Goes(plan.source, req[c], Tasks(idles, c), Cardinality(Steps(idles, c)),
               Cardinality(Endings(idles, c)), Asking(open, c), result.r)
      BY <1>4, <2>3, <2>5, <2>10 DEF n, e
    <3> QED
      BY <1>1, <1>5, <2>4, <2>6, <3>1, <3>2, DoesSelf
  <2>11. broken' \in BOOLEAN
    BY <2>4, BrokenTyped
  <2>12. \A d \in Call \ spoilt' : Attended(d)' /\ WellTold(d)'
    <3> SUFFICES ASSUME NEW d \in Call \ spoilt' PROVE Attended(d)' /\ WellTold(d)'
      OBVIOUS
    <3>1. d \in Call \ spoilt
      BY <2>1
    <3>2. CASE d = c
      BY <2>1, <2>10, <3>1, <3>2
    <3> QED
      BY <2>9, <3>1, <3>2
  <2>13. broken' = TRUE => spoilt' # {}
    BY <2>1, <2>10
  <2> QED
    BY <1>8a, <2>7, <2>11, <2>12, <2>13, Kept
<1> QED
  BY <1>9, <1>10

\* A step that leaves the idle functions, the questions and what a held call
\* has alone, or frees all of them, and answers the calls that wait
LEMMA OtherAttended ==
  ASSUME AllAttended, broken = FALSE, broken' = broken, spoilt' = spoilt, plan' = plan,
         stage' \in [Call -> {"none", "sent", "held", "replied", "told"}],
         DOMAIN req' = Call, DOMAIN work' = Call, DOMAIN reply' = Call,
         \A d \in Call : stage'[d] # "none" => req'[d] \in plan.requests,
         \/ work' = work /\ idles' = idles /\ asked' = asked
            /\ \A d \in Call : (stage'[d] = "held" <=> stage[d] = "held")
                               /\ (stage[d] = "held" => req'[d] = req[d])
         \/ idles' = <<>> /\ asked' = {} /\ \A d \in Call : stage'[d] # "held",
         Downed', \A d \in Call : WellTold(d) => WellTold(d)'
  PROVE  AllAttended'
<1>1. Shaped /\ \A d \in Call \ spoilt : Attended(d) /\ WellTold(d)
  BY DEF AllAttended
<1>2. CASE /\ work' = work /\ idles' = idles /\ asked' = asked
           /\ \A d \in Call : (stage'[d] = "held" <=> stage[d] = "held")
                              /\ (stage[d] = "held" => req'[d] = req[d])
  <2>1. Shaped'
    BY <1>1, <1>2 DEF Shaped
  <2>2. ASSUME NEW d \in Call \ spoilt' PROVE Attended(d)' /\ WellTold(d)'
    <3>1. Attended(d) /\ WellTold(d)
      BY <1>1, <2>2
    <3>2. Tends(plan.source, req[d], stage[d], work[d], idles, asked, d)
      BY <3>1, AttendedParts
    <3>3. Tends(plan'.source, req'[d], stage'[d], work'[d], idles', asked', d)
      <4>1. CASE stage[d] = "held"
        BY <1>2, <2>2, <3>2, <4>1 DEF Tends
      <4>2. CASE stage[d] # "held"
        BY <1>2, <2>2, <3>2, <4>2 DEF Tends
      <4> QED
        BY <4>1, <4>2
    <3> QED
      BY <2>2, <3>1, <3>3, AttendedParts
  <2>3. broken' \in BOOLEAN /\ (broken' = TRUE => spoilt' # {})
    OBVIOUS
  <2> QED
    BY <2>1, <2>2, <2>3, Kept
<1>3. CASE idles' = <<>> /\ asked' = {} /\ \A d \in Call : stage'[d] # "held"
  <2>1. Ordered(idles') /\ DOMAIN idles' = {}
    BY <1>3, ShortOrder
  <2>2. Shape(plan', stage', req', work', reply', idles', asked')
    BY <1>1, <1>3, <2>1 DEF Shaped, Shape
  <2>3. Shaped'
    BY <2>2, ShapedParts
  <2>4. \A d : Tasks(idles', d) = {} /\ Asking(asked', d) = {}
    BY <1>3, <2>1 DEF Tasks, Asking
  <2>5. ASSUME NEW d \in Call \ spoilt' PROVE Attended(d)' /\ WellTold(d)'
    <3>1. WellTold(d)
      BY <1>1, <2>5
    <3>2. Tends(plan'.source, req'[d], stage'[d], work'[d], idles', asked', d)
      BY <1>3, <2>4, <2>5 DEF Tends
    <3> QED
      BY <2>5, <3>1, <3>2, AttendedParts
  <2>6. broken' \in BOOLEAN /\ (broken' = TRUE => spoilt' # {})
    OBVIOUS
  <2> QED
    BY <2>3, <2>5, <2>6, Kept
<1> QED
  BY <1>2, <1>3

\* what a crash leaves
LEMMA DeadAttended ==
  ASSUME AllAttended, broken = FALSE, Dead, plan' = plan, req' = req, broken' = broken,
         spoilt' = spoilt
  PROVE  AllAttended'
<1>1. /\ stage \in [Call -> {"none", "sent", "held", "replied", "told"}]
      /\ DOMAIN req = Call /\ \A d \in Call : stage[d] # "none" => req[d] \in plan.requests
  BY DEF AllAttended, Shaped
<1>2. /\ stage' = [c \in Call |-> IF Waiting(c) THEN "replied" ELSE stage[c]]
      /\ reply' = [c \in Call |-> IF Waiting(c) THEN Refused ELSE reply[c]]
      /\ idles' = <<>> /\ asked' = {} /\ work' = [c \in Call |-> Over]
  BY DEF Dead, Starts
<1>3. /\ stage' \in [Call -> {"none", "sent", "held", "replied", "told"}]
      /\ \A d \in Call : stage'[d] # "held" /\ (stage'[d] # "none" => stage[d] # "none")
  BY <1>1, <1>2 DEF Waiting
<1>4. DOMAIN req' = Call /\ DOMAIN work' = Call /\ DOMAIN reply' = Call
  BY <1>1, <1>2
<1>5. \A d \in Call : stage'[d] # "none" => req'[d] \in plan.requests
  BY <1>1, <1>3
<1>6. ASSUME NEW d \in Call, WellTold(d) PROVE WellTold(d)'
  <2>1. CASE Waiting(d)
    <3>1. reply'[d] = Refused
      BY <1>2, <2>1
    <3>2. Complete(req[d], reply'[d])
      BY <3>1, Outcomes
    <3> QED
      BY <3>2 DEF WellTold
  <2>2. CASE ~Waiting(d)
    <3>1. reply'[d] = reply[d] /\ stage'[d] = stage[d]
      BY <1>2, <2>2
    <3> QED
      BY <1>6, <3>1 DEF WellTold
  <2> QED
    BY <2>1, <2>2
<1>7. Downed'
  BY <1>3 DEF Downed
<1> QED
  BY <1>2, <1>3, <1>4, <1>5, <1>6, <1>7, OtherAttended

\* steps that leave the calls alone
LEMMA AloneAttended ==
  ASSUME AllAttended, plan' = plan, req' = req, stage' = stage, work' = work, reply' = reply,
         idles' = idles, asked' = asked, broken' = broken, spoilt' = spoilt,
         daemonIs' = "up" \/ daemonIs' = daemonIs
  PROVE  AllAttended'
<1>1. /\ Shaped /\ Downed /\ broken \in BOOLEAN /\ (broken => spoilt # {})
      /\ \A d \in Call \ spoilt : Attended(d) /\ WellTold(d)
  BY DEF AllAttended
<1>2. Shaped'
  BY <1>1, ShapedParts
<1>3. ASSUME NEW d \in Call \ spoilt PROVE Attended(d)' /\ WellTold(d)'
  <2>1. Attended(d) /\ WellTold(d) /\ stage'[d] = stage[d] /\ reply'[d] = reply[d]
    BY <1>1
  <2> QED
    BY <1>1, <2>1, Unchanged
<1>4. Downed'
  BY <1>1 DEF Downed
<1>5. \A d \in Call \ spoilt' : Attended(d)' /\ WellTold(d)'
  BY <1>3
<1>6. broken' \in BOOLEAN /\ (broken' => spoilt' # {})
  BY <1>1
<1> QED
  BY <1>2, <1>4, <1>5, <1>6 DEF AllAttended

\* the daemon
LEMMA DaemonAttended ==
  ASSUME AllAttended, broken = FALSE,
         \/ DaemonStarts \/ LoadsBookmark \/ \E dated \in BOOLEAN : LoadEnds(dated)
         \/ DaemonDies \/ FileComes
  PROVE  AllAttended'
<1>1. /\ plan' = plan /\ req' = req /\ broken' = broken /\ spoilt' = spoilt
  BY DEF DaemonStarts, LoadsBookmark, LoadEnds, DaemonDies, FileComes
<1>2. /\ stage \in [Call -> {"none", "sent", "held", "replied", "told"}]
      /\ DOMAIN req = Call /\ DOMAIN reply = Call
      /\ \A d \in Call : stage[d] # "none" => req[d] \in plan.requests
  BY DEF AllAttended, Shaped
<1>3. CASE DaemonStarts
  <2>1. /\ stage' = stage /\ reply' = reply /\ idles' = <<>> /\ asked' = {}
        /\ work' = [c \in Call |-> Over]
    BY <1>3 DEF DaemonStarts, Starts
  <2>2. \A d \in Call : stage'[d] # "held"
    BY <1>3, <2>1 DEF DaemonStarts, AllAttended, Downed
  <2>3. DOMAIN work' = Call /\ Downed'
    BY <2>1, <2>2 DEF Downed
  <2>4. \A d \in Call : WellTold(d) => WellTold(d)'
    BY <1>1, <2>1 DEF WellTold
  <2> QED
    BY <1>1, <1>2, <2>1, <2>2, <2>3, <2>4, OtherAttended
<1>4. CASE LoadsBookmark \/ \E dated \in BOOLEAN : LoadEnds(dated)
  <2>1. \/ Dead
        \/ /\ stage' = stage /\ work' = work /\ reply' = reply /\ idles' = idles
           /\ asked' = asked /\ (daemonIs' = "up" \/ daemonIs' = daemonIs)
    BY <1>4 DEF LoadsBookmark, LoadEnds
  <2> QED
    BY <1>1, <2>1, DeadAttended, AloneAttended
<1>5. CASE DaemonDies
  BY <1>1, <1>5, DeadAttended DEF DaemonDies
<1>6. CASE FileComes
  BY <1>1, <1>6, AloneAttended DEF FileComes
<1> QED
  BY <1>3, <1>4, <1>5, <1>6

\* the clients, and D-Bus
LEMMA ClientAttended ==
  ASSUME AllAttended, broken = FALSE, NEW c \in Call,
         ClientCalls(c) \/ BusRefuses(c) \/ ClientTold(c)
  PROVE  AllAttended'
<1>1. /\ plan' = plan /\ broken' = broken /\ spoilt' = spoilt /\ work' = work
      /\ idles' = idles /\ asked' = asked /\ daemonIs' = daemonIs
  BY DEF ClientCalls, BusRefuses, ClientTold
<1>2. /\ stage \in [Call -> {"none", "sent", "held", "replied", "told"}]
      /\ DOMAIN req = Call /\ DOMAIN work = Call /\ DOMAIN reply = Call
      /\ \A d \in Call : stage[d] # "none" => req[d] \in plan.requests
      /\ Downed
  BY DEF AllAttended, Shaped
<1>3. \E new \in {"sent", "replied", "told"} :
        stage' = [stage EXCEPT ![c] = new] /\ stage[c] # "held"
  BY DEF ClientCalls, BusRefuses, ClientTold
<1>4. PICK new \in {"sent", "replied", "told"} :
        stage' = [stage EXCEPT ![c] = new] /\ stage[c] # "held"
  BY <1>3
<1>5. /\ stage' \in [Call -> {"none", "sent", "held", "replied", "told"}]
      /\ \A d \in Call : stage'[d] = "held" <=> stage[d] = "held"
      /\ stage'[c] = new /\ \A d \in Call : d # c => stage'[d] = stage[d]
  BY <1>2, <1>4
<1>6. Downed'
  BY <1>1, <1>2, <1>5 DEF Downed
<1>7. /\ DOMAIN req' = Call /\ \A d \in Call : d # c => req'[d] = req[d]
      /\ req'[c] \in plan.requests
      /\ ~ClientCalls(c) => req'[c] = req[c]
  <2>1. CASE ClientCalls(c)
    <3>1. PICK q \in plan.requests : req' = [req EXCEPT ![c] = q]
      BY <2>1 DEF ClientCalls
    <3> QED
      BY <1>2, <2>1, <3>1
  <2>2. CASE BusRefuses(c) \/ ClientTold(c)
    BY <1>2, <2>2 DEF BusRefuses, ClientTold
  <2> QED
    BY <2>1, <2>2
<1>8. DOMAIN reply' = Call /\ \A d \in Call : d # c => reply'[d] = reply[d]
  BY <1>2 DEF ClientCalls, BusRefuses, ClientTold
<1>9. WellTold(c) => WellTold(c)'
  <2>1. CASE ClientCalls(c)
    <3>1. stage'[c] = "sent"
      BY <1>2, <2>1 DEF ClientCalls
    <3> QED
      BY <3>1 DEF WellTold
  <2>2. CASE BusRefuses(c)
    <3>1. reply'[c] = Refused /\ req'[c] = req[c]
      BY <1>2, <2>2 DEF BusRefuses
    <3>2. Complete(req'[c], reply'[c])
      BY <3>1, Outcomes
    <3> QED
      BY <3>2 DEF WellTold
  <2>3. CASE ClientTold(c)
    <3>1. stage[c] = "replied" /\ reply'[c] = reply[c] /\ req'[c] = req[c]
      BY <2>3 DEF ClientTold
    <3> QED
      BY <3>1 DEF WellTold
  <2> QED
    BY <2>1, <2>2, <2>3
<1>10. \A d \in Call : WellTold(d) => WellTold(d)'
  <2>1. ASSUME NEW d \in Call, d # c, WellTold(d) PROVE WellTold(d)'
    <3>1. stage'[d] = stage[d] /\ reply'[d] = reply[d] /\ req'[d] = req[d]
      BY <1>5, <1>7, <1>8, <2>1
    <3> QED
      BY <2>1, <3>1 DEF WellTold
  <2>2. ASSUME NEW d \in Call, WellTold(d) PROVE WellTold(d)'
    <3>1. CASE d = c
      BY <1>9, <2>2, <3>1
    <3> QED
      BY <2>1, <2>2, <3>1
  <2> QED
    BY <2>2
<1>11. \A d \in Call : stage'[d] # "none" => req'[d] \in plan.requests
  BY <1>2, <1>5, <1>7
<1>12. \A d \in Call : /\ (stage'[d] = "held" <=> stage[d] = "held")
                       /\ (stage[d] = "held" => req'[d] = req[d])
  BY <1>4, <1>5, <1>7
<1>13. DOMAIN work' = Call
  BY <1>1, <1>2
<1> QED
  BY <1>1, <1>5, <1>6, <1>7, <1>8, <1>10, <1>11, <1>12, <1>13, OtherAttended

\* the inductive invariant holds at first, and each action keeps it
LEMMA CallsBegin == CallsInit => AllAttended
<1> SUFFICES ASSUME CallsInit PROVE AllAttended
  OBVIOUS
<1>1. /\ plan \in Scenarios /\ stage = [c \in Call |-> "none"]
      /\ req = [c \in Call |-> NoRequest] /\ work = [c \in Call |-> Over]
      /\ reply = [c \in Call |-> Fine] /\ idles = <<>> /\ asked = {} /\ broken = FALSE
  BY DEF CallsInit
<1>2. Ordered(idles) /\ DOMAIN idles = {}
  BY <1>1, ShortOrder
<1>3. Shape(plan, stage, req, work, reply, idles, asked)
  BY <1>1, <1>2 DEF Shape
<1>4. \A d : Tasks(idles, d) = {} /\ Asking(asked, d) = {}
  BY <1>1, <1>2 DEF Tasks, Asking
<1>5. \A d \in Call : Attended(d) /\ WellTold(d)
  BY <1>1, <1>4 DEF Attended, WellTold
<1>6. Downed
  BY <1>1 DEF Downed
<1> QED
  BY <1>1, <1>3, <1>5, <1>6, ShapedParts DEF AllAttended

LEMMA CallsKept == AllAttended /\ [CallsNext]_callVars => AllAttended'
<1> SUFFICES ASSUME AllAttended, [CallsNext]_callVars PROVE AllAttended'
  OBVIOUS
<1>1. CASE UNCHANGED callVars
  BY <1>1, AloneAttended DEF callVars
<1>2. CASE CallsNext
  <2>1. broken = FALSE
    <3>1. ~broken
      BY <1>2 DEF CallsNext, DaemonStarts, LoadsBookmark, LoadEnds, DaemonDies, FileComes,
                  RunsIdle, ClientCalls, BusRefuses, ClientTold, DaemonHandles, IsAnswered
    <3>2. broken \in BOOLEAN
      BY DEF AllAttended
    <3> QED
      BY <3>1, <3>2
  <2>2. CASE \/ DaemonStarts \/ LoadsBookmark \/ \E dated \in BOOLEAN : LoadEnds(dated)
             \/ DaemonDies \/ FileComes
    BY <2>1, <2>2, DaemonAttended
  <2>3. CASE RunsIdle
    BY <2>1, <2>3, IdleAttended
  <2>4. ASSUME NEW c \in Call, ClientCalls(c) \/ BusRefuses(c) \/ ClientTold(c)
        PROVE  AllAttended'
    BY <2>1, <2>4, ClientAttended
  <2>5. ASSUME NEW c \in Call, DaemonHandles(c) PROVE AllAttended'
    BY <2>1, <2>5, HandlesAttended
  <2>6. ASSUME NEW c \in Call, IsAnswered(c) PROVE AllAttended'
    BY <2>1, <2>6, AnsweredAttended
  <2> QED
    BY <1>2, <2>2, <2>3, <2>4, <2>5, <2>6 DEF CallsNext
<1> QED
  BY <1>1, <1>2

\* AnsweredOnce: a source calls the callback of each call once, goes on with
\* nothing that was freed, and get_metadatas that gives no error gives the
\* metadata of every object it was asked for (source-wrapper.c, the collector
\* of mafw-source.c, the closure of mafw-tracker-source-metadata.c).
THEOREM CallsAnsweredOnce == CallsSpec => []AnsweredOnce
<1>1. AllAttended => AnsweredOnce
  <2> SUFFICES ASSUME AllAttended PROVE AnsweredOnce
    OBVIOUS
  <2>1. broken => spoilt # {}
    BY DEF AllAttended
  <2>2. \A c \in Call \ spoilt : WellTold(c)
    BY DEF AllAttended
  <2>3. ASSUME NEW c \in Call, stage[c] \in {"replied", "told"}, reply[c].ok,
               req[c].op = "getall", req[c].keys # "none", c \notin spoilt
        PROVE  reply[c].got = ToSet(req[c].objs)
    BY <2>2, <2>3 DEF WellTold, Complete
  <2> QED
    BY <2>1, <2>3 DEF AnsweredOnce
<1> QED
  BY <1>1, CallsBegin, CallsKept, PTL DEF CallsSpec

=============================================================================
