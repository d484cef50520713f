------------------------------ MODULE Discovery ------------------------------
(***************************************************************************)
(* How applications come to know the extensions (sources and renderers)    *)
(* that a wrapper daemon exports, and how the daemon knows which of them   *)
(* are in use.  The daemon: mafw-registry.c, wrapper.c and                 *)
(* extension-wrapper.c; it owns a bus name for each extension in its       *)
(* registry and says hello when it takes it.  An application:              *)
(* mafw-shared.c and mafw-proxy-extension.c; it makes a proxy for each     *)
(* name it finds, asks it for its name and properties, and adds it to its  *)
(* own registry when the answers are there, until the name is given up.    *)
(* The bus takes calls and match rules in the order they are sent; a       *)
(* signal goes to those whose rules match at that time.                    *)
(* CountsAgain, MatchLate and StillWatched are wrong versions of what      *)
(* follows them.                                                           *)
(***************************************************************************)
EXTENDS Naturals, SequencesExt, FiniteSetsExt, Functions

CONSTANTS
  App,        \* applications; one that exits does not come back
  Uuid,       \* extensions the plugins of the daemon may add
  MaxEvents,  \* bound: extensions that come or go, (de)activations, exits,
              \* crashes, in all
  None        \* no extension

ASSUME DiscoveryConstants ==
  /\ IsFiniteSet(App) /\ IsFiniteSet(Uuid)
  /\ MaxEvents \in Nat /\ None \notin Uuid

VARIABLES
  up,          \* the daemon runs
  exts,        \* its registry: the extensions exported, whose names it owns
  activators,  \* source_activators: application -> extensions it activated
  refcount,    \* extension -> its mafw-refcount
  active,      \* extensions with the activate property set
  dwatch,      \* applications the daemon has a match rule for
  dbox,        \* calls and signals on their way to the daemon
  phase,       \* application -> how far mafw_shared_init is
  todo,        \* application -> names create_proxy is to be called with
  watching,    \* application -> name whose match rule is being added
  proxy,       \* application -> what the proxy of each name waits for
  registry,    \* application -> extensions with a proxy in its registry
  matches,     \* application -> its match rules for each name's loss
  inbox,       \* application -> messages on their way to it
  hasty,       \* application -> extensions that left before it knew them well
  ghosts,      \* applications that had exited when they were registered
  events       \* how much happened, see MaxEvents

daemon == <<up, exts, activators, refcount, active, dwatch>>
client == <<phase, todo, watching, proxy, registry>>
story == <<hasty, ghosts>>
vars == <<daemon, dbox, client, matches, inbox, story, events>>

Hello(u) == [what |-> "hello", u |-> u]
Gone(u) == [what |-> "gone", u |-> u]             \* NameOwnerChanged, no new owner
Answered(u) == [what |-> "answer", u |-> u]       \* or an error: only logged
Asked(c, u, what) == [what |-> what, app |-> c, u |-> u]
Exited(c) == [what |-> "exit", app |-> c, u |-> None]

Coming(c, m) == \E k \in DOMAIN inbox[c] : inbox[c][k] = m
Live(c) == phase[c] \in {"matched", "on"}
Blocked(c) == phase[c] # "on" \/ todo[c] # <<>>
Happens == events < MaxEvents /\ events' = events + 1

Init ==
  /\ up = TRUE /\ exts = {} /\ activators = [c \in App |-> {}]
  /\ refcount = [u \in Uuid |-> 0] /\ active = {} /\ dwatch = {} /\ dbox = <<>>
  /\ phase = [c \in App |-> "off"] /\ todo = [c \in App |-> <<>>]
  /\ watching = [c \in App |-> None] /\ proxy = [c \in App |-> [u \in Uuid |-> "none"]]
  /\ registry = [c \in App |-> {}] /\ matches = [c \in App |-> [u \in Uuid |-> 0]]
  /\ inbox = [c \in App |-> <<>>]
  /\ hasty = [c \in App |-> {}] /\ ghosts = {}
  /\ events = 0

-----------------------------------------------------------------------------
(* A plugin adds an extension; the wrapper takes its name and says hello.  *)
Added(u) ==
  /\ up /\ u \notin exts /\ Happens
  /\ exts' = exts \cup {u}
  /\ inbox' = [c \in App |-> IF Live(c) THEN Append(inbox[c], Hello(u)) ELSE inbox[c]]
  /\ hasty' = [c \in App |-> hasty[c] \ {u}]
  /\ UNCHANGED <<up, activators, refcount, active, dwatch, dbox, client, matches, ghosts>>

(* What the loss of the names in us does to the applications.  After the  *)
(* signals the bus answers the calls nobody will answer any more.          *)
KnownWell(c, u) == u \in registry[c] /\ matches[c][u] > 0 /\ ~Coming(c, Gone(u))
Lost(c, us) == {u \in us : Live(c) /\ matches[c][u] > 0}
Unanswered(c, calls) == {u \in Uuid : Live(c) /\ Asked(c, u, "ask") \in calls}
NamesLost(us, calls) ==
  /\ inbox' = [c \in App |-> inbox[c] \o SetToSeq({Gone(u) : u \in Lost(c, us)})
                     \o SetToSeq({Answered(u) : u \in Unanswered(c, calls)})]
  /\ hasty' = [c \in App |-> hasty[c] \cup {u \in us : ~KnownWell(c, u)}]

(* The extension goes: unexported, and forgotten by those who activated it. *)
Removed(u) ==
  /\ up /\ u \in exts /\ Happens
  /\ exts' = exts \ {u}
  /\ NamesLost({u}, {})
  /\ activators' = [c \in App |-> activators[c] \ {u}]
  /\ dwatch' = {c \in dwatch : activators'[c] # {}}
  /\ refcount' = [refcount EXCEPT ![u] = 0] /\ active' = active \ {u}
  /\ UNCHANGED <<up, dbox, client, matches, ghosts>>

(* The daemon crashes; the bus gives up its names and answers its calls.   *)
Crash ==
  /\ up /\ Happens
  /\ up' = FALSE /\ exts' = {} /\ dbox' = <<>> /\ dwatch' = {}
  /\ activators' = [c \in App |-> {}]
  /\ refcount' = [u \in Uuid |-> 0] /\ active' = {}
  /\ NamesLost(exts, Range(dbox))
  /\ UNCHANGED <<client, matches, ghosts>>

Start ==
  /\ ~up /\ up' = TRUE
  /\ UNCHANGED <<exts, activators, refcount, active, dwatch, dbox, client, matches, inbox, story, events>>

Reads(what) ==
  /\ up /\ dbox # <<>> /\ Head(dbox).what = what
  /\ dbox' = Tail(dbox)
  /\ UNCHANGED <<up, exts, client, matches, hasty, events>>

(* get_name and list_properties; an object no longer there is an error.    *)
HandleAsk ==
  /\ Reads("ask")
  /\ LET m == Head(dbox) IN
       inbox' = IF Live(m.app) THEN [inbox EXCEPT ![m.app] = Append(@, Answered(m.u))] ELSE inbox
  /\ UNCHANGED <<activators, refcount, active, dwatch, ghosts>>

CountsAgain ==
  /\ Reads("activate")
  /\ LET c == Head(dbox).app
         u == Head(dbox).u
     IN  IF u \notin exts THEN UNCHANGED <<activators, refcount, active, dwatch, ghosts>>
         ELSE /\ active' = active \cup {u}
              /\ activators' = [activators EXCEPT ![c] = @ \cup {u}]
              /\ refcount' = [refcount EXCEPT ![u] = @ + 1]
              /\ dwatch' = dwatch \cup {c}
              /\ ghosts' = IF phase[c] = "exited" /\ c \notin dwatch THEN ghosts \cup {c} ELSE ghosts
  /\ UNCHANGED inbox

(* set_property of the activate property.  The extension may refuse it.    *)
HandleActivate ==
  /\ Reads("activate")
  /\ LET c == Head(dbox).app
         u == Head(dbox).u
     IN  \/ UNCHANGED <<activators, refcount, active, dwatch, ghosts>>
         \/ /\ u \in exts
            /\ active' = active \cup {u}
            /\ activators' = [activators EXCEPT ![c] = @ \cup {u}]
            /\ refcount' = [refcount EXCEPT ![u] = IF u \in activators[c] THEN @ ELSE @ + 1]
            /\ dwatch' = dwatch \cup {c}
            /\ ghosts' = IF phase[c] = "exited" /\ c \notin dwatch THEN ghosts \cup {c} ELSE ghosts
  /\ UNCHANGED inbox

(* _unregister_client for each of us that c activated.                     *)
Unregistered(c, us) ==
  LET held == us \cap activators[c] IN
  /\ activators' = [activators EXCEPT ![c] = @ \ held]
  /\ dwatch' = IF activators'[c] = {} THEN dwatch \ {c} ELSE dwatch
  /\ refcount' = [u \in Uuid |-> IF u \in held /\ refcount[u] > 0 THEN refcount[u] - 1 ELSE refcount[u]]
  /\ active' = active \ {u \in held : refcount[u] = 1}

HandleDeactivate ==
  /\ Reads("deactivate")
  /\ Unregistered(Head(dbox).app, {Head(dbox).u} \cap exts)
  /\ UNCHANGED <<inbox, ghosts>>

_handle_client_exits ==
  /\ Reads("exit")
  /\ Unregistered(Head(dbox).app, Uuid)
  /\ UNCHANGED <<inbox, ghosts>>

DaemonServes == HandleAsk \/ HandleActivate \/ HandleDeactivate \/ _handle_client_exits

-----------------------------------------------------------------------------
MatchLate(c) ==
  /\ phase[c] = "off"
  /\ phase' = [phase EXCEPT ![c] = "listed"]
  /\ todo' = [todo EXCEPT ![c] = SetToSeq(exts)]
  /\ UNCHANGED <<daemon, dbox, watching, proxy, registry, matches, inbox, story, events>>

(* mafw_shared_init: first the rule that lets hello in, ...                *)
InitMatch(c) ==
  /\ phase[c] = "off"
  /\ phase' = [phase EXCEPT ![c] = "matched"]
  /\ UNCHANGED <<daemon, dbox, todo, watching, proxy, registry, matches, inbox, story, events>>

(* ... then the names on the bus.                                          *)
InitList(c) ==
  /\ phase[c] \in {"matched", "listed"}
  /\ phase' = [phase EXCEPT ![c] = "on"]
  /\ todo' = [todo EXCEPT ![c] = IF phase[c] = "matched" THEN SetToSeq(exts) ELSE @]
  /\ UNCHANGED <<daemon, dbox, watching, proxy, registry, matches, inbox, story, events>>

(* A call to the owner of u's name; without an owner the bus answers.      *)
Ask(c, u, box) ==
  IF u \in exts
  THEN dbox' = Append(dbox, Asked(c, u, "ask")) /\ inbox' = box
  ELSE inbox' = [box EXCEPT ![c] = Append(@, Answered(u))] /\ UNCHANGED dbox

(* create_proxy: unless there is one in the registry, a proxy is made and  *)
(* asks for the name.  One that is still being made keeps its object path, *)
(* so another is not; but the rule is added all the same.                  *)
CreateProxy(c) ==
  /\ phase[c] = "on" /\ todo[c] # <<>> /\ watching[c] = None
  /\ LET u == Head(todo[c]) IN
       IF u \in registry[c]
       THEN /\ todo' = [todo EXCEPT ![c] = Tail(@)]
            /\ UNCHANGED <<proxy, watching, inbox, dbox>>
       ELSE /\ watching' = [watching EXCEPT ![c] = u]
            /\ IF proxy[c][u] # "none" THEN UNCHANGED <<proxy, inbox, dbox>>
               ELSE proxy' = [proxy EXCEPT ![c][u] = "naming"] /\ Ask(c, u, inbox)
            /\ UNCHANGED todo
  /\ UNCHANGED <<daemon, phase, registry, matches, story, events>>

(* ... and the rule for the loss of the name, once the bus has it.         *)
AddWatch(c) ==
  /\ watching[c] # None
  /\ matches' = [matches EXCEPT ![c][watching[c]] = @ + 1]
  /\ todo' = [todo EXCEPT ![c] = Tail(@)] /\ watching' = [watching EXCEPT ![c] = None]
  /\ UNCHANGED <<daemon, dbox, phase, proxy, registry, inbox, story, events>>

Gets(c, what) ==
  /\ ~Blocked(c) /\ inbox[c] # <<>> /\ Head(inbox[c]).what = what
  /\ UNCHANGED <<daemon, phase, watching, story, events>>
Rest(c) == [inbox EXCEPT ![c] = Tail(@)]

OnHello(c) ==
  /\ Gets(c, "hello")
  /\ todo' = [todo EXCEPT ![c] = <<Head(inbox[c]).u>>] /\ inbox' = Rest(c)
  /\ UNCHANGED <<dbox, proxy, registry, matches>>

StillWatched(c) ==
  /\ Gets(c, "gone")
  /\ LET u == Head(inbox[c]).u IN
       /\ registry' = [registry EXCEPT ![c] = IF matches[c][u] > 1 THEN @ ELSE @ \ {u}]
       /\ matches' = [matches EXCEPT ![c][u] = IF @ = 0 THEN 0 ELSE @ - 1]
  /\ inbox' = Rest(c)
  /\ UNCHANGED <<dbox, todo, proxy>>

(* Only what is in the registry is removed, not a proxy being made.        *)
OnGone(c) ==
  /\ Gets(c, "gone")
  /\ LET u == Head(inbox[c]).u IN
       /\ registry' = [registry EXCEPT ![c] = @ \ {u}]
       /\ matches' = [matches EXCEPT ![c][u] = IF @ = 0 THEN 0 ELSE @ - 1]
  /\ inbox' = Rest(c)
  /\ UNCHANGED <<dbox, todo, proxy>>

(* got_name: asks for the properties, whatever the answer was.             *)
GotName(c) ==
  /\ Gets(c, "answer")
  /\ LET u == Head(inbox[c]).u IN
       /\ proxy[c][u] = "naming"
       /\ proxy' = [proxy EXCEPT ![c][u] = "listing"]
       /\ Ask(c, u, Rest(c))
  /\ UNCHANGED <<todo, registry, matches>>

(* got_prop_lists: added to the registry, whatever the answer was.         *)
GotPropLists(c) ==
  /\ Gets(c, "answer")
  /\ LET u == Head(inbox[c]).u IN
       /\ proxy[c][u] = "listing"
       /\ proxy' = [proxy EXCEPT ![c][u] = "none"]
       /\ registry' = [registry EXCEPT ![c] = @ \cup {u}]
  /\ inbox' = Rest(c)
  /\ UNCHANGED <<dbox, todo, matches>>

MainLoop(c) ==
  \/ InitList(c) \/ CreateProxy(c) \/ AddWatch(c)
  \/ OnHello(c) \/ OnGone(c) \/ GotName(c) \/ GotPropLists(c)

(* The application activates an extension it knows, or no longer needs it. *)
SetActive(c) ==
  /\ ~Blocked(c) /\ Happens
  /\ \E u \in registry[c], what \in {"activate", "deactivate"} :
       dbox' = IF u \in exts THEN Append(dbox, Asked(c, u, what)) ELSE dbox
  /\ UNCHANGED <<daemon, client, matches, inbox, story>>

Exit(c) ==
  /\ phase[c] = "on" /\ Happens
  /\ phase' = [phase EXCEPT ![c] = "exited"]
  /\ todo' = [todo EXCEPT ![c] = <<>>] /\ watching' = [watching EXCEPT ![c] = None]
  /\ proxy' = [proxy EXCEPT ![c] = [u \in Uuid |-> "none"]]
  /\ registry' = [registry EXCEPT ![c] = {}] /\ matches' = [matches EXCEPT ![c] = [u \in Uuid |-> 0]]
  /\ inbox' = [inbox EXCEPT ![c] = <<>>]
  /\ dbox' = IF c \in dwatch THEN Append(dbox, Exited(c)) ELSE dbox
  /\ UNCHANGED <<daemon, story>>

Next ==
  \/ \E u \in Uuid : Added(u) \/ Removed(u)
  \/ Crash \/ Start \/ DaemonServes
  \/ \E c \in App : InitMatch(c) \/ MainLoop(c) \/ SetActive(c) \/ Exit(c)

Spec == Init /\ [][Next]_vars

(* The daemon serves its messages and an application runs its main loop.   *)
FairSpec == Spec /\ WF_vars(DaemonServes) /\ \A c \in App : WF_vars(MainLoop(c))

-----------------------------------------------------------------------------
(* The state has its types.                                                *)
Signals == [what : {"hello", "gone", "answer"}, u : Uuid]
Calls   == [what : {"ask", "activate", "deactivate"}, app : App, u : Uuid]
           \cup {Exited(c) : c \in App}
TypeOK ==
  /\ up \in BOOLEAN /\ exts \subseteq Uuid /\ active \subseteq exts /\ dwatch \subseteq App
  /\ activators \in [App -> SUBSET exts] /\ refcount \in [Uuid -> Nat]
  /\ dbox \in Seq(Calls) /\ inbox \in [App -> Seq(Signals)]
  /\ phase \in [App -> {"off", "matched", "on", "exited"}]
  /\ todo \in [App -> Seq(Uuid)] /\ watching \in [App -> Uuid \cup {None}]
  /\ proxy \in [App -> [Uuid -> {"none", "naming", "listing"}]]
  /\ registry \in [App -> SUBSET Uuid] /\ matches \in [App -> [Uuid -> Nat]]
  /\ \A c \in App : watching[c] # None =>
       phase[c] = "on" /\ todo[c] # <<>> /\ watching[c] = Head(todo[c])
  /\ hasty \in [App -> SUBSET Uuid] /\ ghosts \subseteq App
  /\ events \in 0..MaxEvents
  /\ ~up => exts = {} /\ dbox = <<>> /\ dwatch = {}

(* An extension that stays is found by every application that runs,        *)
(* whether it came before, during or after mafw_shared_init.               *)
Found ==
  \A c \in App, u \in Uuid :
    u \in exts /\ Live(c) ~> u \in registry[c] \/ u \notin exts \/ ~Live(c)

(* An application keeps the proxy of an extension that has left only if    *)
(* it left before the application had added the proxy and its match rule;  *)
(* otherwise the word is on its way.                                       *)
StaleOnlyIfHasty ==
  \A c \in App : \A u \in registry[c] \ exts : Coming(c, Gone(u)) \/ u \in hasty[c]

(* An extension is active exactly while some application has activated it, *)
(* and what an application activated is deactivated when it exits, unless  *)
(* its request was handled only after it had exited.                       *)
ActiveIfActivated ==
  /\ \A u \in Uuid :
       /\ refcount[u] = Cardinality({c \in App : u \in activators[c]})
       /\ u \in active <=> refcount[u] > 0
  /\ \A c \in App :
       phase[c] = "exited" /\ activators[c] # {} =>
         \/ \E k \in DOMAIN dbox : dbox[k] = Exited(c)
         \/ c \in ghosts
=============================================================================
