--------------------------- MODULE PlaylistManager ---------------------------
(***************************************************************************)
(* The playlists of the framework, as every application sees them: the     *)
(* playlist manager of the daemon (playlist-manager-wrapper.c), which      *)
(* creates, destroys, duplicates, lists and imports playlists, and the     *)
(* manager object of each application (mafw-playlist-manager.c), which     *)
(* keeps a table of the playlists it has discovered.  They talk over       *)
(* D-Bus: calls reach the daemon in one queue; its signals, messages and   *)
(* replies reach an application in the order sent, but an application      *)
(* blocked in a call takes the reply and leaves what came before it on     *)
(* the bus.                                                                *)
(* What a playlist holds, and how it is saved, is in PlaylistStore; here a *)
(* restart of the daemon keeps any subset of the playlists.                *)
(* AlwaysSignals, LosesFailure, Always and KeepsHeld are wrong versions of *)
(* what follows them.                                                      *)
(***************************************************************************)
EXTENDS Naturals, SequencesExt, FiniteSetsExt, Functions

CONSTANTS
  App,        \* applications, each with its manager
  Base,       \* names applications give, and URIs they import
  Loaded,     \* playlists found on disk at the first start, id -> name
  MaxCalls,   \* bound: what applications do, time outs and restarts, in all
  MaxStarts,  \* bound: restarts of the daemon
  NoList,     \* no playlist: an error instead of an id
  NoCall      \* not blocked in a call

\* the calls an application may be blocked in
Blocking == {"create", "dup", "get", "list", "import", "cancel"}

ASSUME ManagerConstants ==
  /\ MaxCalls \in Nat /\ MaxStarts \in Nat
  /\ NoList \notin Nat /\ NoCall \notin Blocking \cup {"resync"}
  /\ IsFiniteSet(DOMAIN Loaded)
  /\ DOMAIN Loaded \subseteq Nat \ {0}

Id == 1..(Max(DOMAIN Loaded \cup {0}) + MaxCalls)
ImportId == 1..MaxCalls
Name == Base \X (0..MaxCalls)

VARIABLES
  lists,       \* Playlists and Playlists_by_name: id -> name
  lastId,      \* Last_id
  imports,     \* import_requests of the daemon: id -> whose, and how far
  lastImport,  \* next_id of get_next_import_id
  table,       \* application -> ids of priv->playlists, in order
  held,        \* application -> playlists it has a reference to
  requests,    \* application -> its import_requests
  waiting,     \* application -> the call it is blocked in, or NoCall
  calls,       \* calls on their way to the daemon
  inbox,       \* application -> what is on its way to it
  told,        \* application -> how often it was told of each playlist
  answers,     \* application -> how often each import called back
  cancelled,   \* application -> imports it cancelled
  made,        \* how much of that so far
  starts       \* restarts so far

daemon == <<lists, lastId, imports, lastImport>>
client == <<table, held, requests, waiting>>
story == <<told, answers, cancelled, made, starts>>
vars == <<daemon, client, calls, inbox, story>>

Created(p) == [what |-> "created", id |-> p]
Destroyed(p) == [what |-> "destroyed", id |-> p]
DestructionFailed(p) == [what |-> "failed", id |-> p]
Imported(i, p) == [what |-> "imported", import |-> i, id |-> p]
Reply(ids) == [what |-> "reply", ok |-> TRUE, ids |-> ids]
ErrorReply == [what |-> "reply", ok |-> FALSE, ids |-> <<>>]
OwnerChanged == [what |-> "owner"]

(* Each thing an application does is counted, and so is what goes wrong.   *)
Counts == made < MaxCalls /\ made' = made + 1

Broadcast(box, m) == [a \in App |-> Append(box[a], m)]
ToApp(box, a, m) == [box EXCEPT ![a] = Append(@, m)]
(* The reply to call c; nobody waits for it any more if it timed out.      *)
Answer(box, c, m) == IF c.reply THEN ToApp(box, c.app, m) ELSE box

Init ==
  /\ lists = Loaded
  /\ lastId = Max(DOMAIN Loaded \cup {0}) + 1
  /\ imports = <<>> /\ lastImport = 0
  /\ table = [a \in App |-> <<>>]
  /\ held = [a \in App |-> {}] /\ requests = [a \in App |-> {}]
  /\ waiting = [a \in App |-> NoCall]
  /\ calls = <<>> /\ inbox = [a \in App |-> <<>>]
  /\ told = [a \in App |-> [what \in {"created", "destroyed"} |-> [p \in Id |-> 0]]]
  /\ answers = [a \in App |-> [i \in ImportId |-> 0]]
  /\ cancelled = [a \in App |-> {}]
  /\ made = 0 /\ starts = 0

-----------------------------------------------------------------------------
(* The daemon serves the calls one by one.                                 *)
Serves(op) == calls # <<>> /\ Head(calls).op = op
Served(box) ==
  /\ calls' = Tail(calls) /\ inbox' = box
  /\ UNCHANGED <<client, story>>

With(f, x, v) == [y \in DOMAIN f \cup {x} |-> IF y = x THEN v ELSE f[y]]

NewList(name) ==
  /\ lists' = With(lists, lastId, name)
  /\ lastId' = lastId + 1
Named(name) == {p \in DOMAIN lists : lists[p] = name}

AlwaysSignals ==
  /\ Serves("create")
  /\ LET c == Head(calls)
         same == Named(c.arg)
     IN  IF same # {}
         THEN \E p \in same :
                /\ Served(Answer(Broadcast(inbox, Created(p)), c, Reply(<<p>>)))
                /\ UNCHANGED <<lists, lastId>>
         ELSE /\ Served(Answer(Broadcast(inbox, Created(lastId)), c, Reply(<<lastId>>)))
              /\ NewList(c.arg)
  /\ UNCHANGED <<imports, lastImport>>

HandleCreate ==
  /\ Serves("create")
  /\ LET c == Head(calls)
         same == Named(c.arg)
     IN  IF same # {}
         THEN \E p \in same :
                Served(Answer(inbox, c, Reply(<<p>>))) /\ UNCHANGED <<lists, lastId>>
         ELSE /\ Served(Answer(Broadcast(inbox, Created(lastId)), c, Reply(<<lastId>>)))
              /\ NewList(c.arg)
  /\ UNCHANGED <<imports, lastImport>>

(* Whether a renderer uses the playlist is not modelled here: it may.      *)
HandleDestroy ==
  /\ Serves("destroy")
  /\ LET c == Head(calls) IN
       IF c.arg \notin DOMAIN lists
       THEN Served(inbox) /\ UNCHANGED lists
       ELSE \/ /\ Served(Broadcast(inbox, DestructionFailed(c.arg)))
               /\ UNCHANGED lists
            \/ /\ Served(Broadcast(inbox, Destroyed(c.arg)))
               /\ lists' = Restrict(lists, DOMAIN lists \ {c.arg})
  /\ UNCHANGED <<lastId, imports, lastImport>>

HandleDup ==
  /\ Serves("dup")
  /\ LET c == Head(calls) IN
       IF Named(c.arg.name) # {} \/ c.arg.id \notin DOMAIN lists
       THEN Served(Answer(inbox, c, ErrorReply)) /\ UNCHANGED <<lists, lastId>>
       ELSE /\ Served(Answer(Broadcast(inbox, Created(lastId)), c, Reply(<<lastId>>)))
            /\ NewList(c.arg.name)
  /\ UNCHANGED <<imports, lastImport>>

InOrder(S) == {ids \in [1 .. Cardinality(S) -> S] :
                 \A j, k \in 1 .. Cardinality(S) : j < k => ids[j] < ids[k]}

(* All ids in the order of the tree, or the one asked for if it exists.    *)
HandleList ==
  /\ \/ /\ Serves("list")
        /\ \E ids \in InOrder(DOMAIN lists) : Served(Answer(inbox, Head(calls), Reply(ids)))
     \/ /\ Serves("get")
        /\ LET c == Head(calls) IN
             Served(Answer(inbox, c, Reply(IF c.arg \in DOMAIN lists THEN <<c.arg>> ELSE <<>>)))
  /\ UNCHANGED daemon

(* The name of an imported playlist: its URI, numbered until it is free.   *)
FreeName(b) == <<b, Min({n \in 0..MaxCalls : Named(<<b, n>>) = {}})>>

(* import_done without an error: the application first, then everybody.    *)
ImportDone(box, a, i, b) ==
  /\ NewList(FreeName(b))
  /\ inbox' = Broadcast(ToApp(box, a, Imported(i, lastId)), Created(lastId))

ImportFailed(box, a, i) ==
  /\ inbox' = ToApp(box, a, Imported(i, NoList))
  /\ UNCHANGED <<lists, lastId>>

(* A plain URI is read at once, so its messages come before the reply; an  *)
(* object id is looked up in its source.                                   *)
HandleImport ==
  /\ Serves("import")
  /\ calls' = Tail(calls) /\ lastImport' = lastImport + 1
  /\ LET c == Head(calls)
         i == lastImport + 1
     IN  \/ /\ imports' = With(imports, i, [app |-> c.app, uri |-> c.arg, st |-> "metadata"])
            /\ inbox' = Answer(inbox, c, Reply(<<i>>))
            /\ UNCHANGED <<lists, lastId>>
         \/ \* no such source, or not a playlist file
            /\ inbox' = Answer(inbox, c, ErrorReply)
            /\ UNCHANGED <<lists, lastId, imports>>
         \/ /\ NewList(FreeName(c.arg))
            /\ inbox' = Answer(Broadcast(ToApp(inbox, c.app, Imported(i, lastId)), Created(lastId)), c, Reply(<<i>>))
            /\ UNCHANGED imports
  /\ UNCHANGED <<client, story>>

(* A browse is cancelled at its source and the request is left as it is;   *)
(* while the metadata are waited for only a flag is set.                   *)
HandleCancelImport ==
  /\ Serves("cancel")
  /\ LET c == Head(calls) IN
       IF c.arg \notin DOMAIN imports
       THEN Served(Answer(inbox, c, ErrorReply)) /\ UNCHANGED imports
       ELSE /\ Served(Answer(inbox, c, Reply(<<c.arg>>)))
            /\ imports' = [imports EXCEPT ![c.arg].st =
                             IF @ = "browse" THEN "stopped"
                             ELSE IF @ = "metadata" THEN "dropped" ELSE @]
  /\ UNCHANGED <<lists, lastId, lastImport>>

DaemonServes ==
  \/ HandleCreate \/ HandleDestroy \/ HandleDup \/ HandleList
  \/ HandleImport \/ HandleCancelImport

Forget(i) == imports' = Restrict(imports, DOMAIN imports \ {i})
Aside == UNCHANGED <<lastImport, client, calls, story>>

LosesFailure(i) ==
  /\ imports[i].st \in {"metadata", "dropped"}
  /\ \/ Forget(i) /\ UNCHANGED <<lists, lastId, inbox>>
     \/ /\ imports[i].st = "metadata" /\ Forget(i)
        /\ ImportDone(inbox, imports[i].app, i, imports[i].uri)
     \/ /\ imports[i].st = "metadata"
        /\ imports' = [imports EXCEPT ![i].st = "browse"]
        /\ UNCHANGED <<lists, lastId, inbox>>
  /\ Aside

(* mdata_res_cb: nothing is said of a cancelled import; otherwise it fails, *)
(* is a file which is read, or is a container which is browsed.            *)
MetadataAnswer(i) ==
  /\ imports[i].st \in {"metadata", "dropped"}
  /\ \/ /\ imports[i].st = "dropped" /\ Forget(i)
        /\ UNCHANGED <<lists, lastId, inbox>>
     \/ /\ imports[i].st = "metadata" /\ Forget(i)
        /\ \/ ImportFailed(inbox, imports[i].app, i)
           \/ ImportDone(inbox, imports[i].app, i, imports[i].uri)
     \/ /\ imports[i].st = "metadata"
        /\ imports' = [imports EXCEPT ![i].st = "browse"]
        /\ UNCHANGED <<lists, lastId, inbox>>
  /\ Aside

(* browse_res_cb, called for the last time or with an error.               *)
BrowseEnds(i) ==
  /\ imports[i].st = "browse" /\ Forget(i)
  /\ \/ ImportFailed(inbox, imports[i].app, i)
     \/ ImportDone(inbox, imports[i].app, i, imports[i].uri)
  /\ Aside

(* A source may still end a browse that was cancelled, as the UPnP source  *)
(* does; the others do not, and the request stays.                         *)
StoppedBrowseEnds(i) ==
  /\ imports[i].st = "stopped" /\ Forget(i)
  /\ ImportDone(inbox, imports[i].app, i, imports[i].uri)
  /\ Aside

(* The daemon dies and is started again, with some of its playlists.       *)
Restart ==
  /\ Counts /\ starts < MaxStarts /\ starts' = starts + 1
  /\ \E kept \in SUBSET DOMAIN lists :
       /\ lists' = Restrict(lists, kept)
       /\ lastId' = Max(kept \cup {0}) + 1
  /\ imports' = <<>> /\ lastImport' = 0 /\ calls' = <<>>
  /\ inbox' = [a \in App |->
       Append(IF \E k \in DOMAIN calls : calls[k].app = a /\ calls[k].reply
              THEN Append(inbox[a], ErrorReply) ELSE inbox[a],
              OwnerChanged)]
  /\ UNCHANGED <<client, told, answers, cancelled>>

-----------------------------------------------------------------------------
(* An application makes a call; it is blocked until it is answered, or it  *)
(* gives up.  destroy_playlist does not wait.                              *)
Calls(a, op, arg, reply) ==
  /\ Counts /\ waiting[a] = NoCall
  /\ calls' = Append(calls, [app |-> a, op |-> op, arg |-> arg, reply |-> reply])
  /\ waiting' = [waiting EXCEPT ![a] = IF reply THEN op ELSE NoCall]
  /\ UNCHANGED <<daemon, table, inbox, told, answers, starts>>

CreatePlaylist(a) ==
  \E b \in Base : Calls(a, "create", <<b, 0>>, TRUE) /\ UNCHANGED <<held, requests, cancelled>>

DestroyPlaylist(a) ==
  \E p \in held[a] :
    /\ Calls(a, "destroy", p, FALSE)
    /\ held' = [held EXCEPT ![a] = @ \ {p}]
    /\ UNCHANGED <<requests, cancelled>>

DupPlaylist(a) ==
  \E p \in held[a], b \in Base :
    /\ Calls(a, "dup", [id |-> p, name |-> <<b, 0>>], TRUE)
    /\ UNCHANGED <<held, requests, cancelled>>

GetPlaylists(a) ==
  Calls(a, "list", NoList, TRUE) /\ UNCHANGED <<held, requests, cancelled>>

(* A playlist that is in the table is given at once, without a call.       *)
GetPlaylist(a) ==
  \E p \in 1..(lastId - 1) :
    IF p \in Range(table[a])
    THEN /\ Counts /\ waiting[a] = NoCall /\ p \notin held[a]
         /\ held' = [held EXCEPT ![a] = @ \cup {p}]
         /\ UNCHANGED <<daemon, table, requests, waiting, calls, inbox, told, answers, cancelled, starts>>
    ELSE Calls(a, "get", p, TRUE) /\ UNCHANGED <<held, requests, cancelled>>

Import(a) ==
  \E b \in Base : Calls(a, "import", b, TRUE) /\ UNCHANGED <<held, requests, cancelled>>

(* The request is forgotten before the daemon is told.                     *)
CancelImport(a) ==
  \E i \in requests[a] :
    /\ Calls(a, "cancel", i, TRUE)
    /\ requests' = [requests EXCEPT ![a] = @ \ {i}]
    /\ cancelled' = [cancelled EXCEPT ![a] = @ \cup {i}]
    /\ UNCHANGED held

Release(a) ==
  \E p \in held[a] :
    /\ Counts /\ waiting[a] = NoCall
    /\ held' = [held EXCEPT ![a] = @ \ {p}]
    /\ UNCHANGED <<daemon, table, requests, waiting, calls, inbox, told, answers, cancelled, starts>>

AppActs(a) ==
  \/ CreatePlaylist(a) \/ DestroyPlaylist(a) \/ DupPlaylist(a) \/ GetPlaylists(a)
  \/ GetPlaylist(a) \/ Import(a) \/ CancelImport(a) \/ Release(a)

register_playlist(t, p) == IF p \in Range(t) THEN t ELSE Append(t, p)
Registered(t, ids) ==
  LET after[n \in 0 .. Len(ids)] ==
        IF n = 0 THEN t ELSE register_playlist(after[n - 1], ids[n])
  IN  after[Len(ids)]

(* Only the first place of p is given up.                                  *)
Unregistered(t, p) ==
  IF p \in Range(t) THEN RemoveAt(t, Min({k \in DOMAIN t : t[k] = p})) ELSE t

(* NameOwnerChanged: what the daemon does not list any more is removed.    *)
(* The loop compares its own index into the array of ids, not the inner    *)
(* one; past the end it may find anything, so that pick says what it finds; *)
(* and it goes on after the place of what it removed.                      *)
Listed(ids, pick, i, p) == ids # <<>> /\ IF i \in DOMAIN ids THEN ids[i] = p ELSE pick[i]
Resync(t, ids, pick) ==
  FoldLeft(LAMBDA x, n :
             IF x.i > Len(x.t) THEN x
             ELSE IF Listed(ids, pick, x.i, x.t[x.i]) THEN [x EXCEPT !.i = @ + 1]
             ELSE [t |-> RemoveAt(x.t, x.i), i |-> x.i + 1, gone |-> x.gone \cup {x.t[x.i]}],
           [t |-> t, i |-> 1, gone |-> {}], t)

Tell(a, what, ps) ==
  told' = [told EXCEPT ![a][what] = [p \in Id |-> IF p \in ps THEN Min({@[p] + 1, 2}) ELSE @[p]]]

(* The blocking call returns with what the reply lists, if anything.       *)
Returns(a) ==
  \E k \in DOMAIN inbox[a] :
    LET m == inbox[a][k] IN
    /\ waiting[a] # NoCall /\ m.what = "reply"
    /\ inbox' = [inbox EXCEPT ![a] = RemoveAt(@, k)]
    /\ waiting' = [waiting EXCEPT ![a] = NoCall]
    /\ CASE waiting[a] \in {"create", "dup", "get", "list"} ->
              /\ table' = [table EXCEPT ![a] = Registered(@, m.ids)]
              /\ held' = [held EXCEPT ![a] = IF waiting[a] = "list" THEN @ ELSE @ \cup Range(m.ids)]
              /\ UNCHANGED <<requests, told>>
         [] waiting[a] = "import" ->
              /\ requests' = [requests EXCEPT ![a] = @ \cup Range(m.ids)]
              /\ UNCHANGED <<table, held, told>>
         [] waiting[a] = "resync" /\ m.ok ->
              \E pick \in [DOMAIN table[a] -> BOOLEAN] :
                LET r == Resync(table[a], m.ids, pick) IN
                /\ table' = [table EXCEPT ![a] = r.t]
                /\ Tell(a, "destroyed", r.gone \cap held[a])
                /\ UNCHANGED <<held, requests>>
         [] OTHER -> UNCHANGED <<table, held, requests, told>>
    /\ UNCHANGED <<daemon, calls, answers, cancelled, made, starts>>

(* The call times out before the daemon has come to it.                    *)
TimesOut(a) ==
  /\ Counts
  /\ \E k \in DOMAIN calls :
       /\ calls[k].app = a /\ calls[k].reply
       /\ calls' = [calls EXCEPT ![k].reply = FALSE]
  /\ waiting' = [waiting EXCEPT ![a] = NoCall]
  /\ UNCHANGED <<daemon, table, held, requests, inbox, told, answers, cancelled, starts>>

Always(a) == TRUE
MayDispatch(a) == waiting[a] = NoCall

Gets(a, what) ==
  /\ MayDispatch(a) /\ inbox[a] # <<>> /\ Head(inbox[a]).what = what
  /\ inbox' = [inbox EXCEPT ![a] = Tail(@)]

OnCreated(a) ==
  /\ Gets(a, "created")
  /\ LET p == Head(inbox[a]).id IN
       /\ table' = [table EXCEPT ![a] = register_playlist(@, p)]
       /\ Tell(a, "created", {p})
  /\ UNCHANGED <<daemon, held, requests, waiting, calls, answers, cancelled, made, starts>>

KeepsHeld(a) ==
  /\ Gets(a, "destroyed")
  /\ LET p == Head(inbox[a]).id IN
       /\ table' = [table EXCEPT ![a] = IF p \in held[a] THEN @ ELSE Unregistered(@, p)]
       /\ Tell(a, "destroyed", {p} \cap held[a])
  /\ UNCHANGED <<daemon, held, requests, waiting, calls, answers, cancelled, made, starts>>

(* Only an application that has a reference of its own is told.            *)
OnDestroyed(a) ==
  /\ Gets(a, "destroyed")
  /\ LET p == Head(inbox[a]).id IN
       /\ table' = [table EXCEPT ![a] = Unregistered(@, p)]
       /\ Tell(a, "destroyed", {p} \cap Range(table[a]) \cap held[a])
  /\ UNCHANGED <<daemon, held, requests, waiting, calls, answers, cancelled, made, starts>>

OnFailed(a) ==
  Gets(a, "failed") /\ UNCHANGED <<daemon, client, calls, story>>

(* An import the application does not know of, or no more, is ignored.     *)
OnImported(a) ==
  /\ Gets(a, "imported")
  /\ LET m == Head(inbox[a]) IN
       IF m.import \notin requests[a] THEN UNCHANGED <<table, requests, answers>>
       ELSE /\ table' = [table EXCEPT ![a] = IF m.id = NoList THEN @ ELSE register_playlist(@, m.id)]
            /\ answers' = [answers EXCEPT ![a][m.import] = @ + 1]
            /\ requests' = [requests EXCEPT ![a] = @ \ {m.import}]
  /\ UNCHANGED <<daemon, held, waiting, calls, told, cancelled, made, starts>>

(* The handler asks the new daemon for its playlists, blocked in a call.   *)
OnOwner(a) ==
  /\ Gets(a, "owner")
  /\ calls' = Append(calls, [app |-> a, op |-> "list", arg |-> NoList, reply |-> TRUE])
  /\ waiting' = [waiting EXCEPT ![a] = "resync"]
  /\ UNCHANGED <<daemon, table, held, requests, story>>

Dispatch(a) ==
  \/ OnCreated(a) \/ OnDestroyed(a) \/ OnFailed(a) \/ OnImported(a) \/ OnOwner(a)

SourceAnswers == \E i \in DOMAIN imports : MetadataAnswer(i) \/ BrowseEnds(i)
MainLoop(a) == Returns(a) \/ Dispatch(a)

Next ==
  \/ DaemonServes \/ Restart
  \/ SourceAnswers \/ \E i \in DOMAIN imports : StoppedBrowseEnds(i)
  \/ \E a \in App : AppActs(a) \/ TimesOut(a) \/ MainLoop(a)

Spec == Init /\ [][Next]_vars

(* The daemon serves its queue, a source answers what it was asked (but    *)
(* need not end a browse it was told to cancel), and an application's main *)
(* loop takes what comes.                                                  *)
Fairness ==
  /\ WF_vars(DaemonServes) /\ WF_vars(SourceAnswers)
  /\ \A a \in App : WF_vars(MainLoop(a))
FairSpec == Spec /\ Fairness

-----------------------------------------------------------------------------
IsMessage(m) ==
  CASE m.what \in {"created", "destroyed", "failed"} -> m.id \in Id
    [] m.what = "imported" -> m.import \in ImportId /\ m.id \in Id \cup {NoList}
    [] m.what = "reply" -> m.ok \in BOOLEAN /\ Range(m.ids) \subseteq Nat
    [] OTHER -> m = OwnerChanged

(* The state has its types; a table has each playlist once, so a playlist  *)
(* is always the same object; only the blocked call has a reply coming.    *)
TypeOK ==
  /\ DOMAIN lists \subseteq Id /\ Range(lists) \subseteq Name
  /\ lastId \in 1..(Max(Id) + 1) /\ lastImport \in 0..MaxCalls
  /\ DOMAIN imports \subseteq ImportId
  /\ \A i \in DOMAIN imports :
       imports[i] \in [app : App, uri : Base, st : {"metadata", "dropped", "browse", "stopped"}]
  /\ \A a \in App :
       /\ Range(table[a]) \subseteq Id /\ IsInjective(table[a])
       /\ held[a] \subseteq Id /\ requests[a] \subseteq ImportId /\ cancelled[a] \subseteq ImportId
       /\ waiting[a] \in Blocking \cup {NoCall, "resync"}
       /\ \A k \in DOMAIN inbox[a] : IsMessage(inbox[a][k])
       /\ Cardinality({k \in DOMAIN inbox[a] : inbox[a][k].what = "reply"})
            + Cardinality({k \in DOMAIN calls : calls[k].app = a /\ calls[k].reply})
          = IF waiting[a] = NoCall THEN 0 ELSE 1

Coming(a, m) == \E k \in DOMAIN inbox[a] : inbox[a][k] = m

(* A table holds no playlist that is gone, unless the word of it, or of    *)
(* the daemon's restart, is on its way or being dealt with: "nonexisting   *)
(* ones should not remain here for long times" (mafw-playlist-manager.c).  *)
NothingDeadKept ==
  \A a \in App : \A p \in Range(table[a]) :
    \/ p \in DOMAIN lists
    \/ Coming(a, Destroyed(p)) \/ Coming(a, OwnerChanged)
    \/ waiting[a] = "resync"

(* The same while the daemon has not been restarted.                       *)
NothingDeadKeptYet == starts = 0 => NothingDeadKept

(* However many applications create, duplicate, import and destroy the     *)
(* same playlists, each is told exactly once of a playlist that is made    *)
(* (or the word is on its way), and at most once that one is destroyed,    *)
(* which it then is; exactly once if it has a reference to it.  This as    *)
(* long as the daemon is not restarted, which numbers its playlists anew.  *)
ToldOnce ==
  starts = 0 => \A a \in App, p \in Id :
    /\ told[a]["created"][p] <= 1 /\ told[a]["destroyed"][p] <= 1
    /\ p \in DOMAIN lists \ DOMAIN Loaded =>
         (told[a]["created"][p] = 0 <=> Coming(a, Created(p)))
    /\ told[a]["destroyed"][p] = 1 => p \notin DOMAIN lists /\ p \notin Range(table[a])
    /\ p \in held[a] \ DOMAIN lists =>
         told[a]["destroyed"][p] = 1 \/ Coming(a, Destroyed(p))

(* An import an application waits for is still worked on, or its answer is *)
(* on its way; it calls back once at most, and never once cancelled.  A    *)
(* restarted daemon has forgotten the imports.                             *)
ImportComing ==
  starts = 0 => \A a \in App, i \in ImportId :
    /\ i \in requests[a] =>
         \/ i \in DOMAIN imports /\ imports[i].app = a /\ imports[i].st \in {"metadata", "browse"}
         \/ \E k \in DOMAIN inbox[a] : inbox[a][k].what = "imported" /\ inbox[a][k].import = i
    /\ answers[a][i] <= 1
    /\ i \in cancelled[a] => answers[a][i] = 0

(* Every import that is not cancelled calls back.                          *)
ImportEnds ==
  \A a \in App, i \in ImportId : i \in requests[a] ~> i \notin requests[a] \/ starts > 0
=============================================================================
