----------------------------- MODULE SourceCalls -----------------------------
(***************************************************************************)
(* Calls of a source that answer once, from a client's call of the proxy   *)
(* (mafw-proxy-source.c) through D-Bus and the wrapper (source-wrapper.c)  *)
(* to the source of one plugin, and back.  The daemon may crash at any     *)
(* time and be started again; the radio stations are on disk.              *)
(*                                                                         *)
(* The wrapper keeps, for each call, what it needs for the reply, and      *)
(* frees it when the source calls the callback: what happens when a freed  *)
(* reply or a freed operation of the source is used is not modelled, the   *)
(* behaviour ends there with broken.  That the client stops waiting for a  *)
(* reply after a time is left out.                                         *)
(***************************************************************************)
EXTENDS IradioStore, UpnpCalls, TrackerCalls

CONSTANTS
  Call,       \* the calls the clients may make
  MaxFiles,   \* bound: songs of an artist
  Scenarios   \* what may happen in one behaviour, a record of the source
    \* (its plugin), the requests that may be made, the number of calls, the
    \* versions of the vendor's file, and the faults: "crash", "dbfail": a
    \* statement of the database fails

\* the objects whose metadata is asked for
Wanted(q) == IF q.op = "getall" THEN q.objs ELSE <<q.obj>>

\* what a client may ask for of a source; Over is none of the operations
Proper(source, q) ==
  /\ q.op \in {"get", "getall", "set", "create", "destroy"}
  /\ q.op \in {"get", "getall"} =>
       /\ Wanted(q) \in Seq(ToSet(Wanted(q))) /\ Len(Wanted(q)) < UintMod
       /\ source = "tracker" => /\ q.keys \in {"known", "unknown", "none"}
                                /\ \A o \in ToSet(Wanted(q)) : Category(o) \in Kind
       /\ Over \notin Metadatas(ToSet(Wanted(q))) \cup Commons(ToSet(Wanted(q)))

ASSUME ScenarioAssumption ==
  /\ \A p \in Scenarios : /\ p.source \in {"iradio", "upnp", "tracker"}
                          /\ \A q \in p.requests : Proper(p.source, q)
  /\ Over \notin Removals /\ MaxDidl \in Nat /\ MaxFiles \in Nat

VARIABLES
  plan,     \* one of Scenarios
  daemonIs, \* of the daemon: "down", "loading" the vendor's file, "up"
  stage,    \* call -> "none", "sent", "held" by the wrapper, "replied", "told"
  req,      \* call -> what is asked for
  work,     \* call -> the operation of the source
  reply,    \* call -> what the client is told
  idles,    \* idle functions of the daemon's main loop
  asked,    \* questions other processes have not answered yet
  db,       \* the radio stations
  file,     \* the version of the vendor's file that is there, 0 for none
  load,     \* its loading
  broken,   \* something freed was used
  spoilt    \* history: calls met by what a source does not handle

iradio == <<db, file, load>>
callVars == <<plan, daemonIs, stage, req, work, reply, idles, asked, iradio, broken,
          spoilt>>

NoRequest == [op |-> "none"]

\* the start of a daemon
Starts ==
  /\ idles' = <<>> /\ asked' = {}
  /\ work' = [c \in Call |-> Over]

CallsInit ==
  /\ plan \in Scenarios
  /\ daemonIs = "down"
  /\ stage = [c \in Call |-> "none"] /\ req = [c \in Call |-> NoRequest]
  /\ work = [c \in Call |-> Over] /\ reply = [c \in Call |-> Fine]
  /\ idles = <<>> /\ asked = {}
  /\ db = EmptyDb /\ file = 0 /\ load = NotLoading
  /\ broken = FALSE /\ spoilt = {}

-----------------------------------------------------------------------------
(* The sources.  A handler gives results, as those of IradioStore: what    *)
(* it makes of the stations and its reaction.                              *)

Leaves(rs) == {Result(db, r) : r \in rs}
Fails == "dbfail" \in plan.faults

\* the destroy functions waiting for object i
Destroying(i) == \E j \in DOMAIN idles :
                   idles[j].task.kind = "destroy" /\ i \in idles[j].task.objs

IradioHandles(c, q) ==
  CASE q.op = "get"     -> Leaves({get_metadata(q.obj)})
    [] q.op = "getall"  -> Leaves({GetMetadatas(q.objs,
                             [i \in ToSet(q.objs) |-> get_metadata(i)])})
    [] q.op = "set"     -> set_metadata(db, q.obj, q.keys, q.uri, Fails)
    [] q.op = "create"  -> create_object(db, c, q.uri, Fails)
    [] q.op = "destroy" ->
         LET i == q.obj IN
         destroy_object(db, i, IF i \in ObjectId THEN db.made[i] ELSE Nobody,
                        Destroying(i))

UpnpHandles(q) ==
  CASE q.op = "get"    -> UpnpGets(q.obj, q.keys)
    [] q.op = "getall" -> GetMetadatas(q.objs,
                            [o \in ToSet(q.objs) |-> UpnpGets(o, q.keys)])
    [] q.op \in {"set", "create", "destroy"} -> Unsupported

TrackerHandles(q) ==
  CASE q.op = "get"     -> TrackerGets(<<q.obj>>, q.keys)
    [] q.op = "getall"  -> TrackerGets(q.objs, q.keys)
    [] q.op = "set"     -> TrackerSets(q.obj)
    [] q.op = "create"  -> Unsupported
    [] q.op = "destroy" -> TrackerDestroys(q.obj)

Handles(c, q) ==
  CASE plan.source = "iradio"  -> IradioHandles(c, q)
    [] plan.source = "upnp"    -> Leaves({UpnpHandles(q)})
    [] plan.source = "tracker" -> Leaves({TrackerHandles(q)})

\* a get_metadata that was called for get_metadatas of the base class
ForAll(c, r) == IF req[c].op = "getall" THEN Gathered(work[c], r) ELSE r

\* An idle function t of call c
IdleResults(c, t) ==
  CASE t.kind = "destroy" ->
         destroy_object_cb(db, CHOOSE i \in t.objs : TRUE, Fails)
    [] t.kind = "get" ->
         LET a == get_metadata_cb(db, CHOOSE i \in t.objs : TRUE) IN
         Leaves({ForAll(c, Says(a))})
    [] t.kind \in {"created", "set"} /\ plan.source = "iradio" ->
         Leaves({Says(Fine)})
    [] t.kind = "emit" ->
         Leaves({IF plan.source = "tracker" THEN TrackerEmits(work[c])
                 ELSE EmitResult(work[c])})
    [] t.kind = "set" /\ plan.source = "tracker" ->
         Leaves({Says(Fine), Says(Refused)})
    [] t.kind = "delete" -> Leaves(DeletesFile(work[c]))
    [] OTHER -> Leaves({TrackerMakesUp(work[c], t)})

\* Another process answers question q of call c
AnswerReactions(c, q) ==
  CASE q.kind = "metadata" -> UpnpAnswers(CHOOSE o \in q.objs : TRUE)
    [] q.kind = "songs" -> SongsFound(MaxFiles)
    [] OTHER -> TrackerAnswers(work[c], q)

\* the operation of the source a handler goes on with was freed
Freed(c, t) ==
  /\ work[c] = Over
  /\ \/ req[c].op = "getall"
     \/ plan.source = "tracker" /\ t.kind \notin {"set", "songs"}

-----------------------------------------------------------------------------
(* The wrapper: got_metadata, got_metadatas, metadata_set, object_created, *)
(* object_destroyed.                                                       *)

Waiting(c) == stage[c] \in {"sent", "held"}

Replies(c, says) ==
  IF says = <<>>
  THEN /\ stage' = [stage EXCEPT ![c] = IF @ = "sent" THEN "held" ELSE @]
       /\ UNCHANGED <<reply, broken>>
  ELSE /\ stage' = [stage EXCEPT ![c] = IF Waiting(c) THEN "replied" ELSE @]
       /\ reply' = [reply EXCEPT ![c] = IF Waiting(c) THEN Head(says) ELSE @]
       /\ broken' = (~Waiting(c) \/ Len(says) > 1)

\* A handler for call c ends; todo and open were left of idles and asked
Does(c, result, todo, open) ==
  LET r == result.r IN
  /\ db' = result.db
  /\ work' = [work EXCEPT ![c] = r.work]
  /\ idles' = todo \o [i \in DOMAIN r.later |->
                         [call |-> c, task |-> r.later[i]]]
  /\ asked' = open \cup {[call |-> c, task |-> q] : q \in r.asks}
  /\ Replies(c, r.says)

Breaks ==
  /\ broken' = TRUE
  /\ UNCHANGED <<stage, work, reply, idles, asked, db>>

\* What is there that a source does not handle: several clips asked for with
\* keys that tracker does not know
Unhandled(q) ==
  /\ plan.source = "tracker" /\ q.op = "getall" /\ q.keys = "unknown"
  /\ \E what \in Clip : Cardinality(Clips(q.objs, what)) > 1
\* an answer that does not call the callback of get_metadata once; a failing
\* question of tracker while others are open
OddAnswer(c, q, r) ==
  \/ q.kind = "metadata" /\ Len(r.says) # 1
  \/ /\ q.kind \in {"clips", "playlists"} /\ r = BatchFails(work[c])
     /\ \E a \in asked : a.call = c /\ a.task # q

DaemonHandles(c) ==
  /\ ~broken /\ daemonIs = "up" /\ stage[c] = "sent"
  /\ \E result \in Handles(c, req[c]) : Does(c, result, idles, asked)
  /\ spoilt' = IF Unhandled(req[c]) THEN spoilt \cup {c} ELSE spoilt
  /\ UNCHANGED <<plan, daemonIs, req, file, load>>

RunsIdle ==
  /\ ~broken /\ daemonIs = "up" /\ idles # <<>>
  /\ LET c == Head(idles).call
         t == Head(idles).task
     IN  IF Freed(c, t) THEN Breaks
         ELSE \E result \in IdleResults(c, t) : Does(c, result, Tail(idles), asked)
  /\ UNCHANGED <<plan, daemonIs, req, file, load, spoilt>>

\* an answer of a process that was asked for call c
IsAnswered(c) ==
  /\ ~broken /\ daemonIs = "up"
  /\ \E a \in asked :
       /\ a.call = c
       /\ IF Freed(c, a.task) THEN Breaks /\ UNCHANGED spoilt
          ELSE \E r \in AnswerReactions(c, a.task) :
                 /\ Does(c, Result(db, IF a.task.kind = "metadata" THEN ForAll(c, r) ELSE r),
                         idles, asked \ {a})
                 /\ spoilt' = IF OddAnswer(c, a.task, r) THEN spoilt \cup {c}
                              ELSE spoilt
  /\ UNCHANGED <<plan, daemonIs, req, file, load>>

-----------------------------------------------------------------------------
(* The daemon starts: init_db, mafw_iradio_source_init.                    *)

DaemonStarts ==
  /\ ~broken /\ daemonIs = "down"
  /\ IF plan.source = "iradio" /\ Loads(db, file)
     THEN daemonIs' = "loading" /\ load' = Load(db, file)
     ELSE daemonIs' = "up" /\ load' = NotLoading
  /\ db' = [db EXCEPT !.table = TRUE]
  /\ Starts
  /\ UNCHANGED <<plan, stage, req, reply, file, broken, spoilt>>

\* what a crash leaves; D-Bus answers the calls that are open
Dead ==
  /\ daemonIs' = "down" /\ load' = NotLoading
  /\ stage' = [c \in Call |-> IF Waiting(c) THEN "replied" ELSE stage[c]]
  /\ reply' = [c \in Call |-> IF Waiting(c) THEN Refused ELSE reply[c]]
  /\ Starts

\* A bookmark without a URI calls the callback that was not given.
LoadsBookmark ==
  /\ ~broken /\ daemonIs = "loading" /\ load.at <= Len(plan.files[load.version])
  /\ LET u == plan.files[load.version][load.at] IN
     IF u = NoUri THEN Dead /\ UNCHANGED db
     ELSE /\ db' = Bookmarked(db, load, u)
          /\ load' = [load EXCEPT !.at = @ + 1]
          /\ UNCHANGED <<daemonIs, stage, work, reply, idles, asked>>
  /\ UNCHANGED <<plan, req, file, broken, spoilt>>

\* mafw_db_exec deletes the old date before set_vendorfile_date, another
\* transaction: dated is whether it came to that
LoadEnds(dated) ==
  /\ ~broken /\ daemonIs = "loading" /\ load.at > Len(plan.files[load.version])
  /\ db' = IF dated THEN Dated(DateDeleted(db), load.version)
                    ELSE DateDeleted(db)
  /\ IF dated THEN daemonIs' = "up" /\ load' = NotLoading
                   /\ UNCHANGED <<stage, work, reply, idles, asked>>
              ELSE "crash" \in plan.faults /\ Dead
  /\ UNCHANGED <<plan, req, file, broken, spoilt>>

DaemonDies ==
  /\ "crash" \in plan.faults /\ ~broken /\ daemonIs # "down"
  /\ Dead
  /\ UNCHANGED <<plan, req, db, file, broken, spoilt>>

\* another version of the file is installed, or the first
FileComes ==
  /\ ~broken /\ daemonIs # "loading" /\ file < Len(plan.files)
  /\ file' = file + 1
  /\ UNCHANGED <<plan, daemonIs, stage, req, work, reply, idles, asked, db, load,
                 broken, spoilt>>

-----------------------------------------------------------------------------
(* The client: mafw_proxy_source_get_metadata and the like.                *)

ClientCalls(c) ==
  /\ ~broken /\ stage[c] = "none" /\ c <= plan.calls
  /\ \A d \in Call : d < c => stage[d] # "none"
  /\ stage' = [stage EXCEPT ![c] = "sent"]
  /\ req' \in {[req EXCEPT ![c] = q] : q \in plan.requests}
  /\ UNCHANGED <<plan, daemonIs, work, reply, idles, asked, iradio, broken, spoilt>>

\* D-Bus has nobody to deliver it to
BusRefuses(c) ==
  /\ ~broken /\ daemonIs = "down" /\ stage[c] = "sent"
  /\ stage' = [stage EXCEPT ![c] = "replied"]
  /\ reply' = [reply EXCEPT ![c] = Refused]
  /\ UNCHANGED <<plan, daemonIs, req, work, idles, asked, iradio, broken, spoilt>>

\* got_metadata and the like: the reply calls the client's callback
ClientTold(c) ==
  /\ ~broken /\ stage[c] = "replied"
  /\ stage' = [stage EXCEPT ![c] = "told"]
  /\ UNCHANGED <<plan, daemonIs, req, work, reply, idles, asked, iradio, broken,
                 spoilt>>

CallsNext ==
  \/ DaemonStarts \/ LoadsBookmark \/ \E dated \in BOOLEAN : LoadEnds(dated)
  \/ DaemonDies \/ FileComes \/ RunsIdle
  \/ \E c \in Call : \/ ClientCalls(c) \/ BusRefuses(c) \/ ClientTold(c)
                     \/ DaemonHandles(c) \/ IsAnswered(c)

CallsSpec == CallsInit /\ [][CallsNext]_callVars

(* Main loops turn, files are read to their end, other processes answer.   *)
(* There are finitely many calls, so that none of them is left for good.   *)
FairCalls ==
  /\ CallsSpec
  /\ WF_callVars(LoadsBookmark) /\ WF_callVars(LoadEnds(TRUE)) /\ WF_callVars(RunsIdle)
  /\ WF_callVars(\E c \in Call : BusRefuses(c) \/ ClientTold(c))
  /\ WF_callVars(\E c \in Call : DaemonHandles(c))
  /\ WF_callVars(\E c \in Call : IsAnswered(c))

-----------------------------------------------------------------------------
(* A source calls the callback of a call exactly once, as the wrapper's    *)
(* reply needs it, and nothing goes on with an operation that was freed:   *)
(* the collector of get_metadatas and its idle function are not fooled by  *)
(* objects that are answered at once, nor by a crash.  The two exceptions  *)
(* are in spoilt: a UPnP server that names no object, or several, or       *)
(* writes broken DIDL-Lite after one; a failing question of tracker while  *)
(* others are open.  And get_metadatas without an error has the metadata   *)
(* of every object that was asked for, if any was: an error of one of them *)
(* is not forgotten when others succeed.                                   *)
AnsweredOnce ==
  /\ broken => spoilt # {}
  /\ \A c \in Call :
       /\ stage[c] \in {"replied", "told"} /\ reply[c].ok
       /\ req[c].op = "getall" /\ req[c].keys # "none" /\ c \notin spoilt
       => reply[c].got = ToSet(req[c].objs)

(* Every call is answered in the end, whoever crashes in between, unless   *)
(* it is one of these, or several clips are asked tracker for, with keys   *)
(* it does not know: they are counted as one.                              *)
AllAnswered ==
  []<>(broken \/ \A c \in Call : stage[c] \in {"none", "told"} \/ c \in spoilt)

Holding(d, u)  == {i \in ObjectId : d.rows[i].uri = u}
Vendors(d, u)  == {i \in Holding(d, u) : d.made[i] = ByVendor}

(* When a vendor's file was loaded, its bookmarks are there, and none has  *)
(* two objects the vendor made: not after crashes between any two of its   *)
(* bookmarks, nor before its date was stored, nor when a later version     *)
(* names it again.                                                         *)
VendorOnce ==
  [][daemonIs = "loading" /\ daemonIs' = "up" =>
       \A u \in ToSet(plan.files[load.version]) :
         Holding(db', u) # {} /\ Cardinality(Vendors(db', u)) <= 1]_callVars

\* the next idle function destroys an object
Destroys(t) == t.kind = "destroy" /\ daemonIs' = daemonIs /\ idles' = Tail(idles)

(* An object is destroyed when the main loop is idle, by its id.  It is    *)
(* the object that had that id when the call came, though ids are used     *)
(* again; unless there was none, or an earlier call was already destroying *)
(* it.                                                                     *)
DestroysTheMeant ==
  [][idles # <<>> /\ Destroys(Head(idles).task) =>
       LET t == Head(idles).task IN
       t.doomed \/ t.meant = Nobody
         \/ \A i \in t.objs : db.made[i] = t.meant]_callVars
=============================================================================
