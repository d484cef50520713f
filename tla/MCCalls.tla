------------------------------- MODULE MCCalls -------------------------------
(* Calls of clients on small instances: SourceCalls, with each source, and *)
(* vendor's files of the radio stations with crashes; or RendererProxy, or *)
(* PlaylistItems, which share no state with it; one of the three runs.     *)
EXTENDS SourceCalls

Get(o)        == [op |-> "get", obj |-> o, keys |-> "known"]
GetKeys(o, k) == [op |-> "get", obj |-> o, keys |-> k]
GetAll(l)     == [op |-> "getall", objs |-> l, keys |-> "known"]
GetAllKeys(l, k) == [op |-> "getall", objs |-> l, keys |-> k]
Create(u)     == [op |-> "create", uri |-> u]
SetUri(o, u)  == [op |-> "set", obj |-> o, keys |-> {"uri"}, uri |-> u]
Destroy(o)    == [op |-> "destroy", obj |-> o]

Plan(source, n, reqs, files, faults) ==
  [source |-> source, calls |-> n, requests |-> reqs, files |-> files,
   faults |-> faults]

Stations ==
  {Plan("iradio", 2, {Create("u1"), SetUri(1, "u2"), Destroy(1),
                      GetAll(<<Malformed, 1>>)}, <<>>, {"crash", "dbfail"}),
   Plan("iradio", 4, {Create("u1"), Destroy(1)}, <<>>, {}),
   Plan("iradio", 1, {Create(NoUri), Get(Malformed), SetUri(Malformed, "u1"),
                      Get(1), GetAll(<<Root, 1>>), Destroy(Malformed)},
        << <<"u1", NoUri>> >>, {"crash"})}
Vendor ==
  {Plan("iradio", 2, {Create("u1"), Destroy(1), Destroy(3)},
        << <<"u1", "u2">>, <<"u2", "u1">> >>, {"crash"})}

UpnpLists == {<<"a", "b">>, <<"bad", "a">>, <<"a", "bad">>, <<"bad", "bad">>}
Servers ==
  {Plan("upnp", 1, {Get("a"), Get("bad"), GetKeys("a", "none"), Create("u1"),
                    SetUri("a", "u1"), Destroy("a")}
                   \cup {GetAll(l) : l \in UpnpLists}
                   \cup {GetAllKeys(<<"a", "b">>, "none")}, <<>>, {"crash"})}

Obj(what, n) == <<what, n>>
TrackerLists ==
  {<<Obj("audio", 1), Obj("audio", 2)>>, <<Obj("audio", 1), Obj("video", 1)>>,
   <<Obj("bad", 1), Obj("audio", 1)>>, <<Obj("root", 1), Obj("music", 1)>>,
   <<Obj("playlist", 1), Obj("playlist", 2)>>,
   <<Obj("playlists", 1), Obj("artist", 1), Obj("playlist", 1)>>}
Tracker ==
  {Plan("tracker", 1,
     {GetKeys(Obj(w, 1), k) : w \in Clip \cup Container \cup {"bad"},
                              k \in {"known", "unknown", "none"}}
     \cup {GetAllKeys(l, k) : l \in TrackerLists,
                              k \in {"known", "unknown", "none"}}
     \cup {SetUri(Obj(w, 1), "u1") : w \in {"audio", "root"}}
     \cup {Create("u1")}
     \cup {Destroy(Obj(w, 1)) : w \in {"audio", "artist", "genres", "bad"}},
     <<>>, {"crash"})}

MCScenarios == Stations \cup Vendor \cup Servers \cup Tracker

-----------------------------------------------------------------------------
CONSTANTS Client, Playlist, NoPlaylist, NoObject, Unknown, MaxCalls

Bids(op)         == [op |-> op, arg |-> Unknown]
Names(n)         == [op |-> "set_name", arg |-> n]
Policy(p)        == [op |-> "set_property", arg |-> p]
PlaysObject(o)   == [op |-> "play_object", arg |-> o]
Assign(p)        == [op |-> "assign_playlist", arg |-> p]

Scene(rs, own, n, crash) ==
  [requests |-> rs, own |-> own, turns |-> n, crash |-> crash]
Alone(rs)     == [c1 |-> rs]
Watched(rs)   == [c1 |-> rs, c2 |-> <<{Bids("get_status")}>>]
Renamed(n, q) == <<{Names(n), q}>>

MCScenes ==
  {Scene(Watched(<<{Bids("play"), PlaysObject("x")}>>), {"state"}, 1, FALSE),
   Scene(Watched(<<{Assign(1)}, {Assign(NoPlaylist)}>>), {}, 0, FALSE),
   Scene([c1 |-> Renamed("n1", Policy("stop")),
          c2 |-> Renamed("n2", Bids("get_property"))], {}, 0, FALSE),
   Scene(Alone(<<{Bids("play")}, {Bids("stop")}>>), {"state", "buffer"}, 3,
         FALSE),
   Scene(Alone(<<{Assign(1)}, {Bids("next")}>>), {"index", "medium"}, 1,
         FALSE),
   Scene(Alone(<<{Bids("pause"), Bids("set_position"), Names("n1")},
                 {Assign(1)}>>), {}, 0, TRUE)}

-----------------------------------------------------------------------------
CONSTANTS Op, NoSource

OwnedBy == [x |-> "s1", y |-> "s2", z |-> NoSource]
From(i, j, k) == [from |-> i, to |-> j, keys |-> k]
Plot(ls, cs, n) ==
  [lists |-> ls, source |-> OwnedBy, sources |-> {"s1", "s2"}, calls |-> cs,
   changes |-> n]

MCPlots ==
  {Plot({<<"x", "y", "x", "z">>},
        {From(0, -1, TRUE), From(1, 9, TRUE), From(0, 1, FALSE)}, 1),
   Plot({<<"x", "y">>, <<>>, <<"y">>}, {From(0, -1, TRUE), From(1, 2, TRUE)},
        2)}

-----------------------------------------------------------------------------
VARIABLES
  running,   \* the one that runs: "calls", "renderer", "items"
  scene, up, status, moved, tout, used, playlists, requests, assigning,
  follows, inbox, proxyStage, proxyReq, view, turns,
  plot, list, present, ops, open, changes

R == INSTANCE RendererProxy WITH
       stage <- proxyStage, req <- proxyReq, Scenes <- MCScenes
I == INSTANCE PlaylistItems WITH Plots <- MCPlots

ASSUME MaxCallsAssumption == MaxCalls \in Nat

svars == <<plan, daemonIs, stage, req, work, reply, idles, asked, db, file, load,
           broken, spoilt>>
rvars == <<scene, up, status, moved, tout, used, playlists, requests,
           assigning, follows, inbox, proxyStage, proxyReq, view, turns>>
ivars == <<plot, list, present, ops, open, changes>>

Sources  == running = "calls"
Renderer == running = "renderer"
Items    == running = "items"

\* the parts that do not run have one state
MCInit ==
  /\ running \in {"calls", "renderer", "items"}
  /\ CallsInit /\ (~Sources  => plan = CHOOSE p \in Scenarios : TRUE)
  /\ R!CInit   /\ (~Renderer => scene = CHOOSE s \in MCScenes : TRUE)
  /\ I!IInit   /\ (~Items    => plot.changes = 1)

MCNext ==
  /\ UNCHANGED running
  /\ \/ Sources  /\ CallsNext /\ UNCHANGED <<rvars, ivars>>
     \/ Renderer /\ R!CNext  /\ UNCHANGED <<svars, ivars>>
     \/ Items    /\ I!INext  /\ UNCHANGED <<svars, rvars>>

MCSpec ==
  /\ MCInit /\ [][MCNext]_<<running, svars, rvars, ivars>>
  /\ WF_svars(Sources /\ LoadsBookmark) /\ WF_svars(Sources /\ RunsIdle)
  /\ WF_svars(Sources /\ LoadEnds(TRUE))
  /\ WF_svars(Sources /\ \E c \in Call : BusRefuses(c) \/ ClientTold(c))
  /\ WF_svars(Sources /\ \E c \in Call : DaemonHandles(c))
  /\ WF_svars(Sources /\ \E c \in Call : IsAnswered(c))
  /\ WF_rvars(Renderer /\ R!RendererHandles) /\ WF_rvars(Renderer /\ R!Assigns)
  /\ \A c \in Client : /\ WF_rvars(Renderer /\ R!ClientHandles(c))
                       /\ WF_rvars(Renderer /\ R!Unblocks(c))
  /\ WF_ivars(Items /\ \E o \in Op : I!GetsSize(o) \/ I!GetsItems(o))
  /\ WF_ivars(Items /\ \E o \in Op : I!SendsRequests(o))
  /\ WF_ivars(Items /\ \E q \in open : I!Answered(q))

(* A client that asked and follows the signals of a renderer has it as it  *)
(* is when it has handled its messages, and its calls are answered in the  *)
(* end (mafw-proxy-renderer.c:1032, renderer-wrapper.c:341).               *)
ClientsFollow == R!ClientsFollow

(* Items of a playlist asked for with their metadata are given once each,  *)
(* none after a cancel, and the operation ends (mafw-playlist.c:846).      *)
ItemsOnce == I!NothingAfter /\ I!ItemsOnce
=============================================================================
