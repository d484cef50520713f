---------------------------- MODULE PlaylistStore ----------------------------
(***************************************************************************)
(* The playlists of the playlist daemon, in memory and on disk             *)
(* (playlist-manager-wrapper.c, playlist-wrapper.c, the dirty timer and    *)
(* the files of aplaylist.c, the main loop of mafw-playlist-daemon.c).     *)
(*                                                                         *)
(* A playlist is identified by a number.  Its contents are abstracted to a *)
(* version number, raised by every edit; its file N and the temporary file *)
(* N.tmp hold a name and a version.  Every change arms a timer that saves  *)
(* the playlist; SIGTERM saves all of them, one after the other.  A save   *)
(* may fail at each of its steps and the daemon may die at any moment, in  *)
(* the middle of a save too.  Clients hold playlists (use counts), and may *)
(* die; what a client believes to hold outlives the daemon.                *)
(*                                                                         *)
(* While the daemon is down the variables of its memory keep their last    *)
(* values, which nothing reads.                                            *)
(*                                                                         *)
(* Wrong versions used by nothing, there to replace the definition that    *)
(* follows them: InPlace, HalfRenamed, ForgetsAll, GivesUp.                *)
(***************************************************************************)
EXTENDS Integers, FiniteSets

CONSTANTS
  MaxId,     \* bound: ids issued
  Name,      \* names of playlists
  MaxRev,    \* bound: versions of one playlist
  Client,    \* clients that hold playlists
  MaxHold,   \* bound: holds of one client on one playlist
  UseMod,    \* use counts are unsigned: UseMod is one more than the largest
  Bounds,    \* bound: what one behaviour may use: records with fields ids,
             \* revs (the largest id and version) and clients
  NoFile, Empty, Dangling

ASSUME SizeAssumption ==
  /\ MaxId \in Nat /\ MaxRev \in Nat /\ MaxHold \in Nat
  /\ UseMod \in Nat \ {0}
  /\ Bounds \subseteq [ids : 1 .. MaxId, revs : 0 .. MaxRev,
                      clients : SUBSET Client]
ASSUME HoldsFitAssumption ==
  \* fewer holds than an unsigned counts
  IsFiniteSet(Client) /\ Cardinality(Client) * MaxHold < UseMod

Id  == 1 .. MaxId
Rec == [name : Name, rev : 0 .. MaxRev]
ASSUME ValueAssumption ==
  /\ NoFile \notin Rec /\ Empty \notin Rec /\ NoFile # Empty
  /\ NoFile \notin 0 .. MaxRev
  /\ Dangling \notin Id /\ 0 # Dangling /\ Name # {}

VARIABLES
  phase,     \* "up", "saving" (after SIGTERM) or "down"
  live,      \* ids in the tree Playlists
  name, rev, \* of the playlists in memory
  byName,    \* the tree Playlists_by_name: name -> id, 0 when absent
  lastId,    \* Last_id
  dirty,     \* pls->dirty
  timer,     \* playlists whose dirty_timer is armed
  due,       \* of these, the ones whose time is over
  use,       \* pls->use_count
  holders,   \* _usecount_holders: holds registered, per client
  claims,    \* holds a client believes to have
  left,      \* playlists the exit has still to save
  disk, tmp, \* the files N and N.tmp
  torn,      \* history: the daemon has once stopped with changes unsaved
             \* or with a temporary file left
  stale,     \* history: a client gave up a hold of an earlier daemon
  bound      \* the bounds of this behaviour, a member of Bounds

memory == <<live, name, rev, byName, lastId, dirty, timer, due, use, holders>>
files  == <<disk, tmp>>
vars   == <<phase, live, name, rev, byName, lastId, dirty, timer, due, use,
            holders, claims, left, disk, tmp, torn, stale, bound>>

Saved(i)    == [name |-> name[i], rev |-> rev[i]]
ZeroHolds   == [c \in Client |-> [i \in Id |-> 0]]
Held(i, h)  == {x \in Client \X (1 .. MaxHold) : x[2] <= h[x[1]][i]}
Holds(i)    == Cardinality(Held(i, holders))
FreeName(n) == byName[n] = 0
AnyName     == CHOOSE n \in Name : TRUE

-----------------------------------------------------------------------------
(* Requests.                                                               *)

\* a change of the playlists of S: pls->dirty and a new timer, in the place
\* of one that runs already, so that the time starts again
Dirtied(S) ==
  dirty' = dirty \cup S /\ timer' = timer \cup S /\ due' = due \ S

\* pls_new and the two trees
Made(n) ==
  /\ lastId <= bound.ids
  /\ lastId' = lastId + 1
  /\ live'   = live \cup {lastId}
  /\ name'   = [name EXCEPT ![lastId] = n]
  /\ rev'    = [rev EXCEPT ![lastId] = 0]
  /\ use'    = [use EXCEPT ![lastId] = 0]
  /\ byName' = [byName EXCEPT ![n] = lastId]
  /\ Dirtied({lastId})
  /\ UNCHANGED <<phase, holders, claims, left, disk, tmp, torn, stale>>

\* create_playlist of a new name (of an existing one: its id is the answer);
\* an import that is done takes a name no playlist has
Create(n) == phase = "up" /\ FreeName(n) /\ Made(n)

Dup(i, n) == phase = "up" /\ i \in live /\ FreeName(n) /\ Made(n)

\* insert, append, remove, move, clear, shuffle, unshuffle, set_repeat
Edit(i) ==
  /\ phase = "up" /\ i \in live /\ rev[i] < bound.revs
  /\ rev' = [rev EXCEPT ![i] = @ + 1]
  /\ Dirtied({i})
  /\ UNCHANGED <<phase, live, name, byName, lastId, use, holders, claims,
                 left, disk, tmp, torn, stale>>

\* set_name: ignored when some playlist has the name.  g_assert fails when
\* the old name is not in the tree, after the name was changed.
HalfRenamed(i, n) == [byName EXCEPT ![n] = i]
Renamed(i, n)     == [byName EXCEPT ![n] = i, ![name[i]] = 0]
Rename(i, n) ==
  /\ phase = "up" /\ i \in live /\ FreeName(n) /\ rev[i] < bound.revs
  /\ name' = [name EXCEPT ![i] = n]
  /\ rev'  = [rev EXCEPT ![i] = @ + 1]
  /\ Dirtied({i})
  /\ IF FreeName(name[i])
     THEN phase' = "down" /\ torn' = TRUE /\ UNCHANGED byName
     ELSE byName' = Renamed(i, n) /\ UNCHANGED <<phase, torn>>
  /\ UNCHANGED <<live, lastId, use, holders, claims, left, disk, tmp,
                 stale>>

\* destroy_playlist; in use: destruction_failed and nothing else.  The file
\* goes first, the temporary file is not looked for; then g_assert that the
\* name was in the tree.
Unlinked(i)  == [disk EXCEPT ![i] = NoFile]
MayGo(i)     == i \in live /\ use[i] = 0
Destroy(i) ==
  /\ phase = "up" /\ MayGo(i)
  /\ disk' = Unlinked(i)
  /\ IF FreeName(name[i])
     THEN /\ phase' = "down" /\ torn' = TRUE
          /\ UNCHANGED <<live, byName, dirty, timer, due>>
     ELSE /\ live' = live \ {i}
          /\ byName' = [byName EXCEPT ![name[i]] = 0]
          /\ dirty' = dirty \ {i} /\ timer' = timer \ {i}
          /\ due' = due \ {i}
          /\ UNCHANGED <<phase, torn>>
  /\ UNCHANGED <<name, rev, lastId, use, holders, claims, left, tmp, stale>>

-----------------------------------------------------------------------------
(* Use counts.                                                             *)

Unsigned(n)  == n % UseMod

Increment(c, i) ==
  /\ phase = "up" /\ i \in live /\ c \in bound.clients
  /\ claims[c][i] < MaxHold
  /\ use'     = [use EXCEPT ![i] = Unsigned(@ + 1)]
  /\ holders' = [holders EXCEPT ![c][i] = @ + 1]
  /\ claims'  = [claims EXCEPT ![c][i] = @ + 1]
  /\ Dirtied({i})
  /\ UNCHANGED <<phase, live, name, rev, byName, lastId, left, disk, tmp,
                 torn, stale>>

\* A client gives up what it believes to hold.  The count goes down even if
\* this daemon has no hold of the client on its list.
Decrement(c, i) ==
  /\ phase = "up" /\ i \in live /\ claims[c][i] > 0
  /\ use'     = [use EXCEPT ![i] = Unsigned(@ - 1)]
  /\ holders' = [holders EXCEPT ![c][i] = IF @ > 0 THEN @ - 1 ELSE 0]
  /\ claims'  = [claims EXCEPT ![c][i] = @ - 1]
  /\ stale'   = (stale \/ holders[c][i] = 0)
  /\ Dirtied({i})
  /\ UNCHANGED <<phase, live, name, rev, byName, lastId, left, disk, tmp,
                 torn>>

\* playlist_not_found is the answer: the client forgets the hold
DecrementUnknown(c, i) ==
  /\ phase = "up" /\ i \notin live /\ claims[c][i] > 0
  /\ claims' = [claims EXCEPT ![c][i] = @ - 1]
  /\ UNCHANGED <<phase, memory, left, files, torn, stale>>

\* NameOwnerChanged: every hold of the client is given up, one by one
ForgetsAll(c, i) == IF holders[c][i] > 0 THEN use[i] - 1 ELSE use[i]
WithoutHolds(c, i) == use[i] - holders[c][i]
ClientDies(c) ==
  /\ \E i \in Id : claims[c][i] > 0 \/ holders[c][i] > 0
  /\ claims' = [claims EXCEPT ![c] = [i \in Id |-> 0]]
  /\ IF phase = "up"
     THEN LET mine == {i \in live : holders[c][i] > 0} IN
          /\ use' = [i \in Id |-> IF i \in mine
                                  THEN Unsigned(WithoutHolds(c, i))
                                  ELSE use[i]]
          /\ holders' = [holders EXCEPT ![c] = [i \in Id |-> 0]]
          /\ Dirtied(mine)
     ELSE UNCHANGED <<use, holders, dirty, timer, due>>
  /\ UNCHANGED <<phase, live, name, rev, byName, lastId, left, files, torn, stale>>

-----------------------------------------------------------------------------
(* Saving: N.tmp is written and renamed to N.  A small file is written in  *)
(* one block, so that an interrupted write leaves it empty.                *)

InPlace(i)    == disk' = [disk EXCEPT ![i] = NoFile] /\ UNCHANGED tmp
WriteFails(i) == tmp' = [tmp EXCEPT ![i] = NoFile] /\ UNCHANGED disk
RenameFails(i) == tmp' = [tmp EXCEPT ![i] = Saved(i)] /\ UNCHANGED disk
SaveOk(i) ==
  /\ disk' = [disk EXCEPT ![i] = Saved(i)]
  /\ tmp'  = [tmp EXCEPT ![i] = NoFile]
OpenFails(i) == UNCHANGED files
SaveFails(i) == OpenFails(i) \/ WriteFails(i) \/ RenameFails(i)
Interrupted(i) ==
  \/ tmp' = [tmp EXCEPT ![i] = Empty] /\ UNCHANGED disk
  \/ RenameFails(i)
  \/ SaveOk(i)

\* the time of a timer is over before another change starts it again
TimeIsOver(i) ==
  /\ phase = "up" /\ i \in timer \ due
  /\ due' = due \cup {i}
  /\ UNCHANGED <<phase, live, name, rev, byName, lastId, dirty, timer, use,
                 holders, claims, left, disk, tmp, torn, stale>>

\* ops_settled, the timer of a playlist; armed again when the save failed
Settle(i) ==
  /\ phase = "up" /\ i \in due
  /\ SaveOk(i)
  /\ dirty' = dirty \ {i} /\ timer' = timer \ {i} /\ due' = due \ {i}
  /\ UNCHANGED <<phase, live, name, rev, byName, lastId, use, holders,
                 claims, left, torn, stale>>
GivesUp(i) ==
  /\ phase = "up" /\ i \in due
  /\ SaveFails(i)
  /\ timer' = timer \ {i} /\ due' = due \ {i}
  /\ torn' = (torn \/ tmp'[i] # NoFile)
  /\ UNCHANGED <<phase, live, name, rev, byName, lastId, use, holders, dirty,
                 claims, left, stale>>
SettleFails(i) ==
  /\ phase = "up" /\ i \in due
  /\ SaveFails(i)
  /\ due' = due \ {i}
  /\ torn' = (torn \/ tmp'[i] # NoFile)
  /\ UNCHANGED <<phase, live, name, rev, byName, lastId, use, holders, dirty,
                 timer, claims, left, stale>>

\* SIGTERM or SIGINT ends the main loop; every playlist is saved, once
Terminate ==
  /\ phase = "up"
  /\ phase' = "saving" /\ left' = live
  /\ UNCHANGED <<memory, claims, files, torn, stale>>
SaveAtExit(i) ==
  /\ phase = "saving" /\ i \in left
  /\ \/ SaveOk(i) /\ UNCHANGED torn
     \/ SaveFails(i) /\ torn' = TRUE
  /\ left' = left \ {i}
  /\ UNCHANGED <<phase, memory, claims, stale>>
Exit ==
  /\ phase = "saving" /\ left = {}
  /\ phase' = "down"
  /\ UNCHANGED <<memory, claims, left, files, torn, stale>>

\* the daemon dies, perhaps in the middle of a save
Unsaved == \E i \in live : disk[i] # Saved(i)
Dies(t) == phase' = "down" /\ torn' = (torn \/ t) /\ left' = {}
Crash ==
  /\ phase # "down" /\ Dies(Unsaved)
  /\ UNCHANGED <<memory, claims, files, stale>>
CrashInSave(i) ==
  /\ \/ phase = "up" /\ i \in due
     \/ phase = "saving" /\ i \in left
  /\ Dies(TRUE) /\ Interrupted(i)
  /\ UNCHANGED <<memory, claims, stale>>

-----------------------------------------------------------------------------
(* Loading: every file of the directory, in the order the directory lists  *)
(* them, a later one replacing an earlier one of its id and of its name.   *)
(* (The first pass of load_playlists looks for the files in the working    *)
(* directory and changes nothing here.)                                    *)

Content(f) == IF f[2] = "tmp" THEN tmp[f[1]] ELSE disk[f[1]]
Loadable   == {f \in Id \X {"file", "tmp"} : Content(f) \in Rec}

NextId(ids) == IF ids = {} THEN 1
               ELSE 1 + CHOOSE i \in ids : \A j \in ids : j <= i

\* place is the directory's order: the place of each file in it
LastOf(F, place) ==
  CHOOSE f \in F : \A g \in F : place[g] <= place[f]
Start ==
  /\ phase = "down"
  /\ \E place \in [Loadable -> 1 .. Cardinality(Loadable)] :
       LET ids == {f[1] : f \in Loadable}
           win == [i \in ids |->
                     LastOf({f \in Loadable : f[1] = i}, place)]
           named(n) == {f \in Loadable : Content(f).name = n}
       IN
       /\ \A f, g \in Loadable : place[f] = place[g] => f = g
       /\ live'   = ids
       /\ name'   = [i \in Id |-> IF i \in ids THEN Content(win[i]).name
                                  ELSE AnyName]
       /\ rev'    = [i \in Id |-> IF i \in ids THEN Content(win[i]).rev
                                  ELSE 0]
       /\ byName' = [n \in Name |->
                       IF named(n) = {} THEN 0
                       ELSE LET f == LastOf(named(n), place) IN
                            IF win[f[1]] = f THEN f[1] ELSE Dangling]
       /\ lastId' = NextId(ids)
       /\ dirty'  = ids
  /\ phase' = "up"
  /\ timer' = {} /\ due' = {} /\ use' = [i \in Id |-> 0] /\ holders' = ZeroHolds
  /\ UNCHANGED <<claims, left, files, torn, stale>>

-----------------------------------------------------------------------------
\* The daemon is started on an empty directory.
Init ==
  /\ phase = "up" /\ live = {} /\ lastId = 1
  /\ name = [i \in Id |-> AnyName] /\ rev = [i \in Id |-> 0]
  /\ byName = [n \in Name |-> 0]
  /\ dirty = {} /\ timer = {} /\ due = {} /\ use = [i \in Id |-> 0]
  /\ holders = ZeroHolds /\ claims = ZeroHolds /\ left = {}
  /\ disk = [i \in Id |-> NoFile] /\ tmp = [i \in Id |-> NoFile]
  /\ torn = FALSE /\ stale = FALSE /\ bound \in Bounds

Request ==
  \/ \E n \in Name : Create(n)
  \/ \E i \in Id : Edit(i) \/ Destroy(i)
  \/ \E i \in Id, n \in Name : Rename(i, n) \/ Dup(i, n)
Holding ==
  \/ \E c \in Client, i \in Id :
       Increment(c, i) \/ Decrement(c, i) \/ DecrementUnknown(c, i)
  \/ \E c \in Client : ClientDies(c)
Saving ==
  \/ \E i \in Id : TimeIsOver(i) \/ Settle(i) \/ SettleFails(i) \/ SaveAtExit(i)
  \/ Terminate \/ Exit
Faults == Crash \/ \E i \in Id : CrashInSave(i)

Next ==
  /\ Request \/ Holding \/ Saving \/ Faults \/ Start
  /\ UNCHANGED bound

\* The time of a timer passes, and a timer whose time is over is served: if
\* no change starts it again, for nothing keeps a playlist that is changed
\* again and again from being due and undue for ever.  A save that fails is
\* tried again, and they do not all fail.
Fires(i) == Settle(i) \/ SettleFails(i)
Fairness ==
  \A i \in Id :
    /\ WF_vars(TimeIsOver(i) /\ UNCHANGED bound)
    /\ WF_vars(Fires(i) /\ UNCHANGED bound)
    /\ []<><<SettleFails(i)>>_vars => []<><<Settle(i)>>_vars
Spec == Init /\ [][Next]_vars /\ Fairness

-----------------------------------------------------------------------------
(* Properties.                                                             *)

TypeOK ==
  /\ phase \in {"up", "saving", "down"}
  /\ live \subseteq Id /\ dirty \subseteq Id /\ timer \subseteq live
  /\ due \subseteq timer
  /\ name \in [Id -> Name] /\ rev \in [Id -> 0 .. MaxRev]
  /\ byName \in [Name -> Id \cup {0, Dangling}]
  /\ lastId \in 1 .. MaxId + 1
  /\ use \in [Id -> 0 .. UseMod - 1]
  /\ holders \in [Client -> [Id -> 0 .. MaxHold]]
  /\ claims \in [Client -> [Id -> 0 .. MaxHold]]
  /\ left \subseteq live
  /\ disk \in [Id -> Rec \cup {NoFile}]
  /\ tmp \in [Id -> Rec \cup {NoFile, Empty}]
  /\ torn \in BOOLEAN /\ stale \in BOOLEAN /\ bound \in Bounds

\* The names find exactly the playlists, each its own, as long as the daemon
\* never stopped with something unsaved: so create never doubles a name and
\* the assertions of set_name and destroy_playlist hold.
NamesExact ==
  phase = "up" /\ ~torn =>
    /\ \A i \in live : byName[name[i]] = i
    /\ \A n \in Name :
         FreeName(n) \/ (byName[n] \in live /\ name[byName[n]] = n)

\* A use count is the number of holds registered for the clients, as long as
\* no client gave up a hold it had from an earlier daemon.
UseCountsRight ==
  phase = "up" /\ ~stale => \A i \in live : use[i] = Holds(i)

\* A change of the playlist that starts its timer again when its time was
\* over and nothing saved yet.
Postpones(i) ==
  /\ i \in due /\ i \in timer' \ due'
  /\ <<rev[i], name[i], use[i]>>' # <<rev[i], name[i], use[i]>>

\* Every change reaches the file some time, unless the playlist is destroyed,
\* the daemon stops, or other changes postpone the save for ever; what was
\* loaded from a temporary file left over is still in that one.
EditsReachDisk ==
  \A i \in Id, r \in 0 .. MaxRev :
    \/ []<><<Postpones(i)>>_vars
    \/ (phase = "up" /\ i \in live /\ rev[i] = r) ~>
          \/ phase # "up" \/ i \notin live
          \/ disk[i] # NoFile /\ disk[i].rev >= r
          \/ i \notin timer /\ tmp[i] = Saved(i)

Version(f) == IF f \in Rec THEN f.rev ELSE NoFile
Vault(i) == INSTANCE PlaylistVault WITH
  Rev <- 0 .. MaxRev, None <- NoFile, up <- phase # "down",
  now <- IF phase # "down" /\ i \in live THEN rev[i] ELSE NoFile,
  base <- Version(disk[i]), extra <- Version(tmp[i])

\* Each playlist is kept as PlaylistVault promises, through every stop and
\* crash, with two exceptions, both of a temporary file that a save wrote
\* and did not rename: a start does not rename it, either, and takes the one
\* file or the other (playlist-manager-wrapper.c:183 looks for it in the
\* wrong directory); and destroy_playlist leaves it, for the next start to
\* bring the playlist back.
VaultSpec ==
  /\ \A i \in Id : Vault(i)!Init
  /\ [][\A i \in Id : [\/ Vault(i)!Next
                       \/ Vault(i)!LoadsEither /\ Start
                       \/ Vault(i)!ForgetsHalf /\ Destroy(i)]_(Vault(i)!vars)]_vars
=============================================================================
