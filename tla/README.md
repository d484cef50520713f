# Models of MAFW

MAFW (Multimedia Application FrameWork) is a media playback framework for a
phone.  It is written in C on GLib: every process runs one main loop and one
thread of its own code (GStreamer runs more, behind a bus that delivers its
messages to the loop), and the processes talk over D-Bus.  What is hard in it is
therefore not shared memory but order: requests, signals, timers, idle
callbacks and answers that meet an object whose state moved on since they were
started.

This directory holds TLA+ models of its parts, the TLC runs that check them on
small instances, and TLAPS proofs of eight of them for every size.  File
names below are given without their directory; `PROJECT.json` has the paths.

## Inventory

| component | state | operations | interacts with | hard behaviour | correct when |
|---|---|---|---|---|---|
| array playlist (`mafw-playlist-daemon/aplaylist.c`) | items in visual order, `shuffled`, `repeat`, the playing order `pidx` with its inverse `iidx`, the border `poolst` of the undrawn pool, name, dirty timers | get starting / last / next / prev, insert, append, remove, move, clear, shuffle, unshuffle, set repeat, save, load | called by the playlist wrapper, for any number of clients | queries change the state (items are drawn lazily); edits between the steps of somebody's walk; both index arrays updated in place | the arrays stay inverse permutations; a walk skips and repeats nothing, and can be retraced |
| playlist manager of the daemon (`playlist-manager-wrapper.c`, `mafw-playlist-daemon.c`) | the playlists by id, `Last_id`, files `N` and `N.tmp` of the playlist directory, import requests | create, destroy, duplicate, import, list, load all at start, save and exit | clients over D-Bus, sources (import), the file system | crash between the writing of `.tmp` and the rename; ids after a restart; destroy against use counts; cancel of an import during a browse | what was saved comes back, what was destroyed does not; no two playlists share an id or a name; each import calls back once |
| playlist D-Bus wrapper (`playlist-wrapper.c`) | use count and holders per playlist | every playlist request; emits `contents_changed`, `item_moved`, `property_changed` | clients, `aplaylist.c` | failed edits and their signals, a client that dies holding a use count | a signal describes the edit that was made; the count is the number of holders |
| renderer state machine (`mafw-gst-renderer.c`, `mafw-gst-renderer-state*.c`) | current state, playback mode, media, playlist, `resume_playlist`, `play_failed_count`, pending seek | play, play_object, stop, pause, resume, next, previous, goto, set position, assign playlist; notifications of worker, metadata, playlist and volume monitor | worker, sources, playlist and iterator | answers and idle callbacks that arrive after the state they were meant for; errors that choose the next item; standalone playback inside playlist playback | what is reported is what plays; Transitioning ends; errors on every item end in Stopped |
| renderer worker (`mafw-gst-renderer-worker.c`) | pipeline, target and reported state, `stay_paused`, `is_live`, buffering, pending seek, `is_error`, the list of alternative URIs | play, play alternatives, stop, pause, resume, set position | GStreamer (bus messages, timeouts), the renderer (notify play / pause / eos / error / seek) | asynchronous state changes overtaken by new requests, buffering that pauses by itself, retry with the next URI | once nothing is on its way, renderer and pipeline agree; what is started comes to an end |
| playlist iterator (`mafw-playlist-iterator.c`) | current index, current object, cached size | initialize, reset, move, update, `contents_changed` / `item_moved` handlers | playlist proxy, renderer | the size is cached and adjusted by signals; removal of the current item | index, object and size agree with the playlist once all signals have arrived |
| renderer helpers (`-worker-volume.c`, `blanking.c`, `keypad.c`, `gstscreenshot.c`, `-utils.c`) | volume with its pending write, blanking timer | set and get volume and mute, inhibit blanking | PulseAudio, MCE | a read that crosses a write, a restart of PulseAudio | the volume shown is the volume set, and PulseAudio's |
| registry (`mafw-registry.c`, `mafw-callbas.c`) | plugins, extensions per type | load, unload, add, remove, list, dispose | plugin modules, applications | an extension that comes or goes while an application starts | an application has exactly the extensions that are there |
| base classes (`mafw-extension.c`, `-source.c`, `-renderer.c`, `-playlist.c`, `-uri-source.c`) | properties, the collectors of `get_metadatas` and `get_items_md` | virtual methods with argument checks | their implementations | many answers gathered into one, cancel between them | every item answered once, no error forgotten |
| filters, metadata, serialisation, sqlite helper, log | none | parse, print, pack, compare, match | - | quoting, values of several types, damaged input | parsing what was printed gives it back; sorting is an order |
| D-Bus wrappers (`mafw-dbus-wrapper/*`) | browse requests in progress with their batch and timer, exported objects, activation counts | export, forward requests, batch browse results | sources, renderers, D-Bus clients | a batch timer against the last result, cancel against a queued removal | every result reaches the client once and in order, the last one last |
| client library (`libmafw-shared/*`) | table of playlist proxies, pending calls, proxies of extensions | create, destroy, list playlists; proxy calls and signals | daemons over D-Bus | the daemon restarts; a reply arrives after an unref; resynchronisation of the table | the table is the daemon's list; a proxy shows what its extension is |
| D-Bus helpers (`mafw-shared/common`) | none | build, parse messages | - | values of every type, empty lists | what was appended is what is parsed |
| tracker source | browse requests, cache of keys | browse, metadata, set metadata, destroy | tracker indexer | answers in batches and in any order; columns without names | each object gets its own values; one answer per call |
| UPnP source | browse requests | browse in slices, metadata, cancel | UPnP control point | cancel between slices, device disappears | no result after the last one, none after cancel |
| internet radio source | sqlite table, browse requests | browse, create, destroy, set metadata, vendor set-up | sqlite | crash while the vendor's file is loaded; ids used again | bookmarks loaded once; the object meant is destroyed |
| test GUI, examples, unit tests, checkmore | - | - | - | - | used here as documentation |

`PROJECT.json` lists, for each component, its sources, its modules and what is
left out of it, and the hazards found in the code with the properties about them.

## How the modules are written

- A handler of the code is one action, with everything it calls.  Every process
  is single threaded, so handlers do not interrupt each other; what interleaves
  is their order.  A handler that runs the main loop or asks another process in
  the middle is split there, or its question is answered from a later state.
- What the code leaves to others (a random draw, the answer of a source, what
  GStreamer does) is a choice.
- D-Bus delivers in order from one sender to one receiver.  A call that blocks is
  given its reply ahead of what came before it.
- Object ids are model values.  Where the items of a list are taken to be
  distinct, a member of `Oid` is one occurrence of an object id.
- Each module has a few *wrong versions* of its definitions (its header names
  them).  No action uses them.  Each is a plausible mistake, and replacing the
  definition that follows it by it makes TLC report one of the properties, which
  shows that the property depends on that piece of code.
- Where the code goes on with freed memory, or outside an array, the model stops
  and records that it did (`broken` in `SourceCalls`); it does not say what comes
  after.  `APlaylist` goes on, with any answer (`order = "lost"`).
- A part whose instances are small shares a run with another: the `MC` module
  chooses at the start which of them runs, and the other's state stays as it is.

## The modules

### APlaylist

One playlist of the daemon, `mafw-playlist-daemon/aplaylist.c`.

| variable | code |
|---|---|
| `len`, `vidx`, `shuffled`, `repeat`, `poolst`, `pidx`, `iidx` | the fields of `struct Pls` |
| `order` | history: what removals did to the playing order: `"kept"`; `"damaged"`, it holds an index twice and lacks another; `"lost"`, it led outside the arrays |
| `walk`, `pos`, `said` | history: what one client (the player) was given since its last `get_starting`, where it is in it, and its last answer |

| action | code |
|---|---|
| `PlayerStarts`, `PlayerNext`, `PlayerPrev` | `pls_get_starting`, `pls_get_next`, `pls_get_prev` for the player, about the item it is at |
| `OthersQuery` | any query, `pls_get_last` included, by another client; it may draw items |
| `InsertsSome` | `pls_inserts`, and `pls_insert`, `pls_append`, `pls_appends`, which call it |
| `RemovesOne`, `MovesOne`, `Clear`, `Shuffle`, `Unshuffle`, `SetRepeat` | the functions of these names |
| `Reload` | `pls_save` followed by `pls_load`: `iidx` is computed again from `pidx` |

The random number of `shuffle_elements` is a choice.  The loops that rebuild
`iidx` are modelled with the order they overwrite in (`LastRef`) and with what
they leave behind (`Rebuilt`), because after the defect of `pls_remove` (see
Disagreements) the arrays are not inverse any more.  The code has no check there
and neither has the model: every query and edit goes on with the damaged arrays, and
the player keeps its current item, as long as the indices lead to places of the
list.  A place of `iidx` that was never written holds `Stale`.  When an index that
leads nowhere is used, the memory around the arrays decides: then every answer is
possible, until `Clear` or `Unshuffle` throws the order away.  Saving to files, the
name, the dirty timers and the use count are in `PlaylistStore`.

Properties: the playing order stays a permutation with its inverse and a pool
inside the list, but in the removal that `RemovesDrawn` names (`OrderKept`); a
walk is given no item twice (`NoRepeat`), skips none (`NoneSkipped`), is retraced
by going back and forth (`Retrace`), and is the drawn beginning of the order
(`WalkFollowsOrder`, proved only), while other clients query, insert and remove.
All of them say `order = "kept"`: in a damaged order the code does repeat and skip
items, so the exception is stated in the property and not by a guard.  With
`[a, b, c, d]`, `a` and `b` drawn, removing `a` leaves the order `0 0 1`: the item `d`
is never given.

### GstRenderer

The renderer's state machine, `mafw-gst-renderer.c` and the five files
`mafw-gst-renderer-state*.c`.

| variable | code |
|---|---|
| `cur`, `mode`, `media` | `current_state`, `playback_mode`, `media->object_id` |
| `assigned`, `size`, `current` | there is an iterator; its size and current object |
| `resume`, `failed`, `policy` | `resume_playlist`, `play_failed_count`, `error_policy` |
| `wk`, `wclip`, `stay` | what the worker does, the object its pipeline was started for, `worker->stay_paused` |
| `pend` | how many answers of sources are on their way for each object, and at `NoObj` how many idle callbacks `mafw_gst_renderer_manage_error_idle` |
| `held` | history: the last of the user's play, pause, resume and stop commands was pause |

| actions | code |
|---|---|
| `Play`, `PlayObject`, `Stop`, `Pause`, `Resume`, `SetPosition`, `NextItem`, `GotoIndexOutside`, `AssignPlaylist`, `SetErrorPolicy` | the methods of the renderer, each with what the current state's class does (`Stopped`, `Transitioning`, `Playing`, `Paused`); a command a state refuses is not enabled in it |
| `PreUnmount` | `_volume_pre_unmount_cb` for the card the clip is on |
| `ItemsInserted`, `ItemsRemoved` | `_playlist_contents_changed_handler` and `_playlist_changed_handler`, when the iterator reports an edit |
| `MetadataArrives`, `SourceMissing` | `_notify_metadata` with a URI or with an error; the idle error callback |
| `Prerolled`, `WorkerPlays`, `WorkerPauses`, `WorkerFails`, `EndOfStream` | the worker's notifications |
| `RunErrorPolicy` with `GiveUp`, `LeaveStandalone`, `TryNext` | `_run_error_policy` and what its caller does with the answer |

Abstracted: the playlist is an iterator with a size and a current object, and a
move leads to any object (which stands for every order).  The worker is eight
phases, of which the pipeline chooses the next.  An object whose source is
missing is a choice at each request, because sources come and go.
`PlaylistFails` lets the playlist fail to say which item is next, `LateErrors`
lets a pipeline fail between its preroll and its first frame.  Left out: the
position and pending seeks, metadata that is emitted, play counts and their
timer, volume, a failing `assign_playlist`, radio streams as such.

Properties: the reported media is what the worker plays and, in playlist mode,
the current item (`MediaIsPlayed`); state and worker agree (`WorkerInStep`); a
stopped renderer is idle (`StoppedIsIdle`, proved only); Transitioning waits for
something (`NothingHangs`) and ends (`Settles`, which the second instance of
`MCGstRenderer` checks as `LeftSettles`).

### PlaylistIterator

The renderer's place in a playlist, `mafw-playlist-iterator.c`, together with
the handlers of `playlist-wrapper.c` whose signals it follows.

| variable | code |
|---|---|
| `items` | the playlist in the daemon, in visual order |
| `signals` | `contents_changed` and `item_moved` on their way, in order (D-Bus keeps it) |
| `phase` | the iterator is not initialised, in the middle of `initialize`, or connected |
| `index`, `objectid`, `size` | `current_index`, `current_objectid`, `size` |
| `told` | the item the renderer took at its last own move or `clip_changed` |
| `kept` | history: the current item when nothing was on its way |

| action | code |
|---|---|
| `Insert`, `RefusedInsert`, `Remove`, `Clear`, `Move` | the requests in `handle_playlist_request`, each with its signal; `RefusedInsert` is the request `pls_inserts` refuses, which is announced all the same |
| `AskStarting`, `AskSize` | the two halves of `mafw_playlist_iterator_initialize`, between which other clients may edit |
| `HandleSignal` | the two signal handlers, with `update`, `move_to_index` and `get_size`; while it is not connected the iterator drops signals |
| `RendererMoves` | `mafw_gst_renderer_move` with its five directions |
| `Invalidate` | `mafw_playlist_iterator_invalidate` |

A question to the daemon is a blocking call and its reply overtakes the signals
queued before it, so it is answered from `items` as they are by then.  Where the
answer depends on a shuffled order, any index may be the answer (`NextIndex` and
its neighbours); that the order is a good one is `APlaylist`'s matter.  Two
integers of different signedness are compared as C does (`Precedes`).  Errors of
the connection are left out.

`Allowed` says what else happens: items are moved, edits are refused, the
renderer gives commands while signals are on their way, the list is edited while
the iterator is being initialised.

Properties: when no signal is left, the size is right (`SizeSettles`, proved
only), the index is the place of the item (`PlaceSettles`), the renderer was told
of the item (`ToldSettles`, checked as `ToldInStep`), and no edit took the item
away (`ItemStays`).

### PlaylistStore and PlaylistVault

All playlists of the daemon, in memory and on disk: `playlist-manager-wrapper.c`,
`playlist-wrapper.c` (names, use counts), the dirty timer and the files of
`aplaylist.c`, the main loop of `mafw-playlist-daemon.c`.  What a playlist holds
is one version number, raised by each edit; its files `N` and `N.tmp` have a name
and a version.

| actions | code |
|---|---|
| `Create`, `Dup`, `Edit`, `Rename`, `Destroy` | the requests; each change starts the timer again (`Dirtied`) |
| `TimeIsOver` | the timer's seconds have passed without a change |
| `Increment`, `Decrement`, `DecrementUnknown`, `ClientDies` | use counts, and `NameOwnerChanged` of a client that held playlists |
| `Settle`, `SettleFails` | the timer: write `N.tmp`, flush, rename; or one of these steps fails (`OpenFails`, `WriteFails`, `RenameFails`) |
| `Terminate`, `SaveAtExit`, `Exit` | SIGTERM saves playlist after playlist, then the main loop ends |
| `Crash`, `CrashInSave` | the daemon dies between two handlers, or within a save |
| `Start` | `load_playlists` with its passes over `.tmp` files and files, and the ids and names it takes from them |

While the daemon is down its memory keeps values that nothing reads.  `torn` and
`stale` remember that the daemon once stopped with something unsaved, or that a
client gave up a hold of an earlier daemon; they are the exceptions of
`NamesExact` and `UseCountsRight`.

`PlaylistVault` is what the daemon means to promise: a playlist that was saved is
there after a restart, in the version saved last or, if a later one was written
completely and only not renamed, in that one, which is the saved one from then on;
one that was destroyed is gone.  `VaultSpec` (`INSTANCE PlaylistVault WITH`, the file
for `base`, the temporary file for `extra`) says that the store implements it but for
two steps, which the vault has as `LoadsEither` and `ForgetsHalf` outside its `Next`:
a start that finds a complete `N.tmp` loads either version and renames nothing, and a
destroy leaves `N.tmp` to the next start.  Both are the defect at
`playlist-manager-wrapper.c:183` (see Disagreements), and the property lets them pass
for `Start` and `Destroy` only, and only if such a file is there.
`EditsReachDisk` is its liveness: each version gets to the disk, or is overtaken,
unless changes of the playlist `Postpones` the save for ever: each of them starts the
timer again.

### GstWorker

`mafw-gst-renderer-worker.c` between the renderer that commands it and a pipeline
that is asked for a state, gets there step by step and tells of it by messages
handled later.  Handlers call each other in their middle (a notification makes
the renderer command the worker, before the worker's handler goes on), so they are
functions from the record `s` to `s`, and a step applies one.  `s.gst`,
`s.target`, `s.bus`, `s.low` are the pipeline (external); `s.owner` is the
renderer's state; `s.want` is history, the user's last word.

| actions | code |
|---|---|
| `Play`, `Stop`, `Pause`, `Resume`, `SetPosition` | the renderer's commands with what its states do with them, `mafw_gst_renderer_worker_*` |
| `Handle` | `_async_bus_handler`: state changes (`Prerolled`, `ReportPlaying`, `WokenUp`), buffering, errors (`Error`, the next item or alternative), end of stream |
| `GoToReady` | the timer that takes a long paused pipeline to READY |
| `Advances`, `RunsLow`, `Fills`, `Errs`, `Ends` | what GStreamer does by itself |

A scenario is a set of kinds of things that happen in it (`Kinds`): all at once
are beyond TLC, and some of them meet the disagreements below, which hide what
comes after.  `Agrees`: when no message is left and no state is pending, the
renderer's state is the pipeline's.  `Settles`: what is started comes to play, to
pause or to an end.

### GstVolume

`mafw-gst-renderer-worker-volume.c`: one write at a time, at once or by a timer; a
read after each event; PulseAudio with its restarts, its own steps (65536, so
percents are converted both ways) and other clients.  `Agree` is checked as
`VolumesAgree`: in the end the user sees what PulseAudio has, but in the cases
`spoilt` remembers.  `NoEcho`: as long as nobody else changes it, the volume shown
is the one set last, however late answers arrive; only the first read of a
connection overrides it.

### The browse chain

| module | models |
|---|---|
| `BrowseContract` | what `mafw_source_browse` promises a caller: results numbered from 0, each object once, fewer left each time, one last result or one error; nothing after the end or a cancel |
| `BrowseResult` | a result, and the outcome of a source's handler |
| `UpnpBrowse`, `IradioBrowse`, `TrackerBrowse` | browse and cancel of the three sources: slices of a server; rows in idles; tracker's answers in up to three steps, with five kinds of categories |
| `BrowseWrapper` | `source-wrapper.c`: batches flushed by size, by timers, at the end; cancel and its queued removal |
| `ProxySource` | `mafw-proxy-source.c`: calls that block or time out, messages with results, the client's callback that may browse and cancel itself |
| `BrowseChain` | a client, the bus, the wrapper and one of the sources; faults are time-outs and a UPnP server that leaves |

`ContractSpec` states that the chain implements `BrowseContract` (`phase` and `got`
are derived from what the client was given).  `HasListener`: a source never calls
back for a request the wrapper has freed.  `BrowseEnds`: a browse that is not
cancelled ends and the wrapper frees its request.  The batch sizes of the wrapper
(`FirstBatch`, `LastBatch`) are constants, so that small lists need several.

### PlaylistManager

The daemon's manager (`playlist-manager-wrapper.c`) and the table of each
application (`mafw-playlist-manager.c`): create, destroy, duplicate, list, get,
import and cancel; calls that block and time out, signals that wait on the bus
meanwhile; a restart that keeps any of the playlists.  `Resync` is the
comparison with the restarted daemon's list, index for index.

`ToldOnce`: each application is told exactly once of a playlist made and of one
destroyed.  `ImportComing`, `ImportEnds`: an import that was not cancelled is
worked on or answered, and calls back, once.  `NothingDeadKeptYet`: until a
restart, a destroyed playlist leaves every table.  `NothingDeadKept`, the same
after a restart, is violated (see Findings).

### Discovery

How applications come to have proxies: the daemon's registry and exported names
(`mafw-registry.c`, `wrapper.c`, `extension-wrapper.c`), `mafw_shared_init`, the
hello signal, the questions a proxy asks before it is added, the match rule for
its loss (`mafw-shared.c`, `mafw-proxy-extension.c`), and the counts of
activations with the applications that exit.  `Found`: an extension that stays is
found.  `StaleOnlyIfHasty`: a proxy of a lost extension is kept only if it left
before the match rule was there.  `ActiveIfActivated`: active is what living
applications activated.

### Calls of a source

| module | models |
|---|---|
| `SourceAnswer` | the reaction of a handler; the `get_metadatas` that `mafw-source.c` makes of `get_metadata` |
| `IradioStore` | the table of bookmarks, its statements and transactions, the vendor's file (`mafw-iradio-source.c`, `mafw-iradio-vendor-setup.c`) |
| `UpnpCalls` | an answer of a server, parsed as DIDL-Lite |
| `TrackerCalls` | questions about clips and containers, counted as they are answered; destroying |
| `SourceCalls` | calls from proxy to source and back, idles, questions, crashes of the daemon |

`AnsweredOnce`: one callback per call, and an error of one object is not lost in
`get_metadatas`.  `AllAnswered`: it comes.  `VendorOnce`: the vendor's bookmarks are
there once each, whatever crashes in between.  `DestroysTheMeant`: the object
destroyed in an idle is the one that had the id when the call came.  The
exceptions the code makes necessary are named in the properties (`spoilt`,
`broken`).

### RendererProxy and PlaylistItems

`RendererProxy` is what clients see of the renderer: `mafw-proxy-renderer.c`,
`mafw-proxy-extension.c`, `renderer-wrapper.c`, `extension-wrapper.c`.  The
renderer itself is a status that `Outcomes`, `Own` and the settings change, each
change signalled; assigning a playlist asks the playlist daemon in its middle
(`HandlesAssign`, `Assigns`), and fails with an answer if there is no such playlist
(`FailsAssign`).  Clients block in some calls and follow the signals.
The renderer's process may crash.  Left out: time-outs of a client, the signal of
errors, the position and the metadata (they are asked for, not followed), unknown
properties, transport actions (they follow from the state).  `Agrees` is part of
`ClientsFollow`: a client with no message left has every part of the status as it
is, but for an index that `moved` names; the other part is that every call is
answered.

`PlaylistItems` is `mafw_playlist_get_items_md`: size and items are fetched by
blocking calls, an idle groups them by source and asks each once, answers come in
any order, others edit the list, sources come and go, the operation may be
cancelled, also from its callback.  `ItemsOnce`: each item is given at most once,
all of them without a cancel, nothing after a cancel or the end, and it ends.
Left out: an operation whose address is used again by a later one.

### What travels

`MCTrip` is one state machine of three steps (given, written, read) over many small
inputs, for the conversions that have no state.

| module | models |
|---|---|
| `Filter` | `mafw-filter.c`: parse, print, quote, and the copy by both |
| `Metadata` | `mafw-metadata.c`, `mafw-metadata-serializer.c`: evaluating a filter, comparing, sorting, relevant keys, packing to bytes with widths `W` |
| `Wire` | `mafw-dbus.c`: arguments of every type, metadata, errors |
| `TrackerRows` | `tracker-cache.c`, `tracker-iface.c`, `key-mapping.c`: which column a key gets, what is read back, and filters as RDF queries |
| `TrackerPaths` | ids of the tracker source: what is browsed below an id, the ids given, playlist entries |
| `UpnpTexts` | search criteria, sorting, filters, DIDL-Lite to metadata (`mafw-upnp-source-util.c`, `-didl.c`, `mafw-upnp-source.c`) |

`TripKeeps`: a filter, argument or error arrives as it was sent, a damaged text that
is accepted means the same after the next copy.  `FilterMeans`: a source that
fetches only the relevant keys finds what the filter means.  `SortsTotally`:
comparing is a total order, decided by the relevant keys.  `RowsInPlace`: each key
is given the value of its own column and each id names what was browsed.
`SearchKept`: the queries sent to tracker and to servers say what the filter said,
about the property its key means.  A filter with a key that the UPnP source looks up
in the wrong table (`Misnamed`, see Findings) is the exception: of it only the rest is
kept, operators, values and how the terms are joined.

### How they fit together

- `APlaylist` decides which index comes next, `PlaylistIterator` keeps that index
  right while the list is edited, and `GstRenderer` plays the iterator's item.
  The iterator takes any index from a shuffled list, the renderer any object from
  the iterator.  `GstRenderer` relies on the iterator's promise that its item
  changes only with a `clip_changed` signal or by its own move, which is
  `ToldSettles`.
- `GstWorker` has the renderer's states in it, simplified to what they do with the
  worker; `GstRenderer` has the worker as phases, of which the pipeline chooses.
  What the one leaves open the other decides.
- `BrowseChain` composes `ProxySource`, `BrowseWrapper` and the three source modules;
  `SourceCalls` does the same for the calls that answer once.  `Filter`, `Metadata`
  and `Wire` are about what these carry, which is abstract there.
- `PlaylistStore` is the daemon that `PlaylistManager` restarts: the latter allows
  every subset of the playlists to be found again, of which `VaultSpec` says more.
- `RendererProxy` takes the status of `GstRenderer` as given, `PlaylistItems` takes the
  proxies of `Discovery` as given.

## The runs

| run | instance | shows |
|---|---|---|
| `aplaylist` | 4 items, lists up to 4, up to 2 inserted at once; 154 thousand states up to the names of the items | the playing order stays a permutation but for one removal; until then a walk visits each item once, can be retraced, and skips none, under every interleaving with queries and edits |
| `renderer` | 3 objects, up to 3 items, 2 answers of each kind, late errors; beside it 2 objects, 1 answer, a playlist that may fail | media, worker and state agree and nothing hangs; left alone, the renderer keeps leaving Transitioning |
| `worker` | 4 scenarios, 3 messages on the bus, 1 further candidate; beside it the volume, 3 changes by the user, 2 by others, 2 restarts or refused writes | renderer and pipeline agree and come to an end; volumes agree, no late answer takes the volume back |
| `iterator` | lists up to 3, 3 signals on their way, shuffled, commands; beside it lists up to 5, one signal, moves and refused edits | index and item are right once the signals were handled; the current item stays; the renderer was told |
| `store` | 2 playlists of 2 names, 2 versions; beside it 1 playlist, 2 clients with 2 holds each, counts below 5 | names exact, counts right, changes reach the disk if they pause, the vault is implemented but for the steps named |
| `browse` | 3 sources, up to 3 objects, slices of 2, batches of 2 and 3, 5 tracker categories, up to 2 browses at a time | the contract is implemented, browses end, no request is used after it was freed |
| `manager` | 2 applications, 1 name, 3 calls, 1 restart | told once, imports end, nothing dead is kept before the restart |
| `manager_restart` | 1 application, 2 playlists, 2 calls, 1 restart | violated: see Findings |
| `discovery` | 2 applications, 1 extension, 4 events | found, lost and active as it should be |
| `calls` | 4 calls, 2 URIs, ids up to 6, counts below 8, 2 items of DIDL-Lite, 2 versions of the file; beside it 2 clients with 2 calls each on a renderer, at most 3 changes of its own, and 2 fetches of lists up to 4 with 2 sources | each call answered once and in the end; bookmarks once; the right object destroyed; clients follow the renderer; items given once |
| `trip` | texts of up to 4 pieces, 2 rows, width 4, 12 kinds of inputs | what is written is read |
| `search_keys` | as `trip`, searches only | violated: see Findings |

### Why the bounds are enough

In the playlist the parts that matter are the drawn part, the pool, a border
between them, and an item on either side that moves: four items give each of them
up to two, and two at once is the first batch that shifts by more than one.  In the
renderer one clip played, one asked for and one answered late are three objects;
two answers of one object is the first time one of them is stale for the object
itself; a third item lets the count of failures be neither first nor last.  In the
iterator three signals are the one being handled, one whose edit its questions see
already, and one that is pushed in front; five items let a move cross the current
item with one on each side.  The proofs do without the bounds for what they cover.

In the store a second playlist is the one a name collides with and the one a save
at exit has left to do; a second version is the first that can be lost.  Two holds
of two clients are the first time one is given up while others remain.  In a
browse three objects are one full batch or slice and a last one, and an empty
container is there too; a second browse is what a cancel or an end may be mistaken
for.  One further candidate of the worker is the first time an error is not the
last.  In the manager three calls are one that makes, one that destroys and one
that crosses them.  An extension that comes, goes and comes back while an
application exits are four events.  Four calls of a source are one that is queued
behind another, with one before and one after; ids never exceed 6 in 4 calls.
Texts of four pieces hold a bracket, an operator, an escaped character and one that
is missing.

Bounds in the guards: `MaxLen`, `MaxBatch`, `MaxSize`, `MaxPending`, `MaxLag` (and in
`RefusedInsert` the iterator's size, which would grow for ever), `MaxBus`, `MaxMore`,
`MaxSets`, `MaxOthers`, `MaxFails`, `Bounds`, `MaxCalls`, `MaxStarts`, `MaxEvents`,
`Scenarios`, `MaxFiles`, `MaxDidl`, `MaxId`.

Symmetry: items are interchangeable, no definition orders them, and it is used in
`aplaylist` and `iterator`, which check no liveness.  Deadlock is checked in
`aplaylist`, `renderer`, `iterator` and `store`.  Elsewhere calls, events and
changes are bounded and everything is over when they were made and answered.

### Fairness

| specification | assumes | because |
|---|---|---|
| `GstRenderer` | sources answer, idles run, a started pipeline reports something | the contract of `mafw_source_get_metadata`; the main loop returns to its idles; GStreamer posts a message for a state change that ends or fails, and the worker has time-outs of its own |
| `GstWorker` | the pipeline advances (strongly), a buffer fills, messages are handled | a stream that is there and has data; the strength is needed because new commands change the state advanced from |
| `GstVolume` | timers go off, PulseAudio serves, messages are received, a lost connection is made again | one main loop on either side, and the reconnecting timer |
| `PlaylistStore` | a timer's time passes if no change starts it again (`TimeIsOver`), it is served if none does so before (`Fires`), and if saves of a playlist fail again and again, some succeed | the main loop; a save that fails is tried again by the next timer.  Nothing is assumed against changes that come for ever: they may keep the timer from being served, which `EditsReachDisk` names |
| `BrowseChain` | the daemon, the source, the bus and the client's loop go on | as above; nobody is forced to browse |
| `PlaylistManager` | the daemon serves, sources answer an import, each application runs its loop | an application that stops running is not waited for |
| `Discovery` | the daemon serves, applications run their loops | the same |
| `SourceCalls`, `RendererProxy`, `PlaylistItems` | loops go on, idles run, processes asked answer or the bus refuses for them | the same; what is not answered is named in `spoilt` |

Nothing forces a command, an edit, a crash, or the end of a clip.  `Settles` of the
renderer asks that from some moment on nobody commands or edits, and says that it
then leaves Transitioning again and again.  It may keep playing clip after clip.

## Findings

Each is a run whose counterexample TLC prints.

| run | at | the code | what is said |
|---|---|---|---|
| `manager_restart` | `mafw-playlist-manager.c:360` | the comparison with a restarted daemon's list uses `ids[i]` where `ids[j]` is meant, and skips the playlist after one it removed | `mafw-playlist-manager.c:89`: nonexisting playlists should not remain in the table for long |
| `search_keys` | `mafw-upnp-source-util.c:290` | the property of a key is looked up in `upnp_filters` by the key's place in `upnpmaps`, another array | `mafw-upnp-source-util.c:280`: returns the UPnP key; `test-upnp-source.c:616` expects `dc:title` for a title |

## Disagreements

Met while modelling: the code does one thing where a doc, a comment or a sensible
caller expects another.  The models do as the code; properties name the exception
or leave the case out, as said here.  No run is spent on them.

Array playlist and its wrapper
- `aplaylist.c:381`: removing an item that was drawn while others are in the pool
  leaves one index twice in `pidx` and loses another, which `get_next` never reaches
  again; `pls_check` (line 51) says that both arrays contain all indexes exactly
  once.  It is the exception `RemovesDrawn` of `OrderKept`, and the order it leaves
  (`order # "kept"`) that of the other properties.
- `aplaylist.c:686`: a duplicate's `poolst` is copied from itself, so its pool starts
  at 0.  Queries that draw change the playing order without marking it dirty.
- `playlist-wrapper.c:400`: the signal of an insertion is sent even if `pls_inserts`
  refused it.  An iterator's size is then wrong for ever.  This is why the proofs
  assume that there are none (`Truthful`).

Playlist store
- `playlist-manager-wrapper.c:183`: a left over `N.tmp` is renamed relative to the
  working directory, so it stays, though the comment at 167 says that it is renamed
  and then loaded; a start may load the older file, the newer one is lost when the next
  save fails, and a destroyed playlist comes back (`LoadsEither` and `ForgetsHalf`).
- `aplaylist.c:126`: each change starts the timer again, so a list that is changed more
  often than every `Settle_time` seconds is not saved before the daemon ends.
- Two playlists of one name
  after a crash end in an assertion when one is renamed or destroyed.
- `mafw-playlist-daemon.c:135`: `-k` quits a main loop that is not run.
- Use counts start at 0 after a restart while clients keep their holds; what such a
  client gives up is taken from somebody else's (`stale`).
- A large `N.tmp` cut inside the last item's id is loaded with that id cut.

Playlist manager
- After a restart, ids of playlists and imports are used again and imports under
  way are never answered.  The proxy of a dead playlist may then denote a new one.
- An application without a reference to a playlist is not told that it was
  destroyed, even the one that destroyed it.  A create that times out returns
  NULL though the playlist is made, and the doc says that none is.
- A cancel that races the answer returns FALSE and the callback never comes; a
  cancel during a browse is completed by the UPnP source all the same, and leaks the
  request with the others.  A browse refused at once frees the request that its id
  is then stored in (line 789 of the wrapper).

Renderer
- `mafw-gst-renderer.c:1498`: an error answer runs the error policy in any state:
  play, stop, and the source's late error starts the next item
  (`mafw-gst-renderer-state-stopped.c:284`: the results of a stopped play are ignored).  A late error
  for an object that is no longer asked for likewise stops the clip that plays.
- `mafw-gst-renderer-state-transitioning.c:199`: `stay_paused` outlives the request it was set for:
  play, pause, play another object, and it comes up paused (`mafw-renderer.c:590`).
- `mafw-gst-renderer-worker.c:958`: the count of failures is reset at the preroll:
  items that preroll and then fail are tried for ever (`mafw-gst-renderer.h:139`).
  With `LateErrors <- TRUE` in `Left`, TLC finds it; this is why that instance has
  none.
- With a playlist that fails to answer, the renderer can stay in Transitioning with
  nothing awaited; the exception of `LeftSettles`.
- `mafw-gst-renderer-state.c:612`: next and previous out of standalone mode at the end of the playlist
  play an item whatever `resume_playlist` says, against the comment at line 573.
- `mafw-gst-renderer-state.c:439`: play while playing starts the clip again, and stops it if there is no
  playlist; `mafw-renderer.c:573` has it do nothing.
- `mafw-gst-renderer-state.c:578`: if the playlist fails to answer, next has already left standalone mode
  and replaced the media, while the old clip plays on.  `MediaIsPlayed` is therefore
  stated for a playlist that answers.
- `mafw-gst-renderer.c:1922`: when the iterator of a new playlist fails to initialise,
  the old playlist is kept without its use count, with an iterator that was freed.

Playlist iterator
- `mafw-playlist-iterator.c:217`: an item asked for after a later insertion is not the
  one the later signal moves the iterator to, and that signal is not `clip_changed`:
  with two signals on their way and no commands `ToldSettles` is violated.
- `mafw-playlist-iterator.c:313`: an edit made just before `initialize` is in its
  answers and in a signal that arrives afterwards: counted twice.  (With "early"
  in `Allowed`, `ItemStays` is violated.)
- `mafw-playlist-iterator.c:265`, `:269`: `item_moved` follows a push by asking for the
  next or previous item in *playing* order of the list as it is by then.  In a
  shuffled list, or with later edits, this is another item.  Moves are therefore
  checked unshuffled, one signal at a time, and left out of the proofs.

Worker
- A pause while the pipeline is PAUSED on its way to PLAYING brings no message: the
  renderer stays Playing.  Resume followed at once by a seek leaves the renderer
  Paused while the pipeline plays.  A pause while buffering that is still reported
  as playing is lost (against the comment at 2285), as is one in Transitioning after
  the preroll's play.  An error while paused plays the next candidate.
- The READY timer: a buffer that fills while the pipeline is in READY starts it
  unasked; the timer is not removed when PAUSED to PLAYING is handled while
  buffering (926), and can fire between the request for PLAYING and its message; a
  refused READY keeps a stale id.
- An unparsable playlist's error survives a stop (with "unparsable" in a scenario
  `Settles` is violated; comment at 2218).  The handler of the end of a stream removes
  the watch of the new pipeline if the notification started one.  A seekability
  of -1 counts as seekable.  A playlist that names itself would loop for ever.

Volume
- It is stuck for good when another client's change overtakes a pending write, when a
  write fails, or when PulseAudio restarts with one pending.  With other clients a
  newly set volume can be taken back.  `volume * 100` is truncated: 29, 57 and 58
  are shown as 28, 56 and 57.  Without an entry for the role, initialisation never
  completes.  A change between the first read and the subscription is missed.

Browsing
- UPnP: a first answer that fails or is empty never calls the callback
  (`mafw-upnp-source.c:1476`), and `source-wrapper.c:185` waits for it; `BrowseEnds`
  excepts it.  `current >= item_count - 1` (1571) loses the last item of short slices.
  `remaining_count` ignores the number skipped, so a browse may ask for a slice too
  many and end with an error after everything was delivered.  An action that cannot
  be begun calls back with an invalid id, then once more with freed data (1827; not
  modelled).
- `mafw_source_cancel_browse` after the end is an error although `mafw-source.c` says
  it is not.  A cancelled request of the radio source is never freed, so later cancels
  succeed; a browse of another id returns INVALID without a callback, and the client
  waits for D-Bus to give up.
- Tracker: browsing everything skips the number of items to skip twice, of songs and
  of videos, and leaves songs out when their query fails (532); the categories of the
  root ignore skip and count; entries of a playlist are reversed when none is local
  (771); closures are not freed after an error.

Discovery
- A proxy whose extension leaves while it is being made is added all the same and stays
  for good (`mafw_shared_init` says otherwise); `StaleOnlyIfHasty` states the window.
- Unexporting a component that was never exported unexports the last one that was; the
  model has one process per plugin.  An application that holds a removed proxy keeps
  its object path, and the extension can get no new proxy; the model assumes that
  references are dropped, and that an extension added again is a new object.
- An activation handled after its application exited is never undone (`ghosts`).

Calls of a source
- Radio: `set_metadata` deletes the old values outside the transaction, so a failure or
  a crash loses them; the row of the vendor's date counts as an object; an id that is
  used again between two queued destroys loses the new object; destroying what is not
  there succeeds, though `mafw_source_destroy_object` names an error for it; a vendor's
  bookmark without URI calls a NULL callback, at every start.
- Tracker: a failing question answers at once while others are open, and uses a freed
  closure when they are answered; several clips with keys unknown to tracker are
  counted as one; a failing `set_metadata` reports tracker's names of the keys.
- UPnP: an empty, multiple or broken answer never or more than once calls back; a
  server that leaves with an action pending is answered for by the time-out of D-Bus.

Clients of a renderer, items of a playlist
- Assigning a destroyed playlist unassigns the playlist and answers success.  The index
  of the current item after an edit is not signalled (`mafw-gst-renderer.c:1636`); it is
  the exception `moved`.  The reply of the blocking `assign_playlist` is taken before
  the signals sent before it.  An index of -1 is signed in one message and unsigned in
  the other.  `status != 100.0` of the buffering signal is always true.
- A failing `get_items` does not call the free function of the caller's data
  (`mafw-playlist.c:951`), and an error of `get_size` is taken for an empty playlist.  The
  list may change between the two calls.

What travels
- Filters: "(a?b)" is parsed and cannot be printed; a value with a bad escape is accepted
  as NULL; a missing bracket at the end is accepted.
- D-Bus: an empty list of values makes the receiver abort or swallow the next argument;
  values of types long, unsigned long, float and unsigned char abort the sender although
  `mafw_renderer_emit_metadata` takes them.
- Tracker: the titles of several playlists are missing unless the URI is asked too; all
  groups of a category "all" have the first row's text; a number of children alone is
  counted 0; a filter with `exists` is dropped as a whole; values of unknown keys are
  not escaped; filters of videos use the keys of music; `~` is "contains" with its
  stars literal.  Ids below an album with a special character name another album
  (`mafw-tracker-source-browse.c:849`); entries of a playlist with "?", "%" or an
  escaped slash are broken by escaping, and a stray "%" in one is a crash (668); a
  relative name leads to all songs.
- UPnP: values of a filter are unquoted twice (`mafw-upnp-source.c:1030`); a star in the
  middle is refused; a sorting term without a sign drops the sorting; a thumbnail needs
  a key of album art asked too, seekability alone is never answered, the MIME type may
  be guessed; a `protocolInfo` of fewer than four fields is a crash.

## The proofs

All are checked by TLAPS for every value of the constants that satisfies the
named assumptions.  These ask no more than that a bound is a number, that "none"
is neither an item, a playlist, a file, an extension, a call nor a request, that
there are finitely many applications (of `Discovery`), extensions and playlists on
disk, the latter with ids above 0, and at least one name (of `PlaylistStore`), that a
batch has at least one result, that the browses are numbered from 1, that a
scenario names a source that is there and asks it what it may be asked, and that a
volume is a percent.  TLC
evaluates each of them in the runs.

### APlaylist_proofs

`Invariance`: the inductive invariant is `IInv == Kept \/ Damaged`.  `Kept` is
`order = "kept" /\ TypeOK /\ Distinct /\ WellFormed /\ NoRepeat /\ WalkFollowsOrder`,
`Damaged` is `order # "kept" /\ TypeOK /\ Distinct /\ InPlace`, where `InPlace` says
that what the order still has leads to places of the list.  No step's guard has
`WellFormed`: that it holds while the order is kept is part of what is proved, each
step is shown for a kept order and for a damaged one, and that only `RemovesDrawn`
leads from the one to the other is `OrderIsKept`.
`Distinct` (no item twice in the list) is what makes the walk's item determine
its index.  `WalkFollowsOrder` is the strengthening that makes `NoRepeat` inductive:
a drawn item differs from all given ones because the walk is the beginning of an
injective order.  The lemmas below it say what a swap, a rebuilt inverse, an
insertion and a removal do to two mutually inverse arrays.  From it follow
`TypeCorrect`, `WalkHasNoRepeat`, `WalkIsTheOrder`, and the action properties
`OrderIsKept`, `WalkIsRetraced` and `WalkSkipsNone`.

### GstRenderer_proofs

`TypeCorrect` and `StoppedStaysIdle` hold of every renderer.  `Invariance` assumes
`~PlaylistFails` and has `IInv == TypeOK /\ StoppedIsIdle /\ Steady`, where
`Steady` adds to the checked invariants (`PipelineOfMedia`) that a running pipeline
is the media's, an idle one has no clip, none has ended unnoticed, and a renderer
that is not stopped has a media: without it a notification of the worker could
report a clip that is not the media.  The three are proved together, because
each step that sets the state must show the worker's phase and the clip at once.
`ReportedIsPlayed`, `AlwaysAwaited` and `StateIsWorkers` follow.

### PlaylistIterator_proofs

The difficulty is the signals on their way: what the iterator has belongs to a
playlist that does not exist any more.  The invariants therefore remember the
past by quantifiers instead of history variables:

- `Sized`: there is a function `f` of sizes, one for each queued signal and one
  for now, each obtained from the previous one by the signal's edit; its last
  value is the size of the playlist and its first the iterator's.  `SizeIsRight`
  follows when the queue is empty.
- `Placed`: the iterator's item and index are from the moment some m-th of the
  queued signals was sent, later than the size, as questions are answered ahead
  of signals.  The index is inside the list of that moment or inside the
  iterator's size, and unless one of the later signals is about an item at or
  before it, it is the place of the item now.  `PlaceIsRight` follows.
- `Followed`: the place of the kept item, pushed by each queued signal in turn,
  is where the item is.  `ItemIsKept` follows, with the lemmas on what an
  insertion or a removal does to the place of another item.

`Types` and `SizeIsRight` assume that every announced edit was made and none
happens during `initialize` (`Truthful`); `PlaceIsRight` and `ItemIsKept` assume
also that no items are moved.  The queue, the list and the sequence of edits have
any length, the renderer may ask for items at any time.

`ToldWhenInStep` is about the other instance of the run, in which items are moved
and edits refused, with one signal on its way at a time.  Its invariant `StepHeld`
says that index, item and size belong to the list before the signal, which is
the list now if none is there, and that `told` is the item: so a handler that
changes the item without telling the renderer would be found.

### PlaylistStore_proofs

`TypeCorrect` needs three facts beside the types: nothing is left, in memory or on
disk, of an id that was not issued yet (`Fresh`), a client knows of the holds the
daemon knows of (`Believed`), and only an exit has playlists left to save.
Loading issues ids above the greatest it found, and that there is a greatest
one is `WFMin` on what bounds them.

- `NamesStayExact`: the names are one to one with the living playlists
  (`OneToOne`).  A restart builds the names from the files, so while nothing is torn
  the files have to be the playlists' (`Whole`): no temporary file, no file of a
  dead one, and those saved by an exit, or all when it is over, as they were.
- `CountsStayRight`: a count is the number of pairs of a client and a hold of its, and
  each request adds or takes one pair, or all of a client that left the bus.
- `StoreKeepsVault`: each step of the store is a step of `PlaylistVault` or changes
  nothing of it, or is one of the two steps named.  A crash within a save is the
  vault's unfinished save; loading is its recovery, or with a left over file the
  exception.

### PlaylistManager_proofs

`NoDeadPlaylists`, `EachIsTold` and `ImportsAnswered` state `NothingDeadKeptYet`,
`ToldOnce` and `ImportComing` for any number of applications, names, calls and
playlists found on disk.  Like the properties they hold until the daemon is
restarted: it then numbers playlists and imports anew, and messages of the
old one are still on their way.  The invariant is therefore `Inv`: `Orderly` while
`starts = 0`.  The difficulty is that an application learns of one playlist by
several ways, a reply that overtakes a signal among them, so that none of
the properties is inductive alone.  `Orderly` adds to the types:

- `Boxes`: of one playlist an application is sent created once and destroyed once;
  created, and the answer of an import that names it, are sent while it is alive and
  so come before destroyed.  A playlist in a reply is alive, or destroyed is anywhere
  in the queue: nothing is dispatched while the application is blocked.  Hence
  what puts a playlist back in the table is always followed by what removes it.  At
  most one reply is on its way to an application, none to one that is not blocked.
- `Blocked`: a call that will be answered is the one its application waits in, and
  there is one such call at most; one that timed out is not answered.
- `Kept`: a table has each playlist once, alive or with destroyed on its way.
- `ToldRight`: created and destroyed were told once or not at all, and not when they
  are still on their way; what an application refers to is in its table or it was
  told that it is gone.
- `Owned`, `Awaited`, `Counted`: an import's id is known to one application, which has
  stored it or is blocked in the call whose reply has it, so the answer of an import
  that comes before the reply waits for it; it is worked on or its answer is in the
  queue; it has not called back yet.

There is one lemma for each operation of the daemon, of an application and of the
bus, and below them what sending and taking a message do to the order of a queue.
`register_playlist` is repeated over a reply by a recursive function (`Registered`),
and what it leaves in the table is shown as described below for `Heard`.

### Extensions_proofs

About two components that share no state, each with its own invariant.  Of `Discovery`:

- `ActiveWhileActivated`: the count of an extension is the number of applications that
  activated it (`Counted`), and the daemon watches each of these; when one has exited
  the news is on its way, or it was lost with the daemon's names and it is one of
  the ghosts the property excepts (`Watched`).
- `StaleOnlyWhenHasty`: an application that holds what is lost, and was not hasty, will be
  told (`Leaving`): the loss is in its queue, and no hello that comes before it can
  make the application ask again.

Of `SourceCalls`: `CallsAnsweredOnce` is `AnsweredOnce` for any scenario, number of calls
and objects, answers of other processes, and outcomes of the statements.  Calls of the
callback are not counted: a source that answers again, or goes on with what was freed,
sets `broken`, so the invariant has to show that neither can come.  `AllAttended` says
of each call, but those an odd answer of another process spoilt (`spoilt`):

- `Attended`: one that is held has something due, and the right amount of it.  A request
  that gathers nothing has one idle function or one open question (`DoesOne`).  One
  that the base class gathers (`Collects`) has an error, or every object there, being
  fetched in an idle or being asked for; what is due is at most what `remaining` counts; and the idle
  that emits is queued exactly if `queued` says so.  Tracker's (`Counts`) differs in that a
  question has several objects, no two questions share one, and the emission comes
  with nothing else left.  A call that is not held has nothing due and nothing asked.
- `WellTold`: an answer without an error has every object asked for.
- A dead daemon holds no call (`Downed`); the rest is types (`Shaped`).

The lemmas follow a handler from the inside out: what one answer does to what is
gathered (`CollectedGets`, `GotOneNearer`, `GotSeveralNearer`), the loops of
`get_metadatas` (`StartedCollects`, `PreparedLeft`, `AsksClipsLeft`), one task and one answer
(`IdleGoes`, `AnswerGoes`), and last that a step for one call leaves the others'
tasks as they are (`DoesOthers`).  The loops are recursive functions.  The assumption
`ScenarioAssumption` asks of a request what the proxies send: a known operation, and of
`get_metadatas` a list shorter than a 32-bit counter, whose objects have, for tracker,
a category that its ids can name.  In the model an object listed twice is one
question, as questions are a set.

### BrowseChain_proofs

`ListenerThere`: a source never calls back for a browse whose request the
wrapper has freed, whichever source it is, for containers and batches of any size.
The inductive invariant is `Listened`: the types; `HasListener` itself; `Silenced`, a
request is only up for removal when its source has nothing more to say; and
`BrowsedOnce`, a session is browsed once, and nothing of it exists before.  The
lemmas below say of each source that it falls silent with its last result
(`UpnpSays`, `IradioSays`, `TrackerSays` and the lemmas they rest on), and of the
wrapper what it becomes by hearing a list of results.

`Heard` and `AllCutOff` are recursive functions over such lists.  What they compute
is proved without an induction rule: were there a length at which it failed, there
would be a least one (`WFMin` and `NatLessThanWellFounded`), and one step of the
definition contradicts it.

`ContractKept`: the chain implements `BrowseContract`.  The difficulty is that the
results of one browse are in several places at once, and that the client hears of
them before the reply to its call.  The invariant is `Promised`, which adds to `Listened`:

- `Delivered`: for each browse whose client has not been told the last, there is a
  list `l` of all results its source has given so far (`Behind`).  `l` is `Lawful`: each
  result is what may follow those before it.  The client was given the first ones; those
  left in the message it handles, those in each message on the bus and the pending batch
  of the wrapper are the next parts of `l`, without a gap (`Part`); and the operation
  goes on where `l` ends (`UpnpAfter`, `IradioAfter`, `TrackerAfter`: the next index,
  how many are left, and that the objects still to come are not in `l`).  `l` is a
  quantifier, not a history variable.
- `ClientKeeps`: when the client has a request for the browse.  One that was called and
  is not over has it or is blocked in the call that will make it, during which nothing
  is handled; one that is over has it only until the callback returns.
- `ClientTyped`: the types of the client's half.

Each source is shown to extend `l` lawfully at each of its steps (`UpnpGoes` and its
like), the wrapper to move the cuts of `l` and never its results.  A client's call is
the contract's `Open`; its cancel `Cancel`, or a stutter if the browse is over; a call
that fails, a message handled and a callback that goes on are `Give`; every step of the
daemon is a stutter (`StepKeepsContract`).

### GstWorker_proofs

`LastWordStands` is `NoEcho` of the volume, with any number of changes, restarts and
refused writes.  Its invariant is `EchoPending`: a write of the worker makes one echo
(the write, its event, the read that follows, the answer), at most one is on its way
in either direction, and the operation is pending while it is.  An answer that finds
none pending is therefore not an echo.

`WorkerTypeCorrect` holds in every scenario, `RendererAgrees` in those that have none of
these combinations of kinds: "unparsable"; errors and pause; hasty, pause and one of
seek, buffer, ready; buffer, pause and one of ready, items; errors, hasty and seek.
With each of them TLC finds a state with nothing on its way where the two disagree
(see Disagreements, Worker), and of the 256 sets of kinds `Agrees` holds in exactly those
that contain none; the scenarios of the run `worker` are four of them.  Its inductive
invariant has two parts:

- `Core` is what the worker, the renderer above it and the pipeline's target have in
  common at any time: what a worker without a location is (`Located`), what only some
  kinds lead to (`Allowed`, `Falling`), and what starting, waiting for the
  notification, playing, a pause and the READY timer mean for the state the worker
  last heard of (`Starting`, `Waiting`, `Playing`, `Pausing`, `Timed`).
- `OnBus` is what the messages are, and that they lead from what the worker knows to
  what is: there is a path of states, one before each message and one at the end,
  which begins with the worker's state and ends with the pipeline's, where each
  step is what its message says (`Path`); and, unless the stream is live, such a path
  of the levels of the buffer (`Levelled`).  The message of a flushing seek says less
  than what happened, and is a step of its own kind.

Posting a message extends a path and handling one drops its first step (`PutOnBus`,
`Taken`); with an empty bus the path has one state, and `Agrees` is what `Core` says of
it.  The rest is one lemma for each command, message, timer and step of the
pipeline.

### What is only model-checked

- Liveness (`LeftSettles`, `Settles`, `EditsReachDisk`, `BrowseEnds`, `ImportEnds`, `Found`,
  `AllAnswered`, and the parts of `VolumesAgree`, `ClientsFollow` and `ItemsOnce` that say
  something ends), and anything else with fairness or ENABLED: beyond the prover.
- `Filter`, `Metadata`, `Wire`, `TrackerRows` and `UpnpTexts` follow the recursion of their
  parsers and printers with RECURSIVE operators, so no theorem can be in or above
  them; the properties of `MCTrip` are TLC's.
- `VendorOnce` and `DestroysTheMeant`: both depend on the bounds of the run on ids and on
  the settings of its requests (a request that deletes all keys and fails can leave a
  bookmark without rows, whose id is then free), so they hold of the scenarios
  there, not of all.  `ClientsFollow` and `ItemsOnce` are liveness in part.
- The bounds on the ids of `PlaylistManager`; its proof has its own types.
- `ItemStays` with refused edits.

## Not modelled

| part | why |
|---|---|
| loading and unloading of plugins, `mafw-callbas.c`, the log, the helper of sqlite | dynamic linking and wrappers of libraries without decisions |
| blanking, keypad lock, screenshots, muting | thin clients of MCE and GStreamer; muting is not compiled in by default |
| play statistics of the renderer, tags, positions and durations | values passed through, which decide nothing here |
| parsing of playlist files (totem) and of files cut in their last item | a library's; the cut is in Disagreements |
| album art, tracker's notifications and its statistics service | they notify and count, no protocol of their own |
| the control point of UPnP and its container updates | a library (gupnp) with one handler each |
| virtual tables, argument checks, GObject properties, matching of D-Bus members | no state |
| translation of the signals of errors, metadata and container changes | one message for each signal |
| time-outs of calls other than browse, create and the daemon's own | the client gets an error and forgets; a late reply is dropped by D-Bus |
| connections of the bus that break | the processes end with it |
| test GUI, examples, tests, checkmore | not part of the program; read as documentation |

Hazards beside those of `PROJECT.json` that no property is about: `stay_paused`
(`mafw-gst-renderer-state-transitioning.c:199`), the timer of play statistics (the same
file, 345), an `assign_playlist` that fails within the renderer, entries of tracker's playlists reversed.

## Plan

Done: every module above, and the proofs above.  Next:

1. `VendorOnce` and `DestroysTheMeant` with ids without a bound.
2. An abstract playlist, a sequence with a permutation drawn in secret, that `APlaylist`
   implements while no drawn item is removed.
