---------------------------- MODULE TrackerPaths ----------------------------
(* The ids of the tracker source.  An id is a path of categories and       *)
(* names, each of them escaped.  browse() reads category and names from it *)
(* (util_extract_category_info), asks tracker for what lies below, and     *)
(* gives ids made of a prefix and the name of each row                     *)
(* (mafw-tracker-source-browse.c); a playlist's entries get ids too.       *)
(*                                                                         *)
(* A text is a sequence of characters, in which the two digits of an       *)
(* escaped character are one.  A browse is a sequence of questions: a      *)
(* function of tracker-iface.c, its restrictions and the prefix; or, with  *)
(* no prefix, the ids of the branches, whose metadata is asked for.        *)
EXTENDS Filter

(* ------------------------------ Escaping ------------------------------- *)
Pair == [c \in {"/", "%", "?", " "} |-> CASE c = "/" -> "2F" [] c = "%" -> "25"
                                          [] c = "?" -> "3F" [] c = " " -> "20"]
CharOf(pair) == CHOOSE c \in DOMAIN Pair : Pair[c] = pair

EscapeBut(t, kept) ==
  FlattenSeq([i \in DOMAIN t |-> IF t[i] \in DOMAIN Pair \ kept THEN <<"%", Pair[t[i]]>>
                                 ELSE <<t[i]>>])
Escape(t) == EscapeBut(t, {})

(* NULL if a percent sign is not followed by two digits                    *)
Broken(t) == \E i \in DOMAIN t : t[i] = "%" /\ (i = Len(t) \/ t[i + 1] \notin Range(Pair))
Unescape(t) ==
  IF Broken(t) THEN NULL
  ELSE FlattenSeq([i \in DOMAIN t |-> CASE t[i] = "%" -> <<CharOf(t[i + 1])>>
                                        [] t[i] # "%" /\ i > 1 /\ t[i - 1] = "%" -> <<>>
                                        [] OTHER -> <<t[i]>>])

FilenameToUri(f) ==
  IF f \in {NULL, <<>>} THEN NULL ELSE IF f[1] # "/" THEN NULL
  ELSE <<"file://">> \o EscapeBut(f, {"/"})
FilenameFromUri(u) ==
  IF u[1] # "file://" \/ "2F" \in Range(u) THEN NULL ELSE Unescape(Tail(u))

(* ------------------------------ Reading -------------------------------- *)
SplitObjectId(id) ==
  IF "::" \notin Range(id) THEN NULL
  ELSE LET i == CHOOSE j \in DOMAIN id : id[j] = "::" /\ \A k \in 1..j - 1 : id[k] # "::"
       IN SubSeq(id, i + 1, Len(id))

Elements(t) ==
  FoldLeft(LAMBDA done, c : IF c = "/" THEN Append(done, <<>>)
                            ELSE [done EXCEPT ![Len(done)] = Append(@, c)], <<<<>>>>, t)
ItemPath(item) ==
  IF item = <<>> THEN <<>> ELSE LET e == Elements(item) IN [i \in DOMAIN e |-> Unescape(e[i])]

(* A comparison with NULL calls it equal.                                  *)
Names(t, word) == t \in {NULL, <<word>>}
Branches1 == <<"playlists", "songs", "genres", "artists", "albums">>
CategoryAt(path) ==
  CASE path = <<>> -> "root"
    [] path # <<>> /\ Names(path[1], "videos") -> "videos"
    [] path # <<>> /\ ~Names(path[1], "videos") /\ Names(path[1], "music") ->
         IF Len(path) = 1 THEN "music"
         ELSE LET i == SelectInSeq(Branches1, LAMBDA b : Names(path[2], b))
              IN IF i = 0 THEN "error" ELSE Branches1[i]
    [] OTHER -> "error"

(* What the elements after the category name.                              *)
Below(category) ==
  CASE category \in {"videos", "songs", "playlists"} -> <<"clip">>
    [] category = "albums"  -> <<"album", "clip">>
    [] category = "artists" -> <<"artist", "album", "clip">>
    [] category = "genres"  -> <<"genre", "artist", "album", "clip">>
    [] OTHER -> <<>>
Depth(category) == CASE category = "root" -> 0 [] category \in {"videos", "music"} -> 1
                     [] OTHER -> 2

Fields == {"genre", "artist", "album", "clip"}
Category2(category, fields) == [category |-> category, names |-> fields]
Misformed == Category2("error", [f \in Fields |-> NULL])

ExtractCategoryInfo(id) ==
  LET item == SplitObjectId(id)
      path == ItemPath(item)
      category == CategoryAt(path)
      below == Below(category)
      Field(f) == LET i == SelectInSeq(below, LAMBDA b : b = f)
                      n == Depth(category) + i
                  IN IF i = 0 \/ n > Len(path) THEN NULL
                     ELSE IF f = "clip" THEN FilenameToUri(path[n]) ELSE path[n]
  IN IF item = NULL THEN Misformed
     ELSE IF category = "error" \/ Len(path) > Depth(category) + Len(below) THEN Misformed
     ELSE Category2(category, [f \in Fields |-> Field(f)])

(* ------------------------------ Writing -------------------------------- *)
(* _build_object_id: up to the first element that is NULL                  *)
BuildObjectId(items) ==
  LET null == SelectInSeq(items, LAMBDA t : t = NULL)
      given == IF null = 0 THEN items ELSE SubSeq(items, 1, null - 1)
  IN <<"localtagfs", "::">> \o
     FlattenSeq([i \in DOMAIN given |-> (IF i = 1 THEN <<>> ELSE <<"/">>) \o Escape(given[i])])
InMusic(category, names) == BuildObjectId(<<<<"music">>, <<category>>>> \o names)

AddObjectIdPrefix(prefix, name) ==
  IF name # <<>> /\ name[1] = "urisource" THEN name ELSE prefix \o <<"/">> \o Escape(name)

Question(fn, genre, artist, album, prefix) ==
  <<[fn |-> fn, genre |-> genre, artist |-> artist, album |-> album, prefix |-> prefix]>>
Metadata1(ids) == <<[fn |-> "metadata", ids |-> ids]>>

BrowseSongs(genre, artist, album) ==
  Question("songs", genre, artist, album, InMusic("songs", <<>>))

(* The album is escaped here, and once more in the prefix.                 *)
BrowseAlbums(album, recursive) ==
  CASE recursive -> BrowseSongs(NULL, NULL, album)
    [] ~recursive /\ album # NULL ->
         Question("songs", NULL, NULL, album, InMusic("albums", <<Escape(album)>>))
    [] OTHER -> Question("albums", NULL, NULL, NULL, InMusic("albums", <<>>))

BrowseArtists(artist, album, recursive) ==
  CASE recursive -> BrowseSongs(NULL, artist, album)
    [] ~recursive /\ album # NULL ->
         Question("songs", NULL, artist, album, InMusic("artists", <<artist, album>>))
    [] ~recursive /\ album = NULL /\ artist # NULL ->
         Question("albums", NULL, artist, NULL, InMusic("artists", <<artist>>))
    [] OTHER -> Question("artists", NULL, NULL, NULL, InMusic("artists", <<>>))

BrowseGenres(genre, artist, album, recursive) ==
  CASE recursive -> BrowseSongs(genre, artist, album)
    [] ~recursive /\ album # NULL ->
         Question("songs", genre, artist, album, InMusic("genres", <<genre, artist, album>>))
    [] ~recursive /\ album = NULL /\ artist # NULL ->
         Question("albums", genre, artist, NULL, InMusic("genres", <<genre, artist>>))
    [] ~recursive /\ album = NULL /\ artist = NULL /\ genre # NULL ->
         Question("artists", genre, NULL, NULL, InMusic("genres", <<genre>>))
    [] OTHER -> Question("genres", NULL, NULL, NULL, InMusic("genres", <<>>))

BrowseVideos == Question("videos", NULL, NULL, NULL, BuildObjectId(<<<<"videos">>>>))

BrowseRoot(recursive) ==
  IF recursive THEN BrowseSongs(NULL, NULL, NULL) \o BrowseVideos
  ELSE Metadata1({BuildObjectId(<<<<"videos">>>>), BuildObjectId(<<<<"music">>>>)})

BrowseMusic(recursive) ==
  IF recursive THEN BrowseSongs(NULL, NULL, NULL)
  ELSE Metadata1({InMusic(b, <<>>) : b \in Range(Branches1)})

BrowsePlaylists(clip) ==
  IF clip # NULL THEN Question("entries", NULL, NULL, NULL, InMusic("songs", <<>>))
  ELSE Question("playlists", NULL, NULL, NULL, InMusic("playlists", <<>>))

(* NULL: refused.                                                          *)
BrowseId(id, recursive) ==
  LET x == ExtractCategoryInfo(id)
      n == x.names
  IN CASE x.category = "error" \/ (n.clip # NULL /\ x.category # "playlists") -> NULL
       [] x.category = "root"    -> BrowseRoot(recursive)
       [] x.category = "music"   -> BrowseMusic(recursive)
       [] x.category = "playlists" -> BrowsePlaylists(n.clip)
       [] x.category = "videos"  -> BrowseVideos
       [] x.category = "songs"   -> BrowseSongs(NULL, NULL, NULL)
       [] x.category = "albums"  -> BrowseAlbums(n.album, recursive)
       [] x.category = "artists" -> BrowseArtists(n.artist, n.album, recursive)
       [] x.category = "genres"  -> BrowseGenres(n.genre, n.artist, n.album, recursive)

(* ------------------------------ Entries -------------------------------- *)
(* _pls_entry_parsed.  A percent sign that escapes nothing crashes: NULL.  *)
EntryUri(uri) ==
  LET plain == Unescape(uri)
  IN IF plain = NULL THEN NULL
     ELSE IF plain[1] = "/" THEN FilenameToUri(plain) ELSE EscapeBut(plain, {"/"})

(* mafw_source_create_objectid                                             *)
IsUri(t) == t # <<>> /\ t[1] \in {"file://", "http://"}
CreateObjectId(t, cwd) ==
  <<"urisource", "::">> \o
  CASE IsUri(t) -> t
    [] t # <<>> /\ t[1] = "/" -> <<"file://">> \o t
    [] t # <<>> /\ ~IsUri(t) /\ t[1] # "/" -> <<"file://">> \o cwd \o <<"/">> \o t
    [] t = <<>> -> <<"file://">> \o cwd

(* _construct_playlist_entries_result; tracked: tracker knows the file     *)
EntryId(uri, tracked, prefix, cwd) ==
  IF uri[1] = "file://" /\ FilenameFromUri(uri) # NULL /\ tracked
  THEN prefix \o <<"/">> \o Escape(FilenameFromUri(uri))
  ELSE CreateObjectId(uri, cwd)
=============================================================================
