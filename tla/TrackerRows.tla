---------------------------- MODULE TrackerRows -----------------------------
(* How the tracker source asks tracker for metadata and reads the rows it  *)
(* gets: tracker-cache.c remembers which column a key was given, the       *)
(* functions ti_get_* of tracker-iface.c send the columns (key-mapping.c)  *)
(* and a callback turns every row into metadata.  Columns have no names in *)
(* an answer: a key whose place is counted wrong gets another key's value. *)
(*                                                                         *)
(* A cell of a row is <<column, row>>, or Empty.  A number is a set of     *)
(* cells, those it is the sum of.  A column is a key, or <<type, key>> if  *)
(* joins the rows of a group.  PlaceOfItsOwn is a wrong version of Place,  *)
(* for comparison.                                                         *)
EXTENDS Metadata

Empty == <<>>

(* ------------------------------- Keys ---------------------------------- *)
(* The keys of keymap_get_info_key_table, one of each sort, and one that   *)
(* is not in it.                                                           *)
Childcounts == {"childcount(1)", "childcount(2)", "childcount(3)"}
AlbumArts   == {"art", "art-small", "art-large"}
Pictures    == AlbumArts \union {"thumbnail"}
MusicKeys    == {"title", "duration", "artist", "album", "genre"}
VideoKeys    == {"title", "duration"}
PlaylistKeys == {"duration"} \union Childcounts
CommonKeys   == {"uri", "mime"}
KnownKeys == MusicKeys \union Childcounts \union Pictures \union CommonKeys
Keys == KnownKeys \union {"bogus"}

DependsOn == [k \in Pictures |-> CASE k = "thumbnail" -> "uri"
                                   [] k = "art" -> "album"
                                   [] OTHER -> "art"]
AllowedEmpty == {"title"} \union Childcounts
Numbers == {"duration"} \union Childcounts
Level == [k \in Childcounts |-> CASE k = "childcount(1)" -> 1
                                  [] k = "childcount(2)" -> 2 [] OTHER -> 3]

Supported(service) ==
  CommonKeys \union CASE service = "videos" -> VideoKeys
                      [] service = "playlists" -> PlaylistKeys
                      [] service = "music" -> MusicKeys

(* keymap_mafw_keys_to_tracker_keys: what a service lacks is left out.     *)
ToTracker(keys, service) == SelectSeq(keys, LAMBDA k : k \in Supported(service))

(* ------------------------------- Cache --------------------------------- *)
NewCache(service, result) ==
  [service |-> service, result |-> result, keys |-> <<>>, last |-> 0]

(* An entry: the type, whether the user asked for it, and the column, the  *)
(* value or the key it is taken from.                                      *)
InsertKey(c, key, type, user, what) ==
  [c EXCEPT !.keys = [k \in DOMAIN c.keys \union {key} |->
     IF k = key THEN [type |-> type, user |-> user, what |-> what] ELSE c.keys[k]]]

AddPrecomputed(c, key, user, value) ==
  IF key \in DOMAIN c.keys THEN c ELSE InsertKey(c, key, "computed", user, value)

AddKnown(c, key, value) == IF value = NULL THEN c ELSE AddPrecomputed(c, key, FALSE, value)

AddDerived(c, key, user, from) ==
  IF key \in DOMAIN c.keys THEN c ELSE InsertKey(c, key, "derived", user, from)

Container == <<"container">>
PlaceOfItsOwn(c) == c.last
Place(c) == c.last + (IF c.result = "query" THEN 2 ELSE 0)  \* uri and service come first

RECURSIVE KeyAdd(_, _, _, _)
KeyAdd(c, key, maxLevel, user) ==
  IF key \in DOMAIN c.keys THEN IF user THEN [c EXCEPT !.keys[key].user = TRUE] ELSE c
  ELSE IF key \notin KnownKeys THEN c
  ELSE LET d == IF key \in Pictures THEN KeyAdd(c, DependsOn[key], maxLevel, FALSE) ELSE c
           unique == c.result = "unique"
           e == IF key = "title" /\ ~unique THEN KeyAdd(d, "uri", maxLevel, FALSE) ELSE d
       IN CASE key \in Pictures -> InsertKey(d, key, "picture", user, NULL)
            [] key \in Childcounts /\ Level[key] > maxLevel -> d
            [] key \notin Childcounts \union Supported(c.service) ->
                 InsertKey(d, key, "void", user, NULL)
            [] unique /\ key \notin Childcounts \union {"duration", "mime"} ->
                 InsertKey(d, key, "void", user, NULL)
            [] c.result = "query" /\ key = "uri" -> InsertKey(d, key, "tracker", user, 0)
            [] ~unique /\ key \in Childcounts /\ c.service # "playlists" ->
                 AddPrecomputed(d, key, user, {})
            [] key = "mime" /\ (unique \/ c.service = "playlists") ->
                 AddPrecomputed(d, key, user, Container)
            [] OTHER -> [InsertKey(e, key, "tracker", user, Place(e)) EXCEPT !.last = @ + 1]

AddSeveral(c, keys, maxLevel) ==
  FoldLeft(LAMBDA d, k : KeyAdd(d, k, maxLevel, TRUE), c, keys)

(* The key the rows of a group have in common.  It is in the first column  *)
(* of the answer, whether the cache takes it from there or not.            *)
AddUnique(c, key) ==
  LET d == IF key \in DOMAIN c.keys THEN c
           ELSE IF key = "mime" THEN AddPrecomputed(c, key, FALSE, Container)
           ELSE InsertKey(c, key, "tracker", FALSE, c.last)
  IN [d EXCEPT !.last = @ + 1]

(* A key whose values are joined, in the next column, if it was asked for. *)
AddConcat(c, key) ==
  IF key \notin DOMAIN c.keys THEN c
  ELSE [InsertKey(c, key, "tracker", c.keys[key].user, c.last) EXCEPT !.last = @ + 1]

(* The keys of the columns from one on, up to the first that has none.     *)
KeysFrom(c, first) ==
  LET start == IF c.result = "query" THEN 2 ELSE 0
      At(n) == {k \in DOMAIN c.keys : c.keys[k].type = "tracker" /\ c.keys[k].what = n + start}
      upto == CHOOSE n \in first..c.last : /\ n = c.last \/ At(n) = {}
                                           /\ \A m \in first..n - 1 : At(m) # {}
  IN [i \in 1..upto - first |-> CHOOSE k \in At(first + i - 1) : TRUE]

KeysUser(c) == {k \in DOMAIN c.keys : c.keys[k].user}

(* ----------------------- What the functions ask ------------------------ *)
(* The columns of a search: path and service before what was asked for.    *)
SearchCols(c) == <<"uri", "service">> \o ToTracker(KeysFrom(c, 0), c.service)

(* The columns of groups: the common key, then one for each other key.     *)
Joined1(key, counted) ==
  CASE key = "duration" -> <<"sum", key>>
    [] key \in Childcounts -> <<"count", counted[Level[key]]>>
    [] OTHER -> <<"concat", key>>
GroupCols(c, ukey, counted) ==
  LET keys == KeysFrom(c, 1) IN <<ukey>> \o [i \in DOMAIN keys |-> Joined1(keys[i], counted)]

Videos(keys) ==
  LET c == AddSeveral(KeyAdd(NewCache("videos", "query"), "uri", 1, FALSE), keys, 1)
  IN [cache |-> c, cols |-> SearchCols(c)]

Playlists(keys) ==
  LET c == AddSeveral(KeyAdd(NewCache("playlists", "query"), "uri", 1, FALSE), keys, 1)
  IN [cache |-> c, cols |-> SearchCols(c)]

AddCategory(c, genre, artist, album) ==
  AddKnown(AddKnown(AddKnown(c, "genre", genre), "artist", artist), "album", album)

Songs(genre, artist, album, keys) ==
  LET c0 == AddCategory(NewCache("music", "query"), genre, artist, album)
      c == AddSeveral(KeyAdd(c0, "uri", 1, FALSE), keys, 1)
  IN [cache |-> c, cols |-> SearchCols(c)]

Artists(genre, keys) ==
  LET c0 == AddDerived(AddKnown(NewCache("music", "unique"), "genre", genre),
                       "title", FALSE, "artist")
      c == AddConcat(AddSeveral(AddUnique(c0, "artist"), keys, 2), "album")
  IN [cache |-> c, cols |-> GroupCols(c, "artist", <<"album", "*">>)]

Genres(keys) ==
  LET c0 == AddDerived(NewCache("music", "unique"), "title", FALSE, "genre")
      c == AddConcat(AddSeveral(AddUnique(c0, "genre"), keys, 3), "artist")
  IN [cache |-> c, cols |-> GroupCols(c, "genre", <<"artist", "album", "*">>)]

Albums(genre, artist, keys) ==
  LET c0 == AddDerived(AddCategory(NewCache("music", "unique"), genre, artist, NULL),
                       "title", FALSE, "album")
      c1 == AddSeveral(AddUnique(c0, "album"), keys, 1)
      c == IF artist = NULL THEN AddConcat(c1, "artist") ELSE c1
  IN [cache |-> c, cols |-> GroupCols(c, "album", <<"*">>)]

(* The metadata of clips named by their URIs; that of a single one is not  *)
(* asked for.                                                              *)
Clips(service, uris, keys) ==
  LET c0 == NewCache(service, "get_metadata")
      c1 == IF Len(uris) = 1 THEN AddPrecomputed(c0, "uri", FALSE, uris[1]) ELSE c0
      c == AddSeveral(c1, keys, 1)
  IN [cache |-> c, cols |-> ToTracker(KeysFrom(c, 0), service)]

(* The metadata of all music, all videos or all playlists.                 *)
Service(service, title, keys) ==
  LET c == AddSeveral(AddKnown(AddUnique(NewCache(service, "unique"), "mime"), "title", title),
                      keys, 1)
  IN [cache |-> c, cols |-> GroupCols(c, "mime", <<"*">>)]

(* The metadata of a genre, an artist, an album, or of the list of them.   *)
Category(genre, artist, album, countKey, title, keys) ==
  LET known == AddCategory(NewCache("music", "unique"), genre, artist, album)
      name == SelectSeq(<<album, artist, genre, title, NULL>>, LAMBDA v : v # NULL)
      ukey == CASE album # NULL -> "album" [] album = NULL /\ artist # NULL -> "artist"
                [] OTHER -> IF genre # NULL THEN "genre" ELSE countKey
      whole == genre = NULL /\ artist = NULL /\ album = NULL
      order == <<"genre", "artist", "album", "*">>
      below == CHOOSE n \in 1..3 : order[n] = ukey
      counted == SubSeq(order, IF whole THEN below ELSE below + 1, 4)
      c0 == IF name = <<>> THEN known ELSE AddPrecomputed(known, "title", FALSE, name[1])
      c1 == AddSeveral(AddUnique(c0, ukey), keys, Len(counted))
      c == CASE artist # NULL /\ album = NULL -> AddConcat(c1, "album")
             [] artist = NULL /\ album # NULL -> AddConcat(c1, "artist")
             [] OTHER -> c1
  IN [cache |-> c, cols |-> GroupCols(c, ukey, counted), count |-> whole]

(* ----------------------------- The answer ------------------------------ *)
(* A value from a row, or NULL.  Pictures are those of the album, or of    *)
(* the clip.                                                               *)
RECURSIVE ValueGet(_, _, _)
ValueAlbumArt(c, row) ==
  LET album == ValueGet(c, "album", row)
  IN IF album = NULL \/ album = Empty THEN NULL ELSE <<"cover", album>>

ValueThumbnail(c, key, row) ==
  LET of == IF key = "thumbnail" THEN ValueGet(c, "uri", row) ELSE ValueGet(c, "art", row)
  IN CASE key = "art-large" -> ValueAlbumArt(c, row)
       [] OTHER -> IF of = NULL \/ of = Empty THEN NULL ELSE <<"small", of>>

ValueGet(c, key, row) ==
  IF key \notin DOMAIN c.keys THEN NULL
  ELSE LET entry == c.keys[key] IN
    CASE entry.type = "computed" -> entry.what
      [] entry.type = "derived"  -> ValueGet(c, entry.what, row)
      [] entry.type = "picture"  -> IF key = "art" THEN ValueAlbumArt(c, row)
                                    ELSE ValueThumbnail(c, key, row)
      [] entry.type = "tracker"  ->
           IF row = NULL THEN NULL
           ELSE LET cell == row[entry.what + 1] IN
                IF key \in Numbers THEN IF cell = Empty THEN {} ELSE {cell} ELSE cell
      [] entry.type = "void" -> NULL

(* The title; if there is none, the name of the file.                      *)
Title(c, row, path) ==
  LET title == ValueGet(c, "title", row)
      uri == ValueGet(c, "uri", row)
  IN IF c.result = "unique" \/ title \notin {NULL, Empty} THEN title
     ELSE CASE uri = NULL -> title
            [] uri = Empty /\ path = NULL -> title
            [] OTHER -> <<"name", IF uri = Empty THEN path ELSE uri>>

ValueIsAllowed(value, key) ==
  /\ value # NULL
  /\ key \in AllowedEmpty \/ (IF key \in Numbers THEN value # {} ELSE value # Empty)

BuildMetadata(c, rows, paths) ==
  LET all == IF rows = <<>> THEN <<NULL>> ELSE rows
      Value(k, i) == IF k # "title" THEN ValueGet(c, k, all[i])
                     ELSE Title(c, all[i], IF paths = NULL THEN NULL ELSE paths[i])
  IN [i \in DOMAIN all |->
        [k \in {u \in KeysUser(c) : ValueIsAllowed(Value(u, i), u)} |-> Value(k, i)]]

(* One object out of all rows: numbers are added up, and the first level   *)
(* of children may be counted by the rows.                                 *)
AggregateKey(c, key, rows, count) ==
  IF count /\ key = "childcount(1)" THEN {<<"rows", Len(rows)>>}
  ELSE UNION {LET v == ValueGet(c, key, rows[i]) IN IF v = NULL THEN {} ELSE v : i \in DOMAIN rows}

BuildAggregated(c, rows, count) ==
  LET first == IF rows = <<>> THEN NULL ELSE rows[1]
      Value(k) == IF k \in Numbers THEN AggregateKey(c, k, rows, count)
                  ELSE ValueGet(c, k, first)
  IN [k \in {u \in KeysUser(c) : ValueIsAllowed(Value(u), u)} |-> Value(k)]

(* The ids of what was found: the path, or the value of the common key.    *)
IdsFromPathname(c, rows) == [i \in DOMAIN rows |-> ValueGet(c, "uri", rows[i])]
IdsFromUniqueKey(c, rows) == [i \in DOMAIN rows |-> ValueGet(c, KeysFrom(c, 0)[1], rows[i])]

(* ------------------------ The filter of a search ----------------------- *)
(* util.c writes a filter as an RDF query, here a sequence of tokens: tags,*)
(* the name of a property, and the characters of a value between open and  *)
(* close.                                                                  *)
Entity == [c \in {"&", "<", ">", "\"", "'"} |->
             CASE c = "&" -> "&amp;" [] c = "<" -> "&lt;" [] c = ">" -> "&gt;"
               [] c = "\"" -> "&quot;" [] c = "'" -> "&apos;"]
EscapeRdf(text) ==
  [i \in DOMAIN text |-> IF text[i] \in DOMAIN Entity THEN Entity[text[i]] ELSE text[i]]

SearchKeys == Supported("music") \union {"path", "filename", "added"}
Null == <<"(null)">>        \* what printf makes of no text
IsFile(uri) == uri # NULL /\ uri # <<>> /\ uri[1] = "file://"

NumberIn(value) == SubSeq(value, 1, Upto(value, Range(value) \ {"1", "2"}))    \* atol

(* A value as tracker stores it: a path for a URI, ISO 8601 for a date.    *)
ValueForFilter(key, value) ==
  CASE value = NULL -> Null
    [] key = "uri" -> IF IsFile(value) THEN EscapeRdf(Tail(value)) ELSE Null
    [] key \notin SearchKeys -> value
    [] key = "added" -> <<"ISO 8601">> \o NumberIn(value)
    [] OTHER -> EscapeRdf(value)

TypeOfKey(key) == CASE key = "duration" -> "Integer" [] key = "added" -> "Date" [] OTHER -> "String"
Tags == [t \in {"=", "<", ">", "~", "&", "|", "!"} |->
           CASE t = "=" -> <<"<equals>", "</equals>">>     [] t = "<" -> <<"<lessThan>", "</lessThan>">>
             [] t = ">" -> <<"<greaterThan>", "</greaterThan>">> [] t = "~" -> <<"<contains>", "</contains>">>
             [] t = "&" -> <<"<and>", "</and>">> [] t = "|" -> <<"<or>", "</or>">>
             [] t = "!" -> <<"<not>", "</not>">>]
Tagged(t, text) == <<Tags[t][1]>> \o text \o <<Tags[t][2]>>

Slash(path) == CHOOSE i \in DOMAIN path : path[i] = "/" /\ \A j \in i + 1..Len(path) : path[j] # "/"
Dirname(path) == IF Slash(path) = 1 THEN <<"/">> ELSE SubSeq(path, 1, Slash(path) - 1)
Basename(path) == SubSeq(path, Slash(path) + 1, Len(path))

RECURSIVE RdfOf(_)
RdfOf(f) ==
  IF ~IsSimple(f)
  THEN LET parts == [i \in DOMAIN f[2] |-> RdfOf(f[2][i])]
       IN CASE Failed \in Range(parts) -> Failed
            [] f[1] = "!" -> FlattenSeq([i \in DOMAIN parts |-> Tagged("!", parts[i])])
            [] OTHER -> Tagged(f[1], FlattenSeq(parts))
  ELSE LET key == f[2][1]
           path == Tail(f[3])
           name == IF key \in SearchKeys THEN key ELSE "(null)"
       IN CASE key = "uri" /\ f[1] = "=" /\ IsFile(f[3]) ->
                 RdfOf(<<"&", <<<<"=", <<"path">>, Dirname(path)>>, <<"=", <<"filename">>, Basename(path)>>>>>>)
            [] f[1] = "?" -> Failed
            [] OTHER -> Tagged(f[1], <<name, TypeOfKey(key), "open">> \o ValueForFilter(key, f[3]) \o <<"close">>)

(* The texts in one condition, joined by an and if there are several; the  *)
(* user's filter, if there is one, is the last of them.                    *)
BuildComplex(texts, user) ==
  LET all == IF user = NULL THEN texts ELSE Append(texts, user)
  IN CASE all = <<>> -> NULL
       [] Len(all) = 1 -> <<"<Condition>">> \o all[1] \o <<"</Condition>">>
       [] OTHER -> <<"<Condition>">> \o Tagged("&", FlattenSeq(all)) \o <<"</Condition>">>

FilterFromCategory(genre, artist, album, user) ==
  LET Text(key, value) ==
        IF value = NULL THEN <<>>
        ELSE <<Tagged("=", <<key, "String", "open">> \o ValueForFilter(key, value) \o <<"close">>)>>
  IN BuildComplex(Text("genre", genre) \o Text("artist", artist) \o Text("album", album), user)

CreateFilter(f) == IF f = NULL THEN NULL ELSE LET text == RdfOf(f) IN IF text = Failed THEN NULL ELSE text

(* Tracker's reader: trees <<tag, parts>> and relations <<tag, key, value>>,*)
(* or Failed if a value holds the beginning of a tag or of an entity.      *)
Plain1(value) ==
  [i \in DOMAIN value |-> IF \E c \in DOMAIN Entity : Entity[c] = value[i]
                          THEN CHOOSE c \in DOMAIN Entity : Entity[c] = value[i] ELSE value[i]]
RECURSIVE ReadRdf(_, _)
ReadRdf(text, parts) ==         \* the parts up to the next closing tag, and what follows it
  IF text[1] \in {"</and>", "</or>", "</not>", "</Condition>"} THEN <<parts, Tail(text)>>
  ELSE LET type == CHOOSE t \in DOMAIN Tags : Tags[t][1] = text[1]
           inner == ReadRdf(Tail(text), <<>>)
           n == CHOOSE m \in DOMAIN text : text[m] = "close" /\ \A l \in 1..m - 1 : text[l] # "close"
           value == SubSeq(text, 5, n - 1)
       IN IF type \in {"&", "|", "!"} THEN ReadRdf(inner[2], Append(parts, <<type, inner[1]>>))
          ELSE ReadRdf(After(text, n + 1),
                       Append(parts, IF Range(value) \intersect {"&", "<"} # {} THEN Failed
                                     ELSE <<type, text[2], Plain1(value)>>))
=============================================================================
