------------------------------- MODULE MCTrip -------------------------------
(* What is written by one program and read by another: a filter as text, a *)
(* browse request whose filter and sorting a source applies to the         *)
(* metadata it has, the queries made for tracker and media servers and     *)
(* their answers, and the arguments and errors of D-Bus messages.  Every   *)
(* state machine here takes three steps: `given' is what the sender has,   *)
(* `wire' what it writes, `got' what the receiver makes of it.             *)
EXTENDS Wire, TrackerRows, TrackerPaths, UpnpTexts, TLC

CONSTANTS MaxPieces,    \* how many pieces a text is made of
          MaxRow        \* how many keys are asked of the tracker at most

VARIABLES kind, given, wire, got
vars == <<kind, given, wire, got>>

(* ------------------------------ Filters -------------------------------- *)
KeyA == <<"a">>
KeyB == <<"b", "1">>

Values == {NULL, <<>>, <<"a">>, <<"*">>, <<"\\", "(">>, <<")">>, <<"1", "b">>}
SimpleTrees == {NewSimple(t, k, v) : t \in Simple, k \in {KeyA, <<>>}, v \in Values}
FewTrees == {NewSimple("=", KeyA, <<"*">>), NewSimple("?", KeyB, NULL),
             NewSimple("?", KeyB, <<"a">>), NewSimple("<", KeyB, <<")">>)}
Joined(trees) == {<<t, p>> : t \in Complex, p \in {<<a>> : a \in trees} \union (trees \X trees)}
Trees == SimpleTrees \union Joined(SimpleTrees) \union Joined(Joined(FewTrees))
         \union {AddChildren(f, <<NewSimple("=", KeyA, <<"a">>)>>) : f \in Joined(FewTrees)}

(* Texts nobody's printer made: bracket, pieces, and whatever is missing.  *)
Pieces == {<<"(">>, <<")">>, <<"&">>, <<"!">>, <<"a", "=">>, <<"a", "?">>,
           <<"\\", "2", "8">>, <<"\\">>}
Texts == UNION {{<<"(">> \o FlattenSeq(p) : p \in [1..n -> Pieces]} : n \in 0..MaxPieces}

RECURSIVE Plain(_)
Plain(f) == IF IsSimple(f) THEN <<f[1], f[2], IF f[3] = NULL THEN <<>> ELSE f[3]>>
            ELSE <<f[1], [i \in DOMAIN f[2] |-> Plain(f[2][i])]>>

(* ------------------------------ Queries -------------------------------- *)
Str(t) == <<"string", t>>
Num(n) == <<"int", n>>
AValues == {<<>>, <<Str(<<"a">>)>>, <<Str(<<"B">>), Str(<<"A">>)>>, <<Str(<<"A", "b">>)>>}
BValues == {<<>>, <<Num(1)>>, <<Num(12)>>, <<Num(1), Num(2)>>, <<<<"bool", TRUE>>>>}
Rows == {NULL} \union
        {AddSomething(AddSomething(NoData, KeyA, a), KeyB, b) : a \in AValues, b \in BValues}
SortRows == {r \in Rows : r = NULL \/ First(r, KeyB) = NULL \/ First(r, KeyB)[1] = "int"}

Terms == {NewSimple("=", KeyA, <<"a">>), NewSimple("~", KeyA, <<"*", "b">>),
          NewSimple("<", KeyA, <<"b">>), NewSimple("?", KeyB, <<>>),
          NewSimple(">", KeyB, <<"1", "b">>), NewSimple("=", KeyB, <<"1", "2">>)}
Queries == Terms \union Joined(Terms) \union {<<"!", <<f>>>> : f \in Joined(Terms)}
Sortings == {<<"+", "a">>, <<"-", "a">>, <<"a", ",", "-", "b", "1">>,
             <<"-", "b", "1", ",", "+", "a">>}

(* What a filter means: a relation of a key the object lacks, or of a type *)
(* no text becomes, is left out, what joins nothing is left out too, and   *)
(* what is left is a formula.                                              *)
Decided(md, f) == f[1] = "?" \/ (f[2] \in DOMAIN md /\ md[f[2]][1][1] \in {"string", "int"})

RECURSIVE IsLeft(_, _), Holds(_, _)
IsLeft(md, f) ==
  IF IsSimple(f) THEN Decided(md, f) ELSE \E i \in DOMAIN f[2] : IsLeft(md, f[2][i])
Holds(md, f) ==
  IF IsSimple(f) THEN EvalSimple(md, f) = 1
  ELSE LET left == {i \in DOMAIN f[2] : IsLeft(md, f[2][i])}
       IN CASE f[1] = "&" -> \A i \in left : Holds(md, f[2][i])
            [] f[1] = "|" -> \E i \in left : Holds(md, f[2][i])
            [] f[1] = "!" -> ~\E i \in left : Holds(md, f[2][i])
Means(md, f) == md = NULL \/ f = NULL \/ ~IsLeft(md, f) \/ Holds(md, f)

Only(md, keys) == IF md = NULL THEN NULL ELSE [k \in DOMAIN md \intersect keys |-> md[k]]

(* ------------------------------ Messages ------------------------------- *)
Gvalues == {Str(<<"a">>), Num(1), <<"uint", 12>>, <<"bool", TRUE>>, <<"float", 1>>}
Data == {NULL, [k \in {KeyA} |-> <<<<"uint", 12>>>>],
         [k \in {KeyA, KeyB} |-> IF k = KeyA THEN <<Str(<<"a">>), Str(<<"b">>)>>
                                 ELSE <<<<"float", 1>>>>]}
Args == {<<"strvz", v>> : v \in {NULL, <<>>, <<"x", "y">>}}
        \union {<<"bytes", <<1, 2>>>>, <<"bytes", <<>>>>, <<"u", 3>>, <<"s", "x">>, <<"au", <<1>>>>}
        \union {<<"metadata", m>> : m \in Data} \union {<<"gvalue", v>> : v \in Gvalues}
        \union {<<"gvalues", s>> : s \in {<<>>} \union (Gvalues \X Gvalues)
                                          \union {<<v>> : v \in Gvalues}}
ArgLists == {<<>>} \union {<<a>> : a \in Args} \union (Args \X Args)
Errors == {[domain |-> d, code |-> c, message |-> m] :
             d \in {"extension", "source"}, c \in {"0", "12"}, m \in {<<>>, <<"x", ":", "y">>}}

Types(args) == [i \in DOMAIN args |-> args[i][1]]
Arrives(arg) == CASE arg[1] = "strvz" /\ arg[2] = NULL -> <<>>
                  [] arg[1] = "metadata" /\ arg[2] # NULL /\ DOMAIN arg[2] = {} -> NULL
                  [] OTHER -> arg[2]

(* ------------------------------- Rows ---------------------------------- *)
(* What a client asks of the tracker source: a list of clips or of groups, *)
(* the metadata of some clips, of a service, of a group or of all groups;  *)
(* some keys; and columns tracker has nothing in.                          *)
Genre == <<"genre", 0>>
Ask(fn, genre, artist, album, of, n) ==
  [fn |-> fn, genre |-> genre, artist |-> artist, album |-> album, of |-> of, n |-> n]
Plainly(fn) == Ask(fn, NULL, NULL, NULL, NULL, 2)
Asks ==
  {Plainly(fn) : fn \in {"videos", "playlists", "genres"}}
  \union {Ask("songs", g, a, b, NULL, 2) : g \in {NULL, Genre}, a \in {NULL, <<"artist", 0>>},
                                           b \in {NULL, <<"album", 0>>}}
  \union {Ask("artists", g, NULL, NULL, NULL, 2) : g \in {NULL, Genre}}
  \union {Ask("albums", g, a, NULL, NULL, 2) : g \in {NULL, Genre}, a \in {NULL, <<"artist", 0>>}}
  \union {Ask("clips", NULL, NULL, NULL, s, n) : s \in {"music", "videos", "playlists"}, n \in 1..2}
  \union {Ask("service", NULL, NULL, NULL, s, 2) : s \in {"music", "videos", "playlists"}}
  \union {Ask("category", g, a, b, NULL, 1) : g \in {NULL, Genre}, a \in {NULL, <<"artist", 0>>},
                                              b \in {NULL, <<"album", 0>>}}
  \union {Ask("whole", NULL, NULL, NULL, k, 2) : k \in {"genre", "artist", "album"}}

KeyLists(max) == UNION {[1..n -> Keys] : n \in 1..max}
Asked(max) == {<<a, keys, none>> : a \in {b \in Asks : b.fn # "category" \/ <<b.genre, b.artist, b.album>> # <<NULL, NULL, NULL>>},
                                   keys \in KeyLists(max),
                                   none \in {{}, {"title", "album"}, {"uri"} \union Keys}}

Uris(n) == [i \in 1..n |-> <<"uri", i>>]
Name == <<"name of all">>

QueryOf(g) ==
  LET a == g[1] keys == g[2] IN
  CASE a.fn = "videos"    -> Videos(keys)
    [] a.fn = "playlists" -> Playlists(keys)
    [] a.fn = "songs"     -> Songs(a.genre, a.artist, a.album, keys)
    [] a.fn = "artists"   -> Artists(a.genre, keys)
    [] a.fn = "genres"    -> Genres(keys)
    [] a.fn = "albums"    -> Albums(a.genre, a.artist, keys)
    [] a.fn = "clips"     -> Clips(a.of, Uris(a.n), keys)
    [] a.fn = "service"   -> Service(a.of, Name, keys)
    [] a.fn = "category"  -> Category(a.genre, a.artist, a.album, "genre", Name, keys)
    [] a.fn = "whole"     -> Category(NULL, NULL, NULL, a.of, Name, keys)

(* Tracker's answer, in the order of the columns.  A search finds no clip  *)
(* without a path.  Nothing is asked without a column besides the group's. *)
Groups == {"service", "category", "whole"}
TrackerRowsOf(g, q) ==
  LET Cell(col, i) == IF col \in g[3] /\ (col = "uri" => g[1].fn = "clips") THEN Empty
                      ELSE <<col, i>>
      asked == IF g[1].fn \in Groups THEN Len(q.cols) > 1 ELSE q.cols # <<>>
  IN IF asked THEN [i \in 1..g[1].n |-> [j \in DOMAIN q.cols |-> Cell(q.cols[j], i)]] ELSE <<>>

AnswerOf(g, q) ==
  LET rows == TrackerRowsOf(g, q)
      paths == IF g[1].fn = "clips" /\ rows # <<>> THEN Uris(g[1].n) ELSE NULL
  IN CASE g[1].fn = "service" -> <<BuildAggregated(q.cache, rows, FALSE)>>
       [] g[1].fn \in {"category", "whole"} -> <<BuildAggregated(q.cache, rows, q.count)>>
       [] OTHER -> BuildMetadata(q.cache, rows, paths)

(* What a key of the i-th object is: the cell of its own column, whatever  *)
(* else was asked for.                                                     *)
ServiceOf(a) == CASE a.fn \in {"clips", "service"} -> a.of
                  [] a.fn \in {"videos", "playlists"} -> a.fn [] OTHER -> "music"
Given(a, k) == CASE k = "genre" -> a.genre [] k = "artist" -> a.artist
                 [] k = "album" -> a.album [] OTHER -> NULL
Group(a) == CASE a.fn = "artists" -> "artist" [] a.fn = "genres" -> "genre"
              [] a.fn = "albums" -> "album" [] a.fn = "whole" -> a.of
              [] a.fn = "category" -> IF a.album # NULL THEN "album"
                                      ELSE IF a.artist # NULL THEN "artist" ELSE "genre"
              [] OTHER -> NULL
IsGroup(a) == Group(a) # NULL \/ a.fn = "service"
Beneath(a) ==       \* what a group's children are, level by level
  LET order == <<"genre", "artist", "album", "*">>
      n == CHOOSE m \in 1..3 : order[m] = Group(a)
  IN CASE a.fn = "service" -> <<"*">>
       [] a.fn = "whole" -> SubSeq(order, n, 4) [] OTHER -> SubSeq(order, n + 1, 4)

(* The text of a key; its number is the cells of all rows it is made of.   *)
RECURSIVE TextOf(_, _, _)
TextOf(g, k, i) ==
  LET a == g[1]
      Cell(col) == IF col \in g[3] /\ (col = "uri" => a.fn = "clips" /\ a.n > 1) THEN Empty
                   ELSE <<col, i>>
      joined == \/ a.fn = "artists" /\ k = "album"
                \/ a.fn = "genres" /\ k = "artist"
                \/ a.fn = "albums" /\ a.artist = NULL /\ k = "artist"
                \/ a.fn = "category" /\ a.album = NULL /\ a.artist # NULL /\ k = "album"
                \/ a.fn = "category" /\ a.album # NULL /\ a.artist = NULL /\ k = "artist"
      Picture(v, what) == IF v = NULL \/ v = Empty THEN NULL ELSE <<what, v>>
      title == IF "title" \in Supported(ServiceOf(a)) THEN Cell("title") ELSE Empty
  IN CASE k \in {"art", "art-large"} -> Picture(TextOf(g, "album", i), "cover")
       [] k = "art-small" -> Picture(TextOf(g, "art", i), "small")
       [] k = "thumbnail" -> Picture(TextOf(g, "uri", i), "small")
       [] k = "mime" /\ (IsGroup(a) \/ ServiceOf(a) = "playlists") -> Container
       [] k \in {"genre", "artist", "album"} /\ Given(a, k) # NULL -> Given(a, k)
       [] k = "title" /\ a.fn \in {"service", "whole"} -> Name
       [] k = "title" /\ a.fn = "category" -> Given(a, Group(a))
       [] k = "title" /\ a.fn \in {"artists", "genres", "albums"} -> Cell(Group(a))
       [] k = "title" /\ ~IsGroup(a) -> IF title # Empty THEN title ELSE <<"name", <<"uri", i>>>>
       [] joined -> Cell(<<"concat", k>>)
       [] k = Group(a) -> Cell(k)
       [] IsGroup(a) -> NULL
       [] OTHER -> IF k \in Supported(ServiceOf(a)) THEN Cell(k) ELSE NULL

NumberOf(g, k, i) ==
  LET a == g[1]
      Cell(col) == IF col \in g[3] THEN {} ELSE {<<col, i>>}
      rows == IF a.fn \in Groups THEN 1..a.n ELSE {i}
      level == IF k = "duration" THEN 0 ELSE Level[k]
  IN CASE ~IsGroup(a) /\ level > 1 -> NULL
       [] ~IsGroup(a) /\ level = 1 -> IF ServiceOf(a) = "playlists" THEN Cell(k) ELSE {}
       [] ~IsGroup(a) /\ level = 0 -> Cell(k)
       [] IsGroup(a) /\ level > Len(Beneath(a)) -> NULL
       [] OTHER -> {<<IF level = 0 THEN <<"sum", k>> ELSE <<"count", Beneath(a)[level]>>, j>> : j \in rows}

ValueOf(g, k, i) ==
  IF k = "bogus" THEN NULL ELSE IF k \in Numbers THEN NumberOf(g, k, i) ELSE TextOf(g, k, i)

(* ------------------------------ Searches ------------------------------- *)
(* Filters as tracker and a media server are sent them.                    *)
Chars == {<<>>, <<"1", "x">>, <<"&", "x">>, <<"x", "<">>}
TrackerTerms == {NewSimple(t, <<k>>, v) : t \in {"=", "~"}, k \in {"title", "duration", "added"}, v \in Chars}
                \union {NewSimple(t, <<"uri">>, <<"file://">> \o v) : t \in {"=", "<"},
                          v \in {<<"/", "x">>, <<"/", "&", "/", "x">>}}
                \union {NewSimple("=", <<"bogus">>, v) : v \in Chars} \union {NewSimple("?", <<"title">>, NULL)}
FewOfTracker == {NewSimple("=", <<"title">>, <<"x">>), NewSimple(">", <<"duration">>, <<"x">>),
                 NewSimple("=", <<"uri">>, <<"file://", "/", "x">>), NewSimple("?", <<"title">>, NULL)}
Nested(terms) == LET once == {<<"!", <<f>>>> : f \in terms}
                     twice == {<<t, <<f, g>>>> : t \in {"&", "|"}, f \in terms \union once, g \in terms}
                 IN once \union twice \union {<<"!", <<f>>>> : f \in twice}
                    \union {<<t, <<f, g>>>> : t \in {"&", "|"}, f \in twice, g \in terms}
Categories == {NULL, <<"&">>}
Searches == (Categories \X Categories \X Categories \X ({NULL} \union TrackerTerms))
            \union ({NULL} \X Categories \X {NULL} \X Nested(FewOfTracker))

ServerTerms == {NewSimple(t, <<k>>, v) : t \in {"=", "<", ">", "~"}, k \in {"uri", "title", "childcount(1)"},
                  v \in {<<"x">>, <<"\"", "x">>, <<"*", "x">>, <<"x", "*">>, <<"*">>, <<"x", "*", "x">>,
                         <<"\\", "2", "8">>, <<"\\">>}}
               \union {NewSimple("?", <<"title">>, NULL)}
FewOfServer == {NewSimple("=", <<"uri">>, <<"x">>), NewSimple("~", <<"uri">>, <<"*", "x">>),
                NewSimple("<", <<"uri">>, <<"x">>), NewSimple("?", <<"uri">>, NULL),
                NewSimple("=", <<"title">>, <<"x">>)}
Criteria == {<<f, <<>>>> : f \in ServerTerms \union Nested(FewOfServer)}
            \union {<<NULL, s>> : s \in UNION {[1..n -> {"+", "-", ""} \X {"title", "artist"}] : n \in 1..2}}

(* What holds of an object in whose properties the relations of `true'     *)
(* hold: what was meant, and what the reader makes of the text.            *)
TrackerValue(f) == CASE f[2][1] = "uri" -> Tail(f[3]) [] f[2][1] = "added" -> <<"ISO 8601">> \o NumberIn(f[3])
                     [] OTHER -> f[3]
TrackerRelation(f) ==
  IF f[2][1] = "uri" /\ f[1] = "="
  THEN {<<"=", "path", Dirname(Tail(f[3]))>>, <<"=", "filename", Basename(Tail(f[3]))>>}
  ELSE {<<f[1], IF f[2][1] = "bogus" THEN "(null)" ELSE f[2][1], TrackerValue(f)>>}

Stripped(v) ==
  LET front == IF v # <<>> /\ v[1] = "*" THEN Tail(v) ELSE v
  IN IF front # <<>> /\ front[Len(front)] = "*" THEN SubSeq(front, 1, Len(front) - 1) ELSE front
(* The property a key means is the one a browse asks for, or the key       *)
(* itself; protocolInfo holds more than the MIME type and is searched.     *)
MeantProperty(key) ==
  IF Ids({key}) = {} THEN key ELSE CHOOSE property \in FilterOf({key}) : TRUE
Misnamed(f) == PropertyOf(f[2][1]) # MeantProperty(f[2][1])
ServerRelation(f, property) ==
  LET type == IF property = "res@protocolInfo" /\ f[1] = "=" THEN "~" ELSE f[1]
  IN {<<type, property, CASE type = "?" -> <<>> [] type = "~" -> Stripped(f[3]) [] OTHER -> f[3]>>}

Relation(f, to) ==
  CASE to = "tracker"  -> TrackerRelation(f)
    [] to = "server"   -> ServerRelation(f, MeantProperty(f[2][1]))
    [] to = "misnamed" -> ServerRelation(f, PropertyOf(f[2][1]))
RECURSIVE MeantOf(_, _, _), ReadOf(_, _), Leaves(_)
MeantOf(f, true, to) ==
  IF IsSimple(f) THEN Relation(f, to) \subseteq true
  ELSE LET of == {i \in DOMAIN f[2] : MeantOf(f[2][i], true, to)}
       IN CASE f[1] = "&" -> of = DOMAIN f[2] [] f[1] = "|" -> of # {} [] f[1] = "!" -> of = {}

Leaves(f) ==
  IF f = NULL THEN {} ELSE IF IsSimple(f) THEN {f} ELSE UNION {Leaves(f[2][i]) : i \in DOMAIN f[2]}
RelationsIn(f, to) == UNION {Relation(l, to) : l \in Leaves(f)}

Positive == [op \in {"=", "<", ">", "contains", "exists true", "!=", ">=", "<=", "doesNotContain", "exists false"} |->
               CASE op \in {"=", "!="} -> "=" [] op \in {"<", ">="} -> "<" [] op \in {">", "<="} -> ">"
                 [] op \in {"contains", "doesNotContain"} -> "~" [] OTHER -> "?"]
Negative == {"!=", ">=", "<=", "doesNotContain", "exists false"}
ReadOf(tree, true) ==
  CASE tree[1] = "relation" -> (<<Positive[tree[3]], tree[2], tree[4]>> \in true) # (tree[3] \in Negative)
    [] tree[1] \in {"and", "&"} -> \A i \in DOMAIN tree[2] : ReadOf(tree[2][i], true)
    [] tree[1] \in {"or", "|"} -> \E i \in DOMAIN tree[2] : ReadOf(tree[2][i], true)
    [] tree[1] = "!" -> ~\A i \in DOMAIN tree[2] : ReadOf(tree[2][i], true)
    [] OTHER -> tree \in true

(* ------------------------------- Objects ------------------------------- *)
Info == {"DLNA, seekable", "DLNA", "plain"}
Resource(http, mime, info, uri) ==
  [http |-> http, mime |-> mime, uri |-> uri,
   attrs |-> [a \in {"protocolInfo", "duration", "size", "bitrate", "width"} |->
                IF a = "protocolInfo" THEN info ELSE a]]
Resources == {<<>>} \union {<<Resource(h, m, i, "uri 1")>> : h \in BOOLEAN, m \in {"audio", "image"}, i \in Info}
             \union {<<Resource(h, m, "DLNA", "uri 1"), Resource(TRUE, n, "plain", "uri 2")>> :
                       h \in BOOLEAN, m \in {"audio", "video"}, n \in {"audio", "image"}}
Objects == {[container |-> c, class |-> cl, children |-> "children", res |-> r,
             props |-> [p \in ps |-> p]] :
              c \in BOOLEAN, cl \in {"audio", "video", "other"}, r \in Resources,
              ps \in {{"title"}, {"title", "artist", "albumArtURI"}}}
SomeKeys == {"title", "childcount(1)", "uri", "mime-type", "thumbnail-uri", "duration", "filesize", "res-x",
             "bitrate", "is-seekable", "protocol-info", "artist", "album-art-small-uri", "video-bitrate"}
KeySets == {{k, l} : k, l \in SomeKeys} \union {{k, "uri", l} : k, l \in {"mime-type", "thumbnail-uri", "is-seekable", "artist"}}

(* -------------------------------- Paths --------------------------------- *)
(* Where a client browses, and the name of a row tracker finds there; the   *)
(* entries of a playlist, and whether tracker knows the file.               *)
PathNames == {<<"x">>, <<"/", "x">>, <<"%">>, <<"%", "2F">>, <<>>, <<"videos">>}
FilePaths == {<<"/">> \o n : n \in PathNames \ {<<>>}}
Places == {<<c, n>> : c \in {"root", "music", "videos"} \union Range(Branches1), n \in {<<>>}}
          \union UNION {{<<c, n>> : n \in [1..l -> PathNames]} : c \in {"genres"}, l \in 1..3}
          \union UNION {{<<c, n>> : n \in [1..l -> PathNames]} : c \in {"artists"}, l \in 1..2}
          \union {<<"albums", <<n>>>> : n \in PathNames}
          \union {<<c, <<f>>>> : c \in {"videos", "songs", "playlists"}, f \in FilePaths}
PathOf(place) ==
  CASE place[1] = "root" -> <<>>
    [] place[1] \in {"music", "videos"} -> <<<<place[1]>>>> \o place[2]
    [] OTHER -> <<<<"music">>, <<place[1]>>>> \o place[2]
IdOfPlace(place) == BuildObjectId(PathOf(place))
NamesOf(place) ==
  [f \in Fields |->
     LET i == SelectInSeq(Below(place[1]), LAMBDA b : b = f)
     IN IF i = 0 \/ i > Len(place[2]) THEN NULL
        ELSE IF f = "clip" THEN FilenameToUri(place[2][i]) ELSE place[2][i]]

FieldOfRow == [fn \in {"songs", "videos", "playlists", "albums", "artists", "genres"} |->
                 CASE fn = "albums" -> "album" [] fn = "artists" -> "artist" [] fn = "genres" -> "genre"
                   [] OTHER -> "clip"]
RowName(fn, name) == IF FieldOfRow[fn] = "clip" THEN <<"/">> \o name ELSE name
ChildrenOf(asked, name) ==
  [i \in DOMAIN asked |->
     LET q == asked[i] IN
     CASE q.fn = "metadata" -> {ExtractCategoryInfo(id) : id \in q.ids}
       [] q.fn = "entries"  -> {}
       [] OTHER -> {ExtractCategoryInfo(AddObjectIdPrefix(q.prefix, RowName(q.fn, name)))}]

Cwd == <<"/", "home">>
Entries == {EscapeBut(u, {"/"}) : u \in {<<s>> \o f : s \in {"file://", "http://"}, f \in FilePaths}}
           \union FilePaths \union {<<"http://", "x", "?", "x">>, <<"file://", "/", "x", "%", "2F">>}

(* ------------------------- The state machine --------------------------- *)
MCInit ==
  /\ wire = NULL
  /\ got = NULL
  /\ \/ kind = "filter"  /\ given \in Trees
     \/ kind = "text"    /\ given \in Texts
     \/ kind = "query"   /\ given \in {<<f, r>> : f \in Queries, r \in Rows}
     \/ kind = "sorting" /\ given \in {<<s, r1, r2, r3>> : s \in Sortings,
                                         r1 \in SortRows, r2 \in SortRows, r3 \in SortRows}
     \/ kind = "args"    /\ given \in {<<NULL, a>> : a \in ArgLists}
     \/ kind = "error"   /\ given \in {<<e, <<>>>> : e \in Errors}
     \/ kind = "rows"    /\ given \in Asked(MaxRow)
     \/ kind = "rdf"      /\ given \in Searches
     \/ kind = "criteria" /\ given \in Criteria
     \/ kind = "didl"     /\ given \in Objects \X KeySets
     \/ kind = "path"     /\ given \in Places \X BOOLEAN \X PathNames
     \/ kind = "entry"    /\ given \in Entries \X BOOLEAN

Write ==
  /\ wire = NULL
  /\ wire' = CASE kind = "filter"  -> ToText(given)
               [] kind = "text"    -> given
               [] kind = "query"   -> ToText(given[1])
               [] kind = "sorting" -> SortingTerms(given[1])
               [] kind \in {"args", "error"} -> Reply(given[1], given[2])
               [] kind = "rows"    -> QueryOf(given)
               [] kind = "rdf"     -> FilterFromCategory(given[1], given[2], given[3], CreateFilter(given[4]))
               [] kind = "criteria" -> <<SearchCriteria(given[1]), SortCriteria(given[2])>>
               [] kind = "didl"    -> FilterOf(given[2])
               [] kind = "path"    -> BrowseId(IdOfPlace(given[1]), given[2])
               [] kind = "entry"   -> EntryUri(given[1])
  /\ kind \in {"filter", "query"} => wire' # Failed
  /\ kind = "args" => wire' # Dies
  /\ UNCHANGED <<kind, given, got>>

Read ==
  /\ wire # NULL /\ got = NULL
  /\ kind = "criteria" => wire[1] \notin {NULL, Failed}
  /\ got' = CASE kind \in {"filter", "text"} -> Parse(wire)
              [] kind = "query" -> LET f == Parse(wire) IN
                                   Matches(Only(given[2], RelevantKeys(<<>>, f, <<>>)), f)
              [] kind = "sorting" ->
                   [i \in 2..4 |-> [j \in 2..4 |->
                      LET keys == RelevantKeys(<<>>, NULL, wire)
                      IN Compare(Only(given[i], keys), Only(given[j], keys), wire)]]
              [] kind = "args"  -> ParseArgs(Types(given[2]), wire)
              [] kind = "error" -> ToGError("extension", wire)
              [] kind = "rows"  -> AnswerOf(given, wire)
              [] kind = "rdf"   -> ReadRdf(Tail(wire), <<>>)[1]
              [] kind = "criteria" -> ReadCriteria(wire[1])[1]
              [] kind = "didl"  -> Compiled(Serve(given[1], wire), given[2])
              [] kind = "path"  -> ChildrenOf(wire, given[3])
              [] kind = "entry" -> EntryId(wire, given[2], InMusic("songs", <<>>), Cwd)
  /\ UNCHANGED <<kind, given, wire>>

MCNext == Write \/ Read
MCSpec == MCInit /\ [][MCNext]_vars

Read1(k) == kind = k /\ got # NULL

(* A filter that reaches a source is the one that was sent (NULL and an    *)
(* empty value are the same text).  What has no text has no copy either.   *)
(* And a text that was accepted, however it was damaged, can be sent on    *)
(* unless it gives `exists' a value, and means the same there.  What any   *)
(* other message is given is what its receiver reads, unless a list of     *)
(* values in it is empty; an error keeps its domain, code and message.     *)
EmptyList(args) == \E i \in DOMAIN args : args[i] = <<"gvalues", <<>>>>
TripKeeps ==
  /\ Read1("filter") => got = Plain(given)
  /\ kind = "filter" => (ToText(given) = Failed <=> Copy(given) = Failed)
  /\ Read1("text") /\ got # Failed =>
       LET again == ToText(got) IN
       IF Copy(got) = Failed THEN again = Failed ELSE Parse(again) = Plain(got)
  /\ Read1("args") /\ ~EmptyList(given[2]) =>
       got = [i \in DOMAIN given[2] |-> Arrives(given[2][i])]
  /\ Read1("error") => got = given[1]

(* A source that fetches only the relevant keys of an object and applies   *)
(* the filter it was sent finds what the filter means.                     *)
FilterMeans == Read1("query") => (got = Means(given[2], given[1]))

(* Sorting is a total order: comparing two objects the other way round     *)
(* gives the opposite, and two comparisons imply the third.  The keys the  *)
(* sorting calls relevant decide it.                                       *)
Sign(n) == IF n < 0 THEN -1 ELSE IF n > 0 THEN 1 ELSE 0
SortsTotally ==
  Read1("sorting") =>
    /\ \A i, j \in 2..4 : /\ Sign(got[i][j]) = -Sign(got[j][i])
                          /\ Sign(got[i][j]) = Sign(Compare(given[i], given[j], wire))
    /\ \A i, j, k \in 2..4 : got[i][j] <= 0 /\ got[j][k] <= 0 =>
         got[i][k] <= 0 /\ (got[i][k] = 0 => got[i][j] = 0 /\ got[j][k] = 0)

(* A query to tracker or a media server holds of the objects the filter    *)
(* and the category mean, whatever is negated, joined or quoted.  Tracker  *)
(* cannot be asked whether a key exists (it is asked for everything then), *)
(* and a value of a key it does not know is not quoted; a server cannot    *)
(* be asked for stars within a value, and a value with a backslash is      *)
(* unquoted a second time.  And every key but the URI becomes another      *)
(* property than the one meant, as SearchNamesKey has it: of a filter with *)
(* such a key only the rest is kept, its operators and values and how they *)
(* are joined, said of the properties that were named instead.             *)
Has(f, Bad(_)) == \E l \in Leaves(f) : Bad(l)
Starred(f) == \E r \in Relation(f, "misnamed") : r[1] = "~" /\ "*" \in Range(r[3])
Quotes(f) == f[1] # "?" /\ "\\" \in Range(f[3])
Raw(f) == f[2][1] = "bogus" /\ Range(f[3]) \intersect {"&", "<"} # {}
Exists(f) == f[1] = "?"
Category1(g) == {<<"=", k, v>> : <<k, v>> \in {<<"genre", g[1]>>, <<"artist", g[2]>>, <<"album", g[3]>>}}
SearchKept ==
  /\ Read1("rdf") /\ (given[4] = NULL \/ ~Has(given[4], Raw)) =>
       LET asked == IF given[4] = NULL THEN NULL ELSE IF Has(given[4], Exists) THEN NULL ELSE given[4]
           category == {r \in Category1(given) : r[3] # NULL}
       IN \A true \in SUBSET (category \union RelationsIn(asked, "tracker")) :
            (\A i \in DOMAIN got : ReadOf(got[i], true))
              <=> category \subseteq true /\ (asked = NULL \/ MeantOf(asked, true, "tracker"))
  /\ Read1("criteria") /\ ~Has(given[1], Quotes) =>
       LET to == IF Has(given[1], Misnamed) THEN "misnamed" ELSE "server"
       IN \A true \in SUBSET RelationsIn(given[1], to) :
            ReadOf(got, true) <=> MeantOf(given[1], true, to)
  /\ kind = "criteria" /\ wire # NULL =>
       /\ given[1] # NULL => (wire[1] = Failed => Has(given[1], Starred) \/ Has(given[1], Quotes))
       /\ (wire[2] = NULL) = (\E i \in DOMAIN given[2] : given[2][i][1] = "")

(* Every key a client asks for has the value of its own column in every    *)
(* object it gets, whichever keys it asked for with it and in whatever     *)
(* order, and what has no value is left out; and the id of an object is    *)
(* made of its own row.  Excepted are the titles of several playlists, the *)
(* first row's text for all groups, and a number of children with no       *)
(* column beside it.  Likewise what a client learns of an object of a      *)
(* media server does not depend on what else it asks for - but for three   *)
(* keys: the thumbnail needs a key of the album art, seekability one of    *)
(* the resource, and the MIME type is guessed from the class of the object *)
(* only if URI or thumbnail is asked.  And an id names what it was made    *)
(* of: browsing it asks tracker for what lies in that category, genre,     *)
(* artist and album, and the ids it gives name the same and the row - but  *)
(* for the album of songs below an album, which is escaped twice.  The     *)
(* entry of a playlist gets the id of its own file or URI, unless a path   *)
(* has a percent sign, or a URI has a query or an escaped slash.           *)
Excepted(g, q, k) ==
  \/ k \in {"title"} /\ g[1].fn = "clips" /\ g[1].of = "playlists" /\ "uri" \notin DOMAIN q.cache.keys
  \/ g[1].fn = "whole" /\ k \in {"genre", "artist", "album"} \union Pictures
  \/ g[1].fn = "whole" /\ k = "childcount(1)"
  \/ g[1].fn = "clips" /\ q.cols = <<>> /\ g[1].n > 1
IdsInPlace(g, q) ==
  LET rows == TrackerRowsOf(g, q) IN
  CASE g[1].fn \in {"videos", "songs", "playlists"} ->
         IdsFromPathname(q.cache, rows) = [i \in DOMAIN rows |-> rows[i][1]]
    [] g[1].fn \in {"artists", "genres", "albums"} ->
         IdsFromUniqueKey(q.cache, rows) = [i \in DOMAIN rows |-> rows[i][1]]
    [] OTHER -> TRUE
Dependent(object, k, keys) ==
  \/ k = "thumbnail-uri" /\ "album-art-small-uri" \notin keys
  \/ k = "is-seekable" /\ ~\E p \in FilterOf(keys) : IsRes(p)
  \/ /\ k = "mime-type" /\ ~object.container /\ keys \intersect {"uri", "thumbnail-uri"} = {}
     /\ Len(Supported1(object)) > 1 \/ ~ClassKnown(object)
Restricted(q, names) == q.genre = names.genre /\ q.artist = names.artist /\ q.album = names.album
ChildIsRead(g, q, children) ==
  LET names == NamesOf(g[1]) IN
  CASE q.fn = "metadata" ->
         children = {Category2(c, NamesOf(<<"root", <<>>>>)) :
                       c \in IF g[1][1] = "root" THEN {"videos", "music"} ELSE Range(Branches1)}
    [] q.fn = "entries" -> g[1][1] = "playlists"
    [] OTHER ->
         LET kept == IF g[2] \/ q.fn = "videos" THEN [f \in Fields |-> NULL]
                     ELSE IF g[1][1] = "albums" /\ names.album # NULL
                     THEN [names EXCEPT !.album = Escape(@)] ELSE names
             row == RowName(q.fn, g[3])
             field == FieldOfRow[q.fn]
         IN /\ Restricted(q, names)
            /\ children = {Category2(
                 IF q.fn = "videos" THEN "videos" ELSE IF g[2] /\ q.fn = "songs" THEN "songs" ELSE g[1][1],
                 [kept EXCEPT ![field] = IF field = "clip" THEN FilenameToUri(row) ELSE row])}
Ambiguous(uri) ==
  IF uri[1] = "/" THEN "%" \in Range(uri) ELSE "?" \in Range(uri) \/ "2F" \in Range(uri)
EntryKept(g) ==
  LET uri == IF g[1][1] = "/" THEN FilenameToUri(g[1]) ELSE g[1]
      extension == SplitObjectId(got)
  IN IF g[2] /\ uri[1] = "file://" THEN ExtractCategoryInfo(got).names.clip = uri ELSE extension = uri
RowsInPlace ==
  /\ kind = "path" =>
       /\ ExtractCategoryInfo(IdOfPlace(given[1])) = Category2(given[1][1], NamesOf(given[1]))
       /\ got # NULL => \A i \in DOMAIN got : ChildIsRead(given, wire[i], got[i])
  /\ Read1("entry") /\ ~Ambiguous(given[1]) => EntryKept(given)
  /\ Read1("rows") =>
       /\ IdsInPlace(given, wire)
       /\ \A i \in DOMAIN got : \A k \in Range(given[2]) :
         LET v == ValueOf(given, k, i) IN
         ~Excepted(given, wire, k) =>
           IF ValueIsAllowed(v, k) THEN k \in DOMAIN got[i] /\ got[i][k] = v ELSE k \notin DOMAIN got[i]
  /\ Read1("didl") =>
       LET whole == Compiled(given[1], UpnpKeys)
       IN \A k \in given[2] : ~Dependent(given[1], k, given[2]) =>
            IF k \in DOMAIN whole THEN k \in DOMAIN got /\ got[k] = whole[k] ELSE k \notin DOMAIN got

(* A relation of a search names the property that a browse request asks    *)
(* for, given the same key.                                                *)
SearchNamesKey ==
  kind = "criteria" /\ wire # NULL => \A f \in FewOfServer :
    given[1] = f => wire[1][1] \in FilterOf({f[2][1]})
=============================================================================
