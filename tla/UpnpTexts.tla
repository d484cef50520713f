----------------------------- MODULE UpnpTexts ------------------------------
(* What the UPnP source writes to a media server and what it reads: keys   *)
(* become a Filter, a filter of MAFW a SearchCriteria, a sorting a         *)
(* SortCriteria, and a DIDL-Lite object becomes metadata.                  *)
(*                                                                         *)
(* A SearchCriteria is a sequence of tokens; the characters of a quoted    *)
(* value are one token each.  Here the key of a filter is one token, the   *)
(* name of a metadata key.  KeepsTheJoiner is a wrong version of Joiner,   *)
(* for comparison.                                                         *)
EXTENDS Metadata

(* ------------------------------- Keys ---------------------------------- *)
UpnpFilters ==
  <<"res", "res@protocolInfo", "res@duration", "res@bitrate", "res@size", "res@colorDepth",
    "res@resolution", "albumArtURI", "lyricsURI", "artistDiscographyURI",
    "dc:title", "upnp:artist", "upnp:genre", "upnp:album", "childcount(1)", "didl",
    "is-seekable", "track", "year", "count", "play-count", "description", "encoding", "added",
    "modified", "thumbnail", "comment", "tags", "album-info-uri", "lyrics", "rating",
    "composer", "filename", "copyright", "audio-codec", "album-art-uri", "album-art",
    "video-codec", "video-framerate", "exif-xml", "icon-uri", "icon">>

(* upnpmaps: key, place among UpnpFilters (from 0), type, name in a DIDL.  *)
UpnpMaps ==
  LET Row(k, n, type, name) == [key |-> k, filter |-> n, type |-> type, name |-> name]
      Own(k, n) == Row(k, n, "string", k)
  IN <<Row("uri", 0, "", NULL), Row("childcount(1)", 14, "", NULL), Row("mime-type", 1, "", NULL),
       Row("duration", 2, "", NULL), Row("thumbnail-uri", 1, "", NULL), Row("didl", 15, "", NULL),
       Row("is-seekable", 16, "", NULL), Row("lyrics-uri", 8, "string", "lyricsURI"),
       Row("protocol-info", 1, "string", "protocolInfo"),
       Row("album-art-small-uri", 7, "string", "albumArtURI"),
       Row("album-art-medium-uri", 7, "string", "albumArtURI"),
       Row("album-art-large-uri", 7, "string", "albumArtURI"),
       Row("artist-info-uri", 9, "string", "artistDiscographyURI"),
       Row("audio-bitrate", 3, "int", "bitrate"), Row("video-bitrate", 3, "int", "bitrate"),
       Row("bitrate", 3, "int", "bitrate"), Row("filesize", 4, "int", "size"),
       Row("bpp", 5, "int", "colorDepth"), Own("title", 10), Own("artist", 11), Own("album", 13),
       Own("genre", 12), Own("track", 17), Row("year", 18, "int", "year"),
       Row("count", 19, "int", "count"), Row("play-count", 20, "int", "play-count"),
       Own("description", 21), Own("encoding", 22), Row("added", 23, "long", "added"),
       Row("modified", 24, "long", "modified"), Own("thumbnail", 25),
       Row("res-x", 6, "int", "res-x"), Row("res-y", 6, "int", "res-y"), Own("comment", 26),
       Own("tags", 27), Own("album-info-uri", 28), Own("lyrics", 29), Row("rating", 30, "int", "rating"),
       Own("composer", 31), Own("filename", 32), Own("copyright", 33), Own("audio-codec", 34),
       Own("album-art-uri", 35), Own("album-art", 36), Own("video-codec", 37),
       Row("video-framerate", 38, "float", "video-framerate"), Own("exif-xml", 39),
       Own("icon-uri", 40), Own("icon", 41)>>

UpnpKeys == {UpnpMaps[i].key : i \in DOMAIN UpnpMaps}
Ids(keys) == {i \in DOMAIN UpnpMaps : UpnpMaps[i].key \in keys}     \* util_compile_mdata_keys

(* The property a key of a filter or a sorting becomes: the one whose      *)
(* place among the properties is the key's place among the keys, and       *)
(* whatever lies beyond the array if there is none.                        *)
Unknown == "whatever is in memory there"
PropertyOf(key) ==
  IF Ids({key}) = {} THEN Unknown
  ELSE LET id == CHOOSE i \in Ids({key}) : TRUE
       IN IF id \in DOMAIN UpnpFilters THEN UpnpFilters[id] ELSE Unknown

(* The Filter of a browse request: the properties asked for, found by the  *)
(* place each key has for it.                                              *)
FilterOf(keys) == {UpnpFilters[UpnpMaps[i].filter + 1] : i \in Ids(keys)}

(* ------------------------------ Criteria ------------------------------- *)
Operator(type, negate) ==
  IF negate THEN CASE type = "=" -> "!=" [] type = "<" -> ">=" [] type = ">" -> "<="
                   [] type = "~" -> "doesNotContain" [] OTHER -> "exists false"
  ELSE CASE type = "~" -> "contains" [] type = "?" -> "exists true" [] OTHER -> type

(* The value of a relation in quotes.  It is unquoted here once more, and  *)
(* for `contains' stars at its ends go.                                    *)
RECURSIVE Quoted(_, _, _)
Quoted(type, value, first) ==
  IF value = <<>> THEN <<"\"">>
  ELSE IF type = "~" /\ value[1] = "*"
    THEN IF first \/ Len(value) = 1 THEN Quoted(type, Tail(value), FALSE) ELSE Failed
  ELSE LET token == UnquoteChar(value)
           rest == IF token = Failed THEN Failed ELSE Quoted(type, token[2], FALSE)
       IN IF rest = Failed THEN Failed
          ELSE (IF token[1] \in {"\\", "\""} THEN <<"\\", token[1]>> ELSE <<token[1]>>) \o rest

(* A relation.  For protocolInfo equality becomes `contains'.              *)
CriteriaSimple(f, negate) ==
  LET property == PropertyOf(f[2][1])
      type == IF property = "res@protocolInfo" /\ f[1] = "=" THEN "~" ELSE f[1]
      value == IF type = "?" THEN <<>> ELSE Quoted(type, f[3], TRUE)
  IN CASE type = "?" -> <<property, Operator(type, negate)>>
       [] OTHER -> IF value = Failed THEN Failed
                   ELSE <<property, Operator(type, negate), "\"">> \o value

(* A negation is carried down to the relations, which turns and and or     *)
(* into each other.  The wrong version forgets to.                         *)
KeepsTheJoiner(type, negate) == IF type = "&" THEN "and" ELSE "or"
Joiner(type, negate) == IF (type = "&") # negate THEN "and" ELSE "or"

RECURSIVE CriteriaOf(_, _)
CriteriaComplex(f, negate) ==
  LET turned == IF f[1] = "!" THEN ~negate ELSE negate
      texts == [i \in DOMAIN f[2] |-> CriteriaOf(f[2][i], turned)]
      bracketed == [i \in DOMAIN texts |->
        <<"(">> \o texts[i] \o <<")">> \o (IF i = Len(texts) THEN <<>> ELSE <<Joiner(f[1], negate)>>)]
  IN IF Failed \in Range(texts) THEN Failed
     ELSE IF Len(texts) = 1 THEN texts[1] ELSE FlattenSeq(bracketed)
CriteriaOf(f, negate) == IF IsSimple(f) THEN CriteriaSimple(f, negate) ELSE CriteriaComplex(f, negate)

SearchCriteria(f) == IF f = NULL THEN NULL ELSE CriteriaOf(Copy(f), FALSE)

(* A sorting: every key with its sign, or nothing if one has none.         *)
SortCriteria(terms) ==
  IF \E i \in DOMAIN terms : terms[i][1] \notin {"+", "-"} THEN NULL
  ELSE [i \in DOMAIN terms |-> <<terms[i][1], PropertyOf(terms[i][2])>>]

(* --------------------------- The server -------------------------------- *)
(* It reads the criteria: relations joined by one operator, in brackets.   *)
RECURSIVE ReadCriteria(_), ReadQuoted(_)
ReadQuoted(text) ==
  IF text[1] = "\"" THEN <<<<>>, Tail(text)>>
  ELSE LET n == IF text[1] = "\\" THEN 2 ELSE 1
           rest == ReadQuoted(After(text, n))
       IN <<<<text[n]>> \o rest[1], rest[2]>>

ReadRelation(text) ==
  IF text[2] \in {"exists true", "exists false"}
  THEN <<<<"relation", text[1], text[2], <<>>>>, After(text, 2)>>
  ELSE LET value == ReadQuoted(After(text, 3))
       IN <<<<"relation", text[1], text[2], value[1]>>, value[2]>>

RECURSIVE ReadJoined(_, _)
ReadJoined(text, parts) ==      \* the parts so far, the rest, the operator that joins them
  LET part == IF text[1] = "(" THEN ReadCriteria(Tail(text)) ELSE ReadRelation(text)
      rest == IF text[1] = "(" THEN Tail(part[2]) ELSE part[2]
      all  == Append(parts, part[1])
      more == ReadJoined(Tail(rest), all)
  IN IF rest = <<>> THEN <<all, rest, "">>
     ELSE IF rest[1] = ")" THEN <<all, rest, "">>
     ELSE <<more[1], more[2], rest[1]>>
ReadCriteria(text) ==
  LET got == ReadJoined(text, <<>>)
  IN <<IF got[3] = "" THEN got[1][1] ELSE <<got[3], got[1]>>, got[2]>>

(* It gives an object with the properties asked for; the title, the class  *)
(* and a resource's protocolInfo belong to every object.                   *)
IsRes(property) == property \in {"res", "res@protocolInfo", "res@duration", "res@bitrate", "res@size",
                                 "res@colorDepth", "res@resolution"}
Attribute == [p \in {"duration", "bitrate", "size", "colorDepth", "width", "height", "protocolInfo"} |->
                CASE p \in {"width", "height"} -> "res@resolution"
                  [] p = "duration" -> "res@duration" [] p = "bitrate" -> "res@bitrate"
                  [] p = "size" -> "res@size" [] p = "colorDepth" -> "res@colorDepth"
                  [] OTHER -> "res@protocolInfo"]
Local(p) == CASE p = "dc:title" -> "title" [] p = "upnp:artist" -> "artist"
              [] p = "upnp:genre" -> "genre" [] p = "upnp:album" -> "album" [] OTHER -> p
Only2(f, keys) == [k \in DOMAIN f \intersect keys |-> f[k]]
Serve(object, asked) ==
  LET attributes == {"protocolInfo"} \union {a \in DOMAIN Attribute : Attribute[a] \in asked}
      res == [i \in DOMAIN object.res |-> [object.res[i] EXCEPT !.attrs = Only2(@, attributes)]]
  IN [object EXCEPT !.res = IF \E p \in asked : IsRes(p) THEN res ELSE <<>>,
                    !.props = Only2(@, {Local(p) : p \in asked} \union {"title"})]

(* ----------------------------- Metadata -------------------------------- *)
(* The resources HTTP can fetch, and whether the class is that of audio.   *)
Supported1(object) == SelectSeq(object.res, LAMBDA r : r.http)
IsAudio(object) == object.class # "video"
ClassKnown(object) == object.class \in {"audio", "video"}

(* The URIs of the resources of the right sort, of all if there are none.  *)
HttpUris(resources, audio) ==
  LET right == SelectSeq(resources, LAMBDA r : r.mime = IF audio THEN "audio" ELSE "video")
      some == IF right = <<>> THEN resources ELSE right
  IN [i \in DOMAIN some |-> some[i].uri]

MimeType(container, audio, resources) ==
  CASE container -> <<"container">>
    [] ~container /\ resources = <<>> -> <<>>
    [] ~container /\ Len(resources) = 1 -> <<resources[1].mime>>
    [] OTHER -> IF audio THEN <<"all audio">> ELSE <<"all video">>

(* A property of the object, or an attribute of its first resource.        *)
Fallback(object, resources, i) ==
  LET name == UpnpMaps[i].name
  IN CASE name = NULL -> <<>>
       [] name \in DOMAIN object.props -> <<object.props[name]>>
       [] resources # <<>> /\ name \in DOMAIN resources[1].attrs -> <<resources[1].attrs[name]>>
       [] OTHER -> <<>>

(* Lists of values, empty where nothing is added.                          *)
Compiled(object, keys) ==
  LET looked == ~object.container /\ keys \intersect {"uri", "thumbnail-uri"} # {}
      audio == looked /\ IsAudio(object)
      supported == looked => ClassKnown(object)
      resources == Supported1(object)
      Of(attr, single) == IF resources = <<>> THEN <<>>
                          ELSE IF (single => Len(resources) = 1) /\ attr \in DOMAIN resources[1].attrs
                               THEN <<resources[1].attrs[attr]>> ELSE <<>>
      Property(p) == IF p \in DOMAIN object.props THEN <<object.props[p]>> ELSE <<>>
      info == Of("protocolInfo", FALSE)
      Value(i) ==
        LET key == UpnpMaps[i].key IN
        CASE key = "title" -> Property("title")
          [] key = "childcount(1)" -> IF object.container THEN <<object.children>> ELSE <<>>
          [] key = "thumbnail-uri" -> IF audio THEN Property("albumArtURI") ELSE <<>>
          [] key = "didl" -> <<"didl">>
          [] key = "mime-type" -> IF object.container \/ supported
                                  THEN MimeType(object.container, audio, resources) ELSE <<>>
          [] key = "duration" -> Of("duration", FALSE)
          [] key = "filesize" -> Of("size", TRUE)
          [] key = "bitrate" -> Of("bitrate", TRUE)
          [] key = "res-x" -> Of("width", TRUE)
          [] key = "res-y" -> Of("height", TRUE)
          [] key = "uri" -> HttpUris(resources, audio)
          [] key = "is-seekable" ->
               CASE object.container \/ info = <<>> -> <<>>
                 [] info = <<"DLNA, seekable">> -> <<"yes">>
                 [] info = <<"DLNA">> -> <<"no">>
                 [] OTHER -> <<>>
          [] OTHER -> IF UpnpMaps[i].type \in {"int", "string"} THEN Fallback(object, resources, i)
                      ELSE <<>>
  IN [k \in {UpnpMaps[i].key : i \in {j \in Ids(keys) : Value(j) # <<>>}} |->
        Value(CHOOSE j \in Ids({k}) : TRUE)]
=============================================================================
