----------------------------- MODULE IradioStore -----------------------------
(***************************************************************************)
(* The radio stations of the internet radio source: the table with the     *)
(* metadata (mafw-iradio-source.c), the bookmarks a vendor's file brings   *)
(* in when the source starts (mafw-iradio-vendor-setup.c).                 *)
(*                                                                         *)
(* The rows of an object are abstracted to its URI and to whether it has   *)
(* other keys.  The row without a key that remembers the date of the       *)
(* vendor's file has an id like an object; the date is the number of the   *)
(* file's version.  A version of the file is the sequence of its URIs,     *)
(* NoUri for a bookmark without one.                                       *)
(*                                                                         *)
(* A statement outside a transaction stays when a later one fails.         *)
(*                                                                         *)
(* Wrong versions used by nothing, there to replace the definition that    *)
(* follows them: LastId, NoCheck.                                          *)
(***************************************************************************)
EXTENDS SourceAnswer

CONSTANTS
  MaxId,     \* bound: the ids of objects
  Uri, NoUri,
  Nobody     \* made by nobody

ASSUME IradioAssumption == MaxId \in Nat /\ NoUri \notin Uri

ObjectId  == 1 .. MaxId
Malformed == 0   \* of an object id that does not parse
Root      == -1  \* of the container of all objects
ByVendor  == 0   \* made when the vendor's file was loaded

NoRows == [uri |-> NoUri, more |-> FALSE]
NoDate == [id |-> 0, date |-> 0]
\* made is history: the call that created the object, or ByVendor
EmptyDb == [table |-> FALSE, rows |-> [i \in ObjectId |-> NoRows],
            date |-> NoDate, made |-> [i \in ObjectId |-> Nobody]]

IsObject(db, i) == db.rows[i] # NoRows
\* is_id_stored: the row of the date counts
Stored(db, i) == i \in ObjectId /\ (IsObject(db, i) \/ db.date.id = i)

LastId(db) ==
  LET ids == {i \in ObjectId : Stored(db, i)} IN
  IF ids = {} THEN 1 ELSE CHOOSE i \in ids : \A j \in ids : j <= i
\* get_next_id
NextId(db) == IF \E i \in ObjectId : Stored(db, i) THEN LastId(db) + 1 ELSE 1

-----------------------------------------------------------------------------
(* The handlers.  Each gives the table after it and its reaction, for each *)
(* outcome it may have; a statement fails only if that is given.           *)

Result(db, r) == [db |-> db, r |-> r]

Put(db, i, u, by) ==
  [db EXCEPT !.rows[i] = [uri |-> u, more |-> TRUE], !.made[i] = by]

create_object(db, by, u, fails) ==
  IF u = NoUri THEN {Result(db, Says(Refused))}
  ELSE {Result(Put(db, NextId(db), u, by), Later(Todo("created", {})))}
       \cup (IF fails THEN {Result(db, Says(Refused))} ELSE {})

\* The keys given are deleted first, then stored in a transaction.
Without(db, i, keys) ==
  [db EXCEPT !.rows[i].uri = IF "uri" \in keys THEN NoUri ELSE @,
             !.rows[i].more = @ /\ "more" \notin keys]
With(db, i, keys, u) ==
  [db EXCEPT !.rows[i].uri = IF "uri" \in keys THEN u ELSE @,
             !.rows[i].more = @ \/ "more" \in keys]
set_metadata(db, i, keys, u, fails) ==
  IF ~Stored(db, i) THEN {Result(db, Says(Refused))}
  ELSE {Result(With(db, i, keys, u), Later(Todo("set", {})))}
       \cup (IF fails
             THEN {Result(Without(db, i, k), Says(Refused)) : k \in SUBSET keys}
             ELSE {})

\* The object is looked for when the idle function runs, if at all.  meant
\* and doomed are history, see SourceCalls.
destroy_object(db, i, meant, doomed) ==
  {Result(db, IF i = Malformed THEN Says(Refused)
              ELSE Later([kind |-> "destroy", objs |-> {i},
                          meant |-> meant, doomed |-> doomed]))}

Deleted(db, i) ==
  [db EXCEPT !.rows[i] = NoRows, !.made[i] = Nobody,
             !.date = IF @.id = i THEN NoDate ELSE @]
destroy_object_cb(db, i, fails) ==
  {Result(Deleted(db, i), Says(Fine))}
  \cup (IF fails THEN {Result(db, Says(Refused))} ELSE {})

get_metadata(i) ==
  IF i = Malformed THEN Says(Refused) ELSE Later(Todo("get", {i}))
get_metadata_cb(db, i) ==
  IF i = Root \/ Stored(db, i) THEN Answer(TRUE, {i}) ELSE Refused

-----------------------------------------------------------------------------
(* mafw_iradio_source_init: the vendor's file is read when the source has  *)
(* just made its table, or when the file's date is another one than that   *)
(* stored.  A load has the file's version, the bookmark it is at, and      *)
(* whether stored URIs are looked for first.                               *)

NotLoading == [version |-> 0, at |-> 0, check |-> FALSE]

NoCheck(db)      == FALSE
ChecksFirst(db)  == db.table
Load(db, v) == [version |-> v, at |-> 1, check |-> ChecksFirst(db)]

\* the file's version that is there, 0 if there is none
Loads(db, v) == v # 0 /\ (~db.table \/ db.date.date # v)

HasUri(db, u) == \E i \in ObjectId : db.rows[i].uri = u /\ u # NoUri

\* mafw_iradio_create_bookmark_object
Bookmarked(db, load, u) ==
  IF load.check /\ HasUri(db, u) THEN db
  ELSE Put(db, NextId(db), u, ByVendor)

\* a first load does not look for an older date; one without an older date
\* deletes none
DateDeleted(db) == [db EXCEPT !.date = NoDate]
Dated(db, v)    == [db EXCEPT !.date = [id |-> NextId(db), date |-> v]]
=============================================================================
