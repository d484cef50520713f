------------------------------ MODULE UpnpCalls ------------------------------
(***************************************************************************)
(* get_metadata of the UPnP source (mafw-upnp-source.c).  A server is      *)
(* asked for one object, and what it answers is parsed as DIDL-Lite: each  *)
(* item or container in it calls the callback when it is parsed.           *)
(***************************************************************************)
EXTENDS SourceAnswer

CONSTANT MaxDidl   \* bound: items in an answer of a server

UpnpGets(o, keys) ==
  IF keys = "none" THEN Says(Fine)
  ELSE IF o = "bad" THEN Says(Refused)
  ELSE Reaction(Over, <<>>, {Todo("metadata", {o})}, <<>>)

(* mafw_upnp_source_metadata_cb: the action failed, or n items were found, *)
(* perhaps before a syntax error.                                          *)
UpnpCallbacks(o) ==
  LET items(n) == [i \in 1 .. n |-> Answer(TRUE, {o})] IN
  {<<Refused>>} \cup {items(n) : n \in 0 .. MaxDidl}
                \cup {Append(items(n), Refused) : n \in 0 .. MaxDidl}
UpnpAnswers(o) == {Reaction(Over, <<>>, {}, says) : says \in UpnpCallbacks(o)}
=============================================================================
