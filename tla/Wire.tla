-------------------------------- MODULE Wire --------------------------------
(* The arguments of a D-Bus message (src/mafw-shared/common/mafw-dbus.c):  *)
(* what the sender appends for an argument of each of the framework's      *)
(* types, and what the receiver parses; and the errors that answer a call. *)
(*                                                                         *)
(* An argument is <<type, value>>, a message a sequence of items           *)
(* <<signature, value>>.  Dies is the end of the program, which either     *)
(* side comes to over an argument it cannot handle.                        *)
EXTENDS Metadata

CONSTANT Dies

(* The types of a GValue that have a D-Bus type ...                        *)
Variants == {"char", "bool", "int", "uint", "int64", "uint64", "double", "string"}

AppendGvalue(v) == IF v[1] \in Variants THEN <<<<"v", v>>>> ELSE Dies

(* ... and the items of one argument.                                      *)
AppendArg(type, value) ==
  CASE type = "strvz"     -> <<<<"as", IF value = NULL THEN <<>> ELSE value>>>>
    [] type = "bytes"     -> <<<<"ay", value>>>>
    [] type = "metadata"  -> <<<<"ay", Freeze(value)>>>>
    [] type = "gvalue"    -> AppendGvalue(value)
    [] type = "gvalues"   ->
         LET items == [i \in DOMAIN value |-> AppendGvalue(value[i])]
         IN IF Dies \in Range(items) THEN Dies
            ELSE <<<<"u", Len(value)>>>> \o FlattenSeq(items)
    [] type \in {"u", "s", "au"} -> <<<<type, value>>>>

AppendArgs(args) ==
  LET items == [i \in DOMAIN args |-> AppendArg(args[i][1], args[i][2])]
  IN IF Dies \in Range(items) THEN Dies ELSE FlattenSeq(items)

(* A parser is given the items from the one it is to read on and returns   *)
(* the value and how many items it has moved on itself; the caller moves   *)
(* on one more.                                                            *)
ParseArray(sig, items) == IF items[1][1] = sig THEN <<items[1][2], 0>> ELSE Dies
ParseStrvz(items)      == ParseArray("as", items)
ParseBytes(items)      == ParseArray("ay", items)
ParseMetadata(items)   == IF items[1][1] = "ay" THEN <<Thaw(items[1][2]), 0>> ELSE Dies
ParseGvalue(items)     == ParseArray("v", items)
ParseBasic(type, items) == ParseArray(type, items)

ParseGvalues(items) ==
  LET n == items[1][2]
  IN IF items[1][1] # "u" THEN Dies
     ELSE IF Len(items) = 1 \/ Len(items) <= n THEN Dies
     ELSE IF \E i \in 1..n : ParseGvalue(After(items, i)) = Dies THEN Dies
     ELSE <<[i \in 1..n |-> ParseGvalue(After(items, i))[1]], IF n = 0 THEN 1 ELSE n>>

ParseArg(type, items) ==
  CASE type = "strvz"    -> ParseStrvz(items)
    [] type = "bytes"    -> ParseBytes(items)
    [] type = "metadata" -> ParseMetadata(items)
    [] type = "gvalue"   -> ParseGvalue(items)
    [] type = "gvalues"  -> ParseGvalues(items)
    [] type = "au"       -> ParseArray("au", items)
    [] OTHER             -> ParseBasic(type, items)

RECURSIVE ParseArgs(_, _)
ParseArgs(types, items) ==
  IF types = <<>> THEN <<>>
  ELSE IF items = <<>> THEN Dies
  ELSE LET got == ParseArg(types[1], items)
           others == IF got = Dies THEN Dies
                     ELSE ParseArgs(Tail(types), After(items, got[2] + 1))
       IN IF others = Dies THEN Dies ELSE <<got[1]>> \o others

(* A call is answered by an error of the framework, its text the domain,   *)
(* the code and the message, or by one of the bus.                         *)
Error(domain, code, message) ==
  [name |-> "com.nokia.mafw", text |-> <<domain, ":", code, ":">> \o message]

OciError(error) ==
  IF error = NULL THEN Error("extension", "invalid_params", <<"invalid">>)
  ELSE Error(error.domain, error.code, error.message)

Reply(error, args) == IF error # NULL THEN OciError(error) ELSE AppendArgs(args)

ToGError(own, reply) ==
  IF reply.name # "com.nokia.mafw"
    THEN [domain |-> own, code |-> "not_available", message |-> reply.text]
  ELSE LET domain == Upto(reply.text, {":"})
           code   == After(reply.text, domain + 1)
           n      == Upto(code, {":"})
       IN [domain |-> reply.text[domain], code |-> code[n], message |-> After(code, n + 1)]
=============================================================================
