------------------------------- MODULE Filter -------------------------------
(* The filters of mafw_source_browse (src/mafw/libmafw/mafw-filter.c): a   *)
(* filter is a tree, travels to a source as text and is parsed again       *)
(* there.  A text is a sequence of characters; the characters that matter  *)
(* are the brackets, the operators, the backslash and the hexadecimal      *)
(* digits of a quoted character.                                           *)
(*                                                                         *)
(* A node of a tree is <<type, key, value>> if it is simple and            *)
(* <<type, parts>> if it joins others.  A parser returns the tree and the  *)
(* rest of the text, or Failed.  QuotesStar is a wrong version of Quote,   *)
(* for comparison.                                                         *)
EXTENDS Sequences, SequencesExt, Integers

CONSTANT NULL       \* no text, no filter, no metadata

Simple  == {"=", "<", ">", "~", "?"}    \* char_to_simple
Complex == {"&", "|", "!"}              \* char_to_complex
KeyChars == {"a", "b", "1", "2"}        \* some of [-_a-zA-Z0-9]
Failed == <<>>

(* The digits of the characters mafw_filter_quote replaces ...             *)
Digits == [c \in {"*", "(", ")", "\\"} |->
             CASE c = "*" -> <<"2", "A">> [] c = "(" -> <<"2", "8">>
               [] c = ")" -> <<"2", "9">> [] c = "\\" -> <<"5", "C">>]

QuotesStar(str) ==
  FlattenSeq([i \in DOMAIN str |-> IF str[i] = "*" THEN <<"\\", "2", "A">> ELSE <<str[i]>>])

Quote(str) ==
  FlattenSeq([i \in DOMAIN str |->
    IF str[i] \in DOMAIN Digits THEN <<"\\">> \o Digits[str[i]] ELSE <<str[i]>>])

(* ... and the first token of a text taken back: the character and the     *)
(* tokens after it, or Failed if no hexadecimal digits follow a backslash. *)
UnquoteChar(str) ==
  IF str[1] # "\\" THEN <<str[1], Tail(str)>>
  ELSE LET known == {c \in DOMAIN Digits : IsPrefix(Digits[c], Tail(str))}
       IN IF known = {} THEN Failed
          ELSE <<CHOOSE c \in known : TRUE, SubSeq(str, 4, Len(str))>>

RECURSIVE Unquote(_)
Unquote(str) ==
  IF str = <<>> THEN <<>>
  ELSE LET token == UnquoteChar(str)
           rest  == IF token = Failed THEN NULL ELSE Unquote(token[2])
       IN IF rest = NULL THEN NULL ELSE <<token[1]>> \o rest

Upto(text, stop) ==     \* how many characters of text come before one of stop
  CHOOSE n \in 0..Len(text) : /\ n = Len(text) \/ text[n + 1] \in stop
                              /\ \A i \in 1..n : text[i] \notin stop

After(text, n) == SubSeq(text, n + 1, Len(text))

(* A relation, its opening bracket already taken: the key, the operator,   *)
(* and whatever comes before the next closing bracket as the value, NULL   *)
(* if that cannot be unquoted.                                             *)
ParseSimple(text) ==
  LET KeyEnds(n) == n = Len(text) \/ text[n + 1] \notin KeyChars
      n == CHOOSE m \in 0..Len(text) : /\ KeyEnds(m)
                                       /\ \A i \in 1..m : text[i] \in KeyChars
      value == After(text, n + 1)
      m == Upto(value, {")"})
  IN IF n = 0 \/ n = Len(text) THEN Failed
     ELSE IF text[n + 1] \notin Simple \/ m = Len(value) THEN Failed
     ELSE <<<<text[n + 1], Unquote(SubSeq(text, 1, n)), Unquote(SubSeq(value, 1, m))>>,
            After(value, m + 1)>>

(* Anything in brackets.  A joining filter takes parts until its closing   *)
(* bracket or the end of the text; a negation only one.                    *)
RECURSIVE ParseSexp(_), ParseParts(_, _, _)
ParseSexp(text) ==
  IF text = <<>> THEN Failed
  ELSE IF text[1] # "(" THEN Failed
  ELSE IF Len(text) > 1 /\ text[2] \in Complex THEN ParseParts(text[2], <<>>, After(text, 2))
  ELSE ParseSimple(Tail(text))

ParseParts(type, parts, text) ==
  LET part == ParseSexp(text)
      all  == Append(parts, part[1])
      rest == part[2]
  IN IF part = Failed THEN Failed
     ELSE IF rest = <<>> THEN <<<<type, all>>, rest>>
     ELSE IF rest[1] = ")" THEN <<<<type, all>>, Tail(rest)>>
     ELSE IF type = "!" THEN Failed
     ELSE ParseParts(type, all, rest)

Parse(text) ==
  LET got == ParseSexp(text)
  IN IF got = Failed THEN Failed ELSE IF got[2] # <<>> THEN Failed ELSE got[1]

IsSimple(f) == f[1] \in Simple

(* The values a relation can carry to a source: `exists' has none.         *)
Sendable(f) == f[2] # <<>> /\ (f[1] = "?" => f[3] \in {NULL, <<>>})

(* The text of a filter (filter_to_string_rec), Failed if it has none.     *)
RECURSIVE ToTextRec(_)
ToTextRec(f) ==
  IF IsSimple(f)
  THEN IF Sendable(f)
       THEN <<"(">> \o Quote(f[2]) \o <<f[1]>>
              \o (IF f[3] = NULL THEN <<>> ELSE Quote(f[3])) \o <<")">>
       ELSE Failed
  ELSE LET texts == [i \in DOMAIN f[2] |-> ToTextRec(f[2][i])]
       IN IF (f[1] = "!" /\ Len(f[2]) > 1) \/ Failed \in Range(texts) THEN Failed
          ELSE <<"(", f[1]>> \o FlattenSeq(texts) \o <<")">>

ToText(f) == IF f = NULL THEN Failed ELSE ToTextRec(f)

(* A copy of a filter, Failed where mafw_filter_copy gives NULL.           *)
RECURSIVE Copy(_)
Copy(f) ==
  IF IsSimple(f) THEN IF Sendable(f) THEN f ELSE Failed
  ELSE LET parts == [i \in DOMAIN f[2] |-> Copy(f[2][i])]
       IN IF (f[1] = "!" /\ Len(f[2]) # 1) \/ f[2] = <<>> \/ Failed \in Range(parts)
            THEN Failed ELSE <<f[1], parts>>

NewSimple(type, key, value) == <<type, key, value>>

AddChildren(f, parts) == IF f[1] \in {"&", "|"} THEN <<f[1], f[2] \o parts>> ELSE f
=============================================================================
