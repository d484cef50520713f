------------------------------ MODULE Metadata ------------------------------
(* The metadata of an object (src/mafw/libmafw/mafw-metadata.c): how a     *)
(* filter is evaluated over it and how objects are sorted by it, and the   *)
(* bytes it travels and is stored as (mafw-metadata-serializer.c).         *)
(*                                                                         *)
(* Metadata is a function from keys to sequences of values.  A value is    *)
(* <<type, datum>>; a filter compares strings (sequences of characters)    *)
(* and integers only.  The result of a filter is 0, 1 or -1, undecided.    *)
(* OnlyAskedKeys and LackingEqual are wrong versions of operators, for     *)
(* comparison.                                                             *)
EXTENDS Filter

CONSTANT W      \* the width of an integer, in bits

ASSUME WAssumption == W \in Nat \ {0}

NoData == <<>>      \* metadata without any key

(* mafw_metadata_add_something: nothing to add changes nothing; all values *)
(* of a key are of the type of its first.                                  *)
AddSomething(md, key, values) ==
  IF values = <<>> THEN md
  ELSE [k \in DOMAIN md \union {key} |->
          IF k # key THEN md[k] ELSE IF key \in DOMAIN md THEN md[k] \o values ELSE values]

First(md, key) == IF key \in DOMAIN md THEN md[key][1] ELSE NULL

(* Characters in the order of the collation, lower and upper case alike.   *)
Weight == [c \in {"*", "(", ")", "\\", "1", "2", "a", "A", "b", "B"} |->
             CASE c = "*" -> 1 [] c = "(" -> 2 [] c = ")" -> 3 [] c = "\\" -> 4
               [] c = "1" -> 5 [] c = "2" -> 6 [] c \in {"a", "A"} -> 7
               [] c \in {"b", "B"} -> 8]

CompareText(l, r) ==
  LET differ == {i \in DOMAIN l \intersect DOMAIN r : Weight[l[i]] # Weight[r[i]]}
  IN IF differ = {} THEN Len(l) - Len(r)
     ELSE LET i == CHOOSE j \in differ : \A k \in differ : j <= k
          IN Weight[l[i]] - Weight[r[i]]

(* fnmatch: a star stands for any characters.                              *)
RECURSIVE Glob(_, _)
Glob(pattern, text) ==
  IF pattern = <<>> THEN text = <<>>
  ELSE IF pattern[1] = "*" THEN \E n \in 0..Len(text) : Glob(Tail(pattern), After(text, n))
  ELSE text # <<>> /\ Weight[pattern[1]] = Weight[text[1]] /\ Glob(Tail(pattern), Tail(text))

(* mafw_metadata_ordered, for two values of one type.                      *)
Ordered(rel, l, r) ==
  LET diff == IF l[1] = "string" THEN CompareText(l[2], r[2]) ELSE l[2] - r[2]
  IN CASE rel = "=" -> diff = 0
       [] rel = "<" -> diff < 0
       [] rel = ">" -> diff > 0
       [] rel = "~" -> IF l[1] = "string" THEN Glob(r[2], l[2]) ELSE diff = 0

(* atoi: the number a text begins with.                                    *)
AtoI(str) ==
  FoldLeft(LAMBDA n, d : 10 * n + (IF d = "1" THEN 1 ELSE 2), 0,
           SubSeq(str, 1, Upto(str, DOMAIN Weight \ {"1", "2"})))

(* A relation: undecided without the key or for a type no text becomes;    *)
(* otherwise whether one of the values of the key is in the relation.      *)
EvalSimple(md, f) ==
  IF f[1] = "?" THEN IF f[2] \in DOMAIN md THEN 1 ELSE 0
  ELSE IF f[2] \notin DOMAIN md THEN -1
  ELSE LET vs == md[f[2]]
           type == vs[1][1]
           rhs == IF type = "string" THEN <<"string", f[3]>> ELSE <<"int", AtoI(f[3])>>
       IN IF type \notin {"string", "int"} THEN -1
          ELSE IF \E i \in DOMAIN vs : Ordered(f[1], vs[i], rhs) THEN 1 ELSE 0

(* Joined filters: `stop' is the result of a part that settles `result';   *)
(* parts that are undecided do not count.                                  *)
Stop   == [t \in Complex |-> IF t = "&" THEN 0 ELSE 1]
Action == [t \in Complex |-> IF t = "|" THEN 1 ELSE 0]

RECURSIVE EvalFilter(_, _)
EvalFilter(md, f) ==
  IF IsSimple(f) THEN EvalSimple(md, f)
  ELSE LET now == {EvalFilter(md, f[2][i]) : i \in DOMAIN f[2]}
       IN IF Stop[f[1]] \in now THEN Action[f[1]]
          ELSE IF now = {-1} THEN -1 ELSE 1 - Action[f[1]]

Matches(md, f) == IF md = NULL \/ f = NULL THEN TRUE ELSE EvalFilter(md, f) # 0

RECURSIVE KeysFromFilter(_)
KeysFromFilter(f) ==
  IF IsSimple(f) THEN {f[2]} ELSE UNION {KeysFromFilter(f[2][i]) : i \in DOMAIN f[2]}

(* A term of a sorting is <<direction, key>>.  The text joins them with    *)
(* commas, "+" or "-" before each key.                                     *)
RECURSIVE SplitTerms(_)
SplitTerms(sorting) ==
  LET n == Upto(sorting, {","})
      term == SubSeq(sorting, 1, n)
      signed == term # <<>> /\ term[1] \in {"+", "-"}
  IN <<IF ~signed THEN <<1, term>> ELSE <<IF term[1] = "+" THEN 1 ELSE -1, Tail(term)>>>>
     \o (IF n = Len(sorting) THEN <<>> ELSE SplitTerms(After(sorting, n + 1)))

SortingTerms(sorting) == IF sorting = <<>> THEN <<>> ELSE SplitTerms(sorting)

OnlyAskedKeys(keys, f, terms) == Range(keys)     \* wrong: those of filter and sorting left out

RelevantKeys(keys, f, terms) ==
  Range(keys) \union (IF f = NULL THEN {} ELSE KeysFromFilter(f))
              \union {terms[i][2] : i \in DOMAIN terms}

CompareMvals(l, r) == IF Ordered("<", l, r) THEN -1 ELSE IF Ordered(">", l, r) THEN 1 ELSE 0

(* The values of one key: the first pair that differs decides, else the    *)
(* number of values.                                                       *)
CompareKey(ls, rs) ==
  LET differ == {i \in DOMAIN ls \intersect DOMAIN rs : CompareMvals(ls[i], rs[i]) # 0}
  IN IF differ = {}
       THEN IF Len(ls) < Len(rs) THEN -1 ELSE IF Len(ls) > Len(rs) THEN 1 ELSE 0
       ELSE LET i == CHOOSE j \in differ : \A k \in differ : j <= k
            IN CompareMvals(ls[i], rs[i])

(* mafw_metadata_compare: the first term in which the two differ decides;  *)
(* what lacks the key sorts last in either direction.                      *)
HasKey(md, key) == md # NULL /\ key \in DOMAIN md

CompareTerm(md1, md2, term) ==
  LET has1 == HasKey(md1, term[2])
      has2 == HasKey(md2, term[2])
  IN CASE has1 /\ has2 -> term[1] * CompareKey(md1[term[2]], md2[term[2]])
       [] has1 /\ ~has2 -> -1
       [] ~has1 /\ has2 -> 1
       [] OTHER -> 0

LackingEqual(md1, md2, terms) ==  \* wrong: equal to what lacks the key
  LET Differs(i) == /\ HasKey(md1, terms[i][2]) /\ HasKey(md2, terms[i][2])
                    /\ CompareTerm(md1, md2, terms[i]) # 0
      differ == {i \in DOMAIN terms : Differs(i)}
  IN IF differ = {} THEN 0
     ELSE CompareTerm(md1, md2, terms[CHOOSE i \in differ : \A k \in differ : i <= k])

Compare(md1, md2, terms) ==
  LET differ == {i \in DOMAIN terms : CompareTerm(md1, md2, terms[i]) # 0}
  IN IF differ = {} THEN 0
     ELSE CompareTerm(md1, md2, terms[CHOOSE i \in differ : \A k \in differ : i <= k])

(* The bytes of metadata (mafw_metadata_freeze_bary), a sequence of data:  *)
(* key, number of values, and type and datum of each value.  An unsigned   *)
(* number is written as the signed one of its width W.                     *)
Signed(n)   == IF n >= 2 ^ (W - 1) THEN n - 2 ^ W ELSE n
Unsigned(n) == IF n < 0 THEN n + 2 ^ W ELSE n

FreezeValue(v) == <<v[1], IF v[1] = "uint" THEN Signed(v[2]) ELSE v[2]>>
FreezeValues(vs) == <<Len(vs)>> \o FlattenSeq([i \in DOMAIN vs |-> FreezeValue(vs[i])])

Freeze(md) ==
  IF md = NULL THEN <<>>
  ELSE FlattenSeq([i \in 1..Cardinality(DOMAIN md) |->
         LET key == SetToSeq(DOMAIN md)[i] IN <<key>> \o FreezeValues(md[key])])

ThawValue(type, datum) == <<type, IF type = "uint" THEN Unsigned(datum) ELSE datum>>

(* Back to metadata, entry after entry; no entry at all gives NULL.        *)
RECURSIVE ThawEntries(_, _)
ThawEntries(bytes, md) ==
  IF bytes = <<>> THEN md
  ELSE LET n == bytes[2]
           values == [i \in 1..n |-> ThawValue(bytes[2 * i + 1], bytes[2 * i + 2])]
           had == IF md = NULL THEN NoData ELSE md
       IN ThawEntries(After(bytes, 2 + 2 * n),
                      [k \in DOMAIN had \union {bytes[1]} |->
                         IF k = bytes[1] THEN values ELSE had[k]])

Thaw(bytes) == ThawEntries(bytes, NULL)
=============================================================================
