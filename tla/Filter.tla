------------------------------- MODULE Filter -------------------------------
(***************************************************************************)
(* The metadata filters of crates/vexra-metadata/src/filter.rs: parse and  *)
(* evaluate.                                                               *)
(*                                                                         *)
(* A text is a sequence of tokens with a space around each: words (fields, *)
(* operators, parentheses, commas), quoted strings and numbers.  ">=" is   *)
(* the two words ">" and "=".  The parser also looks into the quotes: the  *)
(* constants say what it finds there, and no string holds a quote, which   *)
(* the language cannot write.  A JSON value is a record with one field,    *)
(* str, int or float; metadata maps fields to values.                      *)
(***************************************************************************)
EXTENDS Integers, FiniteSets, SequencesExt

CONSTANTS
  Within(_, _),   \* whether a string is a part of another: str::contains
  Mentions(_),    \* whether a string holds the word CONTAINS
  Parens(_),      \* how many more "(" than ")" a string holds
  Items(_),       \* what a string falls into at its commas
  Fields,         \* fields, strings and numbers of the filters and of the
  Texts,          \* metadata that the properties look at
  Quantities

\* The words of the language; no field is one of them.
Operators == {"AND", "OR", "IN", "CONTAINS", "=", ">", "<", "(", ")", ","}

ASSUME FilterConstants ==
  /\ Fields \cap Operators = {}
  /\ IsFiniteSet(Texts) /\ \A t \in Texts : Parens(t) \in Int

Word(w) == [word |-> w]
IsWord(t) == "word" \in DOMAIN t
IsString(t) == "str" \in DOMAIN t
IsNumber(t) == "num" \in DOMAIN t

-----------------------------------------------------------------------------
(* parse.                                                                  *)

Before(text, i) == SubSeq(text, 1, i - 1)
After(text, i) == SubSeq(text, i + 1, Len(text))

\* The first of the positions, 0 when there is none.
First(S) == IF S = {} THEN 0 ELSE CHOOSE i \in S : \A j \in S : i <= j

Occurrences(text, w) == {i \in DOMAIN text : text[i] = Word(w)}

\* The operators AND, OR, IN and CONTAINS are looked for with a space on both
\* sides, and the text is trimmed: they are neither first nor last.
Inner(text, w) == Occurrences(text, w) \ {1, Len(text)}

\* find_and_or looks outside quotes and parentheses.  A quoted string is one
\* token and hides the words it holds, but its parentheses are counted, too.
Opens(t) ==
  IF IsString(t) THEN Parens(t.str)
  ELSE IF t = Word("(") THEN 1 ELSE IF t = Word(")") THEN -1 ELSE 0
Depth(text, i) ==
  FoldLeft(LAMBDA m, n : m + n, 0, [j \in 1..(i - 1) |-> Opens(text[j])])

\* What is before the operator is the field, whatever it is.  Metadata has
\* fields of one word only.
Field(tokens) ==
  IF Len(tokens) = 1 /\ IsWord(tokens[1]) THEN tokens[1].word ELSE "no field"

Error == [op |-> "error"]

\* The parts of a text between the cuts.
Parts(text, cuts) ==
  LET ends == cuts \cup {Len(text) + 1}
      Part(i) == SubSeq(text, i + 1, First({j \in ends : j > i}) - 1)
  IN {Part(i) : i \in cuts \cup {0}}

\* IN, unless no list follows.
ListAfter(text, i) ==
  LET rest == After(text, i)
  IN rest # <<>> /\ rest[1] = Word("(") /\ Last(rest) = Word(")")

\* The list is split at every comma, those inside quotes included, and only then
\* are the quotes trimmed.
ItemValues(item) ==
  IF item = <<>> THEN {""}
  ELSE IF Len(item) = 1 /\ IsString(item[1]) THEN Items(item[1].str)
  ELSE {"unquoted"}

InCondition(text, i) ==
  LET inner == Tail(Front(After(text, i)))
  IN [op |-> "in", field |-> Field(Before(text, i)),
      values |-> UNION {ItemValues(item) :
                          item \in Parts(inner, Occurrences(inner, ","))}]

\* CONTAINS is found inside a string too, and then splits it.
FindContains(text) ==
  First(Inner(text, "CONTAINS")
          \cup {i \in DOMAIN text : IsString(text[i]) /\ Mentions(text[i].str)})

ContainsCondition(text, i) ==
  IF IsWord(text[i]) /\ Len(text) = i + 1 /\ IsString(text[i + 1])
  THEN [op |-> "contains", field |-> Field(Before(text, i)),
        value |-> text[i + 1].str]
  ELSE [op |-> "contains", field |-> "no field", value |-> ""]

\* A number without a point becomes a float, one with a point a string.
EqualsValue(rest) ==
  IF Len(rest) = 1 /\ IsString(rest[1]) THEN rest[1]
  ELSE IF Len(rest) = 1 /\ IsNumber(rest[1]) /\ ~rest[1].point
       THEN [float |-> rest[1].num]
       ELSE [str |-> "unquoted"]

EqualsCondition(text, i) ==
  [op |-> "equals", field |-> Field(Before(text, i)),
   value |-> EqualsValue(After(text, i))]

\* The branches for ">=" and "<=" are not reached: "=" comes first.
Comparison(op, text, i) ==
  LET rest == After(text, i)
  IN IF Len(rest) = 1 /\ IsNumber(rest[1])
     THEN [op |-> op, field |-> Field(Before(text, i)), value |-> rest[1].num]
     ELSE Error

ParseCondition(text) ==
  LET in == First(Inner(text, "IN"))
      contains == FindContains(text)
      equals == First(Occurrences(text, "="))
      more == First(Occurrences(text, ">"))
      less == First(Occurrences(text, "<"))
  IN IF in # 0 /\ ListAfter(text, in) THEN InCondition(text, in)
     ELSE IF contains # 0 THEN ContainsCondition(text, contains)
     ELSE IF equals # 0 THEN EqualsCondition(text, equals)
     ELSE IF more # 0 THEN Comparison("more", text, more)
     ELSE IF less # 0 THEN Comparison("less", text, less)
     ELSE Error

SplitOnce(text, w) ==
  LET cut == First({i \in Inner(text, w) : Depth(text, i) = 0})
  IN IF cut = 0 THEN {text} ELSE {Before(text, cut), After(text, cut)}

\* The pieces of a text between the operators w that parse splits it at.
Split(text, w) == Parts(text, {i \in Inner(text, w) : Depth(text, i) = 0})

\* AND is split before OR, so a filter is a conjunction of disjunctions,
\* whichever way round they were meant.
Parse(text) ==
  {{ParseCondition(t) : t \in Split(part, "OR")} : part \in Split(text, "AND")}

IsFilter(filter) == \A clause \in filter : Error \notin clause

-----------------------------------------------------------------------------
(* evaluate.                                                               *)

\* as_f64 and as_str: the numbers, respectively the strings, a value stands
\* for.
Numbers(v) ==
  IF "int" \in DOMAIN v THEN {v.int}
  ELSE IF "float" \in DOMAIN v THEN {v.float} ELSE {}
Strings(v) == IF IsString(v) THEN {v.str} ELSE {}

\* A missing field satisfies no condition.  An int equals no float.
EvaluateCondition(c, meta) ==
  /\ c.field \in DOMAIN meta
  /\ LET v == meta[c.field]
     IN CASE c.op = "equals" -> v = c.value
          [] c.op = "more" -> \E n \in Numbers(v) : n > c.value
          [] c.op = "less" -> \E n \in Numbers(v) : n < c.value
          [] c.op = "in" -> \E t \in Strings(v) : t \in c.values
          [] OTHER -> \E t \in Strings(v) : Within(c.value, t)

Evaluate(filter, meta) ==
  \A clause \in filter : \E c \in clause : EvaluateCondition(c, meta)
-----------------------------------------------------------------------------
(* The language that the module's documentation describes: how a condition *)
(* is written, and what it says of metadata.                               *)

Comma == Word(",")

Listed(S) ==
  LET s == SetToSeq(S)
  IN [i \in 1..(2 * Len(s) - 1) |->
        IF i % 2 = 1 THEN [str |-> s[(i + 1) \div 2]] ELSE Comma]

Written(c) ==
  <<Word(c.field)>> \o
  CASE c.op = "equals" -> <<Word("="), c.value>>
    [] c.op = "more" -> <<Word(">"), [num |-> c.value, point |-> FALSE]>>
    [] c.op = "less" -> <<Word("<"), [num |-> c.value, point |-> FALSE]>>
    [] c.op = "in" -> <<Word("IN"), Word("(")>> \o Listed(c.values)
                        \o <<Word(")")>>
    [] OTHER -> <<Word("CONTAINS"), [str |-> c.value]>>

Says(c, meta) ==
  /\ c.field \in DOMAIN meta
  /\ LET v == meta[c.field]
     IN CASE c.op = "equals" -> v = c.value
          [] c.op = "more" -> \E n \in Numbers(v) : n > c.value
          [] c.op = "less" -> \E n \in Numbers(v) : n < c.value
          [] c.op = "in" -> IsString(v) /\ v.str \in c.values
          [] OTHER -> IsString(v) /\ Within(c.value, v.str)

\* The conditions that are read as they are written.  A string after "=" that
\* holds the word CONTAINS would be split there, and one in a list with a comma
\* at the comma; `field = 42` compares with a float, and `field >= 5` is the
\* equality of a field whose name ends in ">".
Plain(S) == {t \in S : ~Mentions(t)}
Whole(S) == {t \in S : Items(t) = {t}}
PlainConditions ==
  [op : {"equals"}, field : Fields, value : [str : Plain(Texts)]]
    \cup [op : {"more", "less"}, field : Fields, value : Quantities]
    \cup [op : {"in"}, field : Fields, values : (SUBSET Whole(Texts)) \ {{}}]
    \cup [op : {"contains"}, field : Fields, value : Texts]

\* Those that other conditions can be joined to: the strings they quote hold as
\* many "(" as ")".
Quoted(c) ==
  CASE c.op = "equals" -> {c.value.str}
    [] c.op = "in" -> c.values
    [] c.op = "contains" -> {c.value}
    [] OTHER -> {}
Balanced(c) == \A t \in Quoted(c) : Parens(t) = 0

\* Conditions joined by one operator.
Joined(conditions, op) ==
  LET texts == [i \in DOMAIN conditions |->
                  (IF i = 1 THEN <<>> ELSE <<Word(op)>>)
                    \o Written(conditions[i])]
  IN FlattenSeq(texts)

JSONValues == [str : Texts] \cup [int : Quantities] \cup [float : Quantities]
MetadataValues == UNION {[F -> JSONValues] : F \in SUBSET Fields}
=============================================================================
