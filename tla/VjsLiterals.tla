---------------------------- MODULE VjsLiterals -----------------------------
(***************************************************************************)
(* The business surface of a flow as text (core/src/vjs.rs): how program   *)
(* finds the literals and where they are, and how set_literal writes a     *)
(* value into the source, one edit after the other.                        *)
(*                                                                         *)
(* The text is a sequence of tokens, and a position is an index into it.   *)
(* A string's token holds its characters as they are in the file, with     *)
(* their escapes.                                                          *)
(***************************************************************************)
EXTENDS Integers, Sequences, FiniteSets, SequencesExt

CONSTANTS
    Sources,   \* flows to edit, each a sequence of tokens
    NewValues, \* values set by an edit
    NewKeys,   \* keys set by an edit, <<>> for the whole constant
    MaxSets    \* bound: edits

VARIABLES
    src,   \* the flow
    want,  \* what each literal is meant to be: its first value, or the last one set
    sets
vars == <<src, want, sets>>

-----------------------------------------------------------------------------
\* Strings.  serde_json writes the quote, the backslash and the control characters
\* with an escape; lex_string knows the escapes of the line feed and the tab and
\* takes any other escaped character as it stands.
Escapes == [c \in {"LF", "TAB", "CR", "quote", "backslash"} |->
    CASE c = "LF" -> "n" [] c = "TAB" -> "t" [] c = "CR" -> "r" [] OTHER -> c]
to_json(s) == FlattenSeq([i \in DOMAIN s |->
    IF s[i] \in DOMAIN Escapes THEN <<"backslash", Escapes[s[i]]>> ELSE <<s[i]>>])
\* Mutant: an escaped n stays an n.
UnescapePlain(c) == c
Unescape(c) == CASE c = "n" -> "LF" [] c = "t" -> "TAB" [] OTHER -> c
RECURSIVE lex_string(_)
lex_string(raw) ==
    CASE raw = <<>> -> <<>>
      [] raw # <<>> /\ raw[1] = "backslash" /\ Len(raw) > 1 -> <<Unescape(raw[2])>> \o lex_string(SubSeq(raw, 3, Len(raw)))
      [] OTHER -> <<raw[1]>> \o lex_string(Tail(raw))

\* A value, as it is written.
RECURSIVE Render(_)
Render(v) ==
    CASE v[1] = "str" -> << <<"str", to_json(v[2])>> >>
      [] v[1] = "num" -> IF v[2] < 0 THEN << <<"-">>, <<"num", -v[2]>> >> ELSE << <<"num", v[2]>> >>
      [] v[1] = "obj" -> << <<"{">> >> \o
            FlattenSeq(LET ks == SetToSeq(DOMAIN v[2])
                       IN  [i \in DOMAIN ks |-> (IF i > 1 THEN << <<",">> >> ELSE <<>>)
                                \o << <<"str", to_json(ks[i])>>, <<":">> >> \o Render(v[2][ks[i]])])
            \o << <<"}">> >>

-----------------------------------------------------------------------------
\* literal_value: the value at i, the position after it, and where the values of its
\* entries are.  at is 0 when there is no literal.
Kind(t, i) == IF i \in DOMAIN t THEN t[i][1] ELSE "nl"
NoLiteral  == [at |-> 0, v |-> <<"null">>, spans |-> <<>>]
word(t, i) == IF Kind(t, i) = "id" THEN <<t[i][2]>> ELSE lex_string(t[i][2])
RECURSIVE Skip(_, _), literal_value(_, _), Entries(_, _, _)
Skip(t, i) == IF i \in DOMAIN t /\ Kind(t, i) = "nl" THEN Skip(t, i + 1) ELSE i
Entries(t, i, done) ==
    LET v     == literal_value(t, i + 2)
        after == Skip(t, v.at)
        k     == word(t, i)
        more  == [v |-> <<"obj", [x \in DOMAIN done.v[2] \cup {k} |-> IF x = k THEN v.v ELSE done.v[2][x]]>>,
                  at |-> 0, spans |-> Append(done.spans, <<k, i + 2, v.at>>)]
    IN  IF Kind(t, i) = "}" THEN [done EXCEPT !.at = i + 1]
        ELSE IF Kind(t, i) \notin {"id", "str"} \/ Kind(t, i + 1) # ":" THEN NoLiteral
        ELSE IF v.at = 0 THEN NoLiteral
        ELSE Entries(t, IF Kind(t, after) = "," THEN Skip(t, after + 1) ELSE after, more)
literal_value(t, i) ==
    CASE Kind(t, i) = "str" -> [NoLiteral EXCEPT !.at = i + 1, !.v = <<"str", lex_string(t[i][2])>>]
      [] Kind(t, i) = "num" -> [NoLiteral EXCEPT !.at = i + 1, !.v = t[i]]
      [] Kind(t, i) = "-" /\ Kind(t, i + 1) = "num" -> [NoLiteral EXCEPT !.at = i + 2, !.v = <<"num", -t[i + 1][2]>>]
      [] Kind(t, i) = "{" -> Entries(t, Skip(t, i + 1), [NoLiteral EXCEPT !.v = <<"obj", [x \in {} |-> 0]>>])
      [] OTHER -> NoLiteral

\* program and try_literal: NAME = literal, with nothing after it on the line, is part
\* of the surface; any other statement is not looked into.  at is 0 for a syntax error.
RECURSIVE Program(_, _, _)
Program(t, from, surface) ==
    LET i == Skip(t, from)
        l == literal_value(t, i + 2)
        entry == [name |-> t[i][2], v |-> l.v, start |-> i + 2, end |-> l.at, spans |-> l.spans]
        eol == CHOOSE j \in i..Len(t) + 1 : Kind(t, j) = "nl" /\ \A k \in i..j-1 : Kind(t, k) # "nl"
    IN  IF i > Len(t) THEN [at |-> i, surface |-> surface]
        ELSE IF Kind(t, i) = "id" /\ Kind(t, i + 1) = "=" /\ l.at # 0 /\ Kind(t, l.at) = "nl"
        THEN Program(t, l.at, Append(surface, entry))
        ELSE IF Kind(t, i) = "id" /\ Kind(t, i + 1) = "=" /\ Kind(t, eol - 1) = "other"
        THEN Program(t, eol, surface)
        ELSE [at |-> 0, surface |-> <<>>]
parse(t) == Program(t, 1, <<>>)
Values(t) == LET s == parse(t).surface IN [n \in {s[i].name : i \in DOMAIN s} |->
                 s[CHOOSE i \in DOMAIN s : s[i].name = n].v]

\* The text of a table as JSON has it: keys in quotes, one comma between entries.
IsJson(t, e) ==
    \A i \in DOMAIN e.spans :
        /\ Kind(t, e.spans[i][2] - 2) = "str"
        /\ Kind(t, Skip(t, e.spans[i][3])) = (IF i = Len(e.spans) THEN "}" ELSE ",")

Splice(t, from, to, new) == SubSeq(t, 1, from - 1) \o new \o SubSeq(t, to, Len(t))
\* A new entry, before the closing brace.
Insert(e, key, v) ==
    (IF e.spans = <<>> THEN <<>> ELSE << <<",">> >>) \o << <<"str", to_json(key)>>, <<":">> >> \o Render(v)

\* set_literal; the text itself when the edit is refused.
set_literal(t, name, key, v) ==
    LET named == SelectSeq(parse(t).surface, LAMBDA x : x.name = name)
        e     == named[1]
        at    == SelectSeq(e.spans, LAMBDA x : x[1] = key)
        out   == CASE key = <<>> -> Splice(t, e.start, e.end, Render(v))
                   [] key # <<>> /\ at # <<>> -> Splice(t, at[1][2], at[1][3], Render(v))
                   [] OTHER -> Splice(t, e.end - 1, e.end - 1, Insert(e, key, v))
    IN  IF \/ named = <<>>
           \/ key # <<>> /\ at = <<>> /\ (e.v[1] # "obj" \/ ~IsJson(t, e))
           \/ parse(out).at = 0
        THEN t ELSE out

-----------------------------------------------------------------------------
Init ==
    /\ src \in Sources
    /\ want = Values(src)
    /\ sets = 0

Wanted(name, key, v) ==
    [want EXCEPT ![name] = IF key = <<>> THEN v
        ELSE <<"obj", [k \in DOMAIN @[2] \cup {key} |-> IF k = key THEN v ELSE @[2][k]]>>]
Set(name, key, v) ==
    /\ sets < MaxSets
    /\ src' = set_literal(src, name, key, v)
    /\ want' = IF src' = src THEN want ELSE Wanted(name, key, v)
    /\ sets' = sets + 1
Next == \E name \in DOMAIN want, key \in NewKeys, v \in NewValues : Set(name, key, v)
Spec == Init /\ [][Next]_vars

-----------------------------------------------------------------------------
\* After any number of edits the flow parses, and each of its literals is what was last
\* set, or what it was: an edit writes exactly one value.  A carriage return is
\* excepted: to_json writes an escape that lex_string does not know.
RECURSIVE HasReturn(_)
HasReturn(v) == (v[1] = "str" /\ "CR" \in ToSet(v[2]))
                  \/ (v[1] = "obj" /\ \E k \in DOMAIN v[2] : HasReturn(v[2][k]))
SurfaceIsAsSet ==
    /\ parse(src).at # 0
    /\ DOMAIN Values(src) = DOMAIN want
    /\ \A n \in DOMAIN want : HasReturn(want[n]) \/ Values(src)[n] = want[n]
=============================================================================
