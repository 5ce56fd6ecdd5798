----------------------------- MODULE VjsSamples -----------------------------
(* Programs and texts to check the script engine on, in the notation of Vjs and  *)
(* VjsLiterals: flows of two or three statements over every kind of expression,  *)
(* services in two packages that invoke one another, and flows as text.          *)
EXTENDS Integers, Sequences, SequencesExt, TLC

Num(n)  == <<"num", n>>
Text(s) == <<"str", s>>
Arr(s)  == <<"arr", s>>
Obj(f)  == <<"obj", f>>

S(x)      == <<"lit", Text(<<x>>)>>
V(x)      == <<"var", x>>
Secret    == <<"call", "secret", <<S("ref")>>>>
Calls(p, s) == <<"invoke", <<p, s>>, <<"k">>, <<V("n")>>>>
Emit(e)   == <<"emit", S("sub"), e>>

SampleExprs == <<
    V("n"), Calls("", "fmt"), Secret,
    <<"doc", <<"d", "e">>, <<V("n"), Calls("b", "pub")>>>>,
    <<"arr", <<V("n"), Secret>>>>,
    <<"fstr", <<S("x"), Calls("", "fmt")>>>>,
    <<"filter", V("items"), <<"bin", "==", V("n"), Calls("b", "pub")>>>>,
    <<"filter", V("items"), <<"bin", "in", Secret, V("items")>>>>,
    <<"field", Calls("b", "priv"), "k", FALSE>>,
    <<"index", V("items"), <<"lit", Num(0)>>>>,
    <<"field", <<"index", V("items"), V("n")>>, "n", TRUE>>,
    <<"bin", "and", V("n"), <<"not", Calls("", "own")>>>>,
    <<"bin", "??", V("none"), <<"call", "str", <<<<"proj", V("items")>>>>>>>>,
    <<"field", V("items"), "n", FALSE>>,
    <<"bin", "+", V("items"), <<"arr", <<V("event")>>>>>>,
    <<"call", "nofunction", <<V("n")>>>> >>

Shapes(e) == <<
    << <<"assign", <<"x">>, e>>, Emit(V("x")) >>,
    << <<"respond", <<"lit", Num(200)>>, e>> >>,
    << <<"if", << <<e, <<Emit(V("n"))>>>> >>, <<>>>> >>,
    << <<"for", "i", e, <<<<"respond", V("i"), V("i")>>>>>> >>,
    << <<"assign", <<"x", "y">>, e>>, <<"emit", V("sub"), V("x")>> >> >>

\* Rules: the arms of one if, with its subjects in a constant.
Out(e)  == <<"emit", V("OUT"), e>>
Rule(body) == <<
    <<"assign", <<"OUT">>, S("out")>>,
    <<"if", << <<<<"bin", "<", V("n"), <<"lit", Num(1)>>>>, body>>,
               <<<<"bin", "==", V("n"), <<"field", V("event"), "n", FALSE>>>>, <<Emit(V("n")), Out(V("n"))>>>> >>,
            <<<<<<"respond", <<"lit", Num(404)>>, V("n")>>>>>>>> >>
SampleRules == <<
    Rule(<<Out(V("n"))>>),
    Rule(<<<<"assign", <<"x">>, V("n")>>, Out(V("x")), Emit(V("x"))>>),
    Rule(<<<<"emit", V("sub"), V("n")>>>>),
    Rule(<<<<"assign", <<"OUT">>, S("sub")>>, Out(V("n"))>>),
    Rule(<<<<"merge", <<"", "fmt">>, <<"k">>, <<V("n")>>>>, Out(V("n"))>>),
    Rule(<<<<"assign", <<"x">>, Calls("b", "pub")>>, Out(V("x"))>>) >>

SampleFlows == SampleRules \o FlattenSeq([i \in DOMAIN SampleExprs |-> Shapes(SampleExprs[i])])

SampleItems == Arr(<<Obj("n" :> Num(0)), Obj("n" :> Num(1) @@ "k" :> Num(2))>>)
SampleEvents == <<
    "n" :> Num(0) @@ "items" :> SampleItems @@ "sub" :> Text(<<"dyn">>),
    "n" :> Num(1) @@ "items" :> SampleItems @@ "sub" :> Text(<<"a", "\n">>) >>

SampleServices == {<<"a", "fmt">>, <<"a", "own">>, <<"b", "pub">>, <<"b", "priv">>}
SampleBody == <<"a", "fmt">>  :> << <<Emit(V("k"))>>, << <<"merge", <<"b", "pub">>, <<"k">>, <<V("k")>>>> >> >>
       @@ <<"a", "own">>  :> << << <<"assign", <<"x">>, <<"invoke", <<"", "own">>, <<>>, <<>>>>>> >> >>
       @@ <<"b", "pub">>  :> << << <<"assign", <<"r">>, Calls("", "priv")>>, Emit(V("r")) >>,
                                << <<"if", << <<Calls("a", "own"), <<Emit(V("k"))>>>> >>, <<>>>> >> >>
       @@ <<"b", "priv">> :> << << <<"if", << <<Secret, <<<<"assign", <<"s">>, V("k")>>>>>> >>, <<>>>> >>,
                                << <<"assign", <<"x">>, <<"field", <<"lit", Num(1)>>, "f", FALSE>>>> >> >>
SampleExportable == "b" :> {{"pub"}, {}}

\* The surfaces of flows as text: a constant before and after a table of several
\* lines and a statement that is no literal, an empty table, and a table that is not JSON.
Word(x) == <<"str", <<x>>>>
Sign(c) == <<c>>
Is(n)   == << <<"id", n>>, Sign("=") >>
Eol     == Sign("nl")
SampleSources == {
    Is("A") \o <<Num(1), Eol>>
      \o Is("T") \o <<Sign("{"), Word("k"), Sign(":"), Num(1), Sign(","), Eol,
                      Word("j"), Sign(":"), Word("n"), Eol, Sign("}"), Eol>>
      \o Is("B") \o <<Sign("other"), Eol>>,
    Is("T") \o <<Sign("{"), Sign("}"), Eol>> \o Is("A") \o <<Word("q"), Eol>>,
    Is("T") \o <<Sign("{"), <<"id", "k">>, Sign(":"), Num(1), Sign(","), Sign("}"), Eol>> }
SampleValues == {Num(-1), Text(<<"quote", "n">>), Text(<<"LF", "backslash", "n">>),
                 Text(<<"CR">>), Obj(<<"k">> :> Num(2))}
SampleKeys == {<<>>, <<"k">>, <<"LF", "quote">>}
=============================================================================
