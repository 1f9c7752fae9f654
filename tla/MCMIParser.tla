----------------------------- MODULE MCMIParser -----------------------------
(***************************************************************************)
(* The instances of MIParser that TLC checks: lines written from values by *)
(* the grammar that the docstrings of mi_parser.py give, and lines that    *)
(* are no records.                                                         *)
(***************************************************************************)
EXTENDS MIParser, MIGrammar

Quoted == {"\"x\"", "\"y\""}

\* A value and the text that stands for it.
Said(t, v) == [t |-> t, v |-> v]
Leaves == {Said(<<q>>, <<"string", q>>) : q \in Quoted}
Empties == {Said(<<"{", "}">>, <<"tuple", {}>>), Said(<<"[", "]">>, <<"list", <<>> >>)}

OneKey(S) == {Said(<<"{", "a", "=">> \o x.t \o <<"}">>, <<"tuple", {<< <<"a">>, x.v>>}>>) : x \in S}
TwoKeys(S, T) ==
    {Said(<<"{", "a", "7", "=">> \o x.t \o <<",", "c", "=">> \o y.t \o <<"}">>,
          <<"tuple", {<< <<"a", "7">>, x.v>>, << <<"c">>, y.v>>}>>) : x \in S, y \in T}
ListOf(S, T) ==
    {Said(<<"[">> \o x.t \o <<",">> \o y.t \o <<"]">>, <<"list", <<x.v, y.v>> >>) : x \in S, y \in T}
ResultList(S, T) ==
    {Said(<<"[", "a", "=">> \o x.t \o <<",", "a", "=">> \o y.t \o <<"]">>,
          <<"list", << <<"tuple", {<< <<"a">>, x.v>>}>>, <<"tuple", {<< <<"a">>, y.v>>}>> >> >>) :
        x \in S, y \in T}

Flat == Leaves \cup Empties
Nested == OneKey(Flat) \cup TwoKeys(Leaves, Empties) \cup ListOf(Flat, Leaves)
             \cup ResultList(Leaves, Flat)
Deep == TwoKeys(Nested, Leaves) \cup ListOf(OneKey(Flat), Nested) \cup ResultList(Nested, OneKey(Leaves))

Line(t, rs) == [text |-> t \o <<Newline>>, records |-> rs]

Answers(S) ==
    {Line(<<"7", "7", "^", "c", ",", "b", "=">> \o x.t,
          <<Record("result", <<"7", "7">>, <<"c">>, {<< <<"b">>, x.v>>})>>) : x \in S}
Events(S) ==
    {Line(<<"*", "a", ",", "a", "=">> \o x.t \o <<",", "b", "=">> \o x.t \o <<"\r">>,
          <<Record("exec", <<>>, <<"a">>, {<< <<"a">>, x.v>>, << <<"b">>, x.v>>})>>) : x \in S}
StreamLines ==
    {Line(<<"~", " ", "\"x\"">>, <<Record("console", <<>>, <<>>, <<"string", "\"x\"">>)>>),
     Line(<<"@", "a">>, <<Record("target", <<>>, <<>>, <<"bare", <<"a">> >>)>>)}
NoRecords == {Line(t, <<>>) : t \in {<<Prompt>>, <<>>, <<"\r">>, <<"7">>, <<"a", "^">>}}

OddLine == Line(<<OddDigit, "c">>, <<>>)

DeepLines == Answers(Deep)
MixedLines == Answers(Leaves \cup OneKey(Leaves)) \cup Events(ResultList(Leaves, Leaves))
                 \cup StreamLines \cup NoRecords

\* One answer with a deep value; up to three lines of any kind; an odd line among others.
AllWritings ==
    {<<line>> : line \in DeepLines}
      \cup SeqOf(MixedLines, 3)
      \cup {<<OddLine>>} \cup {<<line, OddLine>> : line \in StreamLines \cup NoRecords}

\* The records of every line by itself are what the grammar says.
ASSUME GrammarIsFollowed == LinesParse
=============================================================================
