------------------------------ MODULE MCPatterns ------------------------------
(* Patterns of up to two chunks of all kinds, some of three, and README.md's *)
(* example of all of them combined; paths of up to four segments.           *)
EXTENDS Patterns, TLC

C(kind, key, pattern, modifier) ==
    [kind |-> kind, key |-> key, pattern |-> pattern, modifier |-> modifier]

a == <<"a">>
d == <<"d">>
k == <<"k">>
l == <<"l">>
none == <<>>
escaped == <<"\\", ":", "a">>
either == <<"d", "|", "e">>

MCMeans == (a :> {a}) @@ (d :> {d}) @@ (escaped :> {<<":", "a">>}) @@
           (either :> {d, <<"e">>})

AnyChunk == {C("static", none, a, m) : m \in Modifiers}
    \cup {C("wildcard", none, none, m) : m \in Modifiers}
    \cup {C("dynamic", k, none, m) : m \in Modifiers}
    \cup {C("static", none, escaped, "single")}
    \cup {C("wildcard", none, d, m) : m \in {"single", "oneOrMore"}}
    \cup {C("dynamic", k, d, m) : m \in {"oneOrMore", "zeroOrMore"}}
    \cup {C("dynamic", k, either, m) : m \in {"single", "optional"}}
    \cup {C("dynamic", l, none, m) : m \in {"single", "zeroOrMore"}}

FewChunks == {C("static", none, a, "single"), C("dynamic", k, none, "optional"),
              C("dynamic", l, none, "zeroOrMore"), C("wildcard", none, d, "oneOrMore"),
              C("wildcard", none, none, "optional"), C("static", none, a, "zeroOrMore")}

Combined == <<C("static", none, a, "single"), C("dynamic", k, d, "single"),
              C("wildcard", none, none, "optional"), C("wildcard", none, either, "oneOrMore")>>

(* A sub-expression that is a repetition of nothing, and a static chunk with *)
(* a parenthesis that nothing opens                                          *)
IllFormed == {C("dynamic", k, <<"*">>, "single"), C("static", none, <<"a", ")">>, "single")}

MCMalformed == {<<x>> : x \in IllFormed} \cup (IllFormed \X AnyChunk) \cup (AnyChunk \X IllFormed)

MCDocuments ==
    {<<x>> : x \in AnyChunk} \cup (AnyChunk \X AnyChunk) \cup MCMalformed
    \cup (FewChunks \X FewChunks \X FewChunks)
    \cup {<<>>, <<Blank>>, <<C("static", none, a, "single"), Blank>>, Combined}

(* no slash, no name, no name for a sub-expression, two of them, one in a    *)
(* static chunk, a name that is none, a sub-expression without an end        *)
MCMistakes ==
    {<<"a">>, <<"*", "/", "a">>, <<"/", ":">>, <<"/", ":", "?">>,
     <<"/", ":", "(", "d", ")">>, <<"/", "(", "d", ")", "(", "a", ")">>,
     <<"/", "a", "(", "d", ")">>, <<"/", ":", "k", ":">>, <<"/", "(", "d">>}

Whole == UNION {[1..n -> {a, d}] : n \in 0..4} \cup {<<<<":", "a">>>>, <<<<"e">>, a>>}
Slashed(parts) == FlattenSeq([i \in DOMAIN parts |-> <<"/">> \o parts[i]])

MCMatchPaths ==
    {Slashed(parts) : parts \in Whole} \cup
    {Slashed(parts) \o <<"/">> : parts \in {<<>>, <<a>>, <<a, d>>}} \cup
    {a, <<"/", "/">>, <<"/", "/", "a">>, <<"/", "a", "/", "/", "d">>, <<"/", "a", "a">>}

MCValues == {a, d, <<"a", "/", "d">>}
=============================================================================
