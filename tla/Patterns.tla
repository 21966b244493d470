------------------------------- MODULE Patterns -------------------------------
(***************************************************************************)
(* Message path patterns (pattern.go): NewPattern, with PatternParser, and *)
(* MatchInto and Path, each asked once of a pattern.                       *)
(*                                                                         *)
(* regExpFromChunks writes a regular expression, here a sequence of        *)
(* alternatives, each a sequence of elements, so that a "|" written into it*)
(* without parentheses divides what it divides in the text; the matcher of *)
(* package regexp prefers, as that one does, the first alternative and the *)
(* longest repetition.                                                     *)
(***************************************************************************)
EXTENDS PatternParser

CONSTANTS
    MatchPaths, \* paths to match, with no two slashes or none
    Values,     \* values of parameters and wildcards
    Means       \* the segments that a pattern of a chunk describes

(* A sub-expression is made of letters, of "|" between them, and of runes    *)
(* behind a backslash; other syntax of package regexp is left out.           *)
ASSUME PatternsAssumption ==
    /\ \A d \in Documents \ Malformed : \A i \in DOMAIN d :
          d[i].pattern # <<>> => d[i].pattern \in DOMAIN Means
    /\ MatchPaths \subseteq Seq(Runes)
    /\ Values \subseteq Seq(Letters \cup {"/"})

VARIABLES
    match,      \* the result of MatchInto
    build       \* the result of Path

vars == <<doc, text, pos, current, chunks, status, match, build>>

Keys(cs) == {cs[i].key : i \in {j \in DOMAIN cs : cs[j].kind = "dynamic"}}

-----------------------------------------------------------------------------
(* regExpFromChunks *)

Lone(element) == <<<<element>>>>
Rx(rune) == Lone([op |-> "rune", rune |-> rune])
Group(chunk, body, optional, many) ==
    Lone([op |-> "group", chunk |-> chunk, body |-> body, optional |-> optional, many |-> many])

(* One text after the other: the last alternative goes on with the first.    *)
Then(x, y) == Front(x) \o <<Last(x) \o Head(y)>> \o Tail(y)

RECURSIVE Alternatives(_)
Alternatives(p) ==
    IF p = <<>> THEN <<<<>>>>
    ELSE IF p[1] = "|" THEN <<<<>>>> \o Alternatives(Tail(p))
    ELSE IF p[1] = "\\" /\ Len(p) > 1 THEN Then(Rx(p[2]), Alternatives(Tail(Tail(p))))
    ELSE Then(Rx(p[1]), Alternatives(Tail(p)))

(* mutant: no slash between one repetition and the next                      *)
RepeatedUnseparated(c, pattern) ==
    IF c.modifier \in {"single", "optional"} THEN pattern
    ELSE Then(pattern, Group(None, pattern, TRUE, TRUE))

(* The pattern is enclosed, (?:...), in one of these places only.            *)
Repeated(c, pattern) ==
    LET first == IF c.kind = "dynamic" /\ c.modifier = "oneOrMore"
                 THEN Group(None, pattern, FALSE, FALSE) ELSE pattern
    IN  IF c.modifier \in {"single", "optional"} THEN pattern
        ELSE Then(first, Group(None, Then(Rx("/"), pattern), TRUE, TRUE))

(* Chunk i; groups are told apart by their chunk, for names may be used again*)
ChunkRegExp(c, i) ==
    LET pattern == IF c.pattern = <<>> THEN Lone([op |-> "segment"])
                   ELSE Alternatives(c.pattern)
        chunk   == Then(Rx("/"), IF c.kind = "dynamic"
                                 THEN Group(i, Repeated(c, pattern), FALSE, FALSE)
                                 ELSE Repeated(c, pattern))
    IN  CASE c.kind = "unknown" -> <<<<>>>>
          [] c.modifier \in {"optional", "zeroOrMore"} -> Group(None, chunk, TRUE, FALSE)
          [] OTHER -> chunk

RegExp(cs) ==
    LET body == FoldLeft(Then, Lone([op |-> "start"]), [i \in DOMAIN cs |-> ChunkRegExp(cs[i], i)])
    IN  Then(Then(body, Group(None, Rx("/"), TRUE, FALSE)), Lone([op |-> "end"]))

-----------------------------------------------------------------------------
(* FindStringSubmatchIndex.  A match so far is where it ended and what the   *)
(* groups have captured; the ways to go on come in the order of preference.  *)

RECURSIVE After(_, _, _), AfterAll(_, _, _), AfterOne(_, _, _)

After(alternatives, path, m) ==
    FlattenSeq([i \in DOMAIN alternatives |-> AfterAll(alternatives[i], path, m)])

AfterAll(elements, path, m) ==
    IF elements = <<>> THEN <<m>>
    ELSE LET firsts == AfterOne(Head(elements), path, m) IN
         FlattenSeq([i \in DOMAIN firsts |-> AfterAll(Tail(elements), path, firsts[i])])

AfterOne(e, path, m) ==
    LET If(condition, at) == IF condition THEN <<[m EXCEPT !.at = at]>> ELSE <<>>
    IN  CASE e.op = "start" -> If(m.at = 0, m.at)
          [] e.op = "end"   -> If(m.at = Len(path), m.at)
          [] e.op = "rune"  -> If(m.at < Len(path) /\ path[m.at + 1] = e.rune, m.at + 1)
          [] e.op = "segment" ->
                LET runes == {k \in m.at + 1..Len(path) :
                                \A j \in m.at + 1..k : path[j] # "/"}
                    n     == Cardinality(runes)
                IN  [i \in 1..n |-> [m EXCEPT !.at = @ + n + 1 - i]]
          [] e.op = "group" ->
                LET inner == After(e.body, path, m)
                    taken == IF e.chunk = None THEN inner
                             ELSE [i \in DOMAIN inner |-> [inner[i] EXCEPT
                                     !.captured[e.chunk] = SubSeq(path, m.at + 1, inner[i].at)]]
                IN  (IF e.many
                     THEN FlattenSeq([i \in DOMAIN taken |-> AfterOne(e, path, taken[i])])
                     ELSE taken)
                    \o (IF e.optional THEN <<m>> ELSE <<>>)

(* The last group of a name overwrites what those before it put in the map.  *)
Decisive(cs, key) == Max({i \in DOMAIN cs : cs[i].kind = "dynamic" /\ cs[i].key = key})

(* The parameters of the leftmost match, "" for those it left out; Match     *)
(* makes a new map of them, MatchInto clears one and fills it.               *)
MatchOf(cs, path) ==
    LET none  == [i \in DOMAIN cs |-> <<>>]
        found == FlattenSeq([s \in 1..Len(path) + 1 |->
                     After(RegExp(cs), path, [at |-> s - 1, captured |-> none])])
    IN  IF found = <<>> THEN None
        ELSE [key \in Keys(cs) |-> found[1].captured[Decisive(cs, key)]]

Unasked == status = "accepted" /\ match = None /\ build = None

MatchInto ==
    /\ Unasked
    /\ \E path \in MatchPaths :
          match' = [path |-> path, params |-> MatchOf(chunks, path)]
    /\ UNCHANGED <<parsed, build>>

-----------------------------------------------------------------------------
(* Path *)

(* mutant: no chunk with a modifier needs a value                            *)
MayBeAbsentIfModified(c) == c.modifier # "single"

MayBeAbsent(c) == c.modifier \in {"optional", "zeroOrMore"}

(* One chunk more, with the wildcards used so far; None is the error.        *)
Extended(built, c, params, wildcards) ==
    LET With(segment, used) == [path |-> built.path \o <<"/">> \o segment, used |-> used] IN
    IF built = None \/ c.kind = "unknown" THEN built
    ELSE CASE c.kind = "static" -> With(c.pattern, built.used)
           [] c.kind = "dynamic" ->
                IF c.key \in DOMAIN params THEN With(params[c.key], built.used)
                ELSE IF MayBeAbsent(c) THEN built ELSE None
           [] c.kind = "wildcard" ->
                IF built.used < Len(wildcards)
                THEN With(wildcards[built.used + 1], built.used + 1) ELSE None

PathOf(cs, params, wildcards) ==
    LET built == FoldLeft(LAMBDA b, c : Extended(b, c, params, wildcards),
                          [path |-> <<>>, used |-> 0], cs)
    IN  IF built = None THEN None
        ELSE IF built.path = <<>> THEN <<"/">> ELSE built.path

Path ==
    /\ Unasked
    /\ \E given \in SUBSET Keys(chunks), wildcards \in BoundedSeq(Values, 2) :
       \E params \in [given -> Values] :
          build' = [params |-> params, wildcards |-> wildcards,
                    path |-> PathOf(chunks, params, wildcards)]
    /\ UNCHANGED <<parsed, match>>

-----------------------------------------------------------------------------

Init == ParserInit /\ match = None /\ build = None

Next ==
    \/ Parse /\ UNCHANGED <<match, build>>
    \/ MatchInto \/ Path

Spec == Init /\ [][Next]_vars

-----------------------------------------------------------------------------
(* Properties *)

(* A sub-expression with a "|" is enclosed only as a parameter of one        *)
(* segment; elsewhere the "|" divides what is around it.                     *)
Enclosed(d) ==
    \A i \in DOMAIN d : "|" \in ToSet(d[i].pattern) =>
        d[i].kind = "dynamic" /\ d[i].modifier \in {"single", "optional"}

(* The segments of a path, with or without a slash at its end; None: it has  *)
(* empty ones or does not begin with a slash.                                *)
SegmentsOf(path) ==
    LET body    == IF path # <<>> /\ Last(path) = "/" THEN Front(path) ELSE path
        slashes == {k \in DOMAIN body : body[k] = "/"}
        End(k)  == Min({j \in slashes : j > k} \cup {Len(body) + 1})
        cuts    == SetToSortSeq(slashes, <)
        parts   == [i \in DOMAIN cuts |-> SubSeq(body, cuts[i] + 1, End(cuts[i]) - 1)]
    IN  IF (body = <<>> \/ body[1] = "/") /\ <<>> \notin ToSet(parts) THEN parts ELSE None

Described(c, segment) == c.pattern = <<>> \/ segment \in Means[c.pattern]

(* A chunk accounts for a block of segments (README.md:808-821).             *)
Covers(c, block) ==
    /\ \A i \in DOMAIN block : Described(c, block[i])
    /\ CASE c.kind = "unknown"          -> block = <<>>
         [] c.modifier = "single"       -> Len(block) = 1
         [] c.modifier = "optional"     -> Len(block) <= 1
         [] c.modifier = "oneOrMore"    -> Len(block) >= 1
         [] c.modifier = "zeroOrMore"   -> TRUE

Block(parts, cut, i) == SubSeq(parts, (IF i = 1 THEN 0 ELSE cut[i - 1]) + 1, cut[i])

(* The ways to divide the segments of a path among the chunks                *)
Divisions(d, parts) ==
    {cut \in [DOMAIN d -> 0..Len(parts)] :
        /\ \A i \in DOMAIN d : (IF i = 1 THEN 0 ELSE cut[i - 1]) <= cut[i]
        /\ IF d = <<>> THEN parts = <<>> ELSE cut[Len(d)] = Len(parts)
        /\ \A i \in DOMAIN d : Covers(d[i], Block(parts, cut, i))}

(* Of two divisions, the first one gives an earlier chunk more.              *)
Greedier(x, y) ==
    \E i \in DOMAIN x : x[i] > y[i] /\ \A j \in 1..i - 1 : x[j] = y[j]

Joined(block) == IF block = <<>> THEN <<>>
                 ELSE Tail(FlattenSeq([i \in DOMAIN block |-> <<"/">> \o block[i]]))

(* The last chunk of a parameter; no other chunk has its key.                *)
LastOf(d, key) == CHOOSE i \in DOMAIN d : d[i].key = key /\ \A j \in i + 1..Len(d) : d[j].key # key

(* A path matches if its segments can be divided among the chunks, and each  *)
(* parameter is its chunk's share, that of the last one if a name is used    *)
(* again, earlier chunks taking all they can (MatchInto, regExpFromChunks;   *)
(* README.md:808-821).                                                       *)
MatchedAsDocumented ==
    match # None /\ doc # None /\ Enclosed(doc) =>
        LET parts == SegmentsOf(match.path)
            ways  == IF parts = None THEN {} ELSE Divisions(doc, parts)
        IN  IF ways = {} THEN match.params = None
            ELSE \E cut \in ways :
                   /\ \A other \in ways \ {cut} : Greedier(cut, other)
                   /\ match.params = [key \in Keys(doc) |->
                        Joined(Block(parts, cut, LastOf(doc, key)))]

(* What Path was given fits the pattern: values for the parameters, and for  *)
(* each wildcard one.                                                        *)
Fitting(d, b) ==
    LET wild(i) == Cardinality({j \in 1..i : d[j].kind = "wildcard"})
        Fits(c, value) == Covers(c, SegmentsOf(<<"/">> \o value))
    IN  \A i \in DOMAIN d :
          /\ d[i].kind = "dynamic" /\ d[i].key \in DOMAIN b.params
                => Fits(d[i], b.params[d[i].key])
          /\ d[i].kind = "wildcard" => Fits(d[i], b.wildcards[wild(i)])
          /\ "\\" \notin ToSet(d[i].pattern)

(* A path that Path builds is one that the pattern matches, whatever optional*)
(* parameters were left out; the values come back, unless a chunk before the *)
(* last may take the next one's (Path).                                      *)
PathIsMatched ==
    build # None /\ doc # None /\ build.path # None /\ Enclosed(doc) /\ Fitting(doc, build) =>
        LET params == MatchOf(chunks, build.path) IN
        /\ params # None
        /\ (\A i \in 1..Len(doc) - 1 : doc[i].modifier = "single") =>
              \A key \in DOMAIN build.params : params[key] = build.params[key]
=============================================================================
