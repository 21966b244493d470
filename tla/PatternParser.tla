---------------------------- MODULE PatternParser ----------------------------
(***************************************************************************)
(* NewPattern (pattern.go): the text of a pattern becomes chunks.          *)
(*                                                                         *)
(* parsePatternChunks goes through the text rune by rune; what a rune means*)
(* depends on the next one and on the chunk in hand.  Letters stand for    *)
(* names and words.                                                        *)
(***************************************************************************)
EXTENDS Integers, Sequences, SequencesExt, FiniteSetsExt

CONSTANTS
    Letters,    \* runes without a meaning of their own
    Documents,  \* patterns as README.md describes them: sequences of chunks
    Mistakes,   \* texts that are not patterns
    Malformed,  \* chunks whose text is no regular expression, as that of "/a)"
    None

Kinds     == {"unknown", "static", "dynamic", "wildcard"}
Modifiers == {"single", "optional", "oneOrMore", "zeroOrMore"}
Signs     == {"?", "+", "*"}
Marks     == {"/", ":", "(", ")", "|", "\\"}
Runes     == Letters \cup Signs \cup Marks
Chunk     == [kind : Kinds, modifier : Modifiers, key : Seq(Runes), pattern : Seq(Runes)]

Blank == [kind |-> "unknown", modifier |-> "single", key |-> <<>>, pattern |-> <<>>]

(* What can be written as a chunk (README.md:806-833): a parameter has a name*)
(* of letters; a sub-expression ends at the first ")"; a static chunk begins *)
(* like none of the others and does not end like a modifier.                 *)
Writable(c) ==
    \/ c = Blank
    \/ c.kind = "dynamic" /\ c.key \in Seq(Letters) \ {<<>>} /\ ")" \notin ToSet(c.pattern)
    \/ c.kind = "wildcard" /\ c.key = <<>> /\ ")" \notin ToSet(c.pattern)
    \/ /\ c.kind = "static" /\ c.key = <<>> /\ c.pattern # <<>>
       /\ ToSet(c.pattern) \cap {"/", "("} = {}
       /\ c.pattern[1] \notin {":", "*"}
       /\ c.modifier = "single" => c.pattern[Len(c.pattern)] \notin Signs

ASSUME ParserAssumption ==
    /\ Letters \cap (Signs \cup Marks) = {}
    /\ Documents \subseteq Seq(Chunk)
    /\ \A d \in Documents : \A i \in DOMAIN d : Writable(d[i])
    /\ Mistakes \subseteq Seq(Runes)
    /\ Malformed \subseteq Seq(Chunk)
    /\ None \notin Documents /\ None \notin Chunk

VARIABLES
    doc,        \* what the program means by the pattern; None: a mistake
    text,       \* the pattern string
    pos,        \* i + 1
    current,    \* currentChunk
    chunks,     \* the chunks so far, then those of the Pattern
    status      \* parsing, accepted or refused

parsed == <<doc, text, pos, current, chunks, status>>

-----------------------------------------------------------------------------
(* parsePatternChunks *)

Rune == text[pos]

(* mutant: only the end of the text ends a chunk                             *)
LastRuneOfText == pos = Len(text)

(* isLastRuneInChunk *)
LastRune == pos < Len(text) => text[pos + 1] = "/"

(* mutant: also if there is none                                             *)
TakenAlways == Append(chunks, current)

(* The chunk in hand is put with the others, if there is one.                *)
Taken == IF current = None THEN chunks ELSE Append(chunks, current)

AtRune == status = "parsing" /\ pos <= Len(text)
InChunk == AtRune /\ Rune # "/" /\ current # None /\ current.kind # "unknown"

Refuse ==
    /\ status' = "refused"
    /\ UNCHANGED <<doc, text, pos, current, chunks>>

Slash ==
    /\ AtRune /\ Rune = "/"
    /\ chunks' = Taken
    /\ current' = Blank
    /\ pos' = pos + 1
    /\ UNCHANGED <<doc, text, status>>

NoLeadingSlash ==
    /\ AtRune /\ Rune # "/" /\ current = None
    /\ Refuse

(* The first rune tells the kind; it is read again if it is part of the chunk.*)
BeginChunk ==
    /\ AtRune /\ Rune # "/" /\ current # None /\ current.kind = "unknown"
    /\ current' = [current EXCEPT !.kind = CASE Rune = ":" -> "dynamic"
                                             [] Rune \in {"*", "("} -> "wildcard"
                                             [] OTHER -> "static"]
    /\ pos' = IF Rune \in {":", "*"} THEN pos + 1 ELSE pos
    /\ UNCHANGED <<doc, text, chunks, status>>

SubpatternRefused ==
    /\ InChunk /\ Rune = "("
    /\ (current.kind = "dynamic" /\ current.key = <<>>) \/ current.pattern # <<>>
    /\ Refuse

(* All up to the parenthesis that closes; one that does not is skipped.      *)
Subpattern ==
    LET closing == {j \in pos + 1..Len(text) : text[j] = ")"} IN
    /\ InChunk /\ Rune = "("
    /\ ~(current.kind = "dynamic" /\ current.key = <<>>) /\ current.pattern = <<>>
    /\ IF closing = {}
       THEN pos' = pos + 1 /\ UNCHANGED current
       ELSE /\ current' = [current EXCEPT !.pattern = SubSeq(text, pos + 1, Min(closing) - 1)]
            /\ pos' = Min(closing) + 1
    /\ UNCHANGED <<doc, text, chunks, status>>

Modifier ==
    /\ InChunk /\ Rune \in Signs /\ LastRune
    /\ current' = [current EXCEPT !.modifier = CASE Rune = "?" -> "optional"
                                                 [] Rune = "+" -> "oneOrMore"
                                                 [] Rune = "*" -> "zeroOrMore"]
    /\ pos' = pos + 1
    /\ UNCHANGED <<doc, text, chunks, status>>

Character ==
    /\ InChunk /\ Rune # "(" /\ ~(Rune \in Signs /\ LastRune)
    /\ current' = CASE current.kind = "dynamic"  -> [current EXCEPT !.key = Append(@, Rune)]
                    [] current.kind = "static"   -> [current EXCEPT !.pattern = Append(@, Rune)]
                    [] current.kind = "wildcard" -> current
    /\ pos' = pos + 1
    /\ UNCHANGED <<doc, text, chunks, status>>

(* mutant: a parameter may be without a name                                 *)
CompilesNameless(cs) == cs \notin Malformed

(* regexp.Compile wants a name for every parameter, which may be used again, *)
(* and sound text in between.                                                *)
Compiles(cs) ==
    /\ \A i \in DOMAIN cs : cs[i].kind = "dynamic" => cs[i].key \in Seq(Letters) \ {<<>>}
    /\ cs \notin Malformed

EndOfText ==
    /\ status = "parsing" /\ pos > Len(text)
    /\ chunks' = Taken
    /\ status' = IF Compiles(Taken) THEN "accepted" ELSE "refused"
    /\ UNCHANGED <<doc, text, pos, current>>

-----------------------------------------------------------------------------
(* A pattern as it is written (README.md:806-833)                            *)

Sign(modifier) == CASE modifier = "single"     -> <<>>
                    [] modifier = "optional"   -> <<"?">>
                    [] modifier = "oneOrMore"  -> <<"+">>
                    [] modifier = "zeroOrMore" -> <<"*">>

Stem(c) ==
    LET sub == IF c.pattern = <<>> THEN <<>> ELSE <<"(">> \o c.pattern \o <<")">>
    IN  <<"/">> \o
        CASE c.kind = "unknown"  -> <<>>
          [] c.kind = "static"   -> c.pattern
          [] c.kind = "dynamic"  -> <<":">> \o c.key \o sub
          [] c.kind = "wildcard" -> IF sub = <<>> THEN <<"*">> ELSE sub

Written(c) == Stem(c) \o Sign(c.modifier)

ParserInit ==
    /\ \/ /\ doc \in Documents
          /\ text = FlattenSeq([i \in DOMAIN doc |-> Written(doc[i])])
       \/ doc = None /\ text \in Mistakes
    /\ pos = 1
    /\ current = None
    /\ chunks = <<>>
    /\ status = "parsing"

Parse ==
    \/ Slash \/ NoLeadingSlash \/ BeginChunk \/ SubpatternRefused \/ Subpattern
    \/ Modifier \/ Character \/ EndOfText

ParserSpec == ParserInit /\ [][Parse]_parsed

-----------------------------------------------------------------------------
(* Properties *)

TypeOK ==
    /\ doc \in Documents \cup {None}
    /\ text \in Seq(Runes)
    /\ pos \in 1..Len(text) + 1
    /\ current \in Chunk \cup {None}
    /\ chunks \in Seq(Chunk)
    /\ status \in {"parsing", "accepted", "refused"}

(* A pattern written as the README says is understood as it was meant, chunk *)
(* for chunk; NewPattern refuses it only if regexp.Compile refuses what was  *)
(* meant (parsePatternChunks).                                               *)
ParsedAsDocumented ==
    doc # None =>
        /\ status = "accepted" => chunks = doc
        /\ status = "refused" => ~Compiles(doc)

(* What is not a pattern NewPattern refuses, unless the mistake is a "(" that*)
(* nothing closes (parsePatternChunks, regExpFromChunks).                    *)
MistakesRefused ==
    doc = None /\ status = "accepted" => "(" \in ToSet(text) /\ ")" \notin ToSet(text)
=============================================================================
