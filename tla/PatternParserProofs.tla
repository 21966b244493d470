-------------------------- MODULE PatternParserProofs --------------------------
(***************************************************************************)
(* What PatternParser promises, for any documents that can be written: the *)
(* chunks of a pattern are those that were meant.                          *)
(***************************************************************************)
EXTENDS PatternParser, SequenceTheorems, WellFoundedInduction, TLAPS

(* The text t has the chunks of d one behind the other, the i-th up to the *)
(* rune at off[i].                                                         *)
LaidOut(d, t, off) ==
    /\ off \in [0..Len(d) -> Nat] /\ off[0] = 0 /\ off[Len(d)] = Len(t)
    /\ \A i \in 1..Len(d) :
        /\ off[i] = off[i - 1] + Len(Written(d[i]))
        /\ \A j \in 1..Len(Written(d[i])) : t[off[i - 1] + j] = Written(d[i])[j]

(* What is known of a chunk before its modifier; before its sub-expression;*)
(* when n runes of a name, or of a static chunk, were read                 *)
Before(kind, key, pattern) ==
    [kind |-> kind, modifier |-> "single", key |-> key, pattern |-> pattern]
Unsigned(c) == Before(c.kind, c.key, c.pattern)
Opening(c) == Before(c.kind, c.key, <<>>)
Named(c, n) == Before("dynamic", SubSeq(c.key, 1, n), <<>>)
Static(c, n) == Before("static", <<>>, SubSeq(c.pattern, 1, n))

(* What is in hand when the next rune is the p-th one of the chunk c       *)
Begun(p, x) == p = 2 /\ x = Blank
InStatic(c, p, x) == c.kind = "static" /\ p \in 2..Len(c.pattern) + 1 /\ x = Static(c, p - 2)
InName(c, p, x) == c.kind = "dynamic" /\ p \in 3..Len(c.key) + 2 /\ x = Named(c, p - 3)
AtOpening(c, p, x) ==
    /\ c.kind \in {"dynamic", "wildcard"} /\ c.pattern # <<>> /\ x = Opening(c)
    /\ p = IF c.kind = "dynamic" THEN Len(c.key) + 3 ELSE 2
AtSign(c, p, x) == c.kind # "unknown" /\ p = Len(Stem(c)) + 1 /\ x = Unsigned(c)
AtEnd(c, p, x) == p = Len(Written(c)) + 1 /\ x = c

InHand(c, p, x) ==
    \/ Begun(p, x) \/ InStatic(c, p, x) \/ InName(c, p, x)
    \/ AtOpening(c, p, x) \/ AtSign(c, p, x) \/ AtEnd(c, p, x)

Parsing(off) ==
    \/ current = None /\ pos = 1 /\ chunks = <<>>
    \/ \E i \in 1..Len(doc) :
         /\ chunks = SubSeq(doc, 1, i - 1)
         /\ InHand(doc[i], pos - off[i - 1], current)

ParseInv ==
    doc # None =>
        \E off \in [0..Len(doc) -> Nat] :
            /\ LaidOut(doc, text, off)
            /\ status = "parsing" => Parsing(off)
            /\ status = "accepted" => chunks = doc
            /\ status = "refused" => ~Compiles(doc)

-----------------------------------------------------------------------------
(* What is written of a chunk                                              *)
LEMMA Joint ==
  ASSUME NEW R, NEW a \in Seq(R), NEW b \in Seq(R)
  PROVE  /\ a \o b \in Seq(R) /\ Len(a \o b) = Len(a) + Len(b)
         /\ \A j \in 1..Len(a) : (a \o b)[j] = a[j]
         /\ \A j \in Len(a) + 1..Len(a) + Len(b) : (a \o b)[j] = b[j - Len(a)]
OBVIOUS

(* a parameter with a sub-expression                                       *)
Parameter(k, p) == <<"/">> \o (<<":">> \o k \o (<<"(">> \o p \o <<")">>))

LEMMA ParameterText ==
  ASSUME NEW k \in Seq(Runes), NEW p \in Seq(Runes),
         NEW n \in Nat, NEW l \in Nat, n = Len(k), l = Len(p),
         NEW t, t = Parameter(k, p)
  PROVE  /\ t \in Seq(Runes) /\ Len(t) = 4 + n + l /\ Len(t) >= 2 + n
         /\ t[1] = "/" /\ t[2] = ":" /\ t[3 + n] = "(" /\ t[4 + n + l] = ")"
         /\ \A j \in 1..n : t[2 + j] = k[j]
         /\ \A j \in 1..l : t[3 + n + j] = p[j]
<1> DEFINE name == <<":">> \o k
           sub == <<"(">> \o p \o <<")">>
           both == name \o sub
<1> {"/", ":", "(", ")"} \subseteq Runes
  BY DEF Runes, Marks
<1>0. /\ name \in Seq(Runes) /\ Len(name) = 1 + n /\ name[1] = ":"
      /\ \A j \in 1..n : name[1 + j] = k[j]
  OBVIOUS
<1>1. /\ sub \in Seq(Runes) /\ Len(sub) = 2 + l /\ sub[1] = "(" /\ sub[2 + l] = ")"
      /\ \A j \in 1..l : sub[1 + j] = p[j]
  OBVIOUS
<1> HIDE DEF name, sub
<1>2. /\ both \in Seq(Runes) /\ Len(both) = 3 + n + l
      /\ \A j \in 1..1 + n : both[j] = name[j]
      /\ \A j \in 2 + n..3 + n + l : both[j] = sub[j - (1 + n)]
  <2>1. /\ both \in Seq(Runes) /\ Len(both) = Len(name) + Len(sub)
        /\ \A j \in 1..Len(name) : both[j] = name[j]
        /\ \A j \in Len(name) + 1..Len(name) + Len(sub) : both[j] = sub[j - Len(name)]
    <3>1. name \in Seq(Runes) /\ sub \in Seq(Runes)
      BY <1>0, <1>1
    <3> QED
      BY <3>1, Joint, Zenon
  <2> HIDE DEF both
  <2>2. 1 + n + 1 = 2 + n /\ (1 + n) + (2 + l) = 3 + n + l
    OBVIOUS
  <2> QED
    BY <1>0, <1>1, <2>1, <2>2
<1>3. /\ both[1] = ":" /\ both[2 + n] = "(" /\ both[3 + n + l] = ")"
      /\ \A j \in 1..n : both[1 + j] = k[j]
      /\ \A j \in 1..l : both[2 + n + j] = p[j]
  <2>1. both[1] = ":"
    BY <1>0, <1>2
  <2>2. both[2 + n] = "("
    <3>1. 2 + n \in 2 + n..3 + n + l /\ (2 + n) - (1 + n) = 1
      OBVIOUS
    <3> QED
      BY <1>1, <1>0, <1>2, <3>1
  <2>3. both[3 + n + l] = ")"
    <3>1. 3 + n + l \in 2 + n..3 + n + l /\ (3 + n + l) - (1 + n) = 2 + l
      OBVIOUS
    <3> QED
      BY <1>1, <1>0, <1>2, <3>1
  <2>4. ASSUME NEW j \in 1..n PROVE both[1 + j] = k[j]
    <3>1. 1 + j \in 1..1 + n
      OBVIOUS
    <3> QED
      BY <1>0, <1>2, <3>1
  <2>5. ASSUME NEW j \in 1..l PROVE both[2 + n + j] = p[j]
    <3>1. 2 + n + j \in 2 + n..3 + n + l /\ (2 + n + j) - (1 + n) = 1 + j
      OBVIOUS
    <3> QED
      BY <1>1, <1>0, <1>2, <3>1
  <2> QED
    BY <2>1, <2>2, <2>3, <2>4, <2>5
<1> HIDE DEF both
<1>4. t = <<"/">> \o both
  BY DEF both, name, sub, Parameter
<1>5. /\ t \in Seq(Runes) /\ Len(t) = 4 + n + l
      /\ t[1] = "/"
      /\ \A j \in 2..4 + n + l : t[j] = both[j - 1]
  <2>1. <<"/">> \in Seq(Runes) /\ Len(<<"/">>) = 1 /\ <<"/">>[1] = "/"
    OBVIOUS
  <2>2. /\ t \in Seq(Runes) /\ Len(t) = 1 + Len(both) /\ t[1] = <<"/">>[1]
        /\ \A j \in 2..1 + Len(both) : t[j] = both[j - 1]
    <3>1. /\ t \in Seq(Runes) /\ Len(t) = Len(<<"/">>) + Len(both)
          /\ \A j \in 1..Len(<<"/">>) : t[j] = <<"/">>[j]
          /\ \A j \in Len(<<"/">>) + 1..Len(<<"/">>) + Len(both) :
               t[j] = both[j - Len(<<"/">>)]
      <4>1. both \in Seq(Runes) /\ <<"/">> \in Seq(Runes)
        BY <1>2, <2>1
      <4> QED
        BY ONLY <1>4, <4>1, Joint, Zenon
    <3>2. Len(both) \in Nat
      BY <1>2
    <3> QED
      BY <2>1, <3>1, <3>2
  <2>3. 1 + (3 + n + l) = 4 + n + l
    OBVIOUS
  <2> QED
    BY <1>2, <2>1, <2>2, <2>3
<1>6. t[2] = ":" /\ t[3 + n] = "(" /\ t[4 + n + l] = ")"
  <2>1. /\ 2 \in 2..4 + n + l /\ 3 + n \in 2..4 + n + l /\ 4 + n + l \in 2..4 + n + l
        /\ 2 - 1 = 1 /\ (3 + n) - 1 = 2 + n /\ (4 + n + l) - 1 = 3 + n + l
    OBVIOUS
  <2> QED
    BY <1>3, <1>5, <2>1
<1>7. ASSUME NEW j \in 1..n PROVE t[2 + j] = k[j]
  <2>1. 2 + j \in 2..4 + n + l /\ (2 + j) - 1 = 1 + j
    OBVIOUS
  <2> QED
    BY <1>3, <1>5, <2>1
<1>8. ASSUME NEW j \in 1..l PROVE t[3 + n + j] = p[j]
  <2>1. 3 + n + j \in 2..4 + n + l /\ (3 + n + j) - 1 = 2 + n + j
    OBVIOUS
  <2> QED
    BY <1>3, <1>5, <2>1
<1>9. 4 + n + l >= 2 + n
  OBVIOUS
<1> QED
  BY <1>3, <1>5, <1>6, <1>7, <1>8, <1>9

Spells(t, k, p) ==
    /\ t \in Seq(Runes) /\ Len(t) = 4 + Len(k) + Len(p) /\ Len(t) >= 2 + Len(k)
    /\ t[1] = "/" /\ t[2] = ":" /\ t[3 + Len(k)] = "(" /\ t[4 + Len(k) + Len(p)] = ")"
    /\ \A j \in 1..Len(k) : t[2 + j] = k[j]
    /\ \A j \in 1..Len(p) : t[3 + Len(k) + j] = p[j]

LEMMA ParameterSpells ==
  ASSUME NEW k \in Seq(Runes), NEW p \in Seq(Runes)
  PROVE  Spells(Parameter(k, p), k, p)
<1>1. Len(k) \in Nat /\ Len(p) \in Nat
  OBVIOUS
<1> QED
  <2>1. Parameter(k, p) = Parameter(k, p)
    OBVIOUS
  <2> QED
    BY <1>1, <2>1, ParameterText DEF Spells

StemSpelt(c) ==
    /\ Stem(c) \in Seq(Runes) /\ Len(Stem(c)) \in Nat \ {0} /\ Stem(c)[1] = "/"
    /\ c.kind = "unknown" => Len(Stem(c)) = 1
    /\ c.kind = "static" =>
         /\ Len(Stem(c)) = 1 + Len(c.pattern)
         /\ \A j \in 1..Len(c.pattern) : Stem(c)[1 + j] = c.pattern[j]
    /\ c.kind = "dynamic" =>
         /\ Len(Stem(c)) >= 2 + Len(c.key) /\ Stem(c)[2] = ":"
         /\ \A j \in 1..Len(c.key) : Stem(c)[2 + j] = c.key[j]
         /\ c.pattern = <<>> => Len(Stem(c)) = 2 + Len(c.key)
         /\ c.pattern # <<>> =>
              /\ Len(Stem(c)) = 4 + Len(c.key) + Len(c.pattern)
              /\ Stem(c)[3 + Len(c.key)] = "("
              /\ \A j \in 1..Len(c.pattern) : Stem(c)[3 + Len(c.key) + j] = c.pattern[j]
              /\ Stem(c)[4 + Len(c.key) + Len(c.pattern)] = ")"
    /\ c.kind = "wildcard" =>
         /\ c.pattern = <<>> => Len(Stem(c)) = 2 /\ Stem(c)[2] = "*"
         /\ c.pattern # <<>> =>
              /\ Len(Stem(c)) = 3 + Len(c.pattern) /\ Stem(c)[2] = "("
              /\ \A j \in 1..Len(c.pattern) : Stem(c)[2 + j] = c.pattern[j]
              /\ Stem(c)[3 + Len(c.pattern)] = ")"

LEMMA Stems ==
  ASSUME NEW c \in Chunk, Writable(c)
  PROVE  StemSpelt(c)
<1> USE DEF StemSpelt
<1>1. /\ c.key \in Seq(Runes) /\ c.pattern \in Seq(Runes) /\ c.kind \in Kinds
      /\ Len(c.key) \in Nat /\ Len(c.pattern) \in Nat
  BY DEF Chunk
<1>2. {"/", ":", "(", ")", "*"} \subseteq Runes
  BY DEF Runes, Marks, Signs
<1>3. CASE c.kind = "unknown"
  <2>1. Stem(c) = <<"/">> \o <<>>
    BY <1>3 DEF Stem
  <2> QED
    BY <1>2, <1>3, <2>1
<1>4. CASE c.kind = "static"
  <2>1. Stem(c) = <<"/">> \o c.pattern
    BY <1>4 DEF Stem
  <2> QED
    BY <1>1, <1>2, <1>4, <2>1
<1> DEFINE sub == <<"(">> \o c.pattern \o <<")">>
<1>5. /\ sub \in Seq(Runes) /\ Len(sub) = 2 + Len(c.pattern) /\ sub # <<>>
      /\ sub[1] = "(" /\ sub[2 + Len(c.pattern)] = ")"
      /\ \A j \in 1..Len(c.pattern) : sub[1 + j] = c.pattern[j]
  BY <1>1, <1>2
<1>6. CASE c.kind = "wildcard"
  <2>1. CASE c.pattern = <<>>
    <3>1. Stem(c) = <<"/">> \o <<"*">>
      BY <1>6, <2>1 DEF Stem
    <3> QED
      BY <1>2, <1>6, <2>1, <3>1
  <2>2. CASE c.pattern # <<>>
    <3>1. Stem(c) = <<"/">> \o sub
      BY <1>5, <1>6, <2>2 DEF Stem
    <3> HIDE DEF sub
    <3> QED
      BY <1>1, <1>2, <1>5, <1>6, <2>2, <3>1
  <2> QED
    BY <2>1, <2>2
<1>7. CASE c.kind = "dynamic"
  <2> DEFINE name == <<":">> \o c.key
  <2>1. /\ name \in Seq(Runes) /\ Len(name) = 1 + Len(c.key) /\ name[1] = ":"
        /\ \A j \in 1..Len(c.key) : name[1 + j] = c.key[j]
    BY <1>1, <1>2
  <2>2. CASE c.pattern = <<>>
    <3>1. Stem(c) = <<"/">> \o (name \o <<>>)
      BY <1>7, <2>2 DEF Stem
    <3> HIDE DEF name
    <3>2. name \o <<>> = name
      BY <2>1
    <3>3. Stem(c) = <<"/">> \o name
      BY <3>1, <3>2
    <3> QED
      BY <1>1, <1>2, <1>7, <2>1, <2>2, <3>3
  <2>3. CASE c.pattern # <<>>
    <3>1. Stem(c) = <<"/">> \o (name \o sub)
      BY <1>7, <2>3 DEF Stem
    <3>2. Stem(c) = Parameter(c.key, c.pattern)
      BY <3>1 DEF Parameter
    <3>3. Spells(Stem(c), c.key, c.pattern)
      BY <1>1, <3>2, ParameterSpells
    <3>4. /\ c.kind # "unknown" /\ c.kind # "static" /\ c.kind # "wildcard"
          /\ Len(Stem(c)) \in Nat \ {0}
      <4>1. Stem(c) \in Seq(Runes) /\ Stem(c) # <<>>
        <5>1. <<"/">> \in Seq(Runes) /\ name \o sub \in Seq(Runes)
          BY <1>2, <1>5, <2>1
        <5> HIDE DEF name, sub
        <5> QED
          BY <3>1, <5>1
      <4> QED
        BY <1>7, <4>1
    <3> QED
      BY <2>3, <3>3, <3>4, Zenon DEF Spells
  <2> QED
    BY <2>2, <2>3
<1> QED
  BY <1>1, <1>3, <1>4, <1>6, <1>7 DEF Kinds

(* and with its modifier                                                   *)
SignedSpelt(c) ==
    /\ Written(c) \in Seq(Runes) /\ Len(Written(c)) \in Nat \ {0}
    /\ \A j \in 1..Len(Stem(c)) : Written(c)[j] = Stem(c)[j]
    /\ c.modifier = "single" => Len(Written(c)) = Len(Stem(c))
    /\ c.modifier # "single" =>
         /\ Len(Written(c)) = Len(Stem(c)) + 1
         /\ Written(c)[Len(Stem(c)) + 1] \in Signs
         /\ c.modifier = "optional" <=> Written(c)[Len(Stem(c)) + 1] = "?"
         /\ c.modifier = "oneOrMore" <=> Written(c)[Len(Stem(c)) + 1] = "+"
         /\ c.modifier = "zeroOrMore" <=> Written(c)[Len(Stem(c)) + 1] = "*"

LEMMA Signed ==
  ASSUME NEW c \in Chunk, Writable(c)
  PROVE  SignedSpelt(c)
<1> USE DEF SignedSpelt
<1>1. c.modifier \in Modifiers /\ Signs \subseteq Runes
  BY DEF Chunk, Runes
<1>2. Stem(c) \in Seq(Runes) /\ Len(Stem(c)) \in Nat \ {0}
  BY Stems DEF StemSpelt
<1>3. CASE c.modifier = "single"
  <2>1. Written(c) = Stem(c) \o <<>>
    BY <1>3 DEF Written, Sign
  <2> QED
    BY <1>2, <1>3, <2>1
<1>4. ASSUME NEW r \in Signs, Sign(c.modifier) = <<r>>
      PROVE  /\ Written(c) \in Seq(Runes) /\ Len(Written(c)) = Len(Stem(c)) + 1
             /\ \A j \in 1..Len(Stem(c)) : Written(c)[j] = Stem(c)[j]
             /\ Written(c)[Len(Stem(c)) + 1] = r
  BY <1>1, <1>2, <1>4 DEF Written
<1>5. CASE c.modifier = "optional"
  BY <1>2, <1>4, <1>5 DEF Sign, Signs
<1>6. CASE c.modifier = "oneOrMore"
  BY <1>2, <1>4, <1>6 DEF Sign, Signs
<1>7. CASE c.modifier = "zeroOrMore"
  BY <1>2, <1>4, <1>7 DEF Sign, Signs
<1> QED
  BY <1>1, <1>3, <1>5, <1>6, <1>7 DEF Modifiers

-----------------------------------------------------------------------------
(* The text: one chunk behind the other                                    *)

(* A set of numbers that is not empty has a least one.                     *)
LEMMA LeastOf ==
  ASSUME NEW S \in SUBSET Nat, S # {}
  PROVE  \E x \in S : \A y \in S : x <= y
<1> DEFINE R == {ss \in Nat \X Nat : ss[1] < ss[2]}
<1>1. IsWellFoundedOn(R, Nat)
  BY NatLessThanWellFounded DEF OpToRel
<1>2. \E x \in S : \A y \in S : ~(<<y, x>> \in R)
  <2> HIDE DEF R
  <2> QED BY <1>1, WFMin
<1>3. PICK x \in S : \A y \in S : ~(<<y, x>> \in R)
  BY <1>2
<1>4. ASSUME NEW y \in S PROVE x <= y
  <2>1. x \in Nat /\ y \in Nat
    OBVIOUS
  <2>2. ~(y < x)
    BY <1>3, <2>1
  <2> QED
    BY <2>1, <2>2
<1> QED
  BY <1>4

(* Induction up to n over the numbers in a set                             *)
LEMMA UpTo ==
  ASSUME NEW n \in Nat, NEW S, 0 \in S,
         \A k \in 1..n : k - 1 \in S => k \in S
  PROVE  \A k \in 0..n : k \in S
<1> DEFINE B == {k \in 0..n : k \notin S}
<1>1. SUFFICES ASSUME B # {} PROVE FALSE
  OBVIOUS
<1>2. B \in SUBSET Nat
  OBVIOUS
<1>3. PICK x \in B : \A y \in B : x <= y
  <2> HIDE DEF B
  <2> QED BY <1>1, <1>2, LeastOf
<1>4. x \in 1..n /\ x - 1 \in 0..n /\ ~(x <= x - 1)
  BY <1>3
<1>5. x - 1 \in S
  BY <1>3, <1>4
<1> QED
  BY <1>3, <1>4, <1>5

(* The stages in which the first k of d are joined                         *)
Stages(f, d, k) == f = [i \in 1..k |-> IF i = 1 THEN d[i] ELSE f[i - 1] \o d[i]]

LEMMA StagesExist ==
  ASSUME NEW R, NEW n \in Nat, NEW d \in [1..n -> Seq(R)]
  PROVE  \E f : Stages(f, d, n)
<1> DEFINE S == {k \in 0..n : \E f : Stages(f, d, k)}
<1>1. 0 \in S
  <2>1. Stages(<<>>, d, 0)
    BY DEF Stages
  <2> QED
    BY <2>1
<1>2. ASSUME NEW k \in 1..n, k - 1 \in S PROVE k \in S
  <2>1. PICK f : Stages(f, d, k - 1)
    BY <1>2
  <2> DEFINE last == IF k = 1 THEN d[k] ELSE f[k - 1] \o d[k]
             g == [i \in 1..k |-> IF i = k THEN last ELSE f[i]]
  <2>2. ASSUME NEW i \in 1..k PROVE g[i] = IF i = 1 THEN d[i] ELSE g[i - 1] \o d[i]
    <3>1. CASE i = k /\ k = 1
      BY <3>1
    <3>2. CASE i = k /\ k # 1
      <4>1. k - 1 \in 1..k /\ k - 1 # k
        BY <3>2
      <4> QED
        BY <3>2, <4>1
    <3>3. CASE i # k
      <4>1. i \in 1..k - 1 /\ (i # 1 => i - 1 \in 1..k /\ i - 1 # k)
        BY <3>3
      <4>2. f[i] = IF i = 1 THEN d[i] ELSE f[i - 1] \o d[i]
        BY <2>1, <4>1 DEF Stages
      <4> QED
        BY <3>3, <4>1, <4>2
    <3> QED
      BY <3>1, <3>2, <3>3
  <2>3. g = [i \in 1..k |-> g[i]]
    OBVIOUS
  <2>4. Stages(g, d, k)
    <3> HIDE DEF g
    <3> QED
      BY <2>2, <2>3 DEF Stages
  <2> HIDE DEF g
  <2> QED
    BY <2>4
<1>3. \A k \in 0..n : k \in S
  <2> HIDE DEF S
  <2> QED
    BY <1>1, <1>2, UpTo
<1> QED
  BY <1>3

Joins(R, n, d, f) ==
    \A i \in 1..n :
        /\ f[i] \in Seq(R)
        /\ i = 1 => f[i] = d[i]
        /\ i # 1 => f[i] = f[i - 1] \o d[i]

LEMMA StagesJoin ==
  ASSUME NEW R, NEW n \in Nat, NEW d \in [1..n -> Seq(R)], NEW f, Stages(f, d, n)
  PROVE  Joins(R, n, d, f)
<1>1. ASSUME NEW i \in 1..n
      PROVE  (i = 1 => f[i] = d[i]) /\ (i # 1 => f[i] = f[i - 1] \o d[i])
  BY DEF Stages
<1> DEFINE S == {k \in 0..n : k = 0 \/ f[k] \in Seq(R)}
<1>2. 0 \in S
  OBVIOUS
<1>3. ASSUME NEW k \in 1..n, k - 1 \in S PROVE k \in S
  <2>1. d[k] \in Seq(R)
    OBVIOUS
  <2>2. k = 1 => f[k] \in Seq(R)
    BY <1>1, <2>1
  <2>3. k # 1 => f[k] \in Seq(R)
    <3>1. k # 1 => f[k - 1] \in Seq(R)
      <4>1. k - 1 = 0 \/ f[k - 1] \in Seq(R)
        BY <1>3
      <4>2. k # 1 => k - 1 # 0
        OBVIOUS
      <4> QED
        BY <4>1, <4>2
    <3>2. k # 1 => f[k] = f[k - 1] \o d[k]
      BY <1>1
    <3>3. ASSUME k # 1 PROVE f[k - 1] \o d[k] \in Seq(R)
      <4>1. f[k - 1] \in Seq(R)
        BY <3>1, <3>3
      <4> QED
        BY <2>1, <4>1, Joint, Zenon
    <3> QED
      BY <3>2, <3>3, Zenon
  <2> QED
    BY <2>2, <2>3
<1>4. \A k \in 0..n : k \in S
  <2> HIDE DEF S
  <2> QED
    BY <1>2, <1>3, UpTo
<1> QED
  BY <1>1, <1>4 DEF Joins

(* Later stages begin with the earlier ones.                               *)
Begins(t, s) == Len(s) <= Len(t) /\ \A j \in 1..Len(s) : t[j] = s[j]

LEMMA StagesGrow ==
  ASSUME NEW R, NEW n \in Nat, NEW d \in [1..n -> Seq(R)], NEW f, Stages(f, d, n),
         NEW i \in 1..n
  PROVE  \A k \in i..n : Begins(f[k], f[i])
<1> DEFINE From(k) == Begins(f[k], f[i])
           S == {k \in 0..n : k < i \/ From(k)}
<1>1. \A m \in 1..n : f[m] \in Seq(R) /\ (m # 1 => f[m] = f[m - 1] \o d[m])
  <2>1. Joins(R, n, d, f)
    BY StagesJoin
  <2> QED
    BY <2>1 DEF Joins
<1>2. 0 \in S
  OBVIOUS
<1>3. ASSUME NEW k \in 1..n, k - 1 \in S PROVE k \in S
  <2>1. CASE k < i
    BY <2>1
  <2>2. CASE k = i
    <3>1. Len(f[i]) \in Nat
      BY <1>1
    <3> QED
      BY <2>2, <3>1 DEF Begins
  <2>3. CASE k > i
    <3>1. k - 1 \in 1..n /\ ~(k - 1 < i) /\ k # 1
      BY <2>3
    <3>2. From(k - 1)
      BY <1>3, <3>1
    <3>3. f[k] = f[k - 1] \o d[k] /\ f[k - 1] \in Seq(R) /\ d[k] \in Seq(R) /\ f[i] \in Seq(R)
      BY <1>1, <3>1
    <3>4. From(k)
      BY <3>2, <3>3 DEF Begins
    <3> QED
      BY <3>4
  <2> QED
    BY <2>1, <2>2, <2>3
<1>4. \A k \in 0..n : k \in S
  <2> HIDE DEF S
  <2> QED
    BY <1>2, <1>3, UpTo
<1> QED
  BY <1>4

LEMMA FlattenStages ==
  ASSUME NEW R, NEW d \in Seq(Seq(R)), Len(d) # 0
  PROVE  \E f : Stages(f, d, Len(d)) /\ FlattenSeq(d) = f[Len(d)]
<1> DEFINE F == CHOOSE f : Stages(f, d, Len(d))
<1>1. d \in [1..Len(d) -> Seq(R)] /\ Len(d) \in Nat
  OBVIOUS
<1>2. Stages(F, d, Len(d))
  BY <1>1, StagesExist
<1>3. FlattenSeq(d) = F[Len(d)]
  BY DEF FlattenSeq, Stages
<1> HIDE DEF F
<1> QED
  BY <1>2, <1>3

(* The text of the last stage has them all, each behind the one before.    *)
Lays(n, w, t, off) ==
    /\ off[0] = 0 /\ off[n] = Len(t)
    /\ \A i \in 1..n :
        /\ off[i] = off[i - 1] + Len(w[i])
        /\ \A j \in 1..Len(w[i]) : t[off[i - 1] + j] = w[i][j]

LEMMA StagesLay ==
  ASSUME NEW R, NEW n \in Nat \ {0}, NEW w \in [1..n -> Seq(R)], NEW f, Stages(f, w, n)
  PROVE  f[n] \in Seq(R) /\ \E off \in [0..n -> Nat] : Lays(n, w, f[n], off)
<1>1. Joins(R, n, w, f)
  BY StagesJoin
<1>2. \A i \in 1..n : f[i] \in Seq(R) /\ Len(f[i]) \in Nat
  BY <1>1 DEF Joins
<1> DEFINE off == [i \in 0..n |-> IF i = 0 THEN 0 ELSE Len(f[i])]
<1>3. off \in [0..n -> Nat] /\ off[0] = 0 /\ off[n] = Len(f[n])
  <2>1. n \in 0..n /\ n \in 1..n /\ 0 \in 0..n
    OBVIOUS
  <2>2. ASSUME NEW i \in 0..n PROVE off[i] \in Nat
    <3>1. i # 0 => i \in 1..n
      OBVIOUS
    <3> QED
      BY <1>2, <3>1
  <2>3. off[0] = 0 /\ off[n] = Len(f[n])
    BY <2>1
  <2>4. off \in [0..n -> Nat]
    BY <2>2
  <2> QED
    BY <2>3, <2>4
<1>4. ASSUME NEW i \in 1..n
      PROVE  /\ off[i] = off[i - 1] + Len(w[i])
             /\ \A j \in 1..Len(w[i]) : f[i][off[i - 1] + j] = w[i][j]
  <2>1. w[i] \in Seq(R) /\ f[i] \in Seq(R) /\ off[i] = Len(f[i])
    <3>1. i \in 0..n /\ i # 0
      OBVIOUS
    <3> QED
      BY <1>2, <3>1
  <2>2. CASE i = 1
    <3>1. f[i] = w[i] /\ off[i - 1] = 0
      BY <1>1, <2>2 DEF Joins
    <3> HIDE DEF off
    <3> QED
      BY <2>1, <3>1
  <2>3. CASE i # 1
    <3>1. i - 1 \in 1..n /\ i - 1 \in 0..n /\ i - 1 # 0
      BY <2>3
    <3>2. f[i] = f[i - 1] \o w[i] /\ f[i - 1] \in Seq(R) /\ off[i - 1] = Len(f[i - 1])
      <4>1. f[i] = f[i - 1] \o w[i]
        BY <1>1, <2>3 DEF Joins
      <4>2. off[i - 1] = Len(f[i - 1])
        BY <3>1
      <4>3. f[i - 1] \in Seq(R)
        BY <1>2, <3>1
      <4> QED
        BY <4>1, <4>2, <4>3
    <3> HIDE DEF off
    <3> QED
      BY <2>1, <3>2
  <2> QED
    BY <2>2, <2>3
<1>5. ASSUME NEW i \in 1..n
      PROVE  \A j \in 1..Len(w[i]) : f[n][off[i - 1] + j] = w[i][j]
  <2>1. Len(f[i]) <= Len(f[n]) /\ \A j \in 1..Len(f[i]) : f[n][j] = f[i][j]
    <3>1. n \in i..n
      OBVIOUS
    <3>2. Begins(f[n], f[i])
      BY <3>1, StagesGrow
    <3> QED
      BY <3>2 DEF Begins
  <2>2. off[i] = Len(f[i]) /\ off[i - 1] \in Nat /\ Len(w[i]) \in Nat
    <3>1. i - 1 \in 0..n /\ w[i] \in Seq(R)
      OBVIOUS
    <3> QED
      BY <1>2, <1>3, <3>1
  <2> HIDE DEF off
  <2>3. ASSUME NEW j \in 1..Len(w[i]) PROVE f[n][off[i - 1] + j] = w[i][j]
    <3>1. off[i - 1] + j \in 1..Len(f[i])
      BY <1>4, <2>2
    <3> QED
      BY <1>4, <2>1, <3>1
  <2> QED
    BY <2>3
<1>6. Lays(n, w, f[n], off)
  <2> HIDE DEF off
  <2> QED
    BY <1>3, <1>4, <1>5 DEF Lays
<1> HIDE DEF off
<1>7. f[n] \in Seq(R)
  BY <1>2
<1> QED
  BY <1>3, <1>6, <1>7

LEMMA TextLaidOut ==
  ASSUME NEW d \in Seq(Chunk), \A i \in 1..Len(d) : Writable(d[i]),
         NEW t, t = FlattenSeq([i \in DOMAIN d |-> Written(d[i])])
  PROVE  t \in Seq(Runes) /\ \E off \in [0..Len(d) -> Nat] : LaidOut(d, t, off)
<1> DEFINE n == Len(d)
           w == [i \in 1..n |-> Written(d[i])]
<1>1. n \in Nat /\ DOMAIN d = 1..n
  OBVIOUS
<1>2. \A i \in 1..n : Written(d[i]) \in Seq(Runes) /\ w[i] = Written(d[i])
  <2> SUFFICES ASSUME NEW i \in 1..n PROVE Written(d[i]) \in Seq(Runes)
    OBVIOUS
  <2>1. d[i] \in Chunk /\ Writable(d[i])
    OBVIOUS
  <2> QED
    BY <2>1, Signed DEF SignedSpelt
<1>3. w \in [1..n -> Seq(Runes)] /\ w \in Seq(Seq(Runes)) /\ Len(w) = n
  BY <1>1, <1>2
<1>4. t = FlattenSeq(w)
  BY <1>1
<1>5. CASE n = 0
  <2>1. t = <<>>
    BY <1>3, <1>4, <1>5 DEF FlattenSeq
  <2> DEFINE off == [i \in 0..n |-> 0]
  <2>2. off \in [0..n -> Nat] /\ off[0] = 0 /\ off[n] = 0
    BY <1>5
  <2>3. LaidOut(d, t, off)
    <3> HIDE DEF off
    <3> QED
      BY <1>5, <2>1, <2>2 DEF LaidOut
  <2>4. t \in Seq(Runes)
    BY <2>1
  <2> HIDE DEF off
  <2> QED
    BY ONLY <2>2, <2>3, <2>4, Zenon
<1>6. CASE n # 0
  <2> HIDE DEF w
  <2>1. PICK f : Stages(f, w, n) /\ t = f[n]
    BY <1>3, <1>4, <1>6, FlattenStages
  <2>2. w \in [1..n -> Seq(Runes)] /\ n \in Nat \ {0}
    BY <1>1, <1>3, <1>6
  <2>3. PICK off \in [0..n -> Nat] : f[n] \in Seq(Runes) /\ Lays(n, w, f[n], off)
    BY <2>1, <2>2, StagesLay
  <2>4. LaidOut(d, t, off)
    BY <1>2, <2>1, <2>3 DEF LaidOut, Lays
  <2> QED
    BY ONLY <2>1, <2>3, <2>4, Zenon
<1> QED
  BY <1>5, <1>6

-----------------------------------------------------------------------------
(* Reading a chunk                                                         *)

(* The rune is the last one of its chunk.                                  *)
Ends(t, q) == q < Len(t) => t[q + 1] = "/"

(* The kinds of chunks, and what is known of each                          *)
ChunkFacts(c) ==
    /\ c.key \in Seq(Runes) /\ c.pattern \in Seq(Runes)
    /\ c.kind \in Kinds /\ c.modifier \in Modifiers
    /\ Len(c.key) \in Nat /\ Len(c.pattern) \in Nat
    /\ c.kind = "unknown" => c = Blank /\ c.modifier = "single"
    /\ c.kind \in {"static", "wildcard"} => c.key = <<>>
    /\ c.kind = "dynamic" => Len(c.key) > 0 /\ \A j \in 1..Len(c.key) : c.key[j] \in Letters
    /\ c.kind = "static" =>
         /\ Len(c.pattern) > 0
         /\ \A j \in 1..Len(c.pattern) : c.pattern[j] \notin {"/", "("}
         /\ c.pattern[1] \notin {":", "*"}
         /\ c.modifier = "single" => c.pattern[Len(c.pattern)] \notin Signs
    /\ c.kind \in {"dynamic", "wildcard"} =>
         \A j \in 1..Len(c.pattern) : c.pattern[j] # ")"
    /\ c.modifier = "single" => c = Unsigned(c)

LEMMA ChunkKinds ==
  ASSUME NEW c \in Chunk, Writable(c)
  PROVE  ChunkFacts(c)
<1> USE DEF ChunkFacts
<1>1. /\ c.key \in Seq(Runes) /\ c.pattern \in Seq(Runes)
      /\ c.kind \in Kinds /\ c.modifier \in Modifiers
      /\ Len(c.key) \in Nat /\ Len(c.pattern) \in Nat
  BY DEF Chunk
<1>2. c.modifier = "single" => c = Unsigned(c)
  BY DEF Chunk, Unsigned, Before
<1>3. CASE c = Blank
  <2>1. c.kind = "unknown" /\ c.modifier = "single"
    BY <1>3 DEF Blank
  <2> QED
    BY <1>1, <1>2, <1>3, <2>1
<1>4. CASE c.kind = "dynamic" /\ c.key \in Seq(Letters) \ {<<>>} /\ ")" \notin ToSet(c.pattern)
  <2>1. Len(c.key) > 0 /\ \A j \in 1..Len(c.key) : c.key[j] \in Letters
    BY <1>4
  <2>2. \A j \in 1..Len(c.pattern) : c.pattern[j] # ")"
    BY <1>1, <1>4 DEF ToSet
  <2> QED
    BY <1>1, <1>2, <1>4, <2>1, <2>2
<1>5. CASE c.kind = "wildcard" /\ c.key = <<>> /\ ")" \notin ToSet(c.pattern)
  <2>1. \A j \in 1..Len(c.pattern) : c.pattern[j] # ")"
    BY <1>1, <1>5 DEF ToSet
  <2> QED
    BY <1>1, <1>2, <1>5, <2>1
<1>6. CASE /\ c.kind = "static" /\ c.key = <<>> /\ c.pattern # <<>>
           /\ ToSet(c.pattern) \cap {"/", "("} = {}
           /\ c.pattern[1] \notin {":", "*"}
           /\ c.modifier = "single" => c.pattern[Len(c.pattern)] \notin Signs
  <2>1. ASSUME NEW j \in 1..Len(c.pattern) PROVE c.pattern[j] \notin {"/", "("}
    <3>1. c.pattern[j] \in ToSet(c.pattern)
      BY <1>1 DEF ToSet
    <3> QED
      BY <1>6, <3>1
  <2>2. Len(c.pattern) > 0
    BY <1>1, <1>6
  <2>3. c.kind # "unknown" /\ c.kind \notin {"dynamic", "wildcard"} /\ c.kind # "dynamic"
    BY <1>6
  <2>4. /\ Len(c.pattern) > 0
        /\ \A j \in 1..Len(c.pattern) : c.pattern[j] \notin {"/", "("}
        /\ c.pattern[1] \notin {":", "*"}
        /\ c.modifier = "single" => c.pattern[Len(c.pattern)] \notin Signs
    BY <1>6, <2>1, <2>2
  <2>5. c.key = <<>>
    BY <1>6
  <2> QED
    BY ONLY <1>1, <1>2, <2>3, <2>4, <2>5 DEF ChunkFacts
<1> QED
  BY <1>3, <1>4, <1>5, <1>6 DEF Writable

(* Where the sub-expression of a parameter is                              *)
LEMMA BeforeSubexpression ==
  \A k, l, s, w \in Nat : s = 4 + k + l /\ s <= w => k + 3 \in 2..w + 1 /\ k + 3 # w + 1
OBVIOUS

(* Where a chunk is read to, there is something of it left, or it is all in*)
(* hand.                                                                   *)
LEMMA WhereInHand ==
  ASSUME NEW c \in Chunk, Writable(c), NEW p, NEW x, InHand(c, p, x)
  PROVE  /\ p \in 2..Len(Written(c)) + 1
         /\ p = Len(Written(c)) + 1 => x = c
<1>1. ChunkFacts(c) /\ StemSpelt(c) /\ SignedSpelt(c)
  BY ChunkKinds, Stems, Signed
<1>2. /\ Len(Stem(c)) \in Nat /\ Len(Written(c)) \in Nat /\ Len(Stem(c)) >= 1
      /\ Len(Stem(c)) <= Len(Written(c)) /\ Len(Written(c)) <= Len(Stem(c)) + 1
      /\ c.modifier = "single" => Len(Written(c)) = Len(Stem(c))
      /\ c.kind # "unknown" => Len(Stem(c)) >= 2
      /\ Len(c.key) \in Nat /\ Len(c.pattern) \in Nat
  <2>1. /\ Len(Stem(c)) \in Nat \ {0} /\ Len(Written(c)) \in Nat
        /\ Len(c.key) \in Nat /\ Len(c.pattern) \in Nat
    BY <1>1 DEF ChunkFacts, StemSpelt, SignedSpelt
  <2>2. Len(Written(c)) = Len(Stem(c)) \/ Len(Written(c)) = Len(Stem(c)) + 1
    BY <1>1 DEF SignedSpelt
  <2>3. c.modifier = "single" => Len(Written(c)) = Len(Stem(c))
    BY <1>1 DEF SignedSpelt
  <2>4. c.kind = "static" => Len(Stem(c)) >= 2
    BY <1>1, <2>1 DEF StemSpelt, ChunkFacts
  <2>5. c.kind = "dynamic" => Len(Stem(c)) >= 2
    BY <1>1, <2>1 DEF StemSpelt
  <2>6. c.kind = "wildcard" => Len(Stem(c)) >= 2
    BY <1>1, <2>1 DEF StemSpelt
  <2>7. c.kind \in Kinds
    BY <1>1 DEF ChunkFacts
  <2> QED
    BY <2>1, <2>2, <2>3, <2>4, <2>5, <2>6, <2>7 DEF Kinds
<1>3. CASE Begun(p, x)
  <2>1. p = 2 /\ x = Blank
    BY <1>3 DEF Begun
  <2>2. c.kind = "unknown" => c = Blank
    BY <1>1 DEF ChunkFacts
  <2> QED
    BY <1>2, <2>1, <2>2
<1>4. CASE InStatic(c, p, x)
  <2>1. p \in 2..Len(c.pattern) + 1 /\ Len(Stem(c)) = 1 + Len(c.pattern)
    BY <1>1, <1>4 DEF InStatic, StemSpelt
  <2> QED
    BY <1>2, <2>1
<1>5. CASE InName(c, p, x)
  <2>1. p \in 3..Len(c.key) + 2 /\ Len(Stem(c)) >= 2 + Len(c.key)
    BY <1>1, <1>5 DEF InName, StemSpelt
  <2> QED
    BY <1>2, <2>1
<1>6. CASE AtOpening(c, p, x)
  <2>1. CASE c.kind = "dynamic"
    <3>1. p = Len(c.key) + 3 /\ Len(Stem(c)) = 4 + Len(c.key) + Len(c.pattern)
      BY <1>1, <1>6, <2>1 DEF AtOpening, StemSpelt
    <3>2. p \in 2..Len(Written(c)) + 1 /\ p # Len(Written(c)) + 1
      BY <1>2, <3>1, BeforeSubexpression
    <3> QED
      BY <3>2, Zenon
  <2>2. CASE c.kind = "wildcard"
    <3>1. p = 2 /\ Len(Stem(c)) = 3 + Len(c.pattern)
      BY <1>1, <1>6, <2>2 DEF AtOpening, StemSpelt
    <3> QED
      BY <1>2, <3>1
  <2> QED
    BY <1>6, <2>1, <2>2 DEF AtOpening
<1>7. CASE AtSign(c, p, x)
  <2>1. p = Len(Stem(c)) + 1 /\ x = Unsigned(c) /\ c.kind # "unknown"
    BY <1>7 DEF AtSign
  <2>2. p = Len(Written(c)) + 1 => c.modifier = "single"
    <3>1. c.modifier # "single" => Len(Written(c)) = Len(Stem(c)) + 1
      BY <1>1 DEF SignedSpelt
    <3>2. Len(Written(c)) = Len(Stem(c)) + 1 => p # Len(Written(c)) + 1
      BY <1>2, <2>1
    <3> QED
      BY <3>1, <3>2, Zenon
  <2>3. c.modifier = "single" => c = Unsigned(c)
    BY <1>1 DEF ChunkFacts
  <2> QED
    BY <1>2, <2>1, <2>2, <2>3
<1>8. CASE AtEnd(c, p, x)
  BY <1>2, <1>8 DEF AtEnd
<1> QED
  BY <1>3, <1>4, <1>5, <1>6, <1>7, <1>8 DEF InHand

(* The rune that comes next, in each of these places                       *)
LEMMA BegunReads ==
  ASSUME NEW c \in Chunk, Writable(c), c.kind # "unknown"
  PROVE  /\ c.kind = "dynamic" => Written(c)[2] = ":"
         /\ c.kind = "wildcard" => Written(c)[2] = IF c.pattern = <<>> THEN "*" ELSE "("
         /\ c.kind = "static" => Written(c)[2] \notin {"/", ":", "(", "*"}
<1>1. ChunkFacts(c) /\ StemSpelt(c) /\ SignedSpelt(c)
  BY ChunkKinds, Stems, Signed
<1>2. Len(Stem(c)) \in Nat /\ \A j \in 1..Len(Stem(c)) : Written(c)[j] = Stem(c)[j]
  BY <1>1 DEF SignedSpelt, StemSpelt
<1>3. Len(c.key) \in Nat /\ Len(c.pattern) \in Nat
  BY <1>1 DEF ChunkFacts
<1>4. CASE c.kind = "dynamic"
  <2>1. Stem(c)[2] = ":" /\ Len(Stem(c)) >= 2 + Len(c.key)
    BY <1>1, <1>4 DEF StemSpelt
  <2> QED
    BY <1>2, <1>3, <1>4, <2>1
<1>5. CASE c.kind = "wildcard"
  <2>1. Stem(c)[2] = IF c.pattern = <<>> THEN "*" ELSE "("
    BY <1>1, <1>5 DEF StemSpelt
  <2>2. c.pattern = <<>> => Len(Stem(c)) = 2
    BY <1>1, <1>5 DEF StemSpelt
  <2>3. c.pattern # <<>> => Len(Stem(c)) = 3 + Len(c.pattern)
    BY <1>1, <1>5, Zenon DEF StemSpelt
  <2>4. 2 \in 1..Len(Stem(c))
    <3>1. c.pattern = <<>> => 2 \in 1..Len(Stem(c))
      <4>1. 2 \in 1..2
        OBVIOUS
      <4> QED
        BY <2>2, <4>1, Zenon
    <3>2. 2 \in 1..3 + Len(c.pattern)
      BY <1>3
    <3> QED
      BY <2>3, <3>1, <3>2, Zenon
  <2> QED
    BY <1>2, <1>5, <2>1, <2>4
<1>6. CASE c.kind = "static"
  <2>1. Stem(c)[1 + 1] = c.pattern[1] /\ Len(Stem(c)) >= 2
    BY <1>1, <1>3, <1>6 DEF StemSpelt, ChunkFacts
  <2>2. c.pattern[1] \notin {"/", ":", "(", "*"}
    BY <1>1, <1>3, <1>6 DEF ChunkFacts
  <2> QED
    BY <1>2, <1>6, <2>1, <2>2
<1> QED
  BY <1>4, <1>5, <1>6

LEMMA StaticReads ==
  ASSUME NEW c \in Chunk, Writable(c), NEW p, NEW x, InStatic(c, p, x)
  PROVE  /\ p \in 2..Len(Written(c)) /\ Len(Stem(c)) = 1 + Len(c.pattern)
         /\ p - 1 \in 1..Len(c.pattern) /\ Written(c)[p] = c.pattern[p - 1]
         /\ Written(c)[p] \notin {"/", "("}
         /\ ~(Written(c)[p] \in Signs /\ Ends(Written(c), p))
<1>1. ChunkFacts(c) /\ StemSpelt(c) /\ SignedSpelt(c)
  BY ChunkKinds, Stems, Signed
<1>2. c.kind = "static" /\ p \in 2..Len(c.pattern) + 1
  BY DEF InStatic
<1>3. /\ \A j \in 1..Len(Stem(c)) : Written(c)[j] = Stem(c)[j]
      /\ Len(Stem(c)) = 1 + Len(c.pattern) /\ Len(c.pattern) \in Nat
      /\ \A j \in 1..Len(c.pattern) : Stem(c)[1 + j] = c.pattern[j]
      /\ \A j \in 1..Len(c.pattern) : c.pattern[j] \notin {"/", "("}
  BY <1>1, <1>2 DEF SignedSpelt, StemSpelt, ChunkFacts
<1>4. /\ Len(Written(c)) \in Nat
      /\ Len(Written(c)) = Len(Stem(c)) \/ Len(Written(c)) = Len(Stem(c)) + 1
  BY <1>1 DEF SignedSpelt
<1>5. ASSUME NEW q \in 2..Len(c.pattern) + 1
      PROVE  /\ q \in 2..Len(Written(c)) /\ q - 1 \in 1..Len(c.pattern)
             /\ Written(c)[q] = c.pattern[q - 1]
  <2>1. q - 1 \in 1..Len(c.pattern) /\ 1 + (q - 1) = q /\ q \in 1..Len(Stem(c))
    BY <1>3
  <2>2. q \in 2..Len(Written(c))
    BY <1>3, <1>4
  <2> QED
    BY <1>3, <2>1, <2>2
<1>6. Written(c)[p] \notin {"/", "("}
  BY <1>2, <1>3, <1>5
<1>7. ASSUME Written(c)[p] \in Signs, Ends(Written(c), p) PROVE FALSE
  <2>1. CASE p = Len(c.pattern) + 1
    <3>1. c.modifier # "single"
      <4>1. p - 1 = Len(c.pattern)
        BY <1>2, <1>3, <2>1
      <4>2. Written(c)[p] = c.pattern[Len(c.pattern)]
        BY <1>2, <1>5, <4>1
      <4> QED
        BY <1>1, <1>2, <1>7, <4>2 DEF ChunkFacts
    <3>2. Len(Written(c)) = p + 1 /\ p \in Nat /\ Written(c)[p + 1] \in Signs
      <4>1. Len(Written(c)) = Len(Stem(c)) + 1 /\ Written(c)[Len(Stem(c)) + 1] \in Signs
        BY <1>1, <3>1 DEF SignedSpelt
      <4>2. Len(Stem(c)) = p
        BY <1>3, <2>1
      <4> QED
        BY <1>2, <1>3, <4>1, <4>2
    <3>3. Written(c)[p + 1] = "/"
      BY <1>7, <3>2 DEF Ends
    <3> QED
      BY <3>2, <3>3 DEF Signs
  <2>2. CASE p # Len(c.pattern) + 1
    <3>1. p + 1 \in 2..Len(c.pattern) + 1
      BY <1>2, <1>3, <2>2
    <3>2. p + 1 \in 2..Len(Written(c)) /\ Written(c)[p + 1] # "/"
      BY <1>3, <1>5, <3>1
    <3>3. p < Len(Written(c))
      BY <1>2, <1>3, <1>4, <3>2
    <3> QED
      BY <1>7, <3>2, <3>3 DEF Ends
  <2> QED
    BY <2>1, <2>2
<1> QED
  BY <1>2, <1>3, <1>5, <1>6, <1>7

LEMMA NameReads ==
  ASSUME NEW c \in Chunk, Writable(c), NEW p, NEW x, InName(c, p, x)
  PROVE  /\ p \in 2..Len(Written(c)) /\ p - 2 \in 1..Len(c.key)
         /\ Written(c)[p] = c.key[p - 2] /\ Written(c)[p] \in Letters
<1>1. ChunkFacts(c) /\ StemSpelt(c) /\ SignedSpelt(c)
  BY ChunkKinds, Stems, Signed
<1>2. c.kind = "dynamic" /\ p \in 3..Len(c.key) + 2
  BY DEF InName
<1>3. /\ \A j \in 1..Len(Stem(c)) : Written(c)[j] = Stem(c)[j]
      /\ Len(Stem(c)) >= 2 + Len(c.key) /\ Len(c.key) \in Nat /\ Len(Stem(c)) \in Nat
      /\ \A j \in 1..Len(c.key) : Stem(c)[2 + j] = c.key[j]
      /\ \A j \in 1..Len(c.key) : c.key[j] \in Letters
  BY <1>1, <1>2 DEF SignedSpelt, StemSpelt, ChunkFacts
<1>4. /\ Len(Written(c)) \in Nat
      /\ Len(Written(c)) = Len(Stem(c)) \/ Len(Written(c)) = Len(Stem(c)) + 1
  BY <1>1 DEF SignedSpelt
<1>5. p - 2 \in 1..Len(c.key) /\ 2 + (p - 2) = p /\ p \in 1..Len(Stem(c))
  BY <1>2, <1>3
<1>6. p \in 2..Len(Written(c))
  BY <1>2, <1>3, <1>4, <1>5
<1>7. Written(c)[p] = c.key[p - 2]
  BY <1>3, <1>5
<1> QED
  BY <1>3, <1>5, <1>6, <1>7

LEMMA SubexpressionWithin ==
  \A p, l, s, w \in Nat :
     p >= 2 /\ s = p + 1 + l /\ (w = s \/ w = s + 1) =>
        /\ p \in 1..s /\ p + 1 + l \in 1..s /\ p \in 2..w /\ s <= w
        /\ \A j \in 1..l : p + j \in 1..s
OBVIOUS

Encloses(c, p) ==
    /\ p \in 2..Len(Written(c)) /\ Written(c)[p] = "("
    /\ p + 1 + Len(c.pattern) = Len(Stem(c)) /\ Len(Stem(c)) <= Len(Written(c))
    /\ \A j \in 1..Len(c.pattern) : Written(c)[p + j] = c.pattern[j]
    /\ Written(c)[p + 1 + Len(c.pattern)] = ")"

LEMMA OpeningReads ==
  ASSUME NEW c \in Chunk, Writable(c), NEW p, NEW x, AtOpening(c, p, x)
  PROVE  Encloses(c, p)
<1> USE DEF Encloses
<1>1. ChunkFacts(c) /\ StemSpelt(c) /\ SignedSpelt(c)
  BY ChunkKinds, Stems, Signed
<1>2. PICK l \in Nat : l = Len(c.pattern)
  BY <1>1 DEF ChunkFacts
<1>3. /\ p \in Nat /\ p >= 2 /\ Len(Stem(c)) = p + 1 + l
      /\ Stem(c)[p] = "(" /\ Stem(c)[p + 1 + l] = ")"
      /\ \A j \in 1..l : Stem(c)[p + j] = c.pattern[j]
  <2>1. CASE c.kind = "wildcard"
    <3>1. p = 2 /\ c.pattern # <<>>
      BY <2>1 DEF AtOpening
    <3>2. /\ Len(Stem(c)) = 3 + l /\ Stem(c)[2] = "(" /\ Stem(c)[3 + l] = ")"
          /\ \A j \in 1..l : Stem(c)[2 + j] = c.pattern[j]
      BY <1>1, <1>2, <2>1, <3>1 DEF StemSpelt
    <3>3. 2 + 1 + l = 3 + l
      OBVIOUS
    <3> QED
      BY <3>1, <3>2, <3>3
  <2>2. CASE c.kind = "dynamic"
    <3>1. PICK k \in Nat : k = Len(c.key)
      BY <1>1 DEF ChunkFacts
    <3>2. p = k + 3 /\ c.pattern # <<>>
      BY <2>2, <3>1 DEF AtOpening
    <3>3. /\ Len(Stem(c)) = 4 + k + l /\ Stem(c)[3 + k] = "(" /\ Stem(c)[4 + k + l] = ")"
          /\ \A j \in 1..l : Stem(c)[3 + k + j] = c.pattern[j]
      BY <1>1, <1>2, <2>2, <3>1, <3>2, Zenon DEF StemSpelt
    <3>4. p = 3 + k /\ p + 1 + l = 4 + k + l
      BY <3>2
    <3> QED
      BY <3>3, <3>4
  <2> QED
    BY <2>1, <2>2 DEF AtOpening
<1>4. /\ \A j \in 1..Len(Stem(c)) : Written(c)[j] = Stem(c)[j]
      /\ Len(Written(c)) \in Nat
      /\ Len(Written(c)) = Len(Stem(c)) \/ Len(Written(c)) = Len(Stem(c)) + 1
  BY <1>1 DEF SignedSpelt
<1>5. /\ p \in 1..Len(Stem(c)) /\ p + 1 + l \in 1..Len(Stem(c))
      /\ p \in 2..Len(Written(c)) /\ Len(Stem(c)) <= Len(Written(c))
      /\ \A j \in 1..l : p + j \in 1..Len(Stem(c))
  <2>1. Len(Stem(c)) \in Nat
    BY <1>1 DEF StemSpelt
  <2> QED
    BY <1>2, <1>3, <1>4, <2>1, SubexpressionWithin
<1> QED
  BY <1>2, <1>3, <1>4, <1>5

LEMMA SignReads ==
  ASSUME NEW c \in Chunk, Writable(c), NEW p, NEW x, AtSign(c, p, x), p <= Len(Written(c))
  PROVE  /\ p \in 2..Len(Written(c)) /\ p = Len(Written(c)) /\ c.modifier # "single"
         /\ Written(c)[p] \in Signs
         /\ c.modifier = "optional" <=> Written(c)[p] = "?"
         /\ c.modifier = "oneOrMore" <=> Written(c)[p] = "+"
         /\ c.modifier = "zeroOrMore" <=> Written(c)[p] = "*"
<1>1. SignedSpelt(c)
  BY Signed
<1>2. p = Len(Stem(c)) + 1
  BY DEF AtSign
<1>3. p \in 2..Len(Written(c)) + 1
  BY WhereInHand DEF InHand
<1>4. Len(Written(c)) \in Nat
  BY <1>1 DEF SignedSpelt
<1>5. c.modifier # "single" /\ p = Len(Written(c))
  <2>1. c.modifier = "single" => Len(Written(c)) = Len(Stem(c))
    BY <1>1 DEF SignedSpelt
  <2>2. Len(Written(c)) # Len(Stem(c))
    BY <1>2, <1>3, <1>4
  <2>3. c.modifier # "single" => Len(Written(c)) = Len(Stem(c)) + 1
    BY <1>1 DEF SignedSpelt
  <2> QED
    BY <1>2, <2>1, <2>2, <2>3
<1>6. p \in 2..Len(Written(c))
  BY <1>3, <1>4, <1>5
<1> QED
  BY <1>1, <1>2, <1>5, <1>6 DEF SignedSpelt

(* What the rune in hand tells                                             *)
LEMMA Places ==
  ASSUME NEW c \in Chunk, Writable(c), NEW p, NEW x, InHand(c, p, x), p <= Len(Written(c))
  PROVE  /\ Begun(p, x) \/ InStatic(c, p, x) \/ InName(c, p, x) \/ AtOpening(c, p, x)
            \/ AtSign(c, p, x)
         /\ Begun(p, x) => c.kind # "unknown"
         /\ Begun(p, x) <=> x.kind = "unknown"
         /\ Written(c)[p] # "/"
<1>1. Len(Written(c)) \in Nat /\ SignedSpelt(c) /\ StemSpelt(c) /\ ChunkFacts(c)
  BY Signed, Stems, ChunkKinds DEF SignedSpelt
<1>2. Begun(p, x) \/ InStatic(c, p, x) \/ InName(c, p, x) \/ AtOpening(c, p, x) \/ AtSign(c, p, x)
  BY <1>1 DEF InHand, AtEnd
<1>3. Begun(p, x) => c.kind # "unknown"
  <2>1. c.kind = "unknown" => Len(Written(c)) = 1
    <3>1. c.kind = "unknown" => c.modifier = "single" /\ Len(Stem(c)) = 1
      BY <1>1 DEF ChunkFacts, StemSpelt
    <3>2. c.modifier = "single" => Len(Written(c)) = Len(Stem(c))
      BY <1>1 DEF SignedSpelt
    <3> QED
      BY <3>1, <3>2
  <2>2. Begun(p, x) => Len(Written(c)) # 1
    <3>1. \A w \in Nat : p = 2 /\ p <= w => w # 1
      OBVIOUS
    <3>2. Len(Written(c)) \in Nat /\ p <= Len(Written(c))
      BY <1>1
    <3> QED
      BY <3>1, <3>2, Zenon DEF Begun
  <2> QED
    BY <2>1, <2>2, Zenon
<1>4. Begun(p, x) => x.kind = "unknown"
  BY DEF Begun, Blank
<1>5. InStatic(c, p, x) \/ InName(c, p, x) => x.kind # "unknown"
  BY DEF InStatic, InName, Static, Named, Before
<1>6. AtOpening(c, p, x) \/ AtSign(c, p, x) => x.kind # "unknown"
  BY DEF AtOpening, AtSign, Opening, Unsigned, Before
<1>7. Written(c)[p] # "/"
  <2>1. Begun(p, x) => Written(c)[p] # "/"
    <3>1. ASSUME Begun(p, x) PROVE Written(c)[2] # "/" /\ p = 2
      <4>1. c.kind \in Kinds /\ c.kind # "unknown"
        BY <1>1, <1>3, <3>1 DEF ChunkFacts
      <4>2. Written(c)[2] # "/"
        BY <4>1, BegunReads DEF Kinds
      <4> QED
        BY <3>1, <4>2 DEF Begun
    <3> QED
      BY <3>1
  <2>2. InStatic(c, p, x) => Written(c)[p] # "/"
    BY StaticReads
  <2>3. InName(c, p, x) => Written(c)[p] # "/"
    <3>1. "/" \notin Letters
      BY ParserAssumption DEF Marks
    <3> QED
      BY <3>1, NameReads
  <2>4. AtOpening(c, p, x) => Written(c)[p] # "/"
    BY OpeningReads DEF Encloses
  <2>5. AtSign(c, p, x) => Written(c)[p] # "/"
    <3>1. "/" \notin Signs
      BY DEF Signs
    <3> QED
      BY <3>1, SignReads
  <2> QED
    BY <1>2, <2>1, <2>2, <2>3, <2>4, <2>5, Zenon
<1> QED
  BY <1>2, <1>3, <1>4, <1>5, <1>6, <1>7, Zenon

(* The first rune after the slash tells the kind.                          *)
Begin(x, r) == [x EXCEPT !.kind = CASE r = ":" -> "dynamic"
                                    [] r \in {"*", "("} -> "wildcard"
                                    [] OTHER -> "static"]

LEMMA FirstRune ==
  ASSUME NEW c \in Chunk, Writable(c), NEW p, NEW x, InHand(c, p, x), p <= Len(Written(c)),
         x.kind = "unknown"
  PROVE  InHand(c, IF Written(c)[p] \in {":", "*"} THEN p + 1 ELSE p, Begin(x, Written(c)[p]))
<1>1. p = 2 /\ x = Blank /\ c.kind \in Kinds /\ c.kind # "unknown" /\ ChunkFacts(c) /\ StemSpelt(c)
  BY Places, ChunkKinds, Stems DEF Begun, ChunkFacts
<1>2. ASSUME NEW kind PROVE [Blank EXCEPT !.kind = kind] = Before(kind, <<>>, <<>>)
  BY DEF Blank, Before
<1>3. CASE c.kind = "static"
  <2>1. Written(c)[2] \notin {":", "(", "*"}
    BY <1>3, BegunReads
  <2>2. Begin(x, Written(c)[p]) = Before("static", <<>>, <<>>)
    BY <1>1, <1>2, <2>1 DEF Begin
  <2>3. InStatic(c, 2, Before("static", <<>>, <<>>))
    <3>1. 2 \in 2..Len(c.pattern) + 1 /\ 2 - 2 = 0
      BY <1>1, <1>3 DEF ChunkFacts
    <3>2. SubSeq(c.pattern, 1, 0) = <<>>
      OBVIOUS
    <3> QED
      BY <1>3, <3>1, <3>2 DEF InStatic, Static
  <2> QED
    BY <1>1, <2>1, <2>2, <2>3 DEF InHand
<1>4. CASE c.kind = "dynamic"
  <2>1. Written(c)[2] = ":"
    BY <1>4, BegunReads
  <2>2. Begin(x, Written(c)[p]) = Before("dynamic", <<>>, <<>>)
    BY <1>1, <1>2, <2>1 DEF Begin
  <2>3. InName(c, 3, Before("dynamic", <<>>, <<>>))
    <3>1. 3 \in 3..Len(c.key) + 2 /\ 3 - 3 = 0
      BY <1>1, <1>4 DEF ChunkFacts
    <3>2. SubSeq(c.key, 1, 0) = <<>>
      OBVIOUS
    <3> QED
      BY <1>4, <3>1, <3>2 DEF InName, Named
  <2>4. 2 + 1 = 3
    OBVIOUS
  <2> QED
    BY <1>1, <2>1, <2>2, <2>3, <2>4 DEF InHand
<1>5. CASE c.kind = "wildcard"
  <2>1. c.key = <<>>
    BY <1>1, <1>5 DEF ChunkFacts
  <2>2. CASE c.pattern = <<>>
    <3>1. Written(c)[2] = "*" /\ Len(Stem(c)) = 2
      BY <1>1, <1>5, <2>2, BegunReads DEF StemSpelt
    <3>2. Begin(x, Written(c)[p]) = Before("wildcard", <<>>, <<>>)
      BY <1>1, <1>2, <3>1 DEF Begin
    <3>3. AtSign(c, 3, Before("wildcard", <<>>, <<>>))
      BY <1>5, <2>1, <2>2, <3>1 DEF AtSign, Unsigned
    <3>4. 2 + 1 = 3
      OBVIOUS
    <3> QED
      BY <1>1, <3>1, <3>2, <3>3, <3>4 DEF InHand
  <2>3. CASE c.pattern # <<>>
    <3>1. Written(c)[2] = "("
      BY <1>5, <2>3, BegunReads
    <3>2. Begin(x, Written(c)[p]) = Before("wildcard", <<>>, <<>>)
      BY <1>1, <1>2, <3>1 DEF Begin
    <3>3. AtOpening(c, 2, Before("wildcard", <<>>, <<>>))
      BY <1>5, <2>1, <2>3 DEF AtOpening, Opening
    <3> QED
      BY <1>1, <3>1, <3>2, <3>3 DEF InHand
  <2> QED
    BY <2>2, <2>3
<1> QED
  BY <1>1, <1>3, <1>4, <1>5 DEF Kinds

(* A parenthesis opens a sub-expression where one may be.                  *)
LEMMA OpeningRune ==
  ASSUME NEW c \in Chunk, Writable(c), NEW p, NEW x, InHand(c, p, x), p <= Len(Written(c)),
         x.kind # "unknown", Written(c)[p] = "("
  PROVE  AtOpening(c, p, x)
<1>1. "(" \notin Signs /\ "(" \notin Letters
  BY ParserAssumption DEF Signs, Marks
<1>2. ~InStatic(c, p, x)
  BY StaticReads
<1>3. ~InName(c, p, x)
  BY <1>1, NameReads
<1>4. ~AtSign(c, p, x)
  BY <1>1, SignReads
<1> QED
  BY <1>2, <1>3, <1>4, Places

LEMMA SubexpressionRead ==
  ASSUME NEW c \in Chunk, Writable(c), NEW p, NEW x, AtOpening(c, p, x)
  PROVE  /\ x \in Chunk /\ x.pattern = <<>> /\ ~(x.kind = "dynamic" /\ x.key = <<>>)
         /\ InHand(c, p + 2 + Len(c.pattern), [x EXCEPT !.pattern = c.pattern])
<1>1. ChunkFacts(c) /\ x = Opening(c)
  BY ChunkKinds DEF AtOpening
<1>2. x.pattern = <<>> /\ x.kind = c.kind /\ x.key = c.key
  BY <1>1 DEF Opening, Before
<1>3. x \in Chunk
  BY <1>1 DEF Opening, Before, Chunk, ChunkFacts, Modifiers
<1>4. ~(x.kind = "dynamic" /\ x.key = <<>>)
  BY <1>1, <1>2 DEF ChunkFacts
<1>5. [x EXCEPT !.pattern = c.pattern] = Unsigned(c)
  BY <1>1 DEF Opening, Unsigned, Before
<1>6. p + 2 + Len(c.pattern) = Len(Stem(c)) + 1
  <2>1. PICK l \in Nat : l = Len(c.pattern)
    BY <1>1 DEF ChunkFacts
  <2>2. p \in Nat /\ p + 1 + l = Len(Stem(c))
    BY <2>1, OpeningReads DEF Encloses
  <2>3. p + 2 + l = (p + 1 + l) + 1
    BY <2>2
  <2> QED
    BY <2>1, <2>2, <2>3
<1>7. AtSign(c, p + 2 + Len(c.pattern), Unsigned(c))
  BY <1>6 DEF AtSign, AtOpening
<1> QED
  BY <1>2, <1>3, <1>4, <1>5, <1>7 DEF InHand

(* A sign at the end of a chunk is its modifier.                           *)
Modified(x, r) == [x EXCEPT !.modifier = CASE r = "?" -> "optional"
                                           [] r = "+" -> "oneOrMore"
                                           [] r = "*" -> "zeroOrMore"]

LEMMA SignRead ==
  ASSUME NEW c \in Chunk, Writable(c), NEW p, NEW x, InHand(c, p, x), p <= Len(Written(c)),
         x.kind # "unknown", Written(c)[p] \in Signs, Ends(Written(c), p)
  PROVE  InHand(c, p + 1, Modified(x, Written(c)[p]))
<1>1. "(" \notin Signs /\ Letters \cap Signs = {}
  BY ParserAssumption DEF Signs
<1>2. ~InStatic(c, p, x)
  BY StaticReads
<1>3. ~InName(c, p, x)
  BY <1>1, NameReads
<1>4. ~AtOpening(c, p, x)
  BY <1>1, OpeningReads DEF Encloses
<1>5. AtSign(c, p, x)
  BY <1>2, <1>3, <1>4, Places
<1>6. Modified(x, Written(c)[p]) = [x EXCEPT !.modifier = c.modifier]
  <2>1. /\ c.modifier = "optional" <=> Written(c)[p] = "?"
        /\ c.modifier = "oneOrMore" <=> Written(c)[p] = "+"
        /\ c.modifier = "zeroOrMore" <=> Written(c)[p] = "*"
    BY <1>5, SignReads
  <2> QED
    BY <2>1 DEF Modified, Signs
<1>7. [x EXCEPT !.modifier = c.modifier] = c
  BY <1>5 DEF AtSign, Unsigned, Before, Chunk
<1>8. p + 1 = Len(Written(c)) + 1
  BY <1>5, SignReads
<1> QED
  BY <1>6, <1>7, <1>8 DEF InHand, AtEnd

(* All else is part of a name or of a static chunk.                        *)
Longer(x, r) == CASE x.kind = "dynamic"  -> [x EXCEPT !.key = Append(@, r)]
                  [] x.kind = "static"   -> [x EXCEPT !.pattern = Append(@, r)]
                  [] x.kind = "wildcard" -> x

LEMMA OneMore ==
  ASSUME NEW R, NEW s \in Seq(R), NEW n \in Nat, n + 1 \in 1..Len(s)
  PROVE  /\ Append(SubSeq(s, 1, n), s[n + 1]) = SubSeq(s, 1, n + 1)
         /\ n + 1 = Len(s) => SubSeq(s, 1, n + 1) = s
OBVIOUS

LEMMA CharacterRead ==
  ASSUME NEW c \in Chunk, Writable(c), NEW p, NEW x, InHand(c, p, x), p <= Len(Written(c)),
         x.kind # "unknown", Written(c)[p] # "(",
         ~(Written(c)[p] \in Signs /\ Ends(Written(c), p))
  PROVE  InHand(c, p + 1, Longer(x, Written(c)[p]))
<1>1. ChunkFacts(c) /\ StemSpelt(c)
  BY ChunkKinds, Stems
<1>2. ~AtOpening(c, p, x)
  BY OpeningReads DEF Encloses
<1>3. ~AtSign(c, p, x)
  <2>1. SUFFICES ASSUME AtSign(c, p, x) PROVE FALSE
    OBVIOUS
  <2>2. p = Len(Written(c)) /\ Written(c)[p] \in Signs
    BY <2>1, SignReads
  <2>3. Len(Written(c)) \in Nat
    BY Signed DEF SignedSpelt
  <2> QED
    BY <2>2, <2>3 DEF Ends
<1>4. CASE InStatic(c, p, x)
  <2>1. /\ p \in 2..Len(c.pattern) + 1 /\ Len(Stem(c)) = 1 + Len(c.pattern)
        /\ Written(c)[p] = c.pattern[p - 1] /\ Len(c.pattern) \in Nat /\ c.pattern \in Seq(Runes)
    BY <1>1, <1>4, StaticReads DEF InStatic, ChunkFacts
  <2>2. PICK n \in Nat : n = p - 2
    BY <2>1
  <2>3. n + 1 = p - 1 /\ n + 1 \in 1..Len(c.pattern) /\ (p + 1) - 2 = n + 1
    BY <2>1, <2>2
  <2>4. x = Static(c, n)
    BY <1>4, <2>2 DEF InStatic
  <2>5. Longer(x, Written(c)[p]) = [x EXCEPT !.pattern = Append(@, c.pattern[n + 1])]
    BY <2>1, <2>3, <2>4 DEF Longer, Static, Before
  <2>6. Append(SubSeq(c.pattern, 1, n), c.pattern[n + 1]) = SubSeq(c.pattern, 1, n + 1)
    BY <2>1, <2>3, OneMore
  <2>7. Longer(x, Written(c)[p]) = Static(c, n + 1)
    BY <2>4, <2>5, <2>6 DEF Static, Before
  <2>8. CASE n + 1 = Len(c.pattern)
    <3>1. SubSeq(c.pattern, 1, n + 1) = c.pattern
      BY <2>1, <2>3, <2>8, OneMore
    <3>2. c.key = <<>> /\ c.kind = "static"
      BY <1>1, <1>4 DEF InStatic, ChunkFacts
    <3>3. Static(c, n + 1) = Unsigned(c)
      BY <3>1, <3>2 DEF Static, Unsigned
    <3>4. p + 1 = Len(Stem(c)) + 1
      BY <2>1, <2>2, <2>8
    <3> QED
      BY <2>7, <3>2, <3>3, <3>4 DEF InHand, AtSign
  <2>9. CASE n + 1 # Len(c.pattern)
    <3>1. p + 1 \in 2..Len(c.pattern) + 1
      BY <2>1, <2>2, <2>9
    <3> QED
      BY <1>4, <2>3, <2>7, <3>1 DEF InHand, InStatic
  <2> QED
    BY <2>8, <2>9
<1>5. CASE InName(c, p, x)
  <2>1. /\ p \in 3..Len(c.key) + 2 /\ c.kind = "dynamic"
        /\ Written(c)[p] = c.key[p - 2] /\ Len(c.key) \in Nat /\ c.key \in Seq(Runes)
    BY <1>1, <1>5, NameReads DEF InName, ChunkFacts
  <2>2. PICK n \in Nat : n = p - 3
    BY <2>1
  <2>3. n + 1 = p - 2 /\ n + 1 \in 1..Len(c.key) /\ (p + 1) - 3 = n + 1
    BY <2>1, <2>2
  <2>4. x = Named(c, n)
    BY <1>5, <2>2 DEF InName
  <2>5. Longer(x, Written(c)[p]) = [x EXCEPT !.key = Append(@, c.key[n + 1])]
    BY <2>1, <2>3, <2>4 DEF Longer, Named, Before
  <2>6. Append(SubSeq(c.key, 1, n), c.key[n + 1]) = SubSeq(c.key, 1, n + 1)
    BY <2>1, <2>3, OneMore
  <2>7. Longer(x, Written(c)[p]) = Named(c, n + 1)
    BY <2>4, <2>5, <2>6 DEF Named, Before
  <2>8. CASE n + 1 = Len(c.key)
    <3>1. SubSeq(c.key, 1, n + 1) = c.key
      BY <2>1, <2>3, <2>8, OneMore
    <3>2. p + 1 = Len(c.key) + 3
      BY <2>1, <2>2, <2>8
    <3>3. CASE c.pattern = <<>>
      <4>1. Len(Stem(c)) = 2 + Len(c.key)
        BY <1>1, <2>1, <3>3 DEF StemSpelt
      <4>2. p + 1 = Len(Stem(c)) + 1
        BY <2>1, <3>2, <4>1
      <4>3. Named(c, n + 1) = Unsigned(c)
        BY <2>1, <3>1, <3>3 DEF Named, Unsigned
      <4> QED
        BY <2>1, <2>7, <4>2, <4>3 DEF InHand, AtSign
    <3>4. CASE c.pattern # <<>>
      <4>1. Named(c, n + 1) = Opening(c)
        BY <2>1, <3>1 DEF Named, Opening
      <4> QED
        BY <2>1, <2>7, <3>2, <3>4, <4>1 DEF InHand, AtOpening
    <3> QED
      BY <3>3, <3>4
  <2>9. CASE n + 1 # Len(c.key)
    <3>1. p + 1 \in 3..Len(c.key) + 2
      BY <2>1, <2>2, <2>9
    <3> QED
      BY <2>1, <2>3, <2>7, <3>1 DEF InHand, InName
  <2> QED
    BY <2>8, <2>9
<1>6. ~Begun(p, x)
  BY Places
<1> QED
  BY <1>2, <1>3, <1>4, <1>5, <1>6, Places

-----------------------------------------------------------------------------
(* The rune at pos and the chunk that it is in                             *)

Rising(n, off) ==
    \A k \in 0..n : \A i \in 0..k : off[i] <= off[k] /\ (off[i] = off[k] => i = k)

LEMMA OffsetsGrow ==
  ASSUME NEW n \in Nat, NEW off \in [0..n -> Nat], NEW len \in [1..n -> Nat \ {0}],
         \A i \in 1..n : off[i] = off[i - 1] + len[i]
  PROVE  Rising(n, off)
<1> USE DEF Rising
<1> DEFINE S == {k \in 0..n : \A i \in 0..k : off[i] <= off[k] /\ (off[i] = off[k] => i = k)}
<1>1. 0 \in S
  OBVIOUS
<1>2. ASSUME NEW k \in 1..n, k - 1 \in S PROVE k \in S
  <2>1. k - 1 \in 0..n /\ off[k - 1] \in Nat /\ len[k] \in Nat \ {0} /\ off[k] = off[k - 1] + len[k]
    OBVIOUS
  <2>2. off[k] \in Nat /\ off[k - 1] < off[k]
    BY <2>1
  <2>3. ASSUME NEW i \in 0..k PROVE off[i] <= off[k] /\ (off[i] = off[k] => i = k)
    <3>1. CASE i = k
      BY <2>2, <3>1
    <3>2. CASE i # k
      <4>1. i \in 0..k - 1 /\ i \in 0..n
        BY <3>2
      <4>2. off[i] \in Nat /\ off[i] <= off[k - 1]
        BY <1>2, <4>1
      <4> QED
        BY <2>1, <2>2, <4>2
    <3> QED
      BY <3>1, <3>2
  <2> QED
    BY <2>3
<1>3. \A k \in 0..n : k \in S
  <2> HIDE DEF S
  <2> QED
    BY <1>1, <1>2, UpTo
<1> QED
  BY <1>3

(* The documents, laid out: what is where                                  *)
Laid(d, t, off, i) ==
    /\ d[i] \in Chunk /\ Writable(d[i])
    /\ off[i - 1] \in Nat /\ off[i] \in Nat /\ Len(Written(d[i])) \in Nat \ {0}
    /\ off[i] = off[i - 1] + Len(Written(d[i])) /\ off[i] <= Len(t)
    /\ off[i] = Len(t) <=> i = Len(d)
    /\ \A j \in 1..Len(Written(d[i])) : t[off[i - 1] + j] = Written(d[i])[j]
    /\ Ends(t, off[i])

LEMMA LaidWhere ==
  ASSUME NEW d \in Seq(Chunk), \A i \in 1..Len(d) : Writable(d[i]), NEW t \in Seq(Runes),
         NEW off \in [0..Len(d) -> Nat], LaidOut(d, t, off), NEW i \in 1..Len(d)
  PROVE  Laid(d, t, off, i)
<1> DEFINE n == Len(d)
           len == [k \in 1..n |-> Len(Written(d[k]))]
<1>1. n \in Nat /\ Len(t) \in Nat /\ d[i] \in Chunk /\ Writable(d[i])
  OBVIOUS
<1>2. ASSUME NEW k \in 1..n
      PROVE  Len(Written(d[k])) \in Nat \ {0} /\ Written(d[k])[1] = "/"
  <2>1. d[k] \in Chunk /\ Writable(d[k])
    OBVIOUS
  <2>2. SignedSpelt(d[k]) /\ StemSpelt(d[k])
    BY <2>1, Signed, Stems
  <2>3. Stem(d[k])[1] = "/" /\ 1 \in 1..Len(Stem(d[k]))
    BY <2>2 DEF StemSpelt
  <2> QED
    BY <2>2, <2>3 DEF SignedSpelt
<1>3. \A k \in 1..n : /\ off[k] = off[k - 1] + Len(Written(d[k]))
                      /\ \A j \in 1..Len(Written(d[k])) : t[off[k - 1] + j] = Written(d[k])[j]
  BY DEF LaidOut
<1>4. Rising(n, off)
  <2>1. len \in [1..n -> Nat \ {0}]
    BY <1>2
  <2>2. \A k \in 1..n : off[k] = off[k - 1] + len[k]
    BY <1>3
  <2>3. off \in [0..n -> Nat] /\ n \in Nat
    BY <1>1
  <2> HIDE DEF len, n
  <2> QED
    BY ONLY <2>1, <2>2, <2>3, OffsetsGrow, Zenon
<1>5. off[n] = Len(t)
  BY DEF LaidOut
<1>6. off[i] <= Len(t) /\ (off[i] = Len(t) <=> i = n)
  <2>1. n \in 0..n /\ i \in 0..n
    BY <1>1
  <2> QED
    BY <1>4, <1>5, <2>1 DEF Rising
<1>7. off[i - 1] \in Nat /\ off[i] \in Nat
  <2>1. i - 1 \in 0..n /\ i \in 0..n
    BY <1>1
  <2> QED
    BY <2>1
<1>8. Ends(t, off[i])
  <2>1. SUFFICES ASSUME off[i] < Len(t) PROVE t[off[i] + 1] = "/"
    BY DEF Ends
  <2>2. i + 1 \in 1..n /\ (i + 1) - 1 = i
    BY <1>1, <1>6, <1>7, <2>1
  <2>3. 1 \in 1..Len(Written(d[i + 1]))
    BY <1>2, <2>2
  <2>4. t[off[(i + 1) - 1] + 1] = Written(d[i + 1])[1]
    BY <1>3, <2>2, <2>3
  <2> QED
    BY <1>2, <2>2, <2>4
<1>9. Len(Written(d[i])) \in Nat \ {0}
  BY <1>2
<1> QED
  BY <1>1, <1>3, <1>6, <1>7, <1>8, <1>9 DEF Laid

LEMMA RuneAt ==
  ASSUME NEW d, NEW t \in Seq(Runes), NEW off, NEW i, Laid(d, t, off, i),
         NEW p \in Int, p >= 1, p <= Len(Written(d[i]))
  PROVE  /\ off[i - 1] + p \in 1..Len(t) /\ t[off[i - 1] + p] = Written(d[i])[p]
         /\ Ends(t, off[i - 1] + p) <=> Ends(Written(d[i]), p)
<1>1. PICK o \in Nat, l \in Nat, m \in Nat :
        o = off[i - 1] /\ l = Len(Written(d[i])) /\ m = Len(t) /\ o + l <= m /\ off[i] = o + l
  <2>1. /\ off[i - 1] \in Nat /\ Len(Written(d[i])) \in Nat
        /\ off[i - 1] + Len(Written(d[i])) <= Len(t) /\ off[i] = off[i - 1] + Len(Written(d[i]))
    BY DEF Laid
  <2>2. Len(t) \in Nat
    OBVIOUS
  <2> QED
    BY ONLY <2>1, <2>2
<1>2. p \in 1..l /\ o + p \in 1..m
  BY <1>1
<1>3. \A j \in 1..l : t[o + j] = Written(d[i])[j]
  BY <1>1 DEF Laid
<1>4. CASE p = l
  <2>1. Ends(t, o + p)
    BY <1>1, <1>4 DEF Laid
  <2>2. Ends(Written(d[i]), p)
    BY <1>1, <1>4 DEF Ends
  <2> QED
    BY <1>1, <1>2, <1>3, <2>1, <2>2
<1>5. CASE p # l
  <2>1. p + 1 \in 1..l /\ o + (p + 1) = (o + p) + 1 /\ p < l /\ o + p < m
    BY <1>1, <1>2, <1>5
  <2>2. t[(o + p) + 1] = Written(d[i])[p + 1]
    BY <1>3, <2>1
  <2> QED
    BY <1>1, <1>2, <1>3, <2>1, <2>2 DEF Ends
<1> QED
  BY <1>4, <1>5

-----------------------------------------------------------------------------
(* What each step finds                                                    *)

LEMMA Documented ==
  ASSUME TypeOK, doc # None
  PROVE  /\ doc \in Seq(Chunk) /\ Len(doc) \in Nat /\ text \in Seq(Runes) /\ Len(text) \in Nat
         /\ pos \in Nat /\ \A i \in 1..Len(doc) : doc[i] \in Chunk /\ Writable(doc[i])
<1>1. doc \in Documents /\ text \in Seq(Runes) /\ pos \in 1..Len(text) + 1
  BY DEF TypeOK
<1>2. doc \in Seq(Chunk) /\ \A i \in DOMAIN doc : Writable(doc[i])
  BY <1>1, ParserAssumption
<1> QED
  BY <1>1, <1>2

LEMMA DocumentLaid ==
  ASSUME TypeOK, doc # None, NEW off \in [0..Len(doc) -> Nat], LaidOut(doc, text, off),
         NEW i \in 1..Len(doc)
  PROVE  Laid(doc, text, off, i)
BY Documented, LaidWhere

AtStart == current = None /\ pos = 1 /\ chunks = <<>>
AtChunk(off, i) ==
    i \in 1..Len(doc) /\ chunks = SubSeq(doc, 1, i - 1) /\ InHand(doc[i], pos - off[i - 1], current)

(* It is in the chunk in hand, or that one is complete.                    *)
Inside(off, i) ==
    /\ AtChunk(off, i)
    /\ pos - off[i - 1] \in 2..Len(Written(doc[i]))
    /\ Rune = Written(doc[i])[pos - off[i - 1]]
    /\ LastRune <=> Ends(Written(doc[i]), pos - off[i - 1])
    /\ Rune # "/" /\ pos <= Len(text)
Behind(off, i) ==
    /\ AtChunk(off, i) /\ current = doc[i] /\ pos = off[i] + 1
    /\ pos <= Len(text) => Rune = "/" /\ i # Len(doc)
    /\ pos > Len(text) => i = Len(doc)

LEMMA Whereabouts ==
  ASSUME TypeOK, doc # None, NEW off \in [0..Len(doc) -> Nat], LaidOut(doc, text, off),
         NEW i, AtChunk(off, i)
  PROVE  Inside(off, i) \/ Behind(off, i)
<1> DEFINE c == doc[i]
           p == pos - off[i - 1]
           w == Len(Written(c))
<1>1. /\ Laid(doc, text, off, i) /\ i \in 1..Len(doc) /\ InHand(c, p, current)
      /\ c \in Chunk /\ Writable(c) /\ pos \in Nat /\ text \in Seq(Runes) /\ Len(text) \in Nat
  BY Documented, DocumentLaid DEF AtChunk
<1>2. w \in Nat \ {0} /\ off[i - 1] \in Nat /\ off[i] \in Nat /\ off[i] = off[i - 1] + w
  BY <1>1 DEF Laid
<1>3. p \in 2..w + 1 /\ (p = w + 1 => current = c)
  BY <1>1, WhereInHand
<1>4. CASE p = w + 1
  <2>1. pos = off[i] + 1
    BY <1>1, <1>2, <1>4
  <2>2. pos <= Len(text) => text[pos] = "/" /\ i # Len(doc)
    <3>1. pos <= Len(text) <=> off[i] < Len(text)
      BY <1>1, <1>2, <2>1
    <3>2. off[i] < Len(text) => off[i] # Len(text)
      BY <1>1, <1>2
    <3>3. off[i] < Len(text) => text[off[i] + 1] = "/"
      BY <1>1 DEF Laid, Ends
    <3>4. off[i] # Len(text) => i # Len(doc)
      BY <1>1 DEF Laid
    <3> QED
      BY <2>1, <3>1, <3>2, <3>3, <3>4
  <2>3. pos > Len(text) => i = Len(doc)
    <3>1. off[i] <= Len(text) /\ (off[i] = Len(text) => i = Len(doc))
      BY <1>1 DEF Laid
    <3>2. pos > Len(text) => off[i] = Len(text)
      BY <1>1, <1>2, <2>1, <3>1
    <3> QED
      BY <3>1, <3>2
  <2> QED
    BY <1>3, <1>4, <2>1, <2>2, <2>3 DEF Behind, Rune
<1>5. CASE p # w + 1
  <2>1. p \in Int /\ p >= 1 /\ p <= w /\ p \in 2..w
    BY <1>2, <1>3, <1>5
  <2>2. off[i - 1] + p = pos
    BY <1>1, <1>2, <2>1
  <2>3. /\ pos \in 1..Len(text) /\ text[pos] = Written(c)[p]
        /\ Ends(text, pos) <=> Ends(Written(c), p)
    <3> HIDE DEF p
    <3> QED
      BY <1>1, <2>1, <2>2, RuneAt
  <2>4. Written(c)[p] # "/"
    BY <1>1, <2>1, Places
  <2>5. pos <= Len(text)
    BY <1>1, <2>3
  <2> QED
    BY <2>1, <2>3, <2>4, <2>5 DEF Inside, Rune, LastRune, Ends
<1> QED
  BY <1>4, <1>5

(* Nothing was read yet: the first rune is a slash, or there is no document.*)
LEMMA Outset ==
  ASSUME TypeOK, doc # None, NEW off \in [0..Len(doc) -> Nat], LaidOut(doc, text, off), pos = 1
  PROVE  /\ off[0] = 0
         /\ pos <= Len(text) => Rune = "/" /\ 1 \in 1..Len(doc)
         /\ pos > Len(text) => doc = <<>>
<1>1. /\ off[0] = 0 /\ off[Len(doc)] = Len(text) /\ Len(doc) \in Nat /\ Len(text) \in Nat
      /\ doc \in Seq(Chunk)
  BY Documented DEF LaidOut
<1>2. CASE Len(doc) = 0
  BY <1>1, <1>2
<1>3. CASE Len(doc) # 0
  <2>1. 1 \in 1..Len(doc) /\ 1 - 1 = 0
    BY <1>1, <1>3
  <2>2. Laid(doc, text, off, 1) /\ doc[1] \in Chunk /\ Writable(doc[1])
    BY <2>1, DocumentLaid, Documented
  <2>3. StemSpelt(doc[1]) /\ SignedSpelt(doc[1])
    BY <2>2, Stems, Signed
  <2>4. Written(doc[1])[1] = "/" /\ 1 \in 1..Len(Written(doc[1]))
    <3>1. Stem(doc[1])[1] = "/" /\ 1 \in 1..Len(Stem(doc[1]))
      BY <2>3 DEF StemSpelt
    <3>2. Written(doc[1])[1] = Stem(doc[1])[1] /\ Len(Written(doc[1])) \in Nat \ {0}
      BY <2>3, <3>1 DEF SignedSpelt
    <3> QED
      BY <3>1, <3>2
  <2>5. \A j \in 1..Len(Written(doc[1])) : text[off[0] + j] = Written(doc[1])[j]
    BY <2>1, <2>2 DEF Laid
  <2>6. text[1] = "/"
    BY <1>1, <2>4, <2>5
  <2>7. Len(text) >= 1
    <3>1. off[1] = off[0] + Len(Written(doc[1])) /\ off[1] <= Len(text)
      BY <2>1, <2>2 DEF Laid
    <3> QED
      BY <1>1, <2>4, <3>1
  <2> QED
    BY <1>1, <2>1, <2>6, <2>7 DEF Rune
<1> QED
  BY <1>2, <1>3

LEMMA InHandIsChunk ==
  ASSUME NEW c \in Chunk, Writable(c), NEW p, NEW x, InHand(c, p, x)
  PROVE  x \in Chunk /\ x # None
<1>0. SUFFICES x \in Chunk
  BY ParserAssumption
<1>1. ChunkFacts(c)
  BY ChunkKinds
<1>2. ASSUME NEW k \in Kinds, NEW n \in Seq(Runes), NEW s \in Seq(Runes)
      PROVE  Before(k, n, s) \in Chunk
  BY DEF Before, Chunk, Modifiers
<1>3. <<>> \in Seq(Runes) /\ "static" \in Kinds /\ "dynamic" \in Kinds /\ c.kind \in Kinds
  BY <1>1 DEF Kinds, ChunkFacts
<1>4. Blank \in Chunk
  BY DEF Blank, Chunk, Kinds, Modifiers
<1>5. CASE InStatic(c, p, x)
  <2>1. SubSeq(c.pattern, 1, p - 2) \in Seq(Runes)
    BY <1>1, <1>5 DEF InStatic, ChunkFacts
  <2> QED
    BY <1>2, <1>3, <1>5, <2>1 DEF InStatic, Static
<1>6. CASE InName(c, p, x)
  <2>1. SubSeq(c.key, 1, p - 3) \in Seq(Runes)
    BY <1>1, <1>6 DEF InName, ChunkFacts
  <2> QED
    BY <1>2, <1>3, <1>6, <2>1 DEF InName, Named
<1>7. CASE AtOpening(c, p, x) \/ AtSign(c, p, x)
  <2>1. c.key \in Seq(Runes) /\ c.pattern \in Seq(Runes)
    BY <1>1 DEF ChunkFacts
  <2> QED
    BY <1>2, <1>3, <1>7, <2>1 DEF AtOpening, AtSign, Opening, Unsigned
<1> QED
  BY <1>4, <1>5, <1>6, <1>7 DEF InHand, Begun, AtEnd

-----------------------------------------------------------------------------
(* The steps                                                               *)

(* What is known of the text while it is parsed, and after                 *)
ReadTo(off) ==
    /\ LaidOut(doc, text, off)
    /\ status = "parsing" => Parsing(off)
    /\ status = "accepted" => chunks = doc
    /\ status = "refused" => ~Compiles(doc)

LEMMA StartOrChunk ==
  ASSUME NEW off, Parsing(off)
  PROVE  AtStart \/ \E i : AtChunk(off, i)
BY DEF Parsing, AtStart, AtChunk

LEMMA InChunkParsing ==
  ASSUME NEW off, NEW i, AtChunk(off, i)
  PROVE  Parsing(off)
BY DEF Parsing, AtChunk

LEMMA StepSlash ==
  ASSUME TypeOK, doc # None, NEW off \in [0..Len(doc) -> Nat], LaidOut(doc, text, off),
         Parsing(off), Slash
  PROVE  ReadTo(off)'
<1> USE DEF Slash, AtRune
<1>1. LaidOut(doc, text, off)' /\ status' = "parsing"
  BY DEF LaidOut
<1>2. SUFFICES \E i : AtChunk(off, i)'
  BY <1>1, InChunkParsing DEF ReadTo, Parsing, AtChunk
<1>3. CASE AtStart
  <2>1. off[0] = 0 /\ 1 \in 1..Len(doc) /\ pos = 1 /\ doc \in Seq(Chunk)
    BY <1>3, Outset, Documented DEF AtStart
  <2>2. chunks' = <<>> /\ SubSeq(doc, 1, 0) = <<>>
    BY <1>3, <2>1 DEF AtStart, Taken
  <2>3. InHand(doc[1], 2, Blank)
    BY DEF InHand, Begun
  <2>4. AtChunk(off, 1)'
    <3>1. pos' - off[1 - 1] = 2 /\ 1 - 1 = 0
      BY <2>1
    <3> QED
      BY <2>1, <2>2, <2>3, <3>1 DEF AtChunk
  <2> QED
    BY <2>4
<1>4. CASE \E i : AtChunk(off, i)
  <2>1. PICK i : AtChunk(off, i)
    BY <1>4
  <2>2. Behind(off, i)
    BY <2>1, Whereabouts DEF Inside
  <2>3. /\ i \in 1..Len(doc) /\ i # Len(doc) /\ doc \in Seq(Chunk) /\ Len(doc) \in Nat
        /\ current = doc[i] /\ current # None /\ chunks = SubSeq(doc, 1, i - 1)
        /\ pos = off[i] + 1 /\ off[i] \in Nat
    <3>1. i \in 1..Len(doc)
      BY <2>1 DEF AtChunk
    <3>2. Laid(doc, text, off, i)
      BY <3>1, DocumentLaid
    <3>3. doc[i] # None
      BY <3>1, Documented, ParserAssumption
    <3> QED
      BY <2>1, <2>2, <3>1, <3>2, <3>3, Documented DEF Behind, AtChunk, Laid
  <2>4. chunks' = SubSeq(doc, 1, i)
    <3>1. Append(SubSeq(doc, 1, i - 1), doc[i]) = SubSeq(doc, 1, i)
      <4>1. PICK n \in Nat : n = i - 1 /\ n + 1 = i /\ n + 1 \in 1..Len(doc)
        BY <2>3
      <4> QED
        BY <2>3, <4>1, OneMore
    <3> QED
      BY <2>3, <3>1 DEF Taken
  <2>5. i + 1 \in 1..Len(doc) /\ (i + 1) - 1 = i /\ pos' - off[i] = 2
    BY <2>3
  <2>6. InHand(doc[i + 1], 2, Blank)
    BY DEF InHand, Begun
  <2>7. AtChunk(off, i + 1)'
    BY <2>4, <2>5, <2>6 DEF AtChunk
  <2> QED
    BY <2>7
<1> QED
  BY <1>3, <1>4, StartOrChunk

(* A step that leaves the chunk in hand, further on                        *)
LEMMA StepInside ==
  ASSUME TypeOK, doc # None, NEW off \in [0..Len(doc) -> Nat], LaidOut(doc, text, off),
         NEW i, AtChunk(off, i), UNCHANGED <<doc, text, chunks, status>>, status = "parsing",
         NEW q \in Int, pos' = off[i - 1] + q, InHand(doc[i], q, current')
  PROVE  ReadTo(off)'
<1>1. LaidOut(doc, text, off)' /\ status' = "parsing"
  BY DEF LaidOut
<1>2. i \in 1..Len(doc) /\ off[i - 1] \in Nat
  BY DocumentLaid DEF AtChunk, Laid
<1>3. pos' - off[i - 1] = q
  BY <1>2
<1>4. AtChunk(off, i)'
  BY <1>3 DEF AtChunk
<1> QED
  BY <1>1, <1>4 DEF ReadTo, Parsing, AtChunk

(* Where a step other than Slash is taken                                  *)
LEMMA InsideChunk ==
  ASSUME TypeOK, doc # None, NEW off \in [0..Len(doc) -> Nat], LaidOut(doc, text, off),
         Parsing(off), pos <= Len(text), Rune # "/"
  PROVE  \E i, p :
            /\ Inside(off, i) /\ p \in Int /\ pos = off[i - 1] + p
            /\ off[i - 1] \in Nat /\ i \in 1..Len(doc)
            /\ doc[i] \in Chunk /\ Writable(doc[i]) /\ InHand(doc[i], p, current)
            /\ p <= Len(Written(doc[i])) /\ p >= 2 /\ Rune = Written(doc[i])[p]
            /\ LastRune <=> Ends(Written(doc[i]), p)
<1>1. ~AtStart
  BY Outset DEF AtStart
<1>2. PICK i : AtChunk(off, i)
  BY <1>1, StartOrChunk
<1>3. Inside(off, i)
  BY <1>2, Whereabouts DEF Behind
<1>4. i \in 1..Len(doc)
  BY <1>2 DEF AtChunk
<1>5. doc[i] \in Chunk /\ Writable(doc[i]) /\ off[i - 1] \in Nat /\ Len(Written(doc[i])) \in Nat /\ pos \in Nat
  BY <1>4, Documented, DocumentLaid DEF Laid
<1>6. PICK p \in Int : p = pos - off[i - 1]
  BY <1>5
<1>7. pos = off[i - 1] + p /\ p <= Len(Written(doc[i])) /\ p >= 2
  BY <1>3, <1>5, <1>6 DEF Inside
<1>8. /\ InHand(doc[i], p, current) /\ Rune = Written(doc[i])[p]
      /\ LastRune <=> Ends(Written(doc[i]), p)
  BY <1>2, <1>3, <1>6 DEF Inside, AtChunk
<1> QED
  BY <1>3, <1>4, <1>5, <1>7, <1>8

LEMMA StepNoLeadingSlash ==
  ASSUME TypeOK, doc # None, NEW off \in [0..Len(doc) -> Nat], LaidOut(doc, text, off),
         Parsing(off)
  PROVE  ~NoLeadingSlash
<1>1. SUFFICES ASSUME NoLeadingSlash PROVE FALSE
  OBVIOUS
<1>2. pos <= Len(text) /\ Rune # "/" /\ current = None
  BY <1>1 DEF NoLeadingSlash, AtRune
<1>3. PICK i, p : doc[i] \in Chunk /\ Writable(doc[i]) /\ InHand(doc[i], p, current)
  BY <1>2, InsideChunk
<1> QED
  BY <1>2, <1>3, InHandIsChunk

LEMMA StepBeginChunk ==
  ASSUME TypeOK, doc # None, NEW off \in [0..Len(doc) -> Nat], LaidOut(doc, text, off),
         Parsing(off), BeginChunk
  PROVE  ReadTo(off)'
<1> USE DEF BeginChunk, AtRune
<1>1. PICK i, p :
        /\ Inside(off, i) /\ p \in Int /\ pos = off[i - 1] + p /\ off[i - 1] \in Nat
        /\ doc[i] \in Chunk /\ Writable(doc[i]) /\ InHand(doc[i], p, current)
        /\ p <= Len(Written(doc[i])) /\ Rune = Written(doc[i])[p]
  BY InsideChunk
<1> DEFINE q == IF Rune \in {":", "*"} THEN p + 1 ELSE p
<1>2. current' = Begin(current, Rune) /\ q \in Int /\ pos' = off[i - 1] + q
  BY <1>1 DEF Begin
<1>3. InHand(doc[i], q, current')
  BY <1>1, <1>2, FirstRune
<1>4. AtChunk(off, i)
  BY <1>1 DEF Inside
<1>5. status = "parsing" /\ UNCHANGED <<doc, text, chunks, status>>
  OBVIOUS
<1> HIDE DEF q, BeginChunk
<1> QED
  BY <1>2, <1>3, <1>4, <1>5, StepInside

LEMMA SubpatternOpens ==
  ASSUME TypeOK, doc # None, NEW off \in [0..Len(doc) -> Nat], LaidOut(doc, text, off),
         Parsing(off), InChunk, Rune = "("
  PROVE  \E i, p :
            /\ AtChunk(off, i) /\ p \in Int /\ pos = off[i - 1] + p
            /\ off[i - 1] \in Nat /\ i \in 1..Len(doc)
            /\ doc[i] \in Chunk /\ Writable(doc[i]) /\ AtOpening(doc[i], p, current)
<1>1. PICK i, p :
        /\ Inside(off, i) /\ p \in Int /\ pos = off[i - 1] + p
        /\ off[i - 1] \in Nat /\ i \in 1..Len(doc)
        /\ doc[i] \in Chunk /\ Writable(doc[i]) /\ InHand(doc[i], p, current)
        /\ p <= Len(Written(doc[i])) /\ Rune = Written(doc[i])[p]
  BY InsideChunk DEF InChunk, AtRune
<1>2. current.kind # "unknown"
  BY DEF InChunk
<1>3. AtOpening(doc[i], p, current)
  BY <1>1, <1>2, OpeningRune
<1> QED
  BY <1>1, <1>3 DEF Inside

LEMMA StepSubpatternRefused ==
  ASSUME TypeOK, doc # None, NEW off \in [0..Len(doc) -> Nat], LaidOut(doc, text, off),
         Parsing(off)
  PROVE  ~SubpatternRefused
<1>1. SUFFICES ASSUME SubpatternRefused PROVE FALSE
  OBVIOUS
<1>2. PICK i, p : doc[i] \in Chunk /\ Writable(doc[i]) /\ AtOpening(doc[i], p, current)
  BY <1>1, SubpatternOpens DEF SubpatternRefused
<1> QED
  BY <1>1, <1>2, SubexpressionRead DEF SubpatternRefused

LEMMA StepModifier ==
  ASSUME TypeOK, doc # None, NEW off \in [0..Len(doc) -> Nat], LaidOut(doc, text, off),
         Parsing(off), Modifier
  PROVE  ReadTo(off)'
<1> USE DEF Modifier, InChunk, AtRune
<1>1. PICK i, p :
        /\ Inside(off, i) /\ p \in Int /\ pos = off[i - 1] + p /\ off[i - 1] \in Nat
        /\ doc[i] \in Chunk /\ Writable(doc[i]) /\ InHand(doc[i], p, current)
        /\ p <= Len(Written(doc[i])) /\ Rune = Written(doc[i])[p]
        /\ LastRune <=> Ends(Written(doc[i]), p)
  BY InsideChunk
<1>2. current' = Modified(current, Rune) /\ p + 1 \in Int /\ pos' = off[i - 1] + (p + 1)
  <2>1. current' = Modified(current, Rune)
    BY Zenon DEF Modified
  <2>2. pos' = pos + 1 /\ p \in Int /\ pos = off[i - 1] + p /\ off[i - 1] \in Nat
    BY <1>1
  <2>3. p + 1 \in Int /\ pos' = off[i - 1] + (p + 1)
    BY ONLY <2>2
  <2> QED
    BY <2>1, <2>3
<1>3. InHand(doc[i], p + 1, current')
  <2>1. current.kind # "unknown" /\ Written(doc[i])[p] \in Signs /\ Ends(Written(doc[i]), p)
    BY <1>1
  <2>2. InHand(doc[i], p + 1, Modified(current, Written(doc[i])[p]))
    BY ONLY <1>1, <2>1, SignRead, Zenon
  <2> QED
    BY ONLY <1>1, <1>2, <2>2, Zenon
<1>4. AtChunk(off, i)
  BY <1>1 DEF Inside
<1>5. status = "parsing" /\ UNCHANGED <<doc, text, chunks, status>>
  OBVIOUS
<1> HIDE DEF Modifier
<1> QED
  BY <1>2, <1>3, <1>4, <1>5, StepInside

LEMMA StepCharacter ==
  ASSUME TypeOK, doc # None, NEW off \in [0..Len(doc) -> Nat], LaidOut(doc, text, off),
         Parsing(off), Character
  PROVE  ReadTo(off)'
<1> USE DEF Character, InChunk, AtRune
<1>1. PICK i, p :
        /\ Inside(off, i) /\ p \in Int /\ pos = off[i - 1] + p /\ off[i - 1] \in Nat
        /\ doc[i] \in Chunk /\ Writable(doc[i]) /\ InHand(doc[i], p, current)
        /\ p <= Len(Written(doc[i])) /\ Rune = Written(doc[i])[p]
        /\ LastRune <=> Ends(Written(doc[i]), p)
  BY InsideChunk
<1>2. current' = Longer(current, Rune) /\ p + 1 \in Int /\ pos' = off[i - 1] + (p + 1)
  <2>1. current' = Longer(current, Rune)
    BY Zenon DEF Longer
  <2>2. pos' = pos + 1 /\ p \in Int /\ pos = off[i - 1] + p /\ off[i - 1] \in Nat
    BY <1>1
  <2>3. p + 1 \in Int /\ pos' = off[i - 1] + (p + 1)
    BY ONLY <2>2
  <2> QED
    BY <2>1, <2>3
<1>3. InHand(doc[i], p + 1, current')
  BY <1>1, <1>2, CharacterRead
<1>4. AtChunk(off, i)
  BY <1>1 DEF Inside
<1>5. status = "parsing" /\ UNCHANGED <<doc, text, chunks, status>>
  OBVIOUS
<1> HIDE DEF Character
<1> QED
  BY <1>2, <1>3, <1>4, <1>5, StepInside

(* A sub-expression without ")" ends at the first one.                     *)
Closed(t, s, n, l) ==
    /\ n + 1 + l <= Len(t) /\ t[n + 1 + l] = ")"
    /\ \A j \in 1..l : t[n + j] = s[j] /\ s[j] # ")"
Closing(t, n) == {j \in n + 1..Len(t) : t[j] = ")"}
ClosedFirst(t, s, n, l) ==
    Closing(t, n) # {} /\ Min(Closing(t, n)) = n + 1 + l /\ SubSeq(t, n + 1, n + l) = s

LEMMA FirstClosing ==
  ASSUME NEW t \in Seq(Runes), NEW s \in Seq(Runes), NEW n \in Nat, NEW l \in Nat,
         l = Len(s), Closed(t, s, n, l)
  PROVE  ClosedFirst(t, s, n, l)
<1> DEFINE closing == Closing(t, n)
<1> USE DEF Closed
<1>1. n + 1 + l \in closing
  BY DEF Closing
<1>2. ASSUME NEW j \in closing PROVE n + 1 + l <= j /\ j \in Int
  <2>1. j \in n + 1..Len(t) /\ t[j] = ")"
    BY DEF Closing
  <2>2. j - n \notin 1..l
    <3>1. j - n \in 1..l => t[n + (j - n)] # ")"
      OBVIOUS
    <3>2. n + (j - n) = j
      BY <2>1
    <3> QED
      BY <2>1, <3>1, <3>2
  <2> QED
    BY <2>1, <2>2
<1> HIDE DEF closing
<1>4. Min(closing) = n + 1 + l
  BY <1>1, <1>2 DEF Min
<1>5. SubSeq(t, n + 1, n + l) = s
  <2> DEFINE sub == SubSeq(t, n + 1, n + l)
  <2>1. sub \in Seq(Runes) /\ Len(sub) = l /\ \A j \in 1..l : sub[j] = t[n + j]
    OBVIOUS
  <2>2. \A j \in 1..l : sub[j] = s[j]
    BY <2>1
  <2> HIDE DEF sub
  <2>3. sub = s
    BY <2>1, <2>2
  <2> QED
    BY <2>3 DEF sub
<1> QED
  BY <1>1, <1>4, <1>5 DEF closing, ClosedFirst

LEMMA StepSubpattern ==
  ASSUME TypeOK, doc # None, NEW off \in [0..Len(doc) -> Nat], LaidOut(doc, text, off),
         Parsing(off), Subpattern
  PROVE  ReadTo(off)'
<1> DEFINE closing == {j \in pos + 1..Len(text) : text[j] = ")"}
<1>1. /\ InChunk /\ Rune = "(" /\ status = "parsing"
      /\ IF closing = {} THEN pos' = pos + 1 /\ UNCHANGED current
         ELSE /\ current' = [current EXCEPT !.pattern = SubSeq(text, pos + 1, Min(closing) - 1)]
              /\ pos' = Min(closing) + 1
      /\ UNCHANGED <<doc, text, chunks, status>>
  BY DEF Subpattern, InChunk, AtRune
<1>2. PICK i, p :
        /\ AtChunk(off, i) /\ p \in Int /\ pos = off[i - 1] + p
        /\ off[i - 1] \in Nat /\ i \in 1..Len(doc)
        /\ doc[i] \in Chunk /\ Writable(doc[i]) /\ AtOpening(doc[i], p, current)
  BY <1>1, SubpatternOpens
<1> DEFINE c == doc[i]
<1>3. /\ ChunkFacts(c) /\ Laid(doc, text, off, i)
      /\ text \in Seq(Runes) /\ Len(text) \in Nat /\ pos \in Nat
  BY <1>2, ChunkKinds, DocumentLaid, Documented
<1>4. PICK l \in Nat, w \in Nat, o \in Nat :
        l = Len(c.pattern) /\ w = Len(Written(c)) /\ o = off[i - 1]
  BY <1>2, <1>3 DEF ChunkFacts, Laid
<1>5. /\ p \in 2..w /\ p + 1 + l <= w
      /\ \A j \in 1..l : Written(c)[p + j] = c.pattern[j]
      /\ Written(c)[p + 1 + l] = ")"
  <2>1. Encloses(c, p)
    BY <1>2, OpeningReads, Zenon
  <2> QED
    BY <1>4, <2>1 DEF Encloses
<1>6. ASSUME NEW q \in Int, q >= 1, q <= w
      PROVE  o + q \in 1..Len(text) /\ text[o + q] = Written(c)[q]
  BY <1>3, <1>4, <1>6, RuneAt
<1>7. pos = o + p
  BY <1>2, <1>4
<1>8. pos + 1 + l <= Len(text) /\ text[pos + 1 + l] = ")"
  <2>1. p + 1 + l \in Int /\ p + 1 + l >= 1 /\ o + (p + 1 + l) = pos + 1 + l
    BY <1>5, <1>7
  <2>2. o + (p + 1 + l) \in 1..Len(text) /\ text[o + (p + 1 + l)] = Written(c)[p + 1 + l]
    BY <1>5, <1>6, <2>1
  <2> QED
    BY <1>3, <1>5, <2>1, <2>2
<1>9. ASSUME NEW j \in 1..l PROVE text[pos + j] = c.pattern[j] /\ c.pattern[j] # ")"
  <2>1. p + j \in Int /\ p + j >= 1 /\ p + j <= w /\ o + (p + j) = pos + j
    BY <1>5, <1>7
  <2>2. text[o + (p + j)] = Written(c)[p + j]
    BY <1>6, <2>1
  <2>3. c.pattern[j] # ")"
    BY <1>2, <1>3, <1>4 DEF ChunkFacts, AtOpening
  <2> QED
    BY <1>5, <2>1, <2>2, <2>3
<1>10. c.pattern \in Seq(Runes)
  BY <1>3 DEF ChunkFacts
<1>11. /\ closing # {} /\ Min(closing) = pos + 1 + l
       /\ SubSeq(text, pos + 1, pos + l) = c.pattern
  <2>1. Closed(text, c.pattern, pos, l)
    BY <1>8, <1>9 DEF Closed
  <2>2. ClosedFirst(text, c.pattern, pos, l)
    BY <1>3, <1>4, <1>10, <2>1, FirstClosing, Zenon
  <2> QED
    BY <2>2 DEF ClosedFirst, Closing
<1>12. (pos + 1 + l) - 1 = pos + l /\ (pos + 1 + l) + 1 = o + (p + 2 + l) /\ p + 2 + l \in Int
  BY <1>2, <1>3, <1>7
<1>13. current' = [current EXCEPT !.pattern = c.pattern] /\ pos' = off[i - 1] + (p + 2 + l)
  BY <1>1, <1>4, <1>11, <1>12
<1>14. InHand(c, p + 2 + l, current')
  BY <1>2, <1>4, <1>13, SubexpressionRead
<1> QED
  BY <1>1, <1>2, <1>12, <1>13, <1>14, StepInside

LEMMA StepEndOfText ==
  ASSUME TypeOK, doc # None, NEW off \in [0..Len(doc) -> Nat], LaidOut(doc, text, off),
         Parsing(off), EndOfText
  PROVE  ReadTo(off)'
<1>1. /\ pos > Len(text) /\ chunks' = Taken /\ UNCHANGED <<doc, text>>
      /\ status' = IF Compiles(Taken) THEN "accepted" ELSE "refused"
  BY DEF EndOfText
<1>2. pos \in Nat /\ Len(text) \in Nat /\ doc \in Seq(Chunk) /\ ~(pos <= Len(text))
  BY <1>1, Documented
<1>3. Taken = doc
  <2>1. CASE AtStart
    <3>1. doc = <<>>
      BY <1>1, <2>1, Outset DEF AtStart
    <3> QED
      BY <2>1, <3>1 DEF AtStart, Taken
  <2>2. CASE \E i : AtChunk(off, i)
    <3>1. PICK i : AtChunk(off, i)
      BY <2>2
    <3>2. Behind(off, i)
      BY <1>2, <3>1, Whereabouts DEF Inside
    <3>3. /\ i = Len(doc) /\ i \in 1..Len(doc) /\ current = doc[i]
          /\ chunks = SubSeq(doc, 1, i - 1)
      BY <1>1, <3>1, <3>2 DEF Behind, AtChunk
    <3>4. current # None
      BY <3>3, Documented, ParserAssumption
    <3>5. Append(SubSeq(doc, 1, i - 1), doc[i]) = doc
      <4>1. Len(doc) \in Nat /\ i \in 1..Len(doc)
        BY <1>2, <3>3
      <4>2. Append(SubSeq(doc, 1, i - 1), doc[i]) = SubSeq(doc, 1, i)
        <5>1. i - 1 \in Nat /\ (i - 1) + 1 = i
          BY ONLY <4>1
        <5> QED
          BY ONLY <1>2, <4>1, <5>1, OneMore
      <4>3. SubSeq(doc, 1, Len(doc)) = doc
        BY <1>2
      <4> QED
        BY <3>3, <4>2, <4>3
    <3> QED
      BY <3>3, <3>4, <3>5 DEF Taken
  <2> QED
    BY <2>1, <2>2, StartOrChunk
<1>4. LaidOut(doc, text, off)'
  BY <1>1 DEF LaidOut
<1> QED
  BY <1>1, <1>3, <1>4 DEF ReadTo

-----------------------------------------------------------------------------
(* The theorems                                                            *)

LEMMA TypesAtFirst ==
  ASSUME ParserInit
  PROVE  TypeOK
<1>1. text \in Seq(Runes)
  <2>1. CASE /\ doc \in Documents
             /\ text = FlattenSeq([i \in DOMAIN doc |-> Written(doc[i])])
    <3>1. doc \in Seq(Chunk) /\ \A i \in 1..Len(doc) : Writable(doc[i])
      BY <2>1, ParserAssumption
    <3> QED
      BY <2>1, <3>1, TextLaidOut
  <2>2. CASE doc = None /\ text \in Mistakes
    BY <2>2, ParserAssumption
  <2> QED
    BY <2>1, <2>2 DEF ParserInit
<1> QED
  BY <1>1 DEF ParserInit, TypeOK

LEMMA TypesKept ==
  ASSUME TypeOK, [Parse]_parsed
  PROVE  TypeOK'
<1> USE DEF TypeOK
<1>1. AtRune => pos \in 1..Len(text) /\ Rune \in Runes /\ pos + 1 \in 1..Len(text) + 1
  BY DEF AtRune, Rune
<1>2. Taken \in Seq(Chunk)
  BY DEF Taken
<1>3. InChunk => current \in Chunk /\ AtRune
  BY DEF InChunk
<1>4. CASE Slash
  <2>1. Blank \in Chunk
    BY DEF Blank, Chunk, Kinds, Modifiers
  <2> QED
    BY <1>1, <1>2, <1>4, <2>1 DEF Slash
<1>5. CASE NoLeadingSlash
  BY <1>5 DEF NoLeadingSlash, Refuse
<1>6. CASE BeginChunk
  <2>1. current \in Chunk /\ AtRune
    BY <1>6 DEF BeginChunk
  <2>2. \E kind \in Kinds : current' = [current EXCEPT !.kind = kind]
    BY <1>6 DEF BeginChunk, Kinds
  <2>3. current' \in Chunk
    BY <2>1, <2>2 DEF Chunk
  <2> QED
    BY <1>1, <1>6, <2>1, <2>3 DEF BeginChunk
<1>7. CASE SubpatternRefused
  BY <1>7 DEF SubpatternRefused, Refuse
<1>8. CASE Subpattern
  <2> DEFINE closing == {j \in pos + 1..Len(text) : text[j] = ")"}
  <2>1. /\ IF closing = {} THEN pos' = pos + 1 /\ UNCHANGED current
           ELSE /\ current' = [current EXCEPT !.pattern = SubSeq(text, pos + 1, Min(closing) - 1)]
                /\ pos' = Min(closing) + 1
        /\ UNCHANGED <<doc, text, chunks, status>> /\ current \in Chunk /\ AtRune
    BY <1>3, <1>8 DEF Subpattern
  <2>2. CASE closing = {}
    <3> HIDE DEF closing
    <3> QED
      BY <1>1, <2>1, <2>2
  <2>3. CASE closing # {}
    <3>1. Min(closing) \in closing
      <4>1. closing \in SUBSET Nat
        <5>1. pos \in Nat
          OBVIOUS
        <5> QED
          BY <5>1
      <4> HIDE DEF closing
      <4>2. \E x \in closing : \A y \in closing : x <= y
        BY <2>3, <4>1, LeastOf
      <4> QED
        BY <4>2 DEF Min
    <3>2. Min(closing) \in pos + 1..Len(text) /\ Min(closing) + 1 \in 1..Len(text) + 1
      BY <3>1
    <3> HIDE DEF closing
    <3>3. SubSeq(text, pos + 1, Min(closing) - 1) \in Seq(Runes)
      <4>1. pos + 1 \in Int /\ Min(closing) - 1 \in Int /\ pos + 1 >= 1 /\ Min(closing) - 1 <= Len(text)
        BY <3>2
      <4> QED
        BY <4>1
    <3>4. current' \in Chunk
      BY <2>1, <2>3, <3>3 DEF Chunk
    <3> QED
      BY <2>1, <2>3, <3>2, <3>4
  <2> QED
    BY <2>2, <2>3
<1>9. CASE Modifier
  <2>1. \E modifier \in Modifiers : current' = [current EXCEPT !.modifier = modifier]
    BY <1>9 DEF Modifier, Modifiers, Signs
  <2>2. current' \in Chunk
    BY <1>3, <1>9, <2>1 DEF Modifier, Chunk
  <2> QED
    BY <1>1, <1>3, <1>9, <2>2 DEF Modifier
<1>10. CASE Character
  <2>1. current \in Chunk /\ AtRune /\ Rune \in Runes /\ current.kind # "unknown"
    BY <1>1, <1>3, <1>10 DEF Character, InChunk
  <2>2. current.key \in Seq(Runes) /\ current.pattern \in Seq(Runes) /\ current.kind \in Kinds
    BY <2>1 DEF Chunk
  <2>3. Append(current.key, Rune) \in Seq(Runes) /\ Append(current.pattern, Rune) \in Seq(Runes)
    BY <2>1, <2>2
  <2>4. \/ current' = [current EXCEPT !.key = Append(current.key, Rune)]
        \/ current' = [current EXCEPT !.pattern = Append(current.pattern, Rune)]
        \/ current' = current
    <3>1. current.kind \in {"static", "dynamic", "wildcard"}
      BY <2>1, <2>2 DEF Kinds
    <3> QED
      BY <1>10, <3>1 DEF Character
  <2>5. current' \in Chunk
    BY <2>1, <2>3, <2>4 DEF Chunk
  <2> QED
    BY <1>1, <1>10, <2>1, <2>5 DEF Character
<1>11. CASE EndOfText
  BY <1>2, <1>11 DEF EndOfText
<1>12. CASE UNCHANGED parsed
  BY <1>12 DEF parsed
<1> QED
  BY <1>4, <1>5, <1>6, <1>7, <1>8, <1>9, <1>10, <1>11, <1>12 DEF Parse

LEMMA ParseAtFirst ==
  ASSUME ParserInit
  PROVE  ParseInv
<1>1. SUFFICES ASSUME doc # None
               PROVE  \E off \in [0..Len(doc) -> Nat] : ReadTo(off)
  BY DEF ParseInv, ReadTo
<1>2. doc \in Documents /\ text = FlattenSeq([i \in DOMAIN doc |-> Written(doc[i])])
  BY <1>1 DEF ParserInit
<1>3. doc \in Seq(Chunk) /\ \A i \in 1..Len(doc) : Writable(doc[i])
  BY <1>2, ParserAssumption
<1>4. PICK off \in [0..Len(doc) -> Nat] : LaidOut(doc, text, off)
  BY <1>2, <1>3, TextLaidOut
<1>5. ReadTo(off)
  BY <1>4 DEF ParserInit, ReadTo, Parsing
<1> QED
  BY <1>5

LEMMA ParseKept ==
  ASSUME TypeOK, ParseInv, [Parse]_parsed
  PROVE  ParseInv'
<1>1. UNCHANGED <<doc, text>>
  BY DEF Parse, parsed, Slash, NoLeadingSlash, BeginChunk, SubpatternRefused, Subpattern,
         Modifier, Character, EndOfText, Refuse
<1>2. SUFFICES ASSUME doc # None
               PROVE  \E off \in [0..Len(doc) -> Nat] : ReadTo(off)'
  BY <1>1 DEF ParseInv, ReadTo
<1>3. PICK off \in [0..Len(doc) -> Nat] : ReadTo(off)
  BY <1>2 DEF ParseInv, ReadTo
<1>4. LaidOut(doc, text, off) /\ (status = "parsing" => Parsing(off))
  BY <1>3 DEF ReadTo
<1>5. Parse => status = "parsing"
  BY DEF Parse, Slash, NoLeadingSlash, BeginChunk, SubpatternRefused, Subpattern,
         Modifier, Character, EndOfText, InChunk, AtRune
<1>6. CASE Parse
  <2>1. Parsing(off)
    BY <1>4, <1>5, <1>6
  <2>2. CASE Slash
    BY <1>2, <1>4, <2>1, <2>2, StepSlash
  <2>3. CASE BeginChunk
    BY <1>2, <1>4, <2>1, <2>3, StepBeginChunk
  <2>4. CASE Subpattern
    BY <1>2, <1>4, <2>1, <2>4, StepSubpattern
  <2>5. CASE Modifier
    BY <1>2, <1>4, <2>1, <2>5, StepModifier
  <2>6. CASE Character
    BY <1>2, <1>4, <2>1, <2>6, StepCharacter
  <2>7. CASE EndOfText
    BY <1>2, <1>4, <2>1, <2>7, StepEndOfText
  <2>8. ~NoLeadingSlash /\ ~SubpatternRefused
    BY <1>2, <1>4, <2>1, StepNoLeadingSlash, StepSubpatternRefused
  <2> QED
    BY <1>6, <2>2, <2>3, <2>4, <2>5, <2>6, <2>7, <2>8 DEF Parse
<1>7. CASE UNCHANGED parsed
  BY <1>3, <1>7 DEF parsed, ReadTo, LaidOut, Parsing
<1> QED
  BY <1>6, <1>7

(* Whatever text NewPattern is given, parsePatternChunks stays within it    *)
(* and makes chunks of it.                                                  *)
THEOREM ParserTypes == ParserSpec => []TypeOK
<1>1. ParserInit => TypeOK
  BY TypesAtFirst
<1>2. TypeOK /\ [Parse]_parsed => TypeOK'
  BY TypesKept
<1> QED
  BY <1>1, <1>2, PTL DEF ParserSpec

(* What can be written as a pattern NewPattern (pattern.go) reads as it was *)
(* meant, chunk for chunk, and refuses only if regexp.Compile, whatever     *)
(* texts it finds unsound, refuses what was meant.                          *)
THEOREM ParsedAsMeant == ParserSpec => []ParsedAsDocumented
<1>1. ParserInit => ParseInv
  BY ParseAtFirst
<1>2. TypeOK /\ ParseInv /\ [Parse]_parsed => ParseInv'
  BY ParseKept
<1>3. ParseInv => ParsedAsDocumented
  BY DEF ParseInv, ParsedAsDocumented
<1> QED
  BY <1>1, <1>2, <1>3, ParserTypes, PTL DEF ParserSpec
=============================================================================
