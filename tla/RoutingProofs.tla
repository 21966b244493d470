---------------------------- MODULE RoutingProofs ----------------------------
(***************************************************************************)
(* What Routing promises, for any routers, handlers, patterns and numbers  *)
(* of registrations: what routers advertise was published and stays, the   *)
(* hooks of handlers follow the handlers, and Lookup finds what is served. *)
(*                                                                         *)
(* Reached, Lookup and MayAdvertise are recursions over routers, that each *)
(* go by routers of larger numbers, and Lookup and the descriptors of a    *)
(* mounted router are folds over sequences.  So first come these: induction*)
(* and recursion over routers, and the stages of a fold.                   *)
(***************************************************************************)
EXTENDS Routing, SequenceTheorems, FiniteSetTheorems, WellFoundedInduction, TLAPS

(* A set of numbers that is not empty has a least one.                     *)
LEMMA LeastOf ==
  ASSUME NEW S \in SUBSET Nat, S # {}
  PROVE  \E x \in S : \A y \in S : x <= y
<1> DEFINE R == {ss \in Nat \X Nat : ss[1] < ss[2]}
<1>1. IsWellFoundedOn(R, Nat)
  BY NatLessThanWellFounded DEF OpToRel
<1>2. \E x \in S : \A y \in S : ~(<<y, x>> \in R)
  <2> HIDE DEF R
  <2> QED BY <1>1, WFMin
<1>3. PICK x \in S : \A y \in S : ~(<<y, x>> \in R)
  BY <1>2
<1>4. ASSUME NEW y \in S PROVE x <= y
  <2>1. x \in Nat /\ y \in Nat
    OBVIOUS
  <2>2. ~(y < x)
    BY <1>3, <2>1
  <2> QED
    BY <2>1, <2>2
<1> QED
  BY <1>4

(* Induction up to n over the numbers in a set                             *)
LEMMA UpTo ==
  ASSUME NEW n \in Nat, NEW S, 0 \in S,
         \A k \in 1..n : k - 1 \in S => k \in S
  PROVE  \A k \in 0..n : k \in S
<1> DEFINE B == {k \in 0..n : k \notin S}
<1>1. SUFFICES ASSUME B # {} PROVE FALSE
  OBVIOUS
<1>2. B \in SUBSET Nat
  OBVIOUS
<1>3. PICK x \in B : \A y \in B : x <= y
  <2> HIDE DEF B
  <2> QED BY <1>1, <1>2, LeastOf
<1>4. x \in 1..n /\ x - 1 \in 0..n /\ ~(x <= x - 1)
  BY <1>3
<1>5. x - 1 \in S
  BY <1>3, <1>4
<1> QED
  BY <1>3, <1>4, <1>5

(* The numbers of the routers are bounded.                                 *)
LEMMA RoutersBounded == \E b \in Nat : \A r \in Routers : r < b
<1>1. Routers \subseteq Nat /\ IsFiniteSet(Routers)
  BY RoutingAssumption
<1>2. PICK n \in Nat : ExistsSurjection(1..n, Routers)
  BY <1>1, FS_NatSurjection
<1>3. PICK f \in [1..n -> Routers] : \A r \in Routers : \E i \in 1..n : f[i] = r
  BY <1>2 DEF ExistsSurjection, Surjection
<1> DEFINE S == {k \in 0..n : \E b \in Nat : \A i \in 1..k : f[i] < b}
<1>4. 0 \in S
  <2>1. \A i \in 1..0 : f[i] < 0
    OBVIOUS
  <2> QED BY <2>1
<1>5. ASSUME NEW k \in 1..n, k - 1 \in S PROVE k \in S
  <2>1. PICK b \in Nat : \A i \in 1..(k - 1) : f[i] < b
    BY <1>5
  <2>2. f[k] \in Nat
    BY <1>1
  <2>3. PICK c \in Nat : f[k] < c /\ b <= c
    <3>1. f[k] < b + f[k] + 1 /\ b <= b + f[k] + 1 /\ b + f[k] + 1 \in Nat
      BY <2>2
    <3> QED BY <3>1
  <2>4. ASSUME NEW i \in 1..k PROVE f[i] < c
    <3>1. i \in 1..n
      OBVIOUS
    <3>2. f[i] \in Routers /\ f[i] \in Nat
      BY <1>1, <3>1
    <3>3. i = k \/ i \in 1..(k - 1)
      OBVIOUS
    <3> QED
      BY <2>1, <2>3, <3>2, <3>3
  <2>5. \E d \in Nat : \A i \in 1..k : f[i] < d
    BY <2>4
  <2> QED
    BY <2>5
<1>6. \A k \in 0..n : k \in S
  <2> HIDE DEF S
  <2> QED BY <1>4, <1>5, UpTo
<1>7. n \in S
  <2> HIDE DEF S
  <2>1. n \in 0..n
    OBVIOUS
  <2> QED BY <1>6, <2>1
<1>8. PICK b \in Nat : \A i \in 1..n : f[i] < b
  BY <1>7
<1> QED
  BY <1>3, <1>8

(* Induction over the routers, down from the last: what holds of a router  *)
(* if it holds of those of larger numbers holds of all.                    *)
LEMMA RouterInduction ==
  ASSUME NEW S, \A r \in Routers : (\A q \in Routers : q > r => q \in S) => r \in S
  PROVE  \A r \in Routers : r \in S
<1>1. PICK b \in Nat : \A r \in Routers : r < b
  BY RoutersBounded
<1>2. Routers \subseteq Nat
  BY RoutingAssumption
<1> DEFINE B == {k \in 1..b : b - k \in Routers /\ b - k \notin S}
<1>3. SUFFICES ASSUME NEW r \in Routers, r \notin S PROVE FALSE
  OBVIOUS
<1>4. b - r \in 1..b /\ b - (b - r) = r
  BY <1>1, <1>2
<1>5. B # {} /\ B \in SUBSET Nat
  BY <1>3, <1>4
<1>6. PICK x \in B : \A y \in B : x <= y
  <2> HIDE DEF B
  <2> QED BY <1>5, LeastOf
<1>7. PICK q \in Routers : q > b - x /\ q \notin S
  BY <1>6
<1>8. b - q \in 1..b /\ b - (b - q) = q /\ b - q < x
  BY <1>1, <1>2, <1>6, <1>7
<1>9. b - q \in B
  BY <1>7, <1>8
<1> QED
  BY <1>6, <1>8, <1>9

(* Recursion over the routers: a function of a router that goes by what it *)
(* is of those of larger numbers                                           *)
Recurs(f, F) == f = [r \in Routers |-> F[r][f]]

(* Such a function exists, when what it is of a router only depends on what*)
(* it is of those.                                                         *)
LEMMA RouterRecursion ==
  ASSUME NEW A, NEW a \in A, NEW F,
         \A r \in Routers : \A f \in [Routers -> A] : F[r][f] \in A,
         \A r \in Routers : \A f, g \in [Routers -> A] :
            (\A q \in Routers : q > r => f[q] = g[q]) => F[r][f] = F[r][g]
  PROVE  \E f : f \in [Routers -> A] /\ Recurs(f, F)
<1>1. PICK b \in Nat : \A r \in Routers : r < b
  BY RoutersBounded
<1>2. Routers \subseteq Nat
  BY RoutingAssumption
<1> DEFINE S == {k \in 0..b : \E f \in [Routers -> A] :
                    \A r \in Routers : r >= b - k => f[r] = F[r][f]}
<1>3. 0 \in S
  <2>1. [r \in Routers |-> a] \in [Routers -> A]
    OBVIOUS
  <2>2. ASSUME NEW r \in Routers PROVE ~(r >= b - 0)
    <3>1. r \in Nat /\ r < b
      BY <1>1, <1>2
    <3> QED BY <3>1
  <2>3. \E f \in [Routers -> A] : \A r \in Routers : r >= b - 0 => f[r] = F[r][f]
    BY <2>1, <2>2
  <2> QED
    BY <2>3
<1>4. ASSUME NEW k \in 1..b, k - 1 \in S PROVE k \in S
  <2>1. PICK f \in [Routers -> A] : \A r \in Routers : r >= b - (k - 1) => f[r] = F[r][f]
    BY <1>4
  <2> DEFINE g == [r \in Routers |-> IF r = b - k THEN F[r][f] ELSE f[r]]
  <2>2. g \in [Routers -> A]
    OBVIOUS
  <2>3. ASSUME NEW r \in Routers, r >= b - k PROVE g[r] = F[r][g]
    <3>1. \A q \in Routers : q > r => g[q] = f[q]
      BY <1>2, <2>3
    <3>2. F[r][g] = F[r][f]
      <4> HIDE DEF g
      <4> QED BY <2>2, <3>1
    <3>3. CASE r = b - k
      BY <3>2, <3>3
    <3>4. CASE r # b - k
      <4>1. r >= b - (k - 1)
        BY <1>2, <2>3, <3>4
      <4>2. g[r] = f[r]
        BY <3>4
      <4> QED
        BY <2>1, <3>2, <4>1, <4>2
    <3> QED
      BY <3>3, <3>4
  <2> HIDE DEF g
  <2> QED
    BY <2>2, <2>3
<1>5. \A k \in 0..b : k \in S
  <2> HIDE DEF S
  <2> QED BY <1>3, <1>4, UpTo
<1>6. b \in S
  <2> HIDE DEF S
  <2>1. b \in 0..b
    OBVIOUS
  <2> QED BY <1>5, <2>1
<1>7. PICK f \in [Routers -> A] : \A r \in Routers : r >= b - b => f[r] = F[r][f]
  BY <1>6
<1>8. \A r \in Routers : r >= b - b
  <2>1. b - b = 0
    OBVIOUS
  <2>2. \A r \in Nat : r >= 0
    OBVIOUS
  <2> QED BY <1>2, <2>1, <2>2
<1>9. Recurs(f, F)
  BY <1>8, <1>7 DEF Recurs
<1> QED
  BY <1>9

(* The largest of the first numbers                                        *)
LEMMA MaxOfFirst ==
  ASSUME NEW k \in Nat, k >= 1
  PROVE  Max(1..k) = k /\ (1..k) \ {k} = 1..(k - 1)
<1>1. k \in 1..k /\ \A y \in 1..k : k >= y
  OBVIOUS
<1>2. \A x \in 1..k : (\A y \in 1..k : x >= y) => x = k
  BY <1>1
<1>3. Max(1..k) = k
  BY <1>1, <1>2 DEF Max
<1> QED
  BY <1>3

(* The largest of a set of the first numbers                               *)
LEMMA MaxOfSome ==
  ASSUME NEW n \in Nat, NEW s \in SUBSET (1..n), s # {}
  PROVE  Max(s) \in s
<1> DEFINE B == {k \in 0..n : n - k \in s}
<1>1. PICK e \in s : TRUE
  OBVIOUS
<1>2. n - e \in B /\ B \in SUBSET Nat
  OBVIOUS
<1>3. PICK x \in B : \A y \in B : x <= y
  <2> HIDE DEF B
  <2> QED BY <1>2, LeastOf
<1>4. ASSUME NEW y \in s PROVE n - x >= y
  <2>1. n - y \in B
    OBVIOUS
  <2>2. x <= n - y /\ y \in 1..n /\ x \in 0..n
    BY <1>3, <2>1
  <2> QED
    BY <2>2
<1>5. \E z \in s : \A y \in s : z >= y
  BY <1>3, <1>4
<1> QED
  BY <1>5 DEF Max

(* What FoldLeft recurs on: g is a function on the sets of positions, that *)
(* at the first k of them is what the fold has come to. G[k] is what is    *)
(* done at position k, with what is in A.                                  *)
Folds(g, G, n, b, A) ==
    /\ g[{}] = b
    /\ \A s \in SUBSET (1..n) :
        s # {} /\ g[s \ {Max(s)}] \in A => g[s] = G[Max(s)][g[s \ {Max(s)}]]

(* G keeps within A.                                                       *)
Keeps(G, n, A) == \A k \in 1..n : \A x \in A : G[k][x] \in A

(* g is a function on those sets, to A.                                    *)
Within(g, n, A) == g \in [SUBSET (1..n) -> A]

(* There is such a function.                                               *)
LEMMA FoldRecursion ==
  ASSUME NEW A, NEW b \in A, NEW n \in Nat, NEW G, Keeps(G, n, A)
  PROVE  \E g : Within(g, n, A) /\ Folds(g, G, n, b, A)
<1> USE DEF Keeps
<1> DEFINE Upto(k) == {s \in SUBSET (1..n) : s \subseteq 1..k}
           Good(g, k) == \A s \in Upto(k) :
                            g[s] = IF s = {} THEN b ELSE G[Max(s)][g[s \ {Max(s)}]]
           S == {k \in 0..n : \E g \in [SUBSET (1..n) -> A] : Good(g, k)}
<1>1. 0 \in S
  <2> DEFINE g == [s \in SUBSET (1..n) |-> b]
  <2>1. g \in [SUBSET (1..n) -> A]
    OBVIOUS
  <2>2. \A s \in Upto(0) : s = {} /\ g[s] = b
    OBVIOUS
  <2>3. Good(g, 0)
    BY <2>2
  <2> HIDE DEF g, Good
  <2> QED
    BY <2>1, <2>3
<1>2. ASSUME NEW k \in 1..n, k - 1 \in S PROVE k \in S
  <2>1. PICK g \in [SUBSET (1..n) -> A] : Good(g, k - 1)
    BY <1>2
  <2> DEFINE h == [s \in SUBSET (1..n) |->
                     IF s \in Upto(k) /\ s # {} THEN IF k \in s THEN G[k][g[s \ {k}]] ELSE g[s]
                     ELSE b]
  <2>2. h \in [SUBSET (1..n) -> A]
    <3>1. ASSUME NEW s \in SUBSET (1..n) PROVE g[s \ {k}] \in A /\ g[s] \in A
      <4>1. s \ {k} \in SUBSET (1..n)
        OBVIOUS
      <4> QED BY <4>1
    <3> QED
      BY <3>1
  <2>3. ASSUME NEW s \in Upto(k) PROVE h[s] = IF s = {} THEN b ELSE G[Max(s)][h[s \ {Max(s)}]]
    <3>1. CASE s = {}
      BY <3>1
    <3>2. CASE s # {} /\ k \in s
      <4>1. k \in s /\ \A y \in s : k >= y
        BY <3>2
      <4>2. Max(s) = k
        <5>1. \A x \in s : (\A y \in s : x >= y) => x = k
          BY <4>1
        <5> QED BY <4>1, <5>1 DEF Max
      <4>3. s \ {k} \in Upto(k - 1) /\ s \ {k} \in Upto(k) /\ k \notin s \ {k}
        OBVIOUS
      <4>4. h[s \ {k}] = g[s \ {k}]
        <5>1. CASE s \ {k} = {}
          <6>1. g[s \ {k}] = b
            BY <2>1, <4>3, <5>1
          <6> QED BY <4>3, <5>1, <6>1
        <5>2. CASE s \ {k} # {}
          BY <4>3, <5>2
        <5> QED BY <5>1, <5>2
      <4>5. h[s] = G[k][g[s \ {k}]]
        BY <3>2
      <4> QED
        BY <3>2, <4>2, <4>4, <4>5
    <3>3. CASE s # {} /\ k \notin s
      <4>1. s \in Upto(k - 1)
        BY <3>3
      <4>2. h[s] = g[s] /\ g[s] = G[Max(s)][g[s \ {Max(s)}]]
        BY <2>1, <3>3, <4>1
      <4>3. s \ {Max(s)} \in Upto(k) /\ s \ {Max(s)} \in Upto(k - 1) /\ k \notin s \ {Max(s)}
        BY <3>3, <4>1
      <4>4. h[s \ {Max(s)}] = g[s \ {Max(s)}]
        <5>1. CASE s \ {Max(s)} = {}
          <6>1. g[s \ {Max(s)}] = b
            BY <2>1, <4>3, <5>1
          <6> QED BY <4>3, <5>1, <6>1
        <5>2. CASE s \ {Max(s)} # {}
          BY <4>3, <5>2
        <5> QED BY <5>1, <5>2
      <4> QED
        BY <3>3, <4>2, <4>4
    <3> QED
      BY <3>1, <3>2, <3>3
  <2>4. Good(h, k)
    <3> HIDE DEF h
    <3> QED BY <2>3
  <2> HIDE DEF h, Good
  <2>5. \E f \in [SUBSET (1..n) -> A] : Good(f, k)
    BY <2>2, <2>4
  <2> QED
    BY <2>5
<1>3. \A k \in 0..n : k \in S
  <2> HIDE DEF S
  <2> QED BY <1>1, <1>2, UpTo
<1>4. PICK g \in [SUBSET (1..n) -> A] : Good(g, n)
  <2>1. n \in S
    <3> HIDE DEF S
    <3>1. n \in 0..n
      OBVIOUS
    <3> QED BY <1>3, <3>1
  <2> HIDE DEF Good
  <2>2. \E g \in [SUBSET (1..n) -> A] : Good(g, n)
    BY <2>1
  <2> QED BY <2>2
<1>5. Upto(n) = SUBSET (1..n)
  OBVIOUS
<1> QED
  BY <1>4, <1>5 DEF Folds, Within

(* And what it has come to after each position                             *)
Stages(c, G, n, b, A) ==
    c \in [0..n -> A] /\ c[0] = b /\ \A k \in 1..n : c[k] = G[k][c[k - 1]]

(* A fold has such stages, and the last of them is what it comes to.       *)
LEMMA FoldSteps ==
  ASSUME NEW A, NEW b \in A, NEW n \in Nat, NEW G, Keeps(G, n, A), NEW g, Folds(g, G, n, b, A)
  PROVE  \E c : Stages(c, G, n, b, A) /\ c[n] = g[1..n]
<1> USE DEF Keeps, Folds
<1> DEFINE c == [k \in 0..n |-> g[1..k]]
<1>1. 1..0 = {} /\ g[1..0] = b
  OBVIOUS
<1>2. ASSUME NEW k \in 1..n, g[1..(k - 1)] \in A PROVE g[1..k] = G[k][g[1..(k - 1)]]
  <2>1. k \in Nat /\ k >= 1
    OBVIOUS
  <2>2. Max(1..k) = k /\ (1..k) \ {k} = 1..(k - 1)
    BY <2>1, MaxOfFirst
  <2>3. 1..k \in SUBSET (1..n)
    OBVIOUS
  <2>4. k \in 1..k
    OBVIOUS
  <2> QED
    BY <1>2, <2>2, <2>3, <2>4
<1>3. \A k \in 0..n : c[k] = g[1..k]
  OBVIOUS
<1>4. 0 \in 0..n /\ n \in 0..n /\ \A k \in 1..n : k \in 0..n /\ k - 1 \in 0..n
  OBVIOUS
<1>5. DOMAIN c = 0..n /\ c = [k \in 0..n |-> c[k]]
  OBVIOUS
<1> HIDE DEF c
<1>6. \A k \in 1..n : c[k - 1] \in A => c[k] = G[k][c[k - 1]]
  BY <1>2, <1>3, <1>4
<1>7. c[0] = b /\ c[n] = g[1..n]
  BY <1>1, <1>3, <1>4
<1> DEFINE S == {k \in 0..n : c[k] \in A}
<1>8. 0 \in S
  BY <1>4, <1>7
<1>9. ASSUME NEW k \in 1..n, k - 1 \in S PROVE k \in S
  <2>1. c[k - 1] \in A
    BY <1>9
  <2> QED
    BY <1>4, <1>6, <2>1
<1>10. \A k \in 0..n : k \in S
  <2> HIDE DEF S
  <2> QED BY <1>8, <1>9, UpTo
<1>11. c \in [0..n -> A]
  BY <1>5, <1>10
<1> QED
  BY <1>4, <1>6, <1>7, <1>11 DEF Stages

(* Paths and patterns are sequences of segments.                           *)
Path == Seq(Segments \cup {Rest})

(* s is how t begins.                                                      *)
Begins(s, t) == Len(s) <= Len(t) /\ \A i \in 1..Len(s) : t[i] = s[i]

(* The beginning of a beginning                                            *)
LEMMA BeginsTrans ==
  ASSUME NEW S, NEW s \in Seq(S), NEW t \in Seq(S), NEW u \in Seq(S), Begins(s, t), Begins(t, u)
  PROVE  Begins(s, u)
<1>1. Len(s) \in Nat /\ Len(t) \in Nat /\ Len(u) \in Nat
  BY LenProperties
<1>2. \A i \in 1..Len(s) : i \in 1..Len(t)
  BY <1>1 DEF Begins
<1> QED
  BY <1>1, <1>2 DEF Begins

(* The community module's notion of a prefix                               *)
LEMMA BeginsIsPrefix ==
  ASSUME NEW S, NEW s \in Seq(S), NEW t \in Seq(S), Begins(s, t)
  PROVE  IsPrefix(s, t)
<1>1. Len(s) \in Nat /\ Len(t) \in Nat /\ Len(s) <= Len(t)
  BY LenProperties DEF Begins
<1>2. PICK n \in Nat : n = Len(s)
  BY <1>1
<1>3. \A i \in 1..n : s[i] \in S /\ t[i] \in S /\ t[i] = s[i]
  BY <1>1, <1>2, ElementOfSeq DEF Begins
<1>4. /\ SubSeq(s, 1, n) \in Seq(S) /\ SubSeq(t, 1, n) \in Seq(S)
      /\ Len(SubSeq(s, 1, n)) = IF 1 <= n THEN n - 1 + 1 ELSE 0
      /\ Len(SubSeq(t, 1, n)) = IF 1 <= n THEN n - 1 + 1 ELSE 0
      /\ \A i \in 1..(n - 1 + 1) : SubSeq(s, 1, n)[i] = s[1 + i - 1]
      /\ \A i \in 1..(n - 1 + 1) : SubSeq(t, 1, n)[i] = t[1 + i - 1]
  BY <1>3, SubSeqProperties
<1>5. n - 1 + 1 = n /\ (IF 1 <= n THEN n - 1 + 1 ELSE 0) = n /\ \A i \in 1..n : 1 + i - 1 = i
  OBVIOUS
<1>6. \A i \in 1..n : SubSeq(s, 1, n)[i] = SubSeq(t, 1, n)[i]
  BY <1>3, <1>4, <1>5
<1>7. SubSeq(s, 1, n) = SubSeq(t, 1, n)
  BY <1>4, <1>5, <1>6, SeqEqual
<1> QED
  BY <1>1, <1>2, <1>7 DEF IsPrefix

(* Where a router is mounted is a path.                                    *)
LEMMA MountType == ASSUME NEW p \in Path PROVE Mount(p) \in Path
<1>1. CASE HasRest(p)
  <2>1. Len(p) \in Nat
    BY LenProperties DEF Path
  <2>2. PICK n \in Int : n = Len(p) - 1
    BY <2>1
  <2>3. \A i \in 1..n : p[i] \in Segments \cup {Rest}
    BY <2>1, <2>2, ElementOfSeq DEF Path
  <2>4. SubSeq(p, 1, n) \in Path
    BY <2>2, <2>3, SubSeqProperties DEF Path
  <2> QED
    BY <1>1, <2>2, <2>4 DEF Mount, Front
<1>2. CASE ~HasRest(p)
  BY <1>2 DEF Mount
<1> QED
  BY <1>1, <1>2

(* The patterns of the program, and what Use makes of them                 *)
LEMMA PatternTypes ==
  ASSUME NEW p \in Patterns
  PROVE  p \in Path /\ Under(p) \in Path
<1>1. p \in Path
  BY RoutingAssumption DEF Path
<1>2. Mount(p) \in Path
  BY <1>1, MountType
<1> QED
  BY <1>1, <1>2, AppendProperties DEF Under, Path

(* addRouteDescriptor puts at most one descriptor behind the others.       *)
LEMMA AddFacts ==
  ASSUME NEW ds \in Seq(Descriptor), NEW p \in Path, NEW meta \in Metas \cup {None}
  PROVE  /\ AddRouteDescriptor(ds, p, meta) \in Seq(Descriptor)
         /\ Begins(ds, AddRouteDescriptor(ds, p, meta))
         /\ Patterned(AddRouteDescriptor(ds, p, meta)) \subseteq Patterned(ds) \cup {p}
<1> DEFINE d == [pattern |-> p, meta |-> meta]
           es == AddRouteDescriptor(ds, p, meta)
<1>1. d \in Descriptor
  BY DEF Descriptor, Path
<1>2. Len(ds) \in Nat
  BY LenProperties
<1>3. CASE p \in Patterned(ds)
  <2>1. es = ds
    BY <1>3 DEF AddRouteDescriptor
  <2>2. Begins(ds, ds)
    BY <1>2 DEF Begins
  <2> QED
    BY <2>1, <2>2
<1>4. CASE p \notin Patterned(ds)
  <2>1. es = Append(ds, d)
    BY <1>4 DEF AddRouteDescriptor
  <2> HIDE DEF d
  <2>2. /\ es \in Seq(Descriptor) /\ Len(es) = Len(ds) + 1
        /\ \A i \in 1..Len(ds) : es[i] = ds[i]
        /\ es[Len(ds) + 1] = d
    BY <1>1, <2>1, AppendProperties
  <2>3. Begins(ds, es)
    BY <1>2, <2>2 DEF Begins
  <2>4. ASSUME NEW q \in Patterned(es) PROVE q \in Patterned(ds) \cup {p}
    <3>1. PICK i \in 1..Len(es) : q = es[i].pattern
      BY <2>2, LenProperties DEF Patterned, Range
    <3>2. CASE i \in 1..Len(ds)
      BY <2>2, <3>1, <3>2, LenProperties DEF Patterned, Range
    <3>3. CASE i = Len(ds) + 1
      BY <2>2, <3>1, <3>3 DEF d
    <3> QED
      BY <1>2, <2>2, <3>2, <3>3
  <2> HIDE DEF es
  <2> QED
    BY <2>2, <2>3, <2>4 DEF es
<1> QED
  BY <1>3, <1>4

(* What taking over the descriptors of a sub-router adds                   *)
Taken(p, h) == IF h \in Routers THEN {Mount(p) \o q : q \in Patterned(descs[h])} ELSE {}

(* es has the descriptors of ds, in front, and others with these patterns. *)
Grown(ds, es, qs) ==
    es \in Seq(Descriptor) /\ Begins(ds, es) /\ Patterned(es) \subseteq Patterned(ds) \cup qs

(* Descriptors that are added to added ones                                *)
LEMMA GrownTrans ==
  ASSUME NEW ds \in Seq(Descriptor), NEW es, NEW fs, NEW P, NEW Q, Grown(ds, es, P), Grown(es, fs, Q)
  PROVE  Grown(ds, fs, P \cup Q)
BY BeginsTrans DEF Grown

(* Mounting a router adds the descriptors that it has, under its path.     *)
LEMMA CollectFacts ==
  ASSUME NEW ds \in Seq(Descriptor), NEW p \in Path, NEW h,
         h \in Routers => descs[h] \in Seq(Descriptor)
  PROVE  Grown(ds, Collect(ds, p, h), Taken(p, h))
<1>1. Len(ds) \in Nat /\ Begins(ds, ds)
  BY LenProperties DEF Begins
<1>2. CASE h \notin Routers
  BY <1>1, <1>2 DEF Grown, Collect
<1>3. CASE h \in Routers
  <2>1. PICK n \in Nat : n = Len(descs[h])
    BY <1>3, LenProperties
  <2>2. DOMAIN descs[h] = 1..n
    BY <1>3, <2>1, LenProperties
  <2> DEFINE G == [k \in 1..n |-> [x \in Seq(Descriptor) |->
                     AddRouteDescriptor(x, Mount(p) \o descs[h][k].pattern, descs[h][k].meta)]]
             gs(x) == [s \in SUBSET DOMAIN descs[h] |->
                       IF s = {} THEN ds
                       ELSE AddRouteDescriptor(x[s \ {Max(s)}], Mount(p) \o descs[h][Max(s)].pattern, descs[h][Max(s)].meta)]
  <2>3. ASSUME NEW k \in 1..n
        PROVE  \E q \in Path, mt \in Metas \cup {None} :
                 /\ q = Mount(p) \o descs[h][k].pattern /\ mt = descs[h][k].meta
                 /\ q \in Taken(p, h)
    <3>1. descs[h][k] \in Descriptor
      BY <1>3, <2>1, ElementOfSeq
    <3>2. descs[h][k].pattern \in Path /\ descs[h][k].meta \in Metas \cup {None}
      BY <3>1 DEF Descriptor, Path
    <3>3. Mount(p) \o descs[h][k].pattern \in Path
      BY <3>2, MountType, ConcatProperties DEF Path
    <3> QED
      BY <1>3, <2>2, <3>2, <3>3 DEF Taken, Patterned, Range
  <2>4. ASSUME NEW k \in 1..n, NEW x \in Seq(Descriptor)
        PROVE  LET y == AddRouteDescriptor(x, Mount(p) \o descs[h][k].pattern, descs[h][k].meta) IN
               G[k][x] = y /\ Grown(x, y, Taken(p, h))
    <3>1. PICK q \in Path, mt \in Metas \cup {None} :
            /\ q = Mount(p) \o descs[h][k].pattern /\ mt = descs[h][k].meta
            /\ q \in Taken(p, h)
      BY <2>3
    <3>2. /\ AddRouteDescriptor(x, q, mt) \in Seq(Descriptor)
          /\ Begins(x, AddRouteDescriptor(x, q, mt))
          /\ Patterned(AddRouteDescriptor(x, q, mt)) \subseteq Patterned(x) \cup {q}
      BY AddFacts
    <3>3. Grown(x, AddRouteDescriptor(x, q, mt), Taken(p, h))
      BY <3>1, <3>2 DEF Grown
    <3> QED
      BY <3>1, <3>3
  <2> HIDE DEF G
  <2>5. PICK F : F = G
    OBVIOUS
  <2>6. Keeps(F, n, Seq(Descriptor))
    BY <2>4, <2>5 DEF Keeps, Grown
  <2>7. ASSUME NEW s \in SUBSET (1..n), s # {} PROVE Max(s) \in 1..n /\ s \ {Max(s)} \in SUBSET (1..n)
    BY <2>7, MaxOfSome
  <2>8. \E g : g = gs(g)
    <3>1. PICK g : Within(g, n, Seq(Descriptor)) /\ Folds(g, F, n, ds, Seq(Descriptor))
      BY <2>6, FoldRecursion
    <3>2. ASSUME NEW s \in SUBSET (1..n) PROVE gs(g)[s] = g[s]
      <4>1. CASE s = {}
        BY <2>2, <3>1, <4>1 DEF Folds
      <4>2. CASE s # {}
        <5>1. g[s] = F[Max(s)][g[s \ {Max(s)}]] /\ g[s \ {Max(s)}] \in Seq(Descriptor)
          BY <2>7, <3>1, <4>2 DEF Folds, Within
        <5>2. PICK k \in 1..n : k = Max(s)
          BY <2>7, <4>2
        <5>3. g[s] = AddRouteDescriptor(g[s \ {k}], Mount(p) \o descs[h][k].pattern, descs[h][k].meta)
          BY <2>4, <2>5, <5>1, <5>2
        <5> QED
          BY <2>2, <4>2, <5>2, <5>3
      <4> QED
        BY <4>1, <4>2
    <3>3. g = [s \in SUBSET (1..n) |-> g[s]]
      BY <3>1 DEF Within
    <3> QED
      BY <2>2, <3>2, <3>3
  <2>9. PICK it : Collect(ds, p, h) = it[DOMAIN descs[h]] /\ it = gs(it)
    BY <1>3, <2>8, Zenon DEF Collect, FoldLeft, MapThenFoldSet
  <2>10. Folds(it, F, n, ds, Seq(Descriptor))
    <3>1. it[{}] = ds
      BY <2>2, <2>9
    <3>2. ASSUME NEW s \in SUBSET (1..n), s # {}, it[s \ {Max(s)}] \in Seq(Descriptor)
          PROVE  it[s] = F[Max(s)][it[s \ {Max(s)}]]
      <4>1. it[s] = AddRouteDescriptor(it[s \ {Max(s)}], Mount(p) \o descs[h][Max(s)].pattern, descs[h][Max(s)].meta)
        BY <2>2, <2>9, <3>2
      <4>2. PICK k \in 1..n : k = Max(s)
        BY <2>7, <3>2
      <4> QED
        BY <2>4, <2>5, <3>2, <4>1, <4>2
    <3> QED
      BY <3>1, <3>2 DEF Folds
  <2>11. PICK c : Stages(c, F, n, ds, Seq(Descriptor)) /\ c[n] = it[1..n]
    BY <2>6, <2>10, FoldSteps
  <2> DEFINE S == {k \in 0..n : Grown(ds, c[k], Taken(p, h))}
  <2>12. 0 \in S
    BY <1>1, <2>11 DEF Grown, Stages
  <2>13. ASSUME NEW k \in 1..n, k - 1 \in S PROVE k \in S
    <3>1. k - 1 \in 0..n /\ k \in 0..n /\ Grown(ds, c[k - 1], Taken(p, h))
      BY <2>13
    <3>2. c[k - 1] \in Seq(Descriptor) /\ c[k] \in Seq(Descriptor) /\ c[k] = G[k][c[k - 1]]
      BY <2>5, <2>11, <3>1 DEF Stages
    <3>3. Grown(c[k - 1], c[k], Taken(p, h))
      BY <2>4, <3>2
    <3>4. Grown(ds, c[k], Taken(p, h) \cup Taken(p, h))
      BY <3>1, <3>3, GrownTrans
    <3>5. Taken(p, h) \cup Taken(p, h) = Taken(p, h)
      OBVIOUS
    <3> QED
      BY <3>1, <3>4, <3>5
  <2>14. \A k \in 0..n : k \in S
    <3> HIDE DEF S
    <3> QED BY <2>12, <2>13, UpTo
  <2>15. Grown(ds, c[n], Taken(p, h))
    <3>1. n \in 0..n
      OBVIOUS
    <3> QED BY <2>14, <3>1
  <2> QED
    BY <2>2, <2>9, <2>11, <2>15
<1> QED
  BY <1>2, <1>3

(* The same of all handlers that are bound together                        *)
LEMMA CollectAllFacts ==
  ASSUME NEW ds \in Seq(Descriptor), NEW p \in Path, NEW Hs, NEW hs \in Seq(Hs),
         \A h \in Hs : h \in Routers => descs[h] \in Seq(Descriptor)
  PROVE  Grown(ds, CollectAll(ds, p, hs), UNION {Taken(p, hs[i]) : i \in 1..Len(hs)})
<1>1. PICK n \in Nat : n = Len(hs)
  BY LenProperties
<1>2. DOMAIN hs = 1..n /\ \A k \in 1..n : hs[k] \in Hs
  BY <1>1, LenProperties, ElementOfSeq
<1> DEFINE Q == UNION {Taken(p, hs[i]) : i \in 1..n}
           G == [k \in 1..n |-> [x \in Seq(Descriptor) |-> Collect(x, p, hs[k])]]
           gs(x) == [s \in SUBSET DOMAIN hs |->
                       IF s = {} THEN ds ELSE Collect(x[s \ {Max(s)}], p, hs[Max(s)])]
<1>3. ASSUME NEW k \in 1..n, NEW x \in Seq(Descriptor)
      PROVE  /\ G[k][x] = Collect(x, p, hs[k])
             /\ Grown(x, Collect(x, p, hs[k]), Q) /\ Collect(x, p, hs[k]) \in Seq(Descriptor)
  <2>1. Grown(x, Collect(x, p, hs[k]), Taken(p, hs[k]))
    BY <1>2, CollectFacts
  <2>2. Taken(p, hs[k]) \subseteq Q
    OBVIOUS
  <2> HIDE DEF Q
  <2> QED
    BY <2>1, <2>2 DEF Grown
<1> HIDE DEF G, Q
<1>4. PICK F : F = G
  OBVIOUS
<1>5. Keeps(F, n, Seq(Descriptor))
  BY <1>3, <1>4 DEF Keeps
<1>6. ASSUME NEW s \in SUBSET (1..n), s # {} PROVE Max(s) \in 1..n /\ s \ {Max(s)} \in SUBSET (1..n)
  BY <1>6, MaxOfSome
<1>7. \E g : g = gs(g)
  <2>1. PICK g : Within(g, n, Seq(Descriptor)) /\ Folds(g, F, n, ds, Seq(Descriptor))
    BY <1>5, FoldRecursion
  <2>2. ASSUME NEW s \in SUBSET (1..n) PROVE gs(g)[s] = g[s]
    <3>1. CASE s = {}
      BY <1>2, <2>1, <3>1 DEF Folds
    <3>2. CASE s # {}
      <4>1. g[s] = F[Max(s)][g[s \ {Max(s)}]] /\ g[s \ {Max(s)}] \in Seq(Descriptor)
        BY <1>6, <2>1, <3>2 DEF Folds, Within
      <4>2. PICK k \in 1..n : k = Max(s)
        BY <1>6, <3>2
      <4>3. g[s] = Collect(g[s \ {k}], p, hs[k])
        BY <1>3, <1>4, <4>1, <4>2
      <4> QED
        BY <1>2, <3>2, <4>2, <4>3
    <3> QED
      BY <3>1, <3>2
  <2>3. g = [s \in SUBSET (1..n) |-> g[s]]
    BY <2>1 DEF Within
  <2> QED
    BY <1>2, <2>2, <2>3
<1>8. PICK it : CollectAll(ds, p, hs) = it[DOMAIN hs] /\ it = gs(it)
  BY <1>7, Zenon DEF CollectAll, FoldLeft, MapThenFoldSet
<1>9. Folds(it, F, n, ds, Seq(Descriptor))
  <2>1. it[{}] = ds
    BY <1>2, <1>8
  <2>2. ASSUME NEW s \in SUBSET (1..n), s # {}, it[s \ {Max(s)}] \in Seq(Descriptor)
        PROVE  it[s] = F[Max(s)][it[s \ {Max(s)}]]
    <3>1. it[s] = Collect(it[s \ {Max(s)}], p, hs[Max(s)])
      BY <1>2, <1>8, <2>2
    <3>2. PICK k \in 1..n : k = Max(s)
      BY <1>6, <2>2
    <3> QED
      BY <1>3, <1>4, <2>2, <3>1, <3>2
  <2> QED
    BY <2>1, <2>2 DEF Folds
<1>10. PICK c : Stages(c, F, n, ds, Seq(Descriptor)) /\ c[n] = it[1..n]
  BY <1>5, <1>9, FoldSteps
<1> DEFINE S == {k \in 0..n : Grown(ds, c[k], Q)}
<1>11. 0 \in S
  <2>1. Len(ds) \in Nat /\ Begins(ds, ds)
    BY LenProperties DEF Begins
  <2>2. Grown(ds, ds, Q)
    BY <2>1 DEF Grown
  <2>3. c[0] = ds
    BY <1>10 DEF Stages
  <2> QED
    BY <2>2, <2>3
<1>12. ASSUME NEW k \in 1..n, k - 1 \in S PROVE k \in S
  <2>1. k - 1 \in 0..n /\ k \in 0..n /\ Grown(ds, c[k - 1], Q)
    BY <1>12
  <2>2. c[k - 1] \in Seq(Descriptor) /\ c[k] = G[k][c[k - 1]]
    BY <1>4, <1>10, <2>1 DEF Stages
  <2>3. Grown(c[k - 1], c[k], Q)
    <3>1. PICK x \in Seq(Descriptor) : x = c[k - 1]
      BY <2>2
    <3>2. Grown(x, Collect(x, p, hs[k]), Q) /\ G[k][x] = Collect(x, p, hs[k])
      BY <1>3
    <3>3. c[k] = Collect(x, p, hs[k])
      BY <2>2, <3>1, <3>2
    <3> QED
      BY <3>1, <3>2, <3>3
  <2>4. Grown(ds, c[k], Q \cup Q)
    BY <2>1, <2>3, GrownTrans
  <2>5. Q \cup Q = Q
    OBVIOUS
  <2> QED
    BY <2>1, <2>4, <2>5
<1>13. \A k \in 0..n : k \in S
  <2> HIDE DEF S
  <2> QED BY <1>11, <1>12, UpTo
<1>14. Grown(ds, c[n], Q)
  <2>1. n \in 0..n
    OBVIOUS
  <2> QED BY <1>13, <2>1
<1> QED
  BY <1>1, <1>2, <1>8, <1>10, <1>14 DEF Q

-----------------------------------------------------------------------------
(* How often a handler is in a sequence                                    *)
LEMMA TimesAppend ==
  ASSUME NEW S, NEW s \in Seq(S), NEW x \in S, NEW h, IsFiniteSet(At(h, s))
  PROVE  /\ IsFiniteSet(At(h, Append(s, x)))
         /\ Times(h, Append(s, x)) = Times(h, s) + (IF x = h THEN 1 ELSE 0)
<1>1. /\ Len(s) \in Nat /\ DOMAIN s = 1..Len(s) /\ DOMAIN Append(s, x) = 1..(Len(s) + 1)
      /\ \A i \in 1..Len(s) : Append(s, x)[i] = s[i]
      /\ Append(s, x)[Len(s) + 1] = x
  BY LenProperties, AppendProperties
<1>2. PICK n \in Nat : n = Len(s)
  BY <1>1
<1>3. At(h, Append(s, x)) = {i \in 1..(n + 1) : Append(s, x)[i] = h} /\ At(h, s) = {i \in 1..n : s[i] = h}
  BY <1>1, <1>2 DEF At
<1>4. Cardinality(At(h, s)) \in Nat
  BY FS_CardinalityType
<1>5. CASE x = h
  <2>1. At(h, Append(s, x)) = At(h, s) \cup {n + 1}
    BY <1>1, <1>2, <1>3, <1>5
  <2>2. n + 1 \notin At(h, s)
    BY <1>3
  <2> QED
    BY <1>5, <2>1, <2>2, FS_AddElement DEF Times
<1>6. CASE x # h
  <2>1. At(h, Append(s, x)) = At(h, s)
    BY <1>1, <1>2, <1>3, <1>6
  <2> QED
    BY <1>4, <1>6, <2>1 DEF Times
<1> QED
  BY <1>5, <1>6

(* A set that is put, one to one, behind another one                       *)
LEMMA Beside ==
  ASSUME NEW S, IsFiniteSet(S), NEW T, IsFiniteSet(T), NEW U, ExistsBijection(T, U), S \cap U = {}
  PROVE  /\ IsFiniteSet(S \cup U)
         /\ Cardinality(S \cup U) = Cardinality(S) + Cardinality(T)
<1>1. IsFiniteSet(U) /\ Cardinality(U) = Cardinality(T)
  BY FS_Bijection
<1>2. IsFiniteSet(S \cup U) /\ Cardinality(S \cup U) = Cardinality(S) + Cardinality(U) - Cardinality(S \cap U)
  BY <1>1, FS_Union
<1>3. Cardinality(S \cap U) = 0 /\ Cardinality(S) \in Nat /\ Cardinality(U) \in Nat
  BY <1>1, FS_EmptySet, FS_CardinalityType
<1> QED
  BY <1>1, <1>2, <1>3

(* Places in a sequence are finite in number.                              *)
LEMMA AtFinite == ASSUME NEW S, NEW s \in Seq(S), NEW h PROVE IsFiniteSet(At(h, s)) /\ Times(h, s) \in Nat
<1>1. Len(s) \in Nat /\ DOMAIN s = 1..Len(s)
  BY LenProperties
<1>2. PICK n \in Nat : n = Len(s)
  BY <1>1
<1>3. IsFiniteSet(1..n)
  BY 1 \in Int /\ n \in Int, FS_Interval
<1>4. At(h, s) \in SUBSET (1..n)
  BY <1>1, <1>2 DEF At
<1>5. IsFiniteSet(At(h, s))
  BY <1>3, <1>4, FS_Subset
<1> QED
  BY <1>5, FS_CardinalityType DEF Times

(* A handler is in two sequences, one behind the other, as often as in     *)
(* both.                                                                   *)
LEMMA TimesConcat ==
  ASSUME NEW S, NEW s \in Seq(S), NEW t \in Seq(S), NEW h
  PROVE  Times(h, s \o t) = Times(h, s) + Times(h, t)
<1>1. PICK n \in Nat : n = Len(s)
  BY LenProperties
<1>2. PICK k \in Nat : k = Len(t)
  BY LenProperties
<1>3. /\ DOMAIN s = 1..n /\ DOMAIN t = 1..k /\ DOMAIN (s \o t) = 1..(n + k)
      /\ \A i \in 1..(n + k) : (s \o t)[i] = IF i <= n THEN s[i] ELSE t[i - n]
  BY <1>1, <1>2, LenProperties, ConcatProperties
<1> DEFINE f == [i \in At(h, t) |-> n + i]
           U == {n + i : i \in At(h, t)}
<1>4. ExistsBijection(At(h, t), U)
  <2>1. \A i \in At(h, t) : i \in Nat
    BY <1>3 DEF At
  <2>2. f \in [At(h, t) -> U] /\ \A i \in At(h, t) : f[i] = n + i
    OBVIOUS
  <2>3. \A u \in U : \E i \in At(h, t) : u = n + i
    OBVIOUS
  <2> HIDE DEF f, U
  <2>4. f \in Surjection(At(h, t), U)
    BY <2>2, <2>3 DEF Surjection
  <2>5. \A i, j \in At(h, t) : f[i] = f[j] => i = j
    BY <2>1, <2>2
  <2> QED
    BY <2>2, <2>4, <2>5 DEF ExistsBijection, Bijection, Injection, IsInjective
<1>5. At(h, s) \cap U = {}
  BY <1>3 DEF At
<1>6. At(h, s \o t) = At(h, s) \cup U
  <2>1. ASSUME NEW i \in At(h, s \o t) PROVE i \in At(h, s) \cup U
    <3>1. i \in 1..(n + k) /\ (s \o t)[i] = h
      BY <1>3 DEF At
    <3>2. CASE i <= n
      BY <1>3, <3>1, <3>2 DEF At
    <3>3. CASE i > n
      <4>1. i - n \in 1..k /\ i = n + (i - n)
        BY <3>1, <3>3
      <4>2. t[i - n] = h
        BY <1>3, <3>1, <3>3
      <4> QED
        BY <1>3, <4>1, <4>2 DEF At
    <3> QED
      BY <3>1, <3>2, <3>3
  <2>2. ASSUME NEW i \in At(h, s) PROVE i \in At(h, s \o t)
    BY <1>3 DEF At
  <2>3. ASSUME NEW j \in At(h, t) PROVE n + j \in At(h, s \o t)
    <3>1. j \in 1..k /\ t[j] = h
      BY <1>3 DEF At
    <3>2. n + j \in 1..(n + k) /\ ~(n + j <= n) /\ n + j - n = j
      BY <3>1
    <3> QED
      BY <1>3, <3>1, <3>2 DEF At
  <2> QED
    BY <2>1, <2>2, <2>3
<1>7. IsFiniteSet(At(h, s)) /\ IsFiniteSet(At(h, t))
  BY AtFinite
<1> HIDE DEF f, U
<1> QED
  BY <1>4, <1>5, <1>6, <1>7, Beside DEF Times

(* Hooks keeps the handlers that have the hook, each as often as it is bound*)
LEMMA HooksFacts ==
  ASSUME NEW able, NEW Hs, NEW hs \in Seq(Hs), NEW h
  PROVE  /\ Hooks(able, hs) \in Seq(Hs)
         /\ h \in able \cup Routers => Times(h, Hooks(able, hs)) = Times(h, hs)
<1>1. PICK n \in Nat : n = Len(hs)
  BY LenProperties
<1>2. DOMAIN hs = 1..n /\ \A k \in 1..n : hs[k] \in Hs
  BY <1>1, LenProperties, ElementOfSeq
<1> DEFINE H(x, g) == IF g \in able \cup Routers THEN Append(x, g) ELSE x
           G == [k \in 1..n |-> [x \in Seq(Hs) |-> H(x, hs[k])]]
           gs(x) == [s \in SUBSET DOMAIN hs |->
                       IF s = {} THEN <<>> ELSE H(x[s \ {Max(s)}], hs[Max(s)])]
<1>3. ASSUME NEW k \in 1..n, NEW x \in Seq(Hs)
      PROVE  G[k][x] = H(x, hs[k]) /\ H(x, hs[k]) \in Seq(Hs)
  <2>1. Append(x, hs[k]) \in Seq(Hs)
    BY <1>2, AppendProperties
  <2> QED
    BY <2>1
<1> HIDE DEF G
<1>4. PICK F : F = G
  OBVIOUS
<1>5. Keeps(F, n, Seq(Hs))
  <2> HIDE DEF H
  <2> QED
    BY <1>3, <1>4 DEF Keeps
<1>6. ASSUME NEW s \in SUBSET (1..n), s # {} PROVE Max(s) \in 1..n /\ s \ {Max(s)} \in SUBSET (1..n)
  BY <1>6, MaxOfSome
<1>7. <<>> \in Seq(Hs)
  BY EmptySeq
<1>8. \E g : g = gs(g)
  <2> HIDE DEF H
  <2>1. PICK g : Within(g, n, Seq(Hs)) /\ Folds(g, F, n, <<>>, Seq(Hs))
    BY <1>7, <1>5, FoldRecursion
  <2>2. ASSUME NEW s \in SUBSET (1..n) PROVE gs(g)[s] = g[s]
    <3>1. CASE s = {}
      BY <1>2, <2>1, <3>1 DEF Folds
    <3>2. CASE s # {}
      <4>1. g[s] = F[Max(s)][g[s \ {Max(s)}]] /\ g[s \ {Max(s)}] \in Seq(Hs)
        BY <1>6, <2>1, <3>2 DEF Folds, Within
      <4>2. PICK k \in 1..n : k = Max(s)
        BY <1>6, <3>2
      <4>3. g[s] = H(g[s \ {k}], hs[k])
        BY <1>3, <1>4, <4>1, <4>2
      <4> QED
        BY <1>2, <3>2, <4>2, <4>3
    <3> QED
      BY <3>1, <3>2
  <2>3. g = [s \in SUBSET (1..n) |-> g[s]]
    BY <2>1 DEF Within
  <2> QED
    BY <1>2, <2>2, <2>3
<1>9. PICK it : Hooks(able, hs) = it[DOMAIN hs] /\ it = gs(it)
  BY <1>8, Zenon DEF Hooks, FoldLeft, MapThenFoldSet
<1>10. Folds(it, F, n, <<>>, Seq(Hs))
  <2> HIDE DEF H
  <2>1. it[{}] = <<>>
    BY <1>2, <1>9
  <2>2. ASSUME NEW s \in SUBSET (1..n), s # {}, it[s \ {Max(s)}] \in Seq(Hs)
        PROVE  it[s] = F[Max(s)][it[s \ {Max(s)}]]
    <3>1. it[s] = H(it[s \ {Max(s)}], hs[Max(s)])
      BY <1>2, <1>9, <2>2
    <3>2. PICK k \in 1..n : k = Max(s)
      BY <1>6, <2>2
    <3> QED
      BY <1>3, <1>4, <2>2, <3>1, <3>2
  <2> QED
    BY <2>1, <2>2 DEF Folds
<1>11. PICK c : Stages(c, F, n, <<>>, Seq(Hs)) /\ c[n] = it[1..n]
  <2>1. PICK e \in Seq(Hs) : e = <<>>
    BY <1>7
  <2>2. Folds(it, F, n, e, Seq(Hs))
    BY <1>10, <2>1
  <2>3. \E c : Stages(c, F, n, e, Seq(Hs)) /\ c[n] = it[1..n]
    BY <1>5, <2>2, FoldSteps
  <2> QED
    BY <2>1, <2>3
<1>12. c[n] \in Seq(Hs) /\ c[n] = Hooks(able, hs)
  <2>1. n \in 0..n
    OBVIOUS
  <2> QED BY <1>2, <1>9, <1>11, <2>1 DEF Stages
<1>13. ASSUME h \in able \cup Routers PROVE Times(h, c[n]) = Times(h, hs)
  <2> DEFINE P(k) == {i \in 1..k : hs[i] = h}
             S == {k \in 0..n : Times(h, c[k]) = Cardinality(P(k)) /\ IsFiniteSet(P(k))}
  <2>1. 0 \in S
    <3>1. P(0) = {} /\ DOMAIN <<>> = {}
      OBVIOUS
    <3>2. At(h, <<>>) = {}
      BY <3>1 DEF At
    <3>3. c[0] = <<>>
      BY <1>11 DEF Stages
    <3>4. Times(h, c[0]) = 0 /\ Cardinality(P(0)) = 0 /\ IsFiniteSet(P(0))
      BY <3>1, <3>2, <3>3, FS_EmptySet DEF Times
    <3> HIDE DEF P
    <3> QED
      BY <3>4
  <2>2. ASSUME NEW k \in 1..n, k - 1 \in S PROVE k \in S
    <3>1. /\ k - 1 \in 0..n /\ k \in 0..n
          /\ Times(h, c[k - 1]) = Cardinality(P(k - 1)) /\ IsFiniteSet(P(k - 1))
      BY <2>2
    <3>2. PICK x \in Seq(Hs) : x = c[k - 1]
      BY <1>11, <3>1 DEF Stages
    <3>3. c[k] = H(x, hs[k])
      <4>1. c[k] = G[k][x]
        BY <1>4, <1>11, <3>2 DEF Stages
      <4> HIDE DEF H
      <4> QED BY <1>3, <4>1
    <3>4. /\ IsFiniteSet(P(k)) /\ Cardinality(P(k - 1)) \in Nat
          /\ Cardinality(P(k)) = Cardinality(P(k - 1)) + (IF hs[k] = h THEN 1 ELSE 0)
      <4>1. CASE hs[k] = h
        <5>1. P(k) = P(k - 1) \cup {k} /\ k \notin P(k - 1)
          BY <4>1
        <5> HIDE DEF P
        <5>2. PICK T : T = P(k - 1)
          OBVIOUS
        <5>3. IsFiniteSet(T) /\ k \notin T
          BY <3>1, <5>1, <5>2
        <5>4. IsFiniteSet(T \cup {k}) /\ Cardinality(T \cup {k}) = Cardinality(T) + 1
          BY <5>3, FS_AddElement
        <5>5. Cardinality(T) \in Nat
          BY <5>3, FS_CardinalityType
        <5> QED BY <4>1, <5>1, <5>2, <5>4, <5>5
      <4>2. CASE hs[k] # h
        <5>1. P(k) = P(k - 1)
          BY <4>2
        <5> HIDE DEF P
        <5> QED BY <3>1, <4>2, <5>1, FS_CardinalityType
      <4> QED
        BY <4>1, <4>2
    <3>5. Times(h, c[k]) = Times(h, x) + (IF hs[k] = h THEN 1 ELSE 0)
      <4>1. IsFiniteSet(At(h, x)) /\ Times(h, x) \in Nat /\ hs[k] \in Hs
        BY <1>2, AtFinite
      <4>2. CASE hs[k] \in able \cup Routers
        BY <3>3, <4>1, <4>2, TimesAppend
      <4>3. CASE hs[k] \notin able \cup Routers
        BY <1>13, <3>3, <4>1, <4>3
      <4> QED
        BY <4>2, <4>3
    <3> HIDE DEF P
    <3>6. Times(h, c[k]) = Cardinality(P(k)) /\ IsFiniteSet(P(k))
      BY <3>1, <3>2, <3>4, <3>5
    <3> QED
      BY <3>1, <3>6
  <2>3. \A k \in 0..n : k \in S
    <3> HIDE DEF S
    <3> QED BY <2>1, <2>2, UpTo
  <2>4. n \in S
    <3> HIDE DEF S
    <3>1. n \in 0..n
      OBVIOUS
    <3> QED BY <2>3, <3>1
  <2>5. P(n) = At(h, hs)
    BY <1>2 DEF At
  <2> HIDE DEF P
  <2> QED
    BY <2>4, <2>5 DEF Times
<1> QED
  BY <1>12, <1>13

(* Where a handler is bound, in the nodes of a router                      *)
BoundAt(h, ns) == UNION {{n} \X At(h, ns[n].handlers) : n \in DOMAIN ns}

(* A node that is appended adds the places of its handlers.                *)
LEMMA BoundAppend ==
  ASSUME NEW N, NEW ns \in Seq(N), NEW x \in N, NEW Hs, x.handlers \in Seq(Hs), NEW h,
         IsFiniteSet(BoundAt(h, ns))
  PROVE  /\ IsFiniteSet(BoundAt(h, Append(ns, x)))
         /\ Cardinality(BoundAt(h, Append(ns, x))) = Cardinality(BoundAt(h, ns)) + Times(h, x.handlers)
<1>1. PICK n \in Nat : n = Len(ns)
  BY LenProperties
<1>2. /\ DOMAIN ns = 1..n /\ DOMAIN Append(ns, x) = 1..(n + 1)
      /\ \A i \in 1..n : Append(ns, x)[i] = ns[i]
      /\ Append(ns, x)[n + 1] = x
  BY <1>1, LenProperties, AppendProperties
<1> DEFINE T == At(h, x.handlers)
           U == {n + 1} \X T
           f == [i \in T |-> <<n + 1, i>>]
<1>3. BoundAt(h, Append(ns, x)) = BoundAt(h, ns) \cup U
  <2>1. DOMAIN Append(ns, x) = DOMAIN ns \cup {n + 1}
    BY <1>2
  <2>2. \A i \in DOMAIN ns : At(h, Append(ns, x)[i].handlers) = At(h, ns[i].handlers)
    BY <1>2
  <2>3. At(h, Append(ns, x)[n + 1].handlers) = T
    BY <1>2
  <2> HIDE DEF T
  <2> QED
    BY <2>1, <2>2, <2>3 DEF BoundAt
<1>4. BoundAt(h, ns) \cap U = {}
  BY <1>2 DEF BoundAt
<1>5. ExistsBijection(T, U)
  <2> HIDE DEF T
  <2>1. f \in [T -> U] /\ \A i \in T : f[i] = <<n + 1, i>>
    OBVIOUS
  <2>2. \A u \in U : \E i \in T : u = <<n + 1, i>>
    OBVIOUS
  <2> HIDE DEF f, U
  <2>3. f \in Surjection(T, U)
    BY <2>1, <2>2 DEF Surjection
  <2>4. \A i, j \in T : f[i] = f[j] => i = j
    BY <2>1
  <2> QED
    BY <2>1, <2>3, <2>4 DEF ExistsBijection, Bijection, Injection, IsInjective
<1>6. IsFiniteSet(T)
  BY AtFinite
<1> HIDE DEF T, U
<1> QED
  BY <1>3, <1>4, <1>5, <1>6, Beside DEF Times, T

(* The nodes a router may have                                             *)
NodesOf(r) == [pattern : Path, handlers : HandlerLists(r)]

(* What a program may give to UseOpen and UseClose                         *)
Givable == UNION {{r} \X Handlers(r) : r \in Routers}

(* What the registrations have made, in every router                       *)
Shapes ==
    /\ DOMAIN nodes = Routers /\ \A r \in Routers : nodes[r] \in Seq(NodesOf(r))
    /\ DOMAIN opens = Routers /\ \A r \in Routers : opens[r] \in Seq(Handlers(r))
    /\ DOMAIN closes = Routers /\ \A r \in Routers : closes[r] \in Seq(Handlers(r))
    /\ descs \in [Routers -> Seq(Descriptor)]
    /\ published \subseteq Routers \X Patterns
    /\ given \subseteq Givable
    /\ binds \in 0..MaxBinds

(* What is bound together in a router may be bound there.                  *)
LEMMA ListFacts ==
  ASSUME NEW r \in Routers, NEW hs \in HandlerLists(r)
  PROVE  /\ hs \in Seq(Handlers(r)) /\ Len(hs) \in Nat /\ DOMAIN hs = 1..Len(hs)
         /\ Range(hs) \subseteq Handlers(r)
         /\ \A h \in Range(hs) \cap Routers : h > r
<1>1. PICK H : H = Funcs \cup Openers \cup Closers \cup Routers
  OBVIOUS
<1>2. hs \in Seq(H) /\ Range(hs) \subseteq Handlers(r)
  BY <1>1, RoutingAssumption DEF HandlerLists
<1>3. PICK n \in Nat : hs \in [1..n -> H]
  BY <1>2, SeqDef
<1>4. hs \in [1..n -> Handlers(r)]
  BY <1>2, <1>3 DEF Range
<1>5. hs \in Seq(Handlers(r))
  BY <1>4, SeqDef
<1>6. \A h \in Handlers(r) \cap Routers : h > r
  BY RoutingAssumption DEF Handlers
<1> QED
  BY <1>2, <1>5, <1>6, LenProperties

(* In the open chain ks and in the close chain ls, the handlers that were  *)
(* bound together have all their hooks,                                    *)
Full(hs, ks, ls) ==
    /\ \A h \in Openers \cup Routers : Times(h, ks) = Times(h, hs)
    /\ \A h \in Closers \cup Routers : Times(h, ls) = Times(h, hs)

(* or those that have both have none without the other.                    *)
Both == (Openers \cap Closers) \cup Routers
Paired(ks, ls) == \A h \in Both : Times(h, ks) = Times(h, ls)

(* The hooks of handlers                                                   *)
LEMMA AllHooks ==
  ASSUME NEW r \in Routers, NEW hs \in Seq(Handlers(r))
  PROVE  /\ Hooks(Openers, hs) \in Seq(Handlers(r)) /\ Hooks(Closers, hs) \in Seq(Handlers(r))
         /\ Full(hs, Hooks(Openers, hs), Hooks(Closers, hs))
BY HooksFacts DEF Full

(* The hooks of those that are bound together                              *)
LEMMA ListHooks ==
  ASSUME NEW r \in Routers, NEW hs \in HandlerLists(r)
  PROVE  /\ Hooks(Openers, hs) \in Seq(Handlers(r)) /\ Hooks(Closers, hs) \in Seq(Handlers(r))
         /\ Full(hs, Hooks(Openers, hs), Hooks(Closers, hs))
BY ListFacts, AllHooks

(* The hooks of the first of them                                          *)
LEMMA FirstHooks ==
  ASSUME NEW r \in Routers, NEW hs \in HandlerLists(r), NEW i \in DOMAIN hs, NEW gs, gs = SubSeq(hs, 1, i)
  PROVE  /\ Hooks(Openers, gs) \in Seq(Handlers(r)) /\ Hooks(Closers, gs) \in Seq(Handlers(r))
         /\ Paired(Hooks(Openers, gs), Hooks(Closers, gs))
<1>1. hs \in Seq(Handlers(r)) /\ Len(hs) \in Nat /\ DOMAIN hs = 1..Len(hs)
  BY ListFacts
<1>2. i \in Int /\ 1 \in Int /\ \A j \in 1..i : hs[j] \in Handlers(r)
  <2>1. i \in 1..Len(hs)
    BY <1>1
  <2>2. \A j \in 1..i : j \in 1..Len(hs)
    BY <1>1, <2>1
  <2> QED
    BY <1>1, <2>1, <2>2, ElementOfSeq
<1>3. gs \in Seq(Handlers(r))
  BY <1>2, SubSeqProperties
<1>4. /\ Hooks(Openers, gs) \in Seq(Handlers(r)) /\ Hooks(Closers, gs) \in Seq(Handlers(r))
      /\ Full(gs, Hooks(Openers, gs), Hooks(Closers, gs))
  BY ONLY r \in Routers, <1>3, AllHooks, Zenon
<1> QED
  BY <1>4 DEF Full, Paired, Both

-----------------------------------------------------------------------------
(* What a registration in router r does. Its descriptors: those that are   *)
(* new were published by it, or taken over from a router it mounts.        *)
Justified(r, q) ==
    \/ q \in Patterns /\ <<r, q>> \in published'
    \/ \E x \in Range(nodes'[r]) : \E h \in Range(x.handlers) \cap Routers :
        \E t \in Patterned(descs[h]) : q = Mount(x.pattern) \o t

(* What becomes of the descriptors of r                                    *)
Describes(r) ==
    \E es, qs :
        /\ descs' = [descs EXCEPT ![r] = es]
        /\ Grown(descs[r], es, qs)
        /\ \A q \in qs : Justified(r, q)

(* A node at the end of the chain of r                                     *)
AddsNode(r, x) == nodes' = [nodes EXCEPT ![r] = Append(@, x)]

(* Hooks at the end of both lists of r                                     *)
AddsHooks(r, ks, ls) ==
    /\ opens' = [opens EXCEPT ![r] = @ \o ks]
    /\ closes' = [closes EXCEPT ![r] = @ \o ls]

(* It adds a node and all hooks of its handlers,                           *)
HandsNode(r) ==
    \E x \in NodesOf(r), ks, ls \in Seq(Handlers(r)) :
        AddsNode(r, x) /\ AddsHooks(r, ks, ls) /\ Full(x.handlers, ks, ls) /\ given' = given

(* or hooks only, in pairs where a handler has both,                       *)
HandsPairs(r) ==
    /\ nodes' = nodes /\ given' = given
    /\ \E ks, ls \in Seq(Handlers(r)) : AddsHooks(r, ks, ls) /\ Paired(ks, ls)

(* or what the program gives, to one of the lists.                         *)
HandsOne(r) ==
    /\ nodes' = nodes
    /\ \E h \in Handlers(r) :
          /\ given' = given \cup {<<r, h>>}
          /\ \/ closes' = closes /\ opens' = [opens EXCEPT ![r] = Append(@, h)]
             \/ opens' = opens /\ closes' = [closes EXCEPT ![r] = Append(@, h)]

Hands(r) == HandsNode(r) \/ HandsPairs(r) \/ HandsOne(r)

(* A registration in r                                                     *)
Effects(r) ==
    /\ Describes(r) /\ Hands(r)
    /\ published \subseteq published' /\ published' \subseteq Routers \X Patterns
    /\ binds' \in 0..MaxBinds

(* A list that is added to a router                                        *)
LEMMA AppendedNode ==
  ASSUME Shapes, NEW r \in Routers, NEW p \in Path, NEW hs \in HandlerLists(r), AddNode(r, p, hs)
  PROVE  \E x \in NodesOf(r) :
           /\ AddsNode(r, x) /\ x.pattern = p /\ x.handlers = hs
           /\ x \in Range(nodes'[r])
<1> DEFINE x == [pattern |-> p, handlers |-> hs]
<1>1. x \in NodesOf(r) /\ AddsNode(r, x)
  BY DEF NodesOf, AddsNode, AddNode
<1>2. x.pattern = p /\ x.handlers = hs
  OBVIOUS
<1> HIDE DEF x
<1>3. nodes'[r] = Append(nodes[r], x) /\ nodes[r] \in Seq(NodesOf(r))
  BY <1>1 DEF AddsNode, Shapes
<1>4. /\ Append(nodes[r], x) \in Seq(NodesOf(r)) /\ Append(nodes[r], x)[Len(nodes[r]) + 1] = x
      /\ Len(Append(nodes[r], x)) = Len(nodes[r]) + 1 /\ Len(nodes[r]) \in Nat
  BY <1>1, <1>3, AppendProperties, LenProperties
<1>5. Len(nodes[r]) + 1 \in DOMAIN Append(nodes[r], x)
  BY <1>4, LenProperties
<1>6. x \in Range(nodes'[r])
  BY <1>3, <1>4, <1>5 DEF Range
<1> QED
  BY <1>1, <1>2, <1>6

(* Use and Bind                                                            *)
LEMMA BindEffects ==
  ASSUME Shapes, NEW r \in Routers, NEW p \in Path, NEW hs \in HandlerLists(r), Bind(r, p, hs)
  PROVE  Effects(r)
<1>1. /\ hs \in Seq(Handlers(r)) /\ Len(hs) \in Nat /\ DOMAIN hs = 1..Len(hs)
      /\ \A h \in Handlers(r) : h \in Routers => descs[h] \in Seq(Descriptor)
      /\ descs[r] \in Seq(Descriptor)
  BY ListFacts DEF Shapes
<1>2. PICK x \in NodesOf(r) :
        AddsNode(r, x) /\ x.pattern = p /\ x.handlers = hs /\ x \in Range(nodes'[r])
  BY AppendedNode DEF Bind
<1> DEFINE qs == UNION {Taken(p, hs[i]) : i \in 1..Len(hs)}
<1>3. Grown(descs[r], CollectAll(descs[r], p, hs), qs)
  BY <1>1, CollectAllFacts
<1>4. ASSUME NEW q \in qs PROVE Justified(r, q)
  <2>1. PICK i \in 1..Len(hs) : q \in Taken(p, hs[i])
    OBVIOUS
  <2>2. hs[i] \in Routers /\ \E t \in Patterned(descs[hs[i]]) : q = Mount(p) \o t
    BY <2>1 DEF Taken
  <2>3. hs[i] \in Range(x.handlers) \cap Routers
    BY <1>1, <1>2, <2>2 DEF Range
  <2> QED
    BY <1>2, <2>2, <2>3 DEF Justified
<1>5. Describes(r)
  <2>1. descs' = [descs EXCEPT ![r] = CollectAll(descs[r], p, hs)]
    BY DEF Bind
  <2> HIDE DEF qs
  <2> QED
    BY <1>3, <1>4, <2>1 DEF Describes
<1>6. Hands(r)
  <2>1. PICK ks \in Seq(Handlers(r)), ls \in Seq(Handlers(r)) :
          ks = Hooks(Openers, hs) /\ ls = Hooks(Closers, hs)
    BY ListHooks
  <2>2. AddsHooks(r, ks, ls) /\ given' = given
    BY <2>1 DEF Bind, AddHooks, AddsHooks
  <2>3. Full(x.handlers, ks, ls)
    BY <1>2, <2>1, ListHooks
  <2> QED
    BY <1>2, <2>2, <2>3 DEF Hands, HandsNode
<1>7. published' = published /\ binds' \in 0..MaxBinds
  BY RoutingAssumption DEF Bind, Register, Shapes
<1> QED
  BY <1>5, <1>6, <1>7 DEF Effects, Shapes

(* The part of PublicBind that publishes                                   *)
LEMMA PublishEffects ==
  ASSUME Shapes, NEW r \in Routers, NEW p \in Patterns, NEW meta \in Metas, Publish(r, p, meta)
  PROVE  Describes(r) /\ published \subseteq published' /\ published' \subseteq Routers \X Patterns
<1>1. descs[r] \in Seq(Descriptor) /\ p \in Path /\ meta \in Metas \cup {None}
  BY PatternTypes DEF Shapes
<1>2. PICK es : es = AddRouteDescriptor(descs[r], p, meta)
  OBVIOUS
<1>3. Grown(descs[r], es, {p})
  <2>1. PICK ds \in Seq(Descriptor) : ds = descs[r]
    BY <1>1
  <2>2. PICK m \in Metas \cup {None} : m = meta
    BY <1>1
  <2>3. Grown(ds, AddRouteDescriptor(ds, p, m), {p})
    BY <1>1, AddFacts DEF Grown
  <2> QED
    BY <1>2, <2>1, <2>2, <2>3
<1>4. descs' = [descs EXCEPT ![r] = es] /\ published' = published \cup {<<r, p>>}
  BY <1>2 DEF Publish
<1>5. \A q \in {p} : Justified(r, q)
  BY <1>4 DEF Justified
<1>6. Describes(r)
  <2>1. PICK qs : qs = {p}
    OBVIOUS
  <2>2. Grown(descs[r], es, qs) /\ \A q \in qs : Justified(r, q)
    BY <1>3, <1>5, <2>1
  <2>3. descs' = [descs EXCEPT ![r] = es]
    BY <1>4
  <2> QED
    BY <2>2, <2>3 DEF Describes
<1> QED
  BY <1>4, <1>6 DEF Shapes

(* PublicBind of functions                                                 *)
LEMMA PublicBindEffects ==
  ASSUME Shapes, NEW r \in Routers, NEW p \in Patterns, NEW meta \in Metas,
         NEW hs \in HandlerLists(r), PublicBind(r, p, meta, hs)
  PROVE  Effects(r)
<1>1. Describes(r) /\ published \subseteq published' /\ published' \subseteq Routers \X Patterns
  BY PublishEffects DEF PublicBind
<1>2. p \in Path
  BY PatternTypes
<1>3. PICK x \in NodesOf(r) :
        AddsNode(r, x) /\ x.pattern = p /\ x.handlers = hs /\ x \in Range(nodes'[r])
  BY <1>2, AppendedNode DEF PublicBind
<1>4. Hands(r)
  <2>1. PICK ks \in Seq(Handlers(r)), ls \in Seq(Handlers(r)) :
          ks = Hooks(Openers, hs) /\ ls = Hooks(Closers, hs)
    BY ListHooks
  <2>2. AddsHooks(r, ks, ls) /\ given' = given
    BY <2>1 DEF PublicBind, AddHooks, AddsHooks
  <2>3. Full(x.handlers, ks, ls)
    BY <1>3, <2>1, ListHooks
  <2> QED
    BY <1>3, <2>2, <2>3 DEF Hands, HandsNode
<1>5. binds' \in 0..MaxBinds
  BY RoutingAssumption DEF PublicBind, Register, Shapes
<1> QED
  BY <1>1, <1>4, <1>5 DEF Effects

(* PublicBind of a router, up to the panic                                 *)
LEMMA PanicEffects ==
  ASSUME Shapes, NEW r \in Routers, NEW p \in Patterns, NEW meta \in Metas,
         NEW hs \in HandlerLists(r), PublicBindPanics(r, p, meta, hs)
  PROVE  Effects(r)
<1>1. Describes(r) /\ published \subseteq published' /\ published' \subseteq Routers \X Patterns
  BY PublishEffects DEF PublicBindPanics
<1>2. PICK i \in RouterAt(hs) : AddHooks(r, SubSeq(hs, 1, i))
  BY DEF PublicBindPanics
<1>3. i \in DOMAIN hs
  BY <1>2 DEF RouterAt
<1>4. PICK gs : gs = SubSeq(hs, 1, i)
  OBVIOUS
<1>5. binds' \in 0..MaxBinds
  BY RoutingAssumption DEF PublicBindPanics, Register, Shapes
<1>6. AddsHooks(r, Hooks(Openers, gs), Hooks(Closers, gs)) /\ nodes' = nodes /\ given' = given
  BY <1>2, <1>4 DEF PublicBindPanics, AddHooks, AddsHooks
<1>7. Hands(r)
  BY <1>3, <1>4, <1>6, FirstHooks DEF Hands, HandsPairs
<1> QED
  BY <1>1, <1>5, <1>7 DEF Effects

(* UseOpen and UseClose                                                    *)
LEMMA UseEffects ==
  ASSUME Shapes, NEW r \in Routers, NEW h \in Handlers(r), UseOpen(r, h) \/ UseClose(r, h)
  PROVE  Effects(r)
<1>1. descs' = descs /\ nodes' = nodes /\ published' = published
  BY DEF UseOpen, UseClose
<1>2. PICK ds \in Seq(Descriptor) : ds = descs[r]
  BY DEF Shapes
<1>3. Grown(ds, ds, {})
  <2>1. Len(ds) \in Nat
    BY LenProperties
  <2> QED
    BY <2>1 DEF Grown, Begins
<1>4. descs' = [descs EXCEPT ![r] = ds]
  BY <1>1, <1>2 DEF Shapes
<1>5. Describes(r)
  <2>1. PICK qs : qs = {}
    OBVIOUS
  <2>2. Grown(descs[r], ds, qs) /\ \A q \in qs : Justified(r, q)
    BY <1>2, <1>3, <2>1
  <2> QED
    BY <1>4, <2>2 DEF Describes
<1>6. Hands(r)
  BY <1>1 DEF Hands, HandsOne, UseOpen, UseClose
<1>7. binds' \in 0..MaxBinds
  BY RoutingAssumption DEF UseOpen, UseClose, Register, Shapes
<1> QED
  BY <1>1, <1>5, <1>6, <1>7 DEF Effects, Shapes

(* Every registration                                                      *)
LEMMA NextEffects ==
  ASSUME Shapes, Next
  PROVE  \E r \in Routers : Effects(r)
<1>1. PICK r \in Routers : Binds(r) \/ \E h \in Handlers(r) : UseOpen(r, h) \/ UseClose(r, h)
  BY DEF Next
<1>2. CASE Binds(r)
  <2>1. PICK hs \in HandlerLists(r), p \in Patterns :
          \/ Bind(r, p, hs)
          \/ Use(r, p, hs)
          \/ \E meta \in Metas : PublicBind(r, p, meta, hs) \/ PublicBindPanics(r, p, meta, hs)
    BY <1>2 DEF Binds
  <2>2. p \in Path /\ Under(p) \in Path
    BY PatternTypes
  <2>3. CASE Bind(r, p, hs)
    BY <2>2, <2>3, BindEffects
  <2>4. CASE Use(r, p, hs)
    BY <2>2, <2>4, BindEffects DEF Use
  <2>5. CASE \E meta \in Metas : PublicBind(r, p, meta, hs) \/ PublicBindPanics(r, p, meta, hs)
    BY <2>5, PublicBindEffects, PanicEffects
  <2> QED
    BY <2>1, <2>3, <2>4, <2>5
<1>3. CASE \E h \in Handlers(r) : UseOpen(r, h) \/ UseClose(r, h)
  BY <1>3, UseEffects
<1> QED
  BY <1>1, <1>2, <1>3

(* A router starts with nothing.                                           *)
LEMMA InitShapes == ASSUME Init PROVE Shapes
<1>1. \A S : <<>> \in Seq(S)
  BY EmptySeq
<1>2. binds \in 0..MaxBinds
  BY RoutingAssumption DEF Init
<1> QED
  BY <1>1, <1>2 DEF Init, Shapes

(* What a registration has made of the router it is about                  *)
LEMMA HandsShapes ==
  ASSUME Shapes, NEW r \in Routers, Hands(r)
  PROVE  /\ nodes'[r] \in Seq(NodesOf(r))
         /\ opens'[r] \in Seq(Handlers(r)) /\ closes'[r] \in Seq(Handlers(r))
         /\ DOMAIN nodes' = Routers /\ DOMAIN opens' = Routers /\ DOMAIN closes' = Routers
         /\ given' \subseteq Givable /\ given' \subseteq given \cup ({r} \X Handlers(r))
         /\ \A q \in Routers \ {r} :
               nodes'[q] = nodes[q] /\ opens'[q] = opens[q] /\ closes'[q] = closes[q]
<1>1. PICK ns \in Seq(NodesOf(r)) : ns = nodes[r]
  BY DEF Shapes
<1>2. PICK os \in Seq(Handlers(r)) : os = opens[r]
  BY DEF Shapes
<1>3. PICK cs \in Seq(Handlers(r)) : cs = closes[r]
  BY DEF Shapes
<1>4. \A x \in NodesOf(r) : Append(ns, x) \in Seq(NodesOf(r))
  BY AppendProperties
<1>5. \A ks \in Seq(Handlers(r)) : os \o ks \in Seq(Handlers(r)) /\ cs \o ks \in Seq(Handlers(r))
  BY ConcatProperties
<1>6. \A h \in Handlers(r) : Append(os, h) \in Seq(Handlers(r)) /\ Append(cs, h) \in Seq(Handlers(r))
  BY AppendProperties
<1>7. DOMAIN nodes = Routers /\ DOMAIN opens = Routers /\ DOMAIN closes = Routers /\ given \subseteq Givable
  BY DEF Shapes
<1>8. CASE HandsNode(r)
  BY <1>1, <1>2, <1>3, <1>4, <1>5, <1>7, <1>8 DEF HandsNode, AddsNode, AddsHooks
<1>9. CASE HandsPairs(r)
  BY <1>1, <1>2, <1>3, <1>5, <1>7, <1>9 DEF HandsPairs, AddsHooks
<1>10. CASE HandsOne(r)
  <2>1. PICK h \in Handlers(r) :
          /\ given' = given \cup {<<r, h>>}
          /\ \/ closes' = closes /\ opens' = [opens EXCEPT ![r] = Append(@, h)]
             \/ opens' = opens /\ closes' = [closes EXCEPT ![r] = Append(@, h)]
    BY <1>10 DEF HandsOne
  <2>2. <<r, h>> \in {r} \X Handlers(r) /\ {r} \X Handlers(r) \subseteq Givable
    BY DEF Givable
  <2>3. given' \subseteq Givable /\ given' \subseteq given \cup ({r} \X Handlers(r))
    BY <1>7, <2>1, <2>2
  <2>4. nodes' = nodes
    BY <1>10 DEF HandsOne
  <2> QED
    BY <1>1, <1>2, <1>3, <1>6, <1>7, <2>1, <2>3, <2>4
<1> QED
  BY <1>8, <1>9, <1>10 DEF Hands

(* A registration keeps the shapes.                                        *)
LEMMA EffectsShapes ==
  ASSUME Shapes, NEW r \in Routers, Effects(r)
  PROVE  Shapes'
<1>1. Hands(r) /\ Describes(r) /\ published' \subseteq Routers \X Patterns /\ binds' \in 0..MaxBinds
  BY DEF Effects
<1>2. /\ nodes'[r] \in Seq(NodesOf(r))
      /\ opens'[r] \in Seq(Handlers(r)) /\ closes'[r] \in Seq(Handlers(r))
      /\ DOMAIN nodes' = Routers /\ DOMAIN opens' = Routers /\ DOMAIN closes' = Routers
      /\ given' \subseteq Givable
      /\ \A q \in Routers \ {r} :
            nodes'[q] = nodes[q] /\ opens'[q] = opens[q] /\ closes'[q] = closes[q]
  BY <1>1, HandsShapes
<1>3. descs' \in [Routers -> Seq(Descriptor)]
  BY <1>1 DEF Describes, Grown, Shapes
<1> QED
  BY <1>1, <1>2, <1>3 DEF Shapes

(* So does every step.                                                     *)
LEMMA StepShapes == ASSUME Shapes, [Next]_vars PROVE Shapes'
<1>1. CASE Next
  BY <1>1, NextEffects, EffectsShapes
<1>2. CASE UNCHANGED vars
  BY <1>2 DEF vars, Shapes
<1> QED
  BY <1>1, <1>2

(* What has these shapes has its type.                                     *)
LEMMA ShapesTypes == ASSUME Shapes PROVE TypeOK
<1>1. ASSUME NEW r \in Routers, NEW i \in DOMAIN nodes[r] PROVE nodes[r][i].handlers \in HandlerLists(r)
  <2>1. PICK ns \in Seq(NodesOf(r)) : ns = nodes[r]
    BY DEF Shapes
  <2>2. ns[i] \in NodesOf(r)
    BY <2>1, LenProperties, ElementOfSeq
  <2> QED
    BY <2>1, <2>2 DEF NodesOf
<1> QED
  BY <1>1 DEF TypeOK, Shapes, Givable

(* Every state has these shapes: no variable of the module is ever anything*)
(* else than what the fields of Router are declared to be, and a router is *)
(* only ever bound in one of a smaller number.                             *)
THEOREM RoutingTypes == Spec => []TypeOK
<1>1. Init => Shapes
  BY InitShapes
<1>2. Shapes /\ [Next]_vars => Shapes'
  BY StepShapes
<1>3. Shapes => TypeOK
  BY ShapesTypes
<1> QED
  BY <1>1, <1>2, <1>3, PTL DEF Spec

(* Whatever a program registers, descriptors are only ever added behind    *)
(* those a router has, which stay as they are: a gateway that has read     *)
(* RouteDescriptors is never told otherwise (addRouteDescriptor,           *)
(* router.go:505-521).                                                     *)
THEOREM ViewGrows == Spec => GatewayViewGrows
<1>1. ASSUME Shapes, Next PROVE \A r \in Routers : IsPrefix(descs[r], descs'[r])
  <2>1. PICK r \in Routers : Effects(r)
    BY <1>1, NextEffects
  <2>2. PICK es, qs : descs' = [descs EXCEPT ![r] = es] /\ Grown(descs[r], es, qs)
    BY <2>1 DEF Effects, Describes
  <2>3. ASSUME NEW q \in Routers PROVE IsPrefix(descs[q], descs'[q])
    <3>1. PICK ds \in Seq(Descriptor) : ds = descs[q]
      BY <1>1 DEF Shapes
    <3>2. PICK fs \in Seq(Descriptor) : fs = descs'[q] /\ Begins(ds, fs)
      <4>1. Begins(ds, ds)
        BY LenProperties DEF Begins
      <4> QED
        BY <1>1, <2>2, <3>1, <4>1 DEF Shapes, Grown
    <3> QED
      BY <3>1, <3>2, BeginsIsPrefix
  <2> QED
    BY <2>3
<1>2. Init => Shapes
  BY InitShapes
<1>3. Shapes /\ [Next]_vars => Shapes'
  BY StepShapes
<1>4. Shapes /\ [Next]_vars => [\A r \in Routers : IsPrefix(descs[r], descs'[r])]_vars
  BY <1>1
<1> QED
  BY <1>2, <1>3, <1>4, PTL DEF Spec, GatewayViewGrows

-----------------------------------------------------------------------------
(* A handler is among these hooks at least as often as in these nodes.     *)
HooksFit(h, ns, os) ==
    /\ IsFiniteSet(BoundAt(h, ns))
    /\ Cardinality(BoundAt(h, ns)) <= Times(h, os)

(* In every router every handler has the hooks it is able to, as often as  *)
(* it is bound, at least, and both as often if the program gave none.      *)
HooksInv ==
    \A r \in Routers :
        /\ \A h \in Openers \cup Routers : HooksFit(h, nodes[r], opens[r])
        /\ \A h \in Closers \cup Routers : HooksFit(h, nodes[r], closes[r])
        /\ \A h \in Both : <<r, h>> \notin given => Times(h, opens[r]) = Times(h, closes[r])

(* Whatever a registration adds, it keeps this of a handler.               *)
LEMMA HooksGrow ==
  ASSUME NEW r \in Routers, NEW h,
         NEW ns \in Seq(NodesOf(r)), NEW os \in Seq(Handlers(r)), HooksFit(h, ns, os)
  PROVE  /\ \A x \in NodesOf(r), ks \in Seq(Handlers(r)) :
               Times(h, ks) = Times(h, x.handlers) => HooksFit(h, Append(ns, x), os \o ks)
         /\ \A ks \in Seq(Handlers(r)) : HooksFit(h, ns, os \o ks)
         /\ \A g \in Handlers(r) : HooksFit(h, ns, Append(os, g))
<1>1. Times(h, os) \in Nat /\ IsFiniteSet(At(h, os))
  BY AtFinite
<1>2. Cardinality(BoundAt(h, ns)) \in Nat
  BY FS_CardinalityType DEF HooksFit
<1>3. ASSUME NEW ks \in Seq(Handlers(r))
      PROVE  Times(h, ks) \in Nat /\ Times(h, os \o ks) = Times(h, os) + Times(h, ks)
  BY AtFinite, TimesConcat
<1>4. ASSUME NEW ks \in Seq(Handlers(r)) PROVE HooksFit(h, ns, os \o ks)
  BY <1>1, <1>2, <1>3 DEF HooksFit
<1>5. ASSUME NEW x \in NodesOf(r), NEW ks \in Seq(Handlers(r)), Times(h, ks) = Times(h, x.handlers)
      PROVE  HooksFit(h, Append(ns, x), os \o ks)
  <2>1. x.handlers \in Seq(Handlers(r))
    BY ListFacts DEF NodesOf
  <2>2. /\ IsFiniteSet(BoundAt(h, Append(ns, x)))
        /\ Cardinality(BoundAt(h, Append(ns, x))) = Cardinality(BoundAt(h, ns)) + Times(h, x.handlers)
    BY <2>1, BoundAppend DEF HooksFit
  <2> QED
    BY <1>1, <1>2, <1>3, <1>5, <2>2 DEF HooksFit
<1>6. ASSUME NEW g \in Handlers(r) PROVE HooksFit(h, ns, Append(os, g))
  <2>1. Times(h, Append(os, g)) = Times(h, os) + (IF g = h THEN 1 ELSE 0)
    BY <1>1, TimesAppend
  <2> QED
    BY <1>1, <1>2, <2>1 DEF HooksFit
<1> QED
  BY <1>4, <1>5, <1>6

(* In what way a registration adds to one list of hooks                    *)
LEMMA FitsAfter ==
  ASSUME NEW r \in Routers, NEW h,
         NEW ns \in Seq(NodesOf(r)), NEW os \in Seq(Handlers(r)), HooksFit(h, ns, os),
         NEW ns2, NEW os2,
         \/ \E x \in NodesOf(r), ks \in Seq(Handlers(r)) :
               ns2 = Append(ns, x) /\ os2 = os \o ks /\ Times(h, ks) = Times(h, x.handlers)
         \/ ns2 = ns /\ \E ks \in Seq(Handlers(r)) : os2 = os \o ks
         \/ ns2 = ns /\ \E g \in Handlers(r) : os2 = Append(os, g)
         \/ ns2 = ns /\ os2 = os
  PROVE  HooksFit(h, ns2, os2)
BY HooksGrow

(* A registration keeps the hooks of its router as often as handlers are   *)
(* bound there,                                                            *)
LEMMA HandsFit ==
  ASSUME Shapes, HooksInv, NEW r \in Routers, Hands(r)
  PROVE  /\ \A h \in Openers \cup Routers : HooksFit(h, nodes'[r], opens'[r])
         /\ \A h \in Closers \cup Routers : HooksFit(h, nodes'[r], closes'[r])
<1>1. PICK ns \in Seq(NodesOf(r)) : ns = nodes[r]
  BY DEF Shapes
<1>2. PICK os \in Seq(Handlers(r)) : os = opens[r]
  BY DEF Shapes
<1>3. PICK cs \in Seq(Handlers(r)) : cs = closes[r]
  BY DEF Shapes
<1>4. DOMAIN nodes = Routers /\ DOMAIN opens = Routers /\ DOMAIN closes = Routers
  BY DEF Shapes
<1>5. /\ \A h \in Openers \cup Routers : HooksFit(h, ns, os)
      /\ \A h \in Closers \cup Routers : HooksFit(h, ns, cs)
  BY <1>1, <1>2, <1>3 DEF HooksInv
<1>6. CASE HandsNode(r)
  <2>1. PICK x \in NodesOf(r), ks \in Seq(Handlers(r)), ls \in Seq(Handlers(r)) :
          AddsNode(r, x) /\ AddsHooks(r, ks, ls) /\ Full(x.handlers, ks, ls)
    BY <1>6 DEF HandsNode
  <2>2. nodes'[r] = Append(ns, x) /\ opens'[r] = os \o ks /\ closes'[r] = cs \o ls
    BY <1>1, <1>2, <1>3, <1>4, <2>1 DEF AddsNode, AddsHooks
  <2>3. ASSUME NEW h \in Openers \cup Routers PROVE HooksFit(h, nodes'[r], opens'[r])
    BY <1>5, <2>1, <2>2, FitsAfter DEF Full
  <2>4. ASSUME NEW h \in Closers \cup Routers PROVE HooksFit(h, nodes'[r], closes'[r])
    BY <1>5, <2>1, <2>2, FitsAfter DEF Full
  <2> QED
    BY <2>3, <2>4
<1>7. CASE HandsPairs(r)
  <2>1. PICK ks \in Seq(Handlers(r)), ls \in Seq(Handlers(r)) : AddsHooks(r, ks, ls)
    BY <1>7 DEF HandsPairs
  <2>2. nodes'[r] = ns /\ opens'[r] = os \o ks /\ closes'[r] = cs \o ls
    BY <1>1, <1>2, <1>3, <1>4, <1>7, <2>1 DEF HandsPairs, AddsHooks
  <2> QED
    BY <1>5, <2>2, FitsAfter
<1>8. CASE HandsOne(r)
  <2>1. PICK g \in Handlers(r) :
          \/ closes' = closes /\ opens' = [opens EXCEPT ![r] = Append(@, g)]
          \/ opens' = opens /\ closes' = [closes EXCEPT ![r] = Append(@, g)]
    BY <1>8 DEF HandsOne
  <2>2. /\ nodes'[r] = ns /\ (opens'[r] = os \/ opens'[r] = Append(os, g))
        /\ (closes'[r] = cs \/ closes'[r] = Append(cs, g))
    BY <1>1, <1>2, <1>3, <1>4, <1>8, <2>1 DEF HandsOne
  <2> QED
    BY <1>5, <2>2, FitsAfter
<1> QED
  BY <1>6, <1>7, <1>8 DEF Hands

(* and, of the handlers that have both, in pairs.                          *)
LEMMA HandsPaired ==
  ASSUME Shapes, HooksInv, NEW r \in Routers, Hands(r), NEW h \in Both, <<r, h>> \notin given'
  PROVE  Times(h, opens'[r]) = Times(h, closes'[r])
<1>1. PICK os \in Seq(Handlers(r)) : os = opens[r]
  BY DEF Shapes
<1>2. PICK cs \in Seq(Handlers(r)) : cs = closes[r]
  BY DEF Shapes
<1>3. DOMAIN opens = Routers /\ DOMAIN closes = Routers
  BY DEF Shapes
<1>4. <<r, h>> \notin given
  BY DEF Hands, HandsNode, HandsPairs, HandsOne
<1>5. Times(h, os) = Times(h, cs)
  BY <1>1, <1>2, <1>4 DEF HooksInv
<1>6. CASE HandsNode(r) \/ HandsPairs(r)
  <2>1. PICK ks \in Seq(Handlers(r)), ls \in Seq(Handlers(r)) :
          AddsHooks(r, ks, ls) /\ Times(h, ks) = Times(h, ls)
    BY <1>6 DEF HandsNode, HandsPairs, Full, Paired, Both
  <2>2. opens'[r] = os \o ks /\ closes'[r] = cs \o ls
    BY <1>1, <1>2, <1>3, <2>1 DEF AddsHooks
  <2>3. /\ Times(h, os \o ks) = Times(h, os) + Times(h, ks)
        /\ Times(h, cs \o ls) = Times(h, cs) + Times(h, ls)
    BY TimesConcat
  <2> QED
    BY <1>5, <2>1, <2>2, <2>3
<1>7. CASE HandsOne(r)
  <2>1. PICK g \in Handlers(r) :
          /\ given' = given \cup {<<r, g>>}
          /\ \/ closes' = closes /\ opens' = [opens EXCEPT ![r] = Append(@, g)]
             \/ opens' = opens /\ closes' = [closes EXCEPT ![r] = Append(@, g)]
    BY <1>7 DEF HandsOne
  <2>2. g # h
    BY <2>1
  <2>3. /\ (opens'[r] = os \/ opens'[r] = Append(os, g))
        /\ (closes'[r] = cs \/ closes'[r] = Append(cs, g))
    BY <1>1, <1>2, <1>3, <2>1
  <2>4. /\ Times(h, os) \in Nat /\ IsFiniteSet(At(h, os))
        /\ Times(h, cs) \in Nat /\ IsFiniteSet(At(h, cs))
    BY AtFinite
  <2>5. Times(h, Append(os, g)) = Times(h, os) /\ Times(h, Append(cs, g)) = Times(h, cs)
    BY <2>2, <2>4, TimesAppend
  <2> QED
    BY <1>5, <2>3, <2>5
<1> QED
  BY <1>6, <1>7 DEF Hands

(* So every step does.                                                     *)
LEMMA StepHooks == ASSUME Shapes, HooksInv, [Next]_vars PROVE HooksInv'
<1>1. CASE Next
  <2>1. PICK r \in Routers : Hands(r)
    BY <1>1, NextEffects DEF Effects
  <2>2. /\ \A h \in Openers \cup Routers : HooksFit(h, nodes'[r], opens'[r])
        /\ \A h \in Closers \cup Routers : HooksFit(h, nodes'[r], closes'[r])
    BY <2>1, HandsFit
  <2>3. \A h \in Both : <<r, h>> \notin given' => Times(h, opens'[r]) = Times(h, closes'[r])
    BY <2>1, HandsPaired
  <2>4. ASSUME NEW q \in Routers \ {r}
        PROVE  /\ nodes'[q] = nodes[q] /\ opens'[q] = opens[q] /\ closes'[q] = closes[q]
               /\ \A h : <<q, h>> \in given => <<q, h>> \in given'
    <3>1. nodes'[q] = nodes[q] /\ opens'[q] = opens[q] /\ closes'[q] = closes[q]
      BY <2>1, HandsShapes
    <3>2. given \subseteq given'
      BY <2>1 DEF Hands, HandsNode, HandsPairs, HandsOne
    <3> QED
      BY <3>1, <3>2
  <2>5. ASSUME NEW q \in Routers \ {r}
        PROVE  /\ \A h \in Openers \cup Routers : HooksFit(h, nodes'[q], opens'[q])
               /\ \A h \in Closers \cup Routers : HooksFit(h, nodes'[q], closes'[q])
               /\ \A h \in Both : <<q, h>> \notin given' => Times(h, opens'[q]) = Times(h, closes'[q])
    BY <2>4 DEF HooksInv
  <2> QED
    BY <2>2, <2>3, <2>5 DEF HooksInv
<1>2. CASE UNCHANGED vars
  BY <1>2 DEF vars, HooksInv
<1> QED
  BY <1>1, <1>2

(* Where nothing is bound there are no hooks.                              *)
LEMMA InitHooks == ASSUME Init PROVE HooksInv
<1>1. ASSUME NEW h PROVE HooksFit(h, <<>>, <<>>)
  <2>1. DOMAIN <<>> = {}
    OBVIOUS
  <2>2. At(h, <<>>) = {} /\ BoundAt(h, <<>>) = {}
    BY <2>1 DEF At, BoundAt
  <2>3. Times(h, <<>>) = 0 /\ Cardinality(BoundAt(h, <<>>)) = 0 /\ IsFiniteSet(BoundAt(h, <<>>))
    BY <2>2, FS_EmptySet DEF Times
  <2> QED
    BY <2>3 DEF HooksFit
<1> QED
  BY <1>1 DEF Init, HooksInv

(* However a program binds handlers, any number together, in nested        *)
(* routers, in registrations that panic half-way and after them, and       *)
(* whatever it gives to UseOpen and UseClose: each handler has the hooks of*)
(* its interfaces in a router once for every time it is bound there, at    *)
(* least, and one that has both has them in pairs, unless the program gave *)
(* one of them itself (bind, router.go:459-503).                           *)
THEOREM HooksFollow == Spec => []HooksFollowHandlers
<1>1. Init => Shapes /\ HooksInv
  BY InitShapes, InitHooks
<1>2. Shapes /\ HooksInv /\ [Next]_vars => (Shapes /\ HooksInv)'
  BY StepShapes, StepHooks
<1>3. HooksInv => HooksFollowHandlers
  BY DEF HooksInv, HooksFit, HooksFollowHandlers, TimesBound, BoundAt, Both
<1> QED
  BY <1>1, <1>2, <1>3, PTL DEF Spec

(* What routers with these nodes may advertise, if f says what those they  *)
(* mount may, and what they may                                            *)
MayOf(nds, pub, f, r) ==
    {p \in Patterns : <<r, p>> \in pub} \cup
    UNION {UNION {{Mount(n.pattern) \o q : q \in f[h]} :
                  h \in HandlersOf(n) \cap Routers} : n \in Range(nds[r])}

(* What every router may advertise; MayAdvertise of these nodes            *)
May(nds, pub) == CHOOSE f : f = [r \in Routers |-> MayOf(nds, pub, f, r)]

(* It is the same recursion.                                               *)
LEMMA MayIs == MayAdvertise = May(nodes, published)
BY DEF MayAdvertise, May, MayOf

(* After a step, too                                                       *)
LEMMA MayIsNext == MayAdvertise' = May(nodes', published')
BY DEF MayAdvertise, May, MayOf

(* Each router has nodes.                                                  *)
Noded(nds) == \A r \in Routers : nds[r] \in Seq(NodesOf(r))

(* The routers in a node are numbered above the router it is in.           *)
LEMMA NodedFacts ==
  ASSUME NEW nds, Noded(nds), NEW r \in Routers, NEW n \in Range(nds[r])
  PROVE  n \in NodesOf(r) /\ n.pattern \in Path /\ \A h \in HandlersOf(n) \cap Routers : h > r
<1>1. PICK ns \in Seq(NodesOf(r)) : ns = nds[r]
  BY DEF Noded
<1>2. n \in NodesOf(r)
  BY <1>1, LenProperties, ElementOfSeq DEF Range
<1> QED
  BY <1>2, ListFacts DEF NodesOf, HandlersOf

(* q is advertised by a router that r mounts.                              *)
Through(nds, f, r, q) ==
    \E n \in Range(nds[r]) : \E h \in HandlersOf(n) \cap Routers :
        \E t \in f[h] : q = Mount(n.pattern) \o t

(* A pattern may be advertised if it was published here, or below.         *)
LEMMA MayMember ==
  ASSUME NEW nds, NEW pub, NEW f, NEW r, NEW q
  PROVE  q \in MayOf(nds, pub, f, r) <=> (q \in Patterns /\ <<r, q>> \in pub) \/ Through(nds, f, r, q)
<1> DEFINE Below == UNION {UNION {{Mount(n.pattern) \o t : t \in f[h]} :
                                  h \in HandlersOf(n) \cap Routers} : n \in Range(nds[r])}
<1>1. q \in Below <=> Through(nds, f, r, q)
  BY DEF Through
<1>2. MayOf(nds, pub, f, r) = {p \in Patterns : <<r, p>> \in pub} \cup Below
  BY DEF MayOf
<1> HIDE DEF Below
<1> QED
  BY <1>1, <1>2

(* What may be advertised is a path                                        *)
LEMMA MayType ==
  ASSUME NEW nds, NEW pub, Noded(nds), NEW r \in Routers, NEW f, \A h \in Routers : f[h] \subseteq Path
  PROVE  MayOf(nds, pub, f, r) \subseteq Path
<1>1. \A p \in Patterns : p \in Path
  BY PatternTypes
<1>2. ASSUME NEW n \in Range(nds[r]), NEW h \in HandlersOf(n) \cap Routers, NEW q \in f[h]
      PROVE  Mount(n.pattern) \o q \in Path
  <2>1. n.pattern \in Path /\ q \in Path
    BY NodedFacts
  <2> QED
    BY <2>1, MountType, ConcatProperties DEF Path
<1>3. ASSUME NEW q, q \in MayOf(nds, pub, f, r) PROVE q \in Path
  <2>1. (q \in Patterns /\ <<r, q>> \in pub) \/ Through(nds, f, r, q)
    BY <1>3, MayMember
  <2> QED
    BY <1>1, <1>2, <2>1 DEF Through
<1> QED
  BY <1>3

(* and goes by what the routers of larger numbers may.                     *)
LEMMA MayLocal ==
  ASSUME NEW nds, NEW pub, Noded(nds), NEW r \in Routers, NEW f, NEW g,
         \A q \in Routers : q > r => f[q] = g[q]
  PROVE  MayOf(nds, pub, f, r) \subseteq MayOf(nds, pub, g, r)
<1>1. \A n \in Range(nds[r]) : \A h \in HandlersOf(n) \cap Routers : f[h] = g[h]
  BY NodedFacts
<1>2. ASSUME NEW q, q \in MayOf(nds, pub, f, r) PROVE q \in MayOf(nds, pub, g, r)
  <2>1. CASE q \in Patterns /\ <<r, q>> \in pub
    BY <2>1, MayMember
  <2>2. CASE Through(nds, f, r, q)
    <3>1. Through(nds, g, r, q)
      BY <1>1, <2>2 DEF Through
    <3> QED
      BY <3>1, MayMember
  <2>3. (q \in Patterns /\ <<r, q>> \in pub) \/ Through(nds, f, r, q)
    BY <1>2, MayMember
  <2> QED
    BY <2>1, <2>2, <2>3
<1> QED
  BY <1>2

(* So what routers may advertise is what the recursion says.               *)
LEMMA MayFacts ==
  ASSUME NEW nds, NEW pub, Noded(nds)
  PROVE  \A r \in Routers : May(nds, pub)[r] = MayOf(nds, pub, May(nds, pub), r)
<1> DEFINE A == SUBSET Path
           G == [r \in Routers |-> [f \in [Routers -> A] |-> MayOf(nds, pub, f, r)]]
<1>1. ASSUME NEW r \in Routers, NEW f \in [Routers -> A] PROVE G[r][f] = MayOf(nds, pub, f, r)
  OBVIOUS
<1>2. ASSUME NEW r \in Routers, NEW f \in [Routers -> A] PROVE MayOf(nds, pub, f, r) \in A
  <2>1. \A h \in Routers : f[h] \subseteq Path
    OBVIOUS
  <2>2. MayOf(nds, pub, f, r) \subseteq Path
    BY <2>1, MayType
  <2> QED
    BY <2>2
<1>3. ASSUME NEW r \in Routers, NEW f \in [Routers -> A], NEW g \in [Routers -> A],
             \A q \in Routers : q > r => f[q] = g[q]
      PROVE  MayOf(nds, pub, f, r) = MayOf(nds, pub, g, r)
  <2>1. MayOf(nds, pub, f, r) \subseteq MayOf(nds, pub, g, r)
    BY <1>3, MayLocal
  <2>2. MayOf(nds, pub, g, r) \subseteq MayOf(nds, pub, f, r)
    BY <1>3, MayLocal
  <2> QED
    BY <2>1, <2>2
<1> HIDE DEF G
<1>4. PICK F : F = G
  OBVIOUS
<1>5. PICK a \in A : TRUE
  OBVIOUS
<1>6. /\ \A r \in Routers : \A f \in [Routers -> A] : F[r][f] \in A
      /\ \A r \in Routers : \A f, g \in [Routers -> A] :
            (\A q \in Routers : q > r => f[q] = g[q]) => F[r][f] = F[r][g]
  BY <1>1, <1>2, <1>3, <1>4
<1> HIDE DEF A
<1>7. PICK f : f \in [Routers -> A] /\ Recurs(f, F)
  BY <1>5, <1>6, RouterRecursion
<1>8. f = [r \in Routers |-> MayOf(nds, pub, f, r)]
  BY <1>1, <1>4, <1>7 DEF Recurs
<1>9. PICK g : g = May(nds, pub) /\ g = [r \in Routers |-> MayOf(nds, pub, g, r)]
  BY <1>8, Zenon DEF May
<1> QED
  BY <1>9

(* They may only ever advertise more.                                      *)
LEMMA MayGrows ==
  ASSUME NEW nds, NEW pub, Noded(nds), NEW nds2, NEW pub2, Noded(nds2),
         pub \subseteq pub2, \A r \in Routers : Range(nds[r]) \subseteq Range(nds2[r])
  PROVE  \A r \in Routers : May(nds, pub)[r] \subseteq May(nds2, pub2)[r]
<1> DEFINE S == {r \in Routers : May(nds, pub)[r] \subseteq May(nds2, pub2)[r]}
<1>1. ASSUME NEW r \in Routers, \A q \in Routers : q > r => q \in S PROVE r \in S
  <2>1. May(nds, pub)[r] = MayOf(nds, pub, May(nds, pub), r)
    BY MayFacts
  <2>2. May(nds2, pub2)[r] = MayOf(nds2, pub2, May(nds2, pub2), r)
    BY MayFacts
  <2>3. \A n \in Range(nds[r]) : \A h \in HandlersOf(n) \cap Routers :
           May(nds, pub)[h] \subseteq May(nds2, pub2)[h]
    BY <1>1, NodedFacts
  <2>4. MayOf(nds, pub, May(nds, pub), r) \subseteq MayOf(nds2, pub2, May(nds2, pub2), r)
    <3>1. PICK m, m2 : m = May(nds, pub) /\ m2 = May(nds2, pub2)
      OBVIOUS
    <3>2. ASSUME NEW q \in MayOf(nds, pub, m, r) PROVE q \in MayOf(nds2, pub2, m2, r)
      <4>1. CASE q \in Patterns /\ <<r, q>> \in pub
        BY <4>1, MayMember
      <4>2. CASE Through(nds, m, r, q)
        <5>1. Through(nds2, m2, r, q)
          BY <2>3, <3>1, <4>2 DEF Through
        <5> QED
          BY <5>1, MayMember
      <4> QED
        BY <3>2, <4>1, <4>2, MayMember
    <3> QED
      BY <3>1, <3>2
  <2> QED
    BY <2>1, <2>2, <2>4
<1>2. \A r \in Routers : r \in S
  <2> HIDE DEF S
  <2> QED BY <1>1, RouterInduction
<1> QED
  BY <1>2

(* In a step nodes are only added.                                         *)
LEMMA NodesKept ==
  ASSUME Shapes, NEW r \in Routers, Hands(r)
  PROVE  \A q \in Routers : Range(nodes[q]) \subseteq Range(nodes'[q])
<1>1. CASE nodes' = nodes
  BY <1>1
<1>2. CASE \E x \in NodesOf(r) : AddsNode(r, x)
  <2>1. PICK x \in NodesOf(r) : AddsNode(r, x)
    BY <1>2
  <2>2. PICK ns \in Seq(NodesOf(r)) : ns = nodes[r]
    BY DEF Shapes
  <2>3. nodes'[r] = Append(ns, x) /\ \A q \in Routers \ {r} : nodes'[q] = nodes[q]
    BY <2>1, <2>2 DEF AddsNode, Shapes
  <2>4. PICK n \in Nat : n = Len(ns)
    BY LenProperties
  <2>5. DOMAIN ns = 1..n /\ DOMAIN Append(ns, x) = 1..(n + 1) /\ \A i \in 1..n : Append(ns, x)[i] = ns[i]
    BY <2>4, LenProperties, AppendProperties
  <2>6. Range(ns) \subseteq Range(Append(ns, x))
    <3>1. \A i \in 1..n : i \in 1..(n + 1)
      OBVIOUS
    <3> QED
      BY <2>5, <3>1 DEF Range
  <2> QED
    BY <2>2, <2>3, <2>6
<1> QED
  BY <1>1, <1>2 DEF Hands, HandsNode, HandsPairs, HandsOne

(* A registration only advertises what it may: what is new was published by*)
(* it, or was advertised by a router it mounts.                            *)
LEMMA StepAdvertised == ASSUME Shapes, AdvertisedWasPublished, [Next]_vars PROVE AdvertisedWasPublished'
<1>1. CASE Next
  <2>1. PICK r \in Routers : Effects(r)
    BY <1>1, NextEffects
  <2>2. PICK es, qs :
        /\ descs' = [descs EXCEPT ![r] = es]
        /\ Grown(descs[r], es, qs)
        /\ \A q \in qs : Justified(r, q)
    BY <2>1 DEF Effects, Describes
  <2>3. PICK m : m = May(nodes, published)
    OBVIOUS
  <2>4. PICK m2 : m2 = May(nodes', published')
    OBVIOUS
  <2>5. /\ Noded(nodes) /\ \A q \in Routers : Range(nodes[q]) \subseteq Range(nodes'[q])
        /\ published \subseteq published'
    BY <2>1, NodesKept DEF Effects, Noded, Shapes
  <2>6. Noded(nodes')
    <3>1. Shapes'
      BY <1>1, StepShapes
    <3> QED
      BY <3>1 DEF Shapes, Noded
  <2>7. \A q \in Routers : m[q] \subseteq m2[q]
    BY <2>3, <2>4, <2>5, <2>6, MayGrows
  <2>8. \A q \in Routers : m2[q] = MayOf(nodes', published', m2, q)
    BY <2>4, <2>6, MayFacts
  <2>9. \A q \in Routers : Patterned(descs[q]) \subseteq m[q]
    BY <2>3, MayIs DEF AdvertisedWasPublished
  <2>10. ASSUME NEW q \in qs PROVE q \in m2[r]
    <3>1. CASE q \in Patterns /\ <<r, q>> \in published'
      BY <2>8, <3>1 DEF MayOf
    <3>2. CASE \E x \in Range(nodes'[r]) : \E h \in Range(x.handlers) \cap Routers :
                 \E t \in Patterned(descs[h]) : q = Mount(x.pattern) \o t
      <4>1. PICK x \in Range(nodes'[r]), h \in Routers :
              h \in Range(x.handlers) /\ \E t \in Patterned(descs[h]) : q = Mount(x.pattern) \o t
        BY <3>2
      <4>2. PICK t : h \in Range(x.handlers) /\ t \in Patterned(descs[h]) /\ q = Mount(x.pattern) \o t
        BY <4>1
      <4>3. t \in m2[h]
        BY <2>7, <2>9, <4>2
      <4>4. q \in MayOf(nodes', published', m2, r)
        BY <4>2, <4>3 DEF MayOf, HandlersOf
      <4> QED
        BY <2>8, <4>4
    <3> QED
      BY <2>2, <3>1, <3>2 DEF Justified
  <2>11. Patterned(descs'[r]) \subseteq m2[r]
    <3>1. descs'[r] = es
      BY <2>2 DEF Shapes
    <3> QED
      BY <2>2, <2>7, <2>9, <2>10, <3>1 DEF Grown
  <2>12. \A q \in Routers \ {r} : descs'[q] = descs[q]
    BY <2>2 DEF Shapes
  <2>13. \A q \in Routers : Patterned(descs'[q]) \subseteq m2[q]
    BY <2>7, <2>9, <2>11, <2>12
  <2> QED
    BY <2>4, <2>13, MayIsNext DEF AdvertisedWasPublished
<1>2. CASE UNCHANGED vars
  <2>1. nodes' = nodes /\ published' = published /\ descs' = descs
    BY <1>2 DEF vars
  <2> QED
    BY <2>1, MayIs, MayIsNext DEF AdvertisedWasPublished
<1> QED
  BY <1>1, <1>2

(* At first nothing is advertised.                                         *)
LEMMA InitAdvertised == ASSUME Init PROVE AdvertisedWasPublished
<1>1. DOMAIN <<>> = {}
  OBVIOUS
<1>2. Patterned(<<>>) = {}
  BY <1>1 DEF Patterned, Range
<1> QED
  BY <1>2 DEF Init, AdvertisedWasPublished

(* No router ever advertises anything but patterns that were given to      *)
(* PublicBind, in it or, under the path of the mount, in a router mounted  *)
(* below: Bind and Use publish nothing, at any depth and in any order of   *)
(* mounting and binding (bind, router.go:472-487).                         *)
THEOREM PublishedOnly == Spec => []AdvertisedWasPublished
<1>1. Init => Shapes /\ AdvertisedWasPublished
  BY InitShapes, InitAdvertised
<1>2. Shapes /\ AdvertisedWasPublished /\ [Next]_vars => (Shapes /\ AdvertisedWasPublished)'
  BY StepShapes, StepAdvertised
<1> QED
  BY <1>1, <1>2, PTL DEF Spec

(* What has come into P in a fold, if nothing leaves P, ends in P.         *)
LEMMA StagesKeep ==
  ASSUME NEW A, NEW n \in Nat, NEW b, NEW c, NEW G, Stages(c, G, n, b, A),
         NEW P, P \subseteq A, \A k \in 1..n : \A x \in P : G[k][x] \in P,
         NEW j \in 0..n, c[j] \in P
  PROVE  c[n] \in P
<1> DEFINE S == {k \in 0..n : k >= j => c[k] \in P}
<1>1. 0 \in S
  <2>1. 0 >= j => j = 0
    OBVIOUS
  <2> QED
    BY <2>1
<1>2. ASSUME NEW k \in 1..n, k - 1 \in S PROVE k \in S
  <2>1. k \in 0..n /\ (k - 1 >= j => c[k - 1] \in P)
    BY <1>2
  <2>2. CASE k - 1 >= j
    <3>1. c[k] = G[k][c[k - 1]]
      BY DEF Stages
    <3>2. PICK x \in P : x = c[k - 1]
      BY <2>1, <2>2
    <3>3. c[k] \in P
      BY <3>1, <3>2
    <3> QED
      BY <2>1, <3>3
  <2>3. CASE ~(k - 1 >= j)
    <3>1. k >= j => k = j
      BY <2>3
    <3> QED
      BY <2>1, <3>1
  <2> QED
    BY <2>2, <2>3
<1>3. \A k \in 0..n : k \in S
  <2> HIDE DEF S
  <2> QED BY <1>1, <1>2, UpTo
<1>4. n \in S
  <2> HIDE DEF S
  <2>1. n \in 0..n
    OBVIOUS
  <2> QED BY <1>3, <2>1
<1>5. n >= j
  OBVIOUS
<1> QED
  BY <1>4, <1>5

(* Folds that do the same come to the same.                                *)
LEMMA StagesAgree ==
  ASSUME NEW A, NEW n \in Nat, NEW b,
         NEW c, NEW F, Stages(c, F, n, b, A), NEW d, NEW G, Stages(d, G, n, b, A),
         \A k \in 1..n : \A x \in A : F[k][x] = G[k][x]
  PROVE  c[n] = d[n]
<1> DEFINE S == {k \in 0..n : c[k] = d[k]}
<1>1. 0 \in S
  BY DEF Stages
<1>2. ASSUME NEW k \in 1..n, k - 1 \in S PROVE k \in S
  <2>1. k \in 0..n /\ k - 1 \in 0..n /\ c[k - 1] = d[k - 1]
    BY <1>2
  <2>2. PICK x \in A : x = c[k - 1]
    BY <2>1 DEF Stages
  <2>3. c[k] = F[k][x] /\ d[k] = G[k][x]
    BY <2>1, <2>2 DEF Stages
  <2> QED
    BY <2>1, <2>3
<1>3. \A k \in 0..n : k \in S
  <2> HIDE DEF S
  <2> QED BY <1>1, <1>2, UpTo
<1>4. n \in S
  <2> HIDE DEF S
  <2>1. n \in 0..n
    OBVIOUS
  <2> QED BY <1>3, <2>1
<1> QED
  BY <1>4

-----------------------------------------------------------------------------
(* Lookup, of the nodes ns of a router, if f is what it finds in the others*)
Found == Path \cup {None}

(* Lookup at a handler that is bound with pattern p: found is what it has  *)
(* found before.                                                           *)
FirstIn(f, target, found, h, p) ==
    IF found # None THEN found
    ELSE IF h = target THEN p
    ELSE IF h \in Routers THEN f[h]
    ELSE None

(* and at a node                                                           *)
FoundIn(f, target, found, n) ==
    FoldLeft(LAMBDA acc, h : FirstIn(f, target, acc, h, n.pattern), found, n.handlers)

(* and in a router                                                         *)
LookupOf(f, target, ns) == FoldLeft(LAMBDA acc, n : FoundIn(f, target, acc, n), None, ns)

(* Lookup of these nodes, in every router                                  *)
LookupIn(nds, target) == CHOOSE f : f = [r \in Routers |-> LookupOf(f, target, nds[r])]

(* It is the same recursion.                                               *)
LEMMA LookupIs == ASSUME NEW target PROVE Lookup(target) = LookupIn(nodes, target)
BY Zenon DEF Lookup, LookupIn, LookupOf, FoundIn, FirstIn

(* None is no path.                                                        *)
LEMMA FoundFacts == None \notin Path /\ \A x \in Found : x \in Path <=> x # None
<1>1. None \notin Path
  BY RoutingAssumption DEF Path
<1> QED
  BY <1>1 DEF Found

(* The fold over the handlers of a node                                    *)
HandlerSteps(f, target, hs, p) == [k \in DOMAIN hs |-> [x \in Found |-> FirstIn(f, target, x, hs[k], p)]]

(* What the fold over the handlers of a node comes to, handler by handler  *)
LEMMA FoundInStages ==
  ASSUME NEW r \in Routers, NEW f, \A h \in Routers : h > r => f[h] \in Found, NEW target,
         NEW nd \in NodesOf(r), NEW found \in Found, NEW n \in Nat, n = Len(nd.handlers)
  PROVE  \E c : /\ Stages(c, HandlerSteps(f, target, nd.handlers, nd.pattern), n, found, Found)
                /\ c[n] = FoundIn(f, target, found, nd)
<1> DEFINE hs == nd.handlers
           p == nd.pattern
<1>1. p \in Path
  BY DEF NodesOf
<1>2. DOMAIN hs = 1..n
  BY ListFacts DEF NodesOf
<1> DEFINE G == HandlerSteps(f, target, hs, p)
           gs(x) == [s \in SUBSET DOMAIN hs |->
                       IF s = {} THEN found ELSE FirstIn(f, target, x[s \ {Max(s)}], hs[Max(s)], p)]
<1>3. ASSUME NEW k \in 1..n, NEW x \in Found
      PROVE  G[k][x] = FirstIn(f, target, x, hs[k], p) /\ FirstIn(f, target, x, hs[k], p) \in Found
  <2>1. FirstIn(f, target, x, hs[k], p) \in Found
    <3>1. hs[k] \in Range(nd.handlers)
      BY <1>2 DEF Range
    <3>2. hs[k] \in Routers => f[hs[k]] \in Found
      BY <3>1, ListFacts DEF NodesOf
    <3> QED
      BY <1>1, <3>2 DEF FirstIn, Found
  <2> QED
    BY <1>2, <2>1 DEF HandlerSteps
<1>4. G = HandlerSteps(f, target, nd.handlers, nd.pattern)
  OBVIOUS
<1> HIDE DEF G
<1>5. PICK F : F = G
  OBVIOUS
<1>6. Keeps(F, n, Found)
  BY <1>3, <1>5 DEF Keeps
<1>7. ASSUME NEW s \in SUBSET (1..n), s # {} PROVE Max(s) \in 1..n /\ s \ {Max(s)} \in SUBSET (1..n)
  BY <1>7, MaxOfSome
<1>8. \E g : g = gs(g)
  <2>1. PICK g : Within(g, n, Found) /\ Folds(g, F, n, found, Found)
    BY <1>6, FoldRecursion
  <2>2. ASSUME NEW s \in SUBSET (1..n) PROVE gs(g)[s] = g[s]
    <3>1. CASE s = {}
      BY <1>2, <2>1, <3>1 DEF Folds
    <3>2. CASE s # {}
      <4>1. g[s] = F[Max(s)][g[s \ {Max(s)}]] /\ g[s \ {Max(s)}] \in Found
        BY <1>7, <2>1, <3>2 DEF Folds, Within
      <4>2. PICK k \in 1..n : k = Max(s)
        BY <1>7, <3>2
      <4>3. g[s] = FirstIn(f, target, g[s \ {k}], hs[k], p)
        BY <1>3, <1>5, <4>1, <4>2
      <4> QED
        BY <1>2, <3>2, <4>2, <4>3
    <3> QED
      BY <3>1, <3>2
  <2>3. g = [s \in SUBSET (1..n) |-> g[s]]
    BY <2>1 DEF Within
  <2> QED
    BY <1>2, <2>2, <2>3
<1>9. PICK it : FoundIn(f, target, found, nd) = it[DOMAIN hs] /\ it = gs(it)
  BY <1>8, Zenon DEF FoundIn, FoldLeft, MapThenFoldSet
<1>10. Folds(it, F, n, found, Found)
  <2>1. it[{}] = found
    BY <1>2, <1>9
  <2>2. ASSUME NEW s \in SUBSET (1..n), s # {}, it[s \ {Max(s)}] \in Found
        PROVE  it[s] = F[Max(s)][it[s \ {Max(s)}]]
    <3>1. it[s] = FirstIn(f, target, it[s \ {Max(s)}], hs[Max(s)], p)
      BY <1>2, <1>9, <2>2
    <3>2. PICK k \in 1..n : k = Max(s)
      BY <1>7, <2>2
    <3> QED
      BY <1>3, <1>5, <2>2, <3>1, <3>2
  <2> QED
    BY <2>1, <2>2 DEF Folds
<1>11. PICK c : Stages(c, F, n, found, Found) /\ c[n] = it[1..n]
  BY <1>6, <1>10, FoldSteps
<1>12. Stages(c, HandlerSteps(f, target, nd.handlers, nd.pattern), n, found, Found)
  BY <1>5, <1>11, <1>4
<1> QED
  BY <1>2, <1>9, <1>11, <1>12

(* Once it has found a path it keeps it, and it finds one if the target is *)
(* among the handlers, or in a router that is.                             *)
LEMMA FoundInFacts ==
  ASSUME NEW r \in Routers, NEW f, \A h \in Routers : h > r => f[h] \in Found, NEW target,
         NEW nd \in NodesOf(r), NEW found \in Found
  PROVE  /\ FoundIn(f, target, found, nd) \in Found
         /\ found # None => FoundIn(f, target, found, nd) # None
         /\ \A h \in HandlersOf(nd) :
               h = target \/ (h \in Routers /\ f[h] # None) => FoundIn(f, target, found, nd) # None
<1>1. PICK hs : hs = nd.handlers
  OBVIOUS
<1>2. PICK p \in Path : p = nd.pattern
  BY DEF NodesOf
<1>3. PICK n \in Nat : n = Len(hs) /\ DOMAIN hs = 1..n
  BY <1>1, ListFacts DEF NodesOf
<1>4. PICK G : G = HandlerSteps(f, target, hs, p)
  OBVIOUS
<1>5. PICK c : Stages(c, G, n, found, Found) /\ c[n] = FoundIn(f, target, found, nd)
  BY <1>1, <1>2, <1>3, <1>4, FoundInStages
<1>6. \A k \in 1..n : \A x \in Found : G[k][x] = FirstIn(f, target, x, hs[k], p)
  BY <1>3, <1>4 DEF HandlerSteps
<1>7. c[n] \in Found
  BY <1>5 DEF Stages
<1>8. \A k \in 1..n : \A x \in Path : G[k][x] \in Path
  BY <1>6, FoundFacts DEF FirstIn, Found
<1>9. ASSUME NEW j \in 0..n, c[j] \in Path PROVE c[n] # None
  <2>1. Path \subseteq Found
    BY DEF Found
  <2>2. c[n] \in Path
    BY <1>5, <1>8, <1>9, <2>1, StagesKeep
  <2> QED
    BY <2>2, FoundFacts
<1>10. ASSUME found # None PROVE c[n] # None
  <2>1. c[0] \in Path /\ 0 \in 0..n
    BY <1>5, <1>10, FoundFacts DEF Stages
  <2> QED
    BY <1>9, <2>1
<1>11. ASSUME NEW h \in HandlersOf(nd), h = target \/ (h \in Routers /\ f[h] # None) PROVE c[n] # None
  <2>1. PICK j \in 1..n : hs[j] = h
    BY <1>1, <1>3 DEF HandlersOf, Range
  <2>2. j \in 0..n /\ j - 1 \in 0..n
    OBVIOUS
  <2>3. PICK x \in Found : x = c[j - 1]
    BY <1>5, <2>2 DEF Stages
  <2>4. c[j] = FirstIn(f, target, x, h, p)
    BY <1>5, <1>6, <2>1, <2>3 DEF Stages
  <2>5. h \in Routers => f[h] \in Found
    BY ListFacts DEF NodesOf, HandlersOf
  <2>6. c[j] \in Path
    BY <1>11, <2>4, <2>5, FoundFacts DEF FirstIn
  <2> QED
    BY <1>9, <2>2, <2>6
<1> QED
  BY <1>5, <1>7, <1>10, <1>11

(* Only what f says of routers of larger numbers matters.                  *)
LEMMA FoundInLocal ==
  ASSUME NEW r \in Routers, NEW f, \A h \in Routers : h > r => f[h] \in Found,
         NEW g, NEW target, \A q \in Routers : q > r => f[q] = g[q],
         NEW nd \in NodesOf(r), NEW found \in Found
  PROVE  FoundIn(f, target, found, nd) = FoundIn(g, target, found, nd)
<1>1. PICK hs : hs = nd.handlers
  OBVIOUS
<1>2. PICK p \in Path : p = nd.pattern
  BY DEF NodesOf
<1>3. PICK n \in Nat : n = Len(hs) /\ DOMAIN hs = 1..n
  BY <1>1, ListFacts DEF NodesOf
<1>4. PICK F : F = HandlerSteps(f, target, hs, p)
  OBVIOUS
<1>5. PICK G : G = HandlerSteps(g, target, hs, p)
  OBVIOUS
<1>6. PICK c : Stages(c, F, n, found, Found) /\ c[n] = FoundIn(f, target, found, nd)
  BY <1>1, <1>2, <1>3, <1>4, FoundInStages
<1>7. \A h \in Routers : h > r => g[h] \in Found
  OBVIOUS
<1>8. PICK d : Stages(d, G, n, found, Found) /\ d[n] = FoundIn(g, target, found, nd)
  BY <1>7, <1>1, <1>2, <1>3, <1>5, FoundInStages
<1>9. ASSUME NEW k \in 1..n, NEW x \in Found PROVE F[k][x] = G[k][x]
  <2>1. F[k][x] = FirstIn(f, target, x, hs[k], p) /\ G[k][x] = FirstIn(g, target, x, hs[k], p)
    BY <1>3, <1>4, <1>5 DEF HandlerSteps
  <2>2. hs[k] \in Routers => f[hs[k]] = g[hs[k]]
    <3>1. hs[k] \in Range(hs)
      BY <1>3 DEF Range
    <3> QED
      BY <1>1, <3>1, ListFacts DEF NodesOf
  <2> QED
    BY <2>1, <2>2 DEF FirstIn
<1> QED
  BY <1>6, <1>8, <1>9, StagesAgree

(* The fold over the nodes of a router                                     *)
NodeSteps(f, target, ns) == [k \in DOMAIN ns |-> [x \in Found |-> FoundIn(f, target, x, ns[k])]]

(* What it comes to, node by node                                          *)
LEMMA LookupStages ==
  ASSUME NEW r \in Routers, NEW f, \A h \in Routers : h > r => f[h] \in Found, NEW target,
         NEW ns \in Seq(NodesOf(r)), NEW n \in Nat, n = Len(ns)
  PROVE  \E c : Stages(c, NodeSteps(f, target, ns), n, None, Found) /\ c[n] = LookupOf(f, target, ns)
<1>1. DOMAIN ns = 1..n /\ \A k \in 1..n : ns[k] \in NodesOf(r)
  BY LenProperties, ElementOfSeq
<1>2. PICK b \in Found : b = None
  BY DEF Found
<1> DEFINE G == NodeSteps(f, target, ns)
           gs(x) == [s \in SUBSET DOMAIN ns |->
                       IF s = {} THEN None ELSE FoundIn(f, target, x[s \ {Max(s)}], ns[Max(s)])]
<1>3. ASSUME NEW k \in 1..n, NEW x \in Found
      PROVE  G[k][x] = FoundIn(f, target, x, ns[k]) /\ FoundIn(f, target, x, ns[k]) \in Found
  <2>1. FoundIn(f, target, x, ns[k]) \in Found
    BY <1>1, FoundInFacts
  <2> QED
    BY <1>1, <2>1 DEF NodeSteps
<1>4. G = NodeSteps(f, target, ns)
  OBVIOUS
<1> HIDE DEF G
<1>5. PICK F : F = G
  OBVIOUS
<1>6. Keeps(F, n, Found)
  BY <1>3, <1>5 DEF Keeps
<1>7. ASSUME NEW s \in SUBSET (1..n), s # {} PROVE Max(s) \in 1..n /\ s \ {Max(s)} \in SUBSET (1..n)
  BY <1>7, MaxOfSome
<1>8. \E g : g = gs(g)
  <2>1. PICK g : Within(g, n, Found) /\ Folds(g, F, n, b, Found)
    BY <1>6, FoldRecursion
  <2>2. ASSUME NEW s \in SUBSET (1..n) PROVE gs(g)[s] = g[s]
    <3>1. CASE s = {}
      BY <1>1, <1>2, <2>1, <3>1 DEF Folds
    <3>2. CASE s # {}
      <4>1. g[s] = F[Max(s)][g[s \ {Max(s)}]] /\ g[s \ {Max(s)}] \in Found
        BY <1>7, <2>1, <3>2 DEF Folds, Within
      <4>2. PICK k \in 1..n : k = Max(s)
        BY <1>7, <3>2
      <4>3. g[s] = FoundIn(f, target, g[s \ {k}], ns[k])
        BY <1>3, <1>5, <4>1, <4>2
      <4> QED
        BY <1>1, <3>2, <4>2, <4>3
    <3> QED
      BY <3>1, <3>2
  <2>3. g = [s \in SUBSET (1..n) |-> g[s]]
    BY <2>1 DEF Within
  <2> QED
    BY <1>1, <2>2, <2>3
<1>9. PICK it : LookupOf(f, target, ns) = it[DOMAIN ns] /\ it = gs(it)
  BY <1>8, Zenon DEF LookupOf, FoldLeft, MapThenFoldSet
<1>10. Folds(it, F, n, b, Found)
  <2>1. it[{}] = b
    BY <1>1, <1>2, <1>9
  <2>2. ASSUME NEW s \in SUBSET (1..n), s # {}, it[s \ {Max(s)}] \in Found
        PROVE  it[s] = F[Max(s)][it[s \ {Max(s)}]]
    <3>1. it[s] = FoundIn(f, target, it[s \ {Max(s)}], ns[Max(s)])
      BY <1>1, <1>9, <2>2
    <3>2. PICK k \in 1..n : k = Max(s)
      BY <1>7, <2>2
    <3> QED
      BY <1>3, <1>5, <2>2, <3>1, <3>2
  <2> QED
    BY <2>1, <2>2 DEF Folds
<1>11. PICK c : Stages(c, F, n, b, Found) /\ c[n] = it[1..n]
  BY <1>6, <1>10, FoldSteps
<1> QED
  BY <1>1, <1>2, <1>4, <1>5, <1>9, <1>11

(* It finds a path if the target is in a node, or in a router that is.     *)
LEMMA LookupOfFacts ==
  ASSUME NEW r \in Routers, NEW f, \A h \in Routers : h > r => f[h] \in Found, NEW target,
         NEW ns \in Seq(NodesOf(r))
  PROVE  /\ LookupOf(f, target, ns) \in Found
         /\ \A nd \in Range(ns) : \A h \in HandlersOf(nd) :
               h = target \/ (h \in Routers /\ f[h] # None) => LookupOf(f, target, ns) # None
<1>1. PICK n \in Nat : n = Len(ns)
  BY LenProperties
<1>2. DOMAIN ns = 1..n /\ \A k \in 1..n : ns[k] \in NodesOf(r)
  BY <1>1, LenProperties, ElementOfSeq
<1>3. PICK b \in Found : b = None
  BY DEF Found
<1>4. PICK G : G = NodeSteps(f, target, ns)
  OBVIOUS
<1>5. PICK c : Stages(c, G, n, b, Found) /\ c[n] = LookupOf(f, target, ns)
  BY <1>1, <1>3, <1>4, LookupStages
<1>6. \A k \in 1..n : \A x \in Found : G[k][x] = FoundIn(f, target, x, ns[k])
  BY <1>2, <1>4 DEF NodeSteps
<1>7. c[n] \in Found
  BY <1>5 DEF Stages
<1>8. ASSUME NEW k \in 1..n, NEW x \in Path PROVE G[k][x] \in Path
  <2>1. x \in Found /\ x # None
    BY FoundFacts DEF Found
  <2>2. FoundIn(f, target, x, ns[k]) \in Found /\ FoundIn(f, target, x, ns[k]) # None
    BY <1>2, <2>1, FoundInFacts
  <2> QED
    BY <1>6, <2>1, <2>2, FoundFacts
<1>9. ASSUME NEW nd \in Range(ns), NEW h \in HandlersOf(nd), h = target \/ (h \in Routers /\ f[h] # None)
      PROVE  c[n] # None
  <2>1. PICK j \in 1..n : ns[j] = nd
    BY <1>2 DEF Range
  <2>2. j \in 0..n /\ j - 1 \in 0..n
    OBVIOUS
  <2>3. PICK x \in Found : x = c[j - 1]
    BY <1>5, <2>2 DEF Stages
  <2>4. c[j] = FoundIn(f, target, x, nd)
    BY <1>5, <1>6, <2>1, <2>3 DEF Stages
  <2>5. nd \in NodesOf(r)
    BY <1>2, <2>1
  <2>6. FoundIn(f, target, x, nd) \in Found /\ FoundIn(f, target, x, nd) # None
    BY <1>9, <2>5, FoundInFacts
  <2>7. c[j] \in Path
    BY <2>4, <2>6, FoundFacts
  <2>8. Path \subseteq Found
    BY DEF Found
  <2>9. c[n] \in Path
    BY <1>5, <1>8, <2>2, <2>7, <2>8, StagesKeep
  <2> QED
    BY <2>9, FoundFacts
<1> QED
  BY <1>5, <1>7, <1>9

(* Here, too, only what f says of routers of larger numbers matters.       *)
LEMMA LookupOfLocal ==
  ASSUME NEW r \in Routers, NEW f, \A h \in Routers : h > r => f[h] \in Found,
         NEW g, NEW target, \A q \in Routers : q > r => f[q] = g[q],
         NEW ns \in Seq(NodesOf(r))
  PROVE  LookupOf(f, target, ns) = LookupOf(g, target, ns)
<1>1. PICK n \in Nat : n = Len(ns)
  BY LenProperties
<1>2. DOMAIN ns = 1..n /\ \A k \in 1..n : ns[k] \in NodesOf(r)
  BY <1>1, LenProperties, ElementOfSeq
<1>3. PICK F : F = NodeSteps(f, target, ns)
  OBVIOUS
<1>4. PICK G : G = NodeSteps(g, target, ns)
  OBVIOUS
<1>5. PICK c : Stages(c, F, n, None, Found) /\ c[n] = LookupOf(f, target, ns)
  <2>1. \E e : Stages(e, NodeSteps(f, target, ns), n, None, Found) /\ e[n] = LookupOf(f, target, ns)
    BY <1>1, LookupStages
  <2> QED
    BY <1>3, <2>1
<1>6. \A h \in Routers : h > r => g[h] \in Found
  OBVIOUS
<1>7. PICK d : Stages(d, G, n, None, Found) /\ d[n] = LookupOf(g, target, ns)
  <2>1. \E e : Stages(e, NodeSteps(g, target, ns), n, None, Found) /\ e[n] = LookupOf(g, target, ns)
    BY <1>1, <1>6, LookupStages
  <2> QED
    BY <1>4, <2>1
<1>8. ASSUME NEW k \in 1..n, NEW x \in Found PROVE F[k][x] = G[k][x]
  <2>1. F[k][x] = FoundIn(f, target, x, ns[k]) /\ G[k][x] = FoundIn(g, target, x, ns[k])
    BY <1>2, <1>3, <1>4 DEF NodeSteps
  <2>2. FoundIn(f, target, x, ns[k]) = FoundIn(g, target, x, ns[k])
    BY <1>2, FoundInLocal
  <2> QED
    BY <2>1, <2>2
<1> QED
  BY <1>5, <1>7, <1>8, StagesAgree

(* So Lookup is the recursion it looks like.                               *)
LEMMA LookupFacts ==
  ASSUME Shapes, NEW target
  PROVE  /\ \A r \in Routers : Lookup(target)[r] \in Found
         /\ \A r \in Routers : \A nd \in Range(nodes[r]) : \A h \in HandlersOf(nd) :
               h = target \/ (h \in Routers /\ Lookup(target)[h] # None) => Lookup(target)[r] # None
<1> DEFINE G == [r \in Routers |-> [f \in [Routers -> Found] |-> LookupOf(f, target, nodes[r])]]
<1>1. ASSUME NEW r \in Routers, NEW f \in [Routers -> Found] PROVE G[r][f] = LookupOf(f, target, nodes[r])
  OBVIOUS
<1>2. ASSUME NEW r \in Routers, NEW f \in [Routers -> Found] PROVE LookupOf(f, target, nodes[r]) \in Found
  <2>1. \A h \in Routers : f[h] \in Found
    OBVIOUS
  <2>2. nodes[r] \in Seq(NodesOf(r))
    BY DEF Shapes
  <2> QED
    BY <2>1, <2>2, LookupOfFacts
<1>3. ASSUME NEW r \in Routers, NEW f \in [Routers -> Found], NEW g \in [Routers -> Found],
             \A q \in Routers : q > r => f[q] = g[q]
      PROVE  LookupOf(f, target, nodes[r]) = LookupOf(g, target, nodes[r])
  <2>1. (\A h \in Routers : f[h] \in Found) /\ (\A h \in Routers : g[h] \in Found)
    OBVIOUS
  <2>2. nodes[r] \in Seq(NodesOf(r))
    BY DEF Shapes
  <2> QED
    BY <1>3, <2>1, <2>2, LookupOfLocal
<1> HIDE DEF G
<1>4. PICK F : F = G
  OBVIOUS
<1>5. None \in Found
  BY DEF Found
<1>6. /\ \A r \in Routers : \A f \in [Routers -> Found] : F[r][f] \in Found
      /\ \A r \in Routers : \A f, g \in [Routers -> Found] :
            (\A q \in Routers : q > r => f[q] = g[q]) => F[r][f] = F[r][g]
  BY <1>1, <1>2, <1>3, <1>4
<1>7. PICK f : f \in [Routers -> Found] /\ Recurs(f, F)
  BY <1>5, <1>6, RouterRecursion
<1>8. f = [r \in Routers |-> LookupOf(f, target, nodes[r])]
  BY <1>1, <1>4, <1>7 DEF Recurs
<1>9. PICK g : g = LookupIn(nodes, target) /\ g = [r \in Routers |-> LookupOf(g, target, nodes[r])]
  BY <1>8, Zenon DEF LookupIn
<1>10. \A r \in Routers : g[r] = LookupOf(g, target, nodes[r]) /\ nodes[r] \in Seq(NodesOf(r))
  BY <1>9 DEF Shapes
<1>11. \A r \in Routers : g[r] \in Found
  <2> DEFINE S == {r \in Routers : g[r] \in Found}
  <2>1. ASSUME NEW r \in Routers, \A q \in Routers : q > r => q \in S PROVE r \in S
    <3>1. \A q \in Routers : q > r => g[q] \in Found
      BY <2>1
    <3>2. LookupOf(g, target, nodes[r]) \in Found
      BY <1>10, <3>1, LookupOfFacts
    <3> QED
      BY <1>10, <3>2
  <2>2. \A r \in Routers : r \in S
    <3> HIDE DEF S
    <3> QED BY <2>1, RouterInduction
  <2> QED
    BY <2>2
<1>12. ASSUME NEW r \in Routers, NEW nd \in Range(nodes[r]), NEW h \in HandlersOf(nd),
              h = target \/ (h \in Routers /\ g[h] # None)
       PROVE  g[r] # None
  <2>1. LookupOf(g, target, nodes[r]) # None
    BY <1>10, <1>11, <1>12, LookupOfFacts
  <2> QED
    BY <1>10, <2>1
<1> QED
  BY <1>9, <1>11, <1>12, LookupIs

(* The functions a message comes to in router r, if f is what it comes to  *)
(* in the routers that r mounts                                            *)
ReachedOf(nds, path, f, r) ==
    UNION {IF h \in Routers THEN f[h] ELSE {h} :
           h \in UNION {HandlersOf(n) : n \in {m \in Range(nds[r]) : MatchPattern(m.pattern, path)}}}

(* Reached, of these nodes                                                 *)
ReachedIn(nds, path) == CHOOSE f : f = [r \in Routers |-> ReachedOf(nds, path, f, r)]

(* It is the same recursion.                                               *)
LEMMA ReachedIs == ASSUME NEW path PROVE Reached(path) = ReachedIn(nodes, path)
BY Zenon DEF Reached, ReachedIn, ReachedOf

(* A message comes to what a node that matches has, or to what it comes to *)
(* in a router that such a node has.                                       *)
LEMMA ReachedMember ==
  ASSUME NEW nds, NEW path, NEW f, NEW r, NEW t
  PROVE  t \in ReachedOf(nds, path, f, r) <=>
            \E n \in Range(nds[r]) : \E h \in HandlersOf(n) :
               MatchPattern(n.pattern, path) /\ (IF h \in Routers THEN t \in f[h] ELSE t = h)
BY DEF ReachedOf

(* What handles messages itself                                            *)
Bindable == Funcs \cup Openers \cup Closers

(* It comes to such handlers                                               *)
LEMMA ReachedType ==
  ASSUME NEW nds, NEW path, Noded(nds), NEW r \in Routers, NEW f,
         \A h \in Routers : f[h] \subseteq Bindable
  PROVE  ReachedOf(nds, path, f, r) \subseteq Bindable
<1>1. \A n \in Range(nds[r]) : \A h \in HandlersOf(n) : h \in Bindable \cup Routers
  <2>1. ASSUME NEW n \in Range(nds[r]), NEW h \in HandlersOf(n) PROVE h \in Bindable \cup Routers
    <3>1. n \in NodesOf(r)
      BY NodedFacts
    <3>2. h \in Handlers(r)
      BY <3>1, ListFacts DEF NodesOf, HandlersOf
    <3> QED
      BY <3>2 DEF Handlers, Bindable
  <2> QED
    BY <2>1
<1>2. ASSUME NEW t, t \in ReachedOf(nds, path, f, r) PROVE t \in Bindable
  <2>1. \E n \in Range(nds[r]) : \E h \in HandlersOf(n) :
          MatchPattern(n.pattern, path) /\ (IF h \in Routers THEN t \in f[h] ELSE t = h)
    BY <1>2, ReachedMember
  <2> QED
    BY <1>1, <2>1
<1> QED
  BY <1>2

(* and where it comes to goes by the routers of larger numbers.            *)
LEMMA ReachedLocal ==
  ASSUME NEW nds, NEW path, Noded(nds), NEW r \in Routers, NEW f, NEW g,
         \A q \in Routers : q > r => f[q] = g[q]
  PROVE  ReachedOf(nds, path, f, r) \subseteq ReachedOf(nds, path, g, r)
<1>1. \A n \in Range(nds[r]) : \A h \in HandlersOf(n) : h \in Routers => f[h] = g[h]
  BY NodedFacts
<1>2. ASSUME NEW t, t \in ReachedOf(nds, path, f, r) PROVE t \in ReachedOf(nds, path, g, r)
  <2>1. \E n \in Range(nds[r]) : \E h \in HandlersOf(n) :
          MatchPattern(n.pattern, path) /\ (IF h \in Routers THEN t \in f[h] ELSE t = h)
    BY <1>2, ReachedMember
  <2>2. \E n \in Range(nds[r]) : \E h \in HandlersOf(n) :
          MatchPattern(n.pattern, path) /\ (IF h \in Routers THEN t \in g[h] ELSE t = h)
    BY <1>1, <2>1
  <2> QED
    BY <2>2, ReachedMember
<1> QED
  BY <1>2

(* A message comes to what the recursion says.                             *)
LEMMA ReachedFacts ==
  ASSUME NEW nds, NEW path, Noded(nds)
  PROVE  \A r \in Routers :
            ReachedIn(nds, path)[r] = ReachedOf(nds, path, ReachedIn(nds, path), r)
<1> DEFINE A == SUBSET (Bindable)
           G == [r \in Routers |-> [f \in [Routers -> A] |-> ReachedOf(nds, path, f, r)]]
<1>1. ASSUME NEW r \in Routers, NEW f \in [Routers -> A] PROVE G[r][f] = ReachedOf(nds, path, f, r)
  OBVIOUS
<1>2. ASSUME NEW r \in Routers, NEW f \in [Routers -> A] PROVE ReachedOf(nds, path, f, r) \in A
  <2>1. \A h \in Routers : f[h] \subseteq Bindable
    OBVIOUS
  <2>2. ReachedOf(nds, path, f, r) \subseteq Bindable
    BY <2>1, ReachedType
  <2> QED
    BY <2>2
<1>3. ASSUME NEW r \in Routers, NEW f \in [Routers -> A], NEW g \in [Routers -> A],
             \A q \in Routers : q > r => f[q] = g[q]
      PROVE  ReachedOf(nds, path, f, r) = ReachedOf(nds, path, g, r)
  <2>1. ReachedOf(nds, path, f, r) \subseteq ReachedOf(nds, path, g, r)
    BY <1>3, ReachedLocal
  <2>2. ReachedOf(nds, path, g, r) \subseteq ReachedOf(nds, path, f, r)
    BY <1>3, ReachedLocal
  <2> QED
    BY <2>1, <2>2
<1> HIDE DEF G
<1>4. PICK F : F = G
  OBVIOUS
<1>5. PICK a \in A : TRUE
  OBVIOUS
<1>6. /\ \A r \in Routers : \A f \in [Routers -> A] : F[r][f] \in A
      /\ \A r \in Routers : \A f, g \in [Routers -> A] :
            (\A q \in Routers : q > r => f[q] = g[q]) => F[r][f] = F[r][g]
  BY <1>1, <1>2, <1>3, <1>4
<1> HIDE DEF A
<1>7. PICK f : f \in [Routers -> A] /\ Recurs(f, F)
  BY <1>5, <1>6, RouterRecursion
<1>8. f = [r \in Routers |-> ReachedOf(nds, path, f, r)]
  BY <1>1, <1>4, <1>7 DEF Recurs
<1>9. PICK g : g = ReachedIn(nds, path) /\ g = [r \in Routers |-> ReachedOf(nds, path, g, r)]
  BY <1>8, Zenon DEF ReachedIn
<1> QED
  BY <1>9

(* Where a message comes to a function by way of some nodes Lookup, that   *)
(* searches all of them, finds it: by induction, down from the last router.*)
LEMMA ServedFacts == ASSUME Shapes PROVE ServedIsFound
<1> SUFFICES ASSUME NEW path, NEW t
             PROVE  \A r \in Routers : t \in Reached(path)[r] => Lookup(t)[r] # None
  BY DEF ServedIsFound
<1>1. PICK f : f = Reached(path)
  OBVIOUS
<1>2. \A r \in Routers : f[r] = ReachedOf(nodes, path, f, r)
  BY <1>1, ReachedIs, ReachedFacts DEF Shapes, Noded
<1> DEFINE S == {r \in Routers : t \in f[r] => Lookup(t)[r] # None}
<1>3. ASSUME NEW r \in Routers, \A q \in Routers : q > r => q \in S PROVE r \in S
  <2>1. SUFFICES ASSUME t \in f[r] PROVE Lookup(t)[r] # None
    OBVIOUS
  <2>2. t \in ReachedOf(nodes, path, f, r)
    BY <1>2, <2>1
  <2>3. PICK nd \in Range(nodes[r]) :
          \E h \in HandlersOf(nd) : IF h \in Routers THEN t \in f[h] ELSE t = h
    BY <2>2, ReachedMember
  <2>4. PICK h : h \in HandlersOf(nd) /\ (IF h \in Routers THEN t \in f[h] ELSE t = h)
    BY <2>3
  <2>5. h \in Routers => h > r
    BY <2>4, NodedFacts DEF Shapes, Noded
  <2>6. h \in Routers => Lookup(t)[h] # None
    BY <1>3, <2>4, <2>5
  <2> QED
    BY <2>4, <2>6, LookupFacts
<1>4. \A r \in Routers : r \in S
  <2> HIDE DEF S
  <2> QED BY <1>3, RouterInduction
<1> QED
  BY <1>1, <1>4

(* Whatever function a message with any path can come to, at any depth,    *)
(* Lookup of it in the same router finds a pattern (Lookup,                *)
(* router.go:392-415).                                                     *)
THEOREM ServedFound == Spec => []ServedIsFound
<1>1. Init => Shapes
  BY InitShapes
<1>2. Shapes /\ [Next]_vars => Shapes'
  BY StepShapes
<1>3. Shapes => ServedIsFound
  BY ServedFacts
<1> QED
  BY <1>1, <1>2, <1>3, PTL DEF Spec

-----------------------------------------------------------------------------
(* What is bound in a node has its hooks in the router of the node.        *)
LEMMA BoundIsHooked ==
  ASSUME NEW r \in Routers, NEW ns \in Seq(NodesOf(r)), NEW os \in Seq(Handlers(r)),
         NEW h, HooksFit(h, ns, os), NEW nd \in Range(ns), h \in HandlersOf(nd)
  PROVE  h \in Range(os)
<1>1. PICK n \in DOMAIN ns : nd = ns[n]
  BY DEF Range
<1>2. PICK i \in DOMAIN nd.handlers : h = nd.handlers[i]
  BY DEF Range, HandlersOf
<1>3. <<n, i>> \in {n} \X At(h, ns[n].handlers)
  BY <1>1, <1>2 DEF At
<1>4. <<n, i>> \in BoundAt(h, ns)
  BY <1>3 DEF BoundAt
<1>5. PICK B : B = BoundAt(h, ns)
  OBVIOUS
<1>6. Cardinality(B) \in Nat /\ Cardinality(B) # 0
  BY <1>4, <1>5, FS_CardinalityType, FS_EmptySet DEF HooksFit
<1>7. Times(h, os) \in Nat /\ Times(h, os) # 0
  BY <1>5, <1>6, AtFinite DEF HooksFit
<1>8. At(h, os) # {}
  BY <1>7, FS_EmptySet DEF Times
<1> QED
  BY <1>8 DEF At, Range

(* What the hooks of router r run, if f is what those of the routers in it *)
(* run                                                                     *)
HookedOf(chain, f, r) == UNION {IF h \in Routers THEN f[h] ELSE {h} : h \in Range(chain[r])}

(* Hooked, with this                                                       *)
HookedIn(chain) == CHOOSE f : f = [r \in Routers |-> HookedOf(chain, f, r)]

(* It is the same recursion.                                               *)
LEMMA HookedIs == ASSUME NEW chain PROVE Hooked(chain) = HookedIn(chain)
BY Zenon DEF Hooked, HookedIn, HookedOf

(* Each router has hooks.                                                  *)
Chained(chain) == \A r \in Routers : chain[r] \in Seq(Handlers(r))

(* They are handlers, and routers of larger numbers.                       *)
LEMMA ChainedFacts ==
  ASSUME NEW chain, Chained(chain), NEW r \in Routers, NEW h \in Range(chain[r])
  PROVE  h \in Bindable \cup Routers /\ (h \in Routers => h > r)
<1>1. PICK s \in Seq(Handlers(r)) : s = chain[r]
  BY DEF Chained
<1>2. h \in Handlers(r)
  BY <1>1, LenProperties, ElementOfSeq DEF Range
<1> QED
  BY <1>2, RoutingAssumption DEF Handlers, Bindable

(* They run what the recursion says.                                       *)
LEMMA HookedFacts ==
  ASSUME NEW chain, Chained(chain)
  PROVE  \A r \in Routers : Hooked(chain)[r] = HookedOf(chain, Hooked(chain), r)
<1> DEFINE A == SUBSET Bindable
           G == [r \in Routers |-> [f \in [Routers -> A] |-> HookedOf(chain, f, r)]]
<1>1. ASSUME NEW r \in Routers, NEW f \in [Routers -> A] PROVE G[r][f] = HookedOf(chain, f, r)
  OBVIOUS
<1>2. ASSUME NEW r \in Routers, NEW f \in [Routers -> A] PROVE HookedOf(chain, f, r) \in A
  BY ChainedFacts DEF HookedOf
<1>3. ASSUME NEW r \in Routers, NEW f \in [Routers -> A], NEW g \in [Routers -> A],
             \A q \in Routers : q > r => f[q] = g[q]
      PROVE  HookedOf(chain, f, r) = HookedOf(chain, g, r)
  <2>1. \A h \in Range(chain[r]) : h \in Routers => f[h] = g[h]
    BY <1>3, ChainedFacts
  <2> QED
    BY <2>1 DEF HookedOf
<1> HIDE DEF G
<1>4. PICK F : F = G
  OBVIOUS
<1>5. PICK a \in A : TRUE
  OBVIOUS
<1>6. /\ \A r \in Routers : \A f \in [Routers -> A] : F[r][f] \in A
      /\ \A r \in Routers : \A f, g \in [Routers -> A] :
            (\A q \in Routers : q > r => f[q] = g[q]) => F[r][f] = F[r][g]
  BY <1>1, <1>2, <1>3, <1>4
<1> HIDE DEF A
<1>7. PICK f : f \in [Routers -> A] /\ Recurs(f, F)
  BY <1>5, <1>6, RouterRecursion
<1>8. f = [r \in Routers |-> HookedOf(chain, f, r)]
  BY <1>1, <1>4, <1>7 DEF Recurs
<1>9. PICK g : g = HookedIn(chain) /\ g = [r \in Routers |-> HookedOf(chain, g, r)]
  BY <1>8, Zenon DEF HookedIn
<1> QED
  BY <1>9, HookedIs

(* Where a message comes to a handler through some nodes, the hooks of the *)
(* same routers lead to it: by induction, down from the last router.       *)
LEMMA ReachedIsHooked ==
  ASSUME Shapes, NEW chain, Chained(chain), NEW able,
         \A r \in Routers : \A h \in able \cup Routers : HooksFit(h, nodes[r], chain[r]),
         NEW path, NEW t \in able
  PROVE  \A r \in Routers : t \in Reached(path)[r] => t \in Hooked(chain)[r]
<1>1. PICK f : f = Reached(path)
  OBVIOUS
<1>2. PICK g : g = Hooked(chain)
  OBVIOUS
<1>3. \A r \in Routers : f[r] = ReachedOf(nodes, path, f, r)
  BY <1>1, ReachedIs, ReachedFacts DEF Shapes, Noded
<1>4. \A r \in Routers : g[r] = HookedOf(chain, g, r)
  BY <1>2, HookedFacts
<1> DEFINE S == {r \in Routers : t \in f[r] => t \in g[r]}
<1>5. ASSUME NEW r \in Routers, \A q \in Routers : q > r => q \in S PROVE r \in S
  <2>1. SUFFICES ASSUME t \in f[r] PROVE t \in g[r]
    OBVIOUS
  <2>2. t \in ReachedOf(nodes, path, f, r)
    BY <1>3, <2>1
  <2>3. PICK nd \in Range(nodes[r]) :
          \E h \in HandlersOf(nd) : IF h \in Routers THEN t \in f[h] ELSE t = h
    BY <2>2, ReachedMember
  <2>4. PICK h : h \in HandlersOf(nd) /\ (IF h \in Routers THEN t \in f[h] ELSE t = h)
    BY <2>3
  <2>5. h \in Routers => h > r
    BY <2>4, NodedFacts DEF Shapes, Noded
  <2>6. h \in Routers => t \in g[h]
    BY <1>5, <2>4, <2>5
  <2>7. HooksFit(h, nodes[r], chain[r])
    BY <2>4
  <2>8. nodes[r] \in Seq(NodesOf(r)) /\ chain[r] \in Seq(Handlers(r))
    BY DEF Shapes, Chained
  <2>9. h \in Range(chain[r])
    BY <2>4, <2>7, <2>8, BoundIsHooked
  <2>10. t \in HookedOf(chain, g, r)
    BY <2>4, <2>6, <2>9 DEF HookedOf
  <2> QED
    BY <1>4, <2>10
<1>6. \A r \in Routers : r \in S
  <2> HIDE DEF S
  <2> QED BY <1>5, RouterInduction
<1> QED
  BY <1>1, <1>2, <1>6

(* Whatever handler a message with any path can come to, through any depth *)
(* of mounted routers and in whatever order they were mounted and bound,   *)
(* is run when the connection opens if it implements OpenHandler and when  *)
(* it closes if it implements CloseHandler, by the hooks of the same router*)
(* (bind, router.go:465-470; HandleOpen and HandleClose,                   *)
(* router.go:200-223).                                                     *)
THEOREM ServedAreHooked == Spec => []ServedIsHooked
<1>1. Init => Shapes /\ HooksInv
  BY InitShapes, InitHooks
<1>2. Shapes /\ HooksInv /\ [Next]_vars => (Shapes /\ HooksInv)'
  BY StepShapes, StepHooks
<1>3. ASSUME Shapes, HooksInv PROVE ServedIsHooked
  <2>1. Chained(opens) /\ Chained(closes)
    BY <1>3 DEF Shapes, Chained
  <2>2. \A path : \A t \in Openers : \A r \in Routers :
           t \in Reached(path)[r] => t \in Hooked(opens)[r]
    BY <1>3, <2>1, ReachedIsHooked DEF HooksInv
  <2>3. \A path : \A t \in Closers : \A r \in Routers :
           t \in Reached(path)[r] => t \in Hooked(closes)[r]
    BY <1>3, <2>1, ReachedIsHooked DEF HooksInv
  <2> QED
    BY <2>2, <2>3 DEF ServedIsHooked
<1> QED
  BY <1>1, <1>2, <1>3, PTL DEF Spec
=============================================================================
