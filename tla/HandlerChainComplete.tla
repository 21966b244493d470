------------------------- MODULE HandlerChainComplete -------------------------
(***************************************************************************)
(* NoneMissed of HandlerChain: a chain that nobody stopped has run every   *)
(* handler that the path leads to, through all routers, and no other.      *)
(***************************************************************************)
EXTENDS HandlerChainLocks, FiniteSetTheorems

-----------------------------------------------------------------------------
(* Ways and contexts.  What is said here of a stack S of contexts and of   *)
(* what ran needs no more of an application a than its chains.             *)

(* A path leads to the handler at this place of a router's chain           *)
LeadsTo(a, path, r, x) ==
    /\ x[1] \in 1..Len(a.chain[r]) /\ x[2] \in 1..Len(a.chain[r][x[1]].handlers)
    /\ path \in a.chain[r][x[1]].on

(* The handler there                                                       *)
HandlerIn(a, r, x) == a.chain[r][x[1]].handlers[x[2]]

(* Two paths lead to the same handlers                                     *)
Alike(a, p, q) == \A r \in Routers : \A x : LeadsTo(a, p, r, x) <=> LeadsTo(a, q, r, x)

(* A way, as Ways has them                                                 *)
IsWay(a, path, way) ==
    /\ Len(way) \in 1..Cardinality(Routers)
    /\ way[1][1] = Root
    /\ \A k \in 1..Len(way) : way[k][1] \in Routers /\ LeadsTo(a, path, way[k][1], way[k][2])
    /\ \A k \in 2..Len(way) : way[k][1] = HandlerIn(a, way[k - 1][1], way[k - 1][2])

(* The place of a context in its chain                                     *)
Spot(c) == <<c.node, c.index>>

(* The first i contexts are at the first i stops of the way                *)
Comes(S, i, way) ==
    \A k \in 1..i : way[k][1] = S[k].router /\ way[k][2][1] = S[k].node /\ way[k][2][2] = S[k].index

(* The i-th context is on the way, and has its next stop before it         *)
Pending(S, i, way) ==
    i <= Len(way) /\ Comes(S, i - 1, way) /\ Before(Spot(S[i]), way[i][2])

(* The way was gone.                                                       *)
Done(ran, way) == \E i \in 1..Len(ran) : Along(ran[i], way)

(* Routers are mounted in layers: none is mounted in itself, also not by   *)
(* way of others, or a message would go round in it.                       *)
Layers(a) ==
    {level \in [Routers -> 1..Cardinality(Routers)] :
        \A r \in Routers : \A q \in HandlersOf(a.chain[r]) \cap Routers : level[r] < level[q]}

(* Codecs come first: in the root router, no path keeps a message from a   *)
(* codec or from what is before it, which is no router.                    *)
DecodesFirst(a) ==
    \A n, k \in 1..Len(a.chain[Root]) :
        \A i \in 1..Len(a.chain[Root][n].handlers), j \in 1..Len(a.chain[Root][k].handlers) :
            a.chain[Root][n].handlers[i] \in Codecs /\ ~Before(<<n, i>>, <<k, j>>) =>
                /\ a.chain[Root][k].on = Paths \cup {NoPath}
                /\ a.chain[Root][k].handlers[j] \notin Routers

(* Open and close handlers have no pattern: every path leads to them.      *)
AnyPath(a) ==
    \A r \in Routers : \A n \in 1..Len(a.chain[r]) : a.chain[r][n].on = Paths \cup {NoPath}

(* Chains and nodes are sequences.                                         *)
Shaped(a) ==
    \A r \in Routers :
        /\ Len(a.chain[r]) \in Nat
        /\ \A n \in 1..Len(a.chain[r]) : a.chain[r][n].handlers \in Seq(Handlers)

(* Every context but the innermost is at the router that the next one is   *)
(* of, where the path leads, and at names the way to it; all have paths    *)
(* alike.                                                                  *)
Laid(a, S) ==
    /\ Len(S) \in Nat /\ Len(S) >= 1 /\ S[1].router = Root
    /\ \A i \in 1..Len(S) :
        /\ S[i].router \in Routers /\ Alike(a, S[i].path, S[1].path)
        /\ S[i].node \in Nat /\ S[i].index \in Nat
        /\ \A level \in Layers(a) : i <= level[S[i].router]
        /\ Len(S[i].at) = 2 * (i - 1)
        /\ \A k \in 1..(i - 1) : S[i].at[2 * k - 1] = S[k].node /\ S[i].at[2 * k] = S[k].index
    /\ \A i \in 1..(Len(S) - 1) :
        /\ S[i + 1].router = HandlerIn(a, S[i].router, Spot(S[i]))
        /\ LeadsTo(a, S[1].path, S[i].router, Spot(S[i]))

(* What ran is where the path leads, and the root context is not before it.*)
RanOK(a, S, ran) ==
    \A i \in 1..Len(ran) :
        /\ \E way : IsWay(a, S[1].path, way) /\ Along(ran[i], way)
        /\ ~Before(Spot(S[1]), <<ran[i][1], ran[i][2]>>)

(* Where the path leads has run, or a context has it before it.            *)
Covers(a, S, ran) ==
    \A way : IsWay(a, S[1].path, way) =>
        Done(ran, way) \/ \E i \in 1..Len(S) : Pending(S, i, way)

(* A router that has just been started may have it before it too.          *)
CoversFresh(a, S, ran) ==
    \A way : IsWay(a, S[1].path, way) =>
        \/ Done(ran, way) \/ \E i \in 1..Len(S) : Pending(S, i, way)
        \/ Len(way) > Len(S) /\ Comes(S, Len(S), way)

(* T has the first k contexts of S, the k-th of them as d.                 *)
Cut(S, T, k, d) ==
    /\ k \in 1..Len(S) /\ Len(T) = k /\ T[k] = d
    /\ \A i \in 1..(k - 1) : SamePlace(S[i], T[i])

(* Places are counted from 1.                                              *)
LEMMA PlaceNumbers ==
  ASSUME NEW a, Shaped(a), NEW r \in Routers, NEW p, NEW x, LeadsTo(a, p, r, x)
  PROVE  /\ x[1] \in Nat /\ x[1] >= 1 /\ x[2] \in Nat /\ x[2] >= 1
         /\ Before(<<1, 0>>, x)
         /\ HandlerIn(a, r, x) \in HandlersOf(a.chain[r])
<1>1. Len(a.chain[r]) \in Nat /\ x[1] \in 1..Len(a.chain[r])
  BY DEF Shaped, LeadsTo
<1>2. a.chain[r][x[1]].handlers \in Seq(Handlers) /\ x[2] \in 1..Len(a.chain[r][x[1]].handlers)
  BY <1>1 DEF Shaped, LeadsTo
<1>3. x[1] \in Nat /\ x[1] >= 1 /\ x[2] \in Nat /\ x[2] >= 1
  <2> DEFINE l == Len(a.chain[r]) hs == a.chain[r][x[1]].handlers i == x[1] j == x[2]
  <2>1. l \in Nat /\ hs \in Seq(Handlers) /\ i \in 1..l /\ j \in 1..Len(hs)
    BY <1>1, <1>2
  <2> HIDE DEF l, hs, i, j
  <2>2. i \in Nat /\ i >= 1 /\ j \in Nat /\ j >= 1
    BY <2>1
  <2> QED
    BY <2>2 DEF i, j
<1>4. Before(<<1, 0>>, x)
  BY <1>3 DEF Before
<1>5. HandlerIn(a, r, x) \in HandlersOf(a.chain[r])
  <2> DEFINE hs == a.chain[r][x[1]].handlers
  <2>1. hs[x[2]] \in Handlers
    <3> HIDE DEF hs
    <3> QED
      BY <1>2 DEF hs
  <2> QED
    BY <1>1, <1>2, <2>1 DEF HandlerIn, HandlersOf
<1> QED
  BY <1>3, <1>4, <1>5

(* Like is an equivalence.                                                 *)
LEMMA AlikeEquiv ==
  ASSUME NEW a, NEW p, NEW q
  PROVE  /\ Alike(a, p, p)
         /\ Alike(a, p, q) => Alike(a, q, p)
         /\ \A r : Alike(a, p, q) /\ Alike(a, q, r) => Alike(a, p, r)
BY DEF Alike

(* d is where the path of c leads first, behind c                          *)
FirstAhead(a, c, d) ==
    /\ LeadsTo(a, c.path, c.router, Spot(d)) /\ Before(Spot(c), Spot(d))
    /\ \A x : LeadsTo(a, c.path, c.router, x) /\ Before(Spot(c), x) => ~Before(x, Spot(d))

(* Paths that are alike have the same ways.                                *)
LEMMA SameWays ==
  ASSUME NEW a, NEW p, NEW q, Alike(a, p, q), NEW way
  PROVE  IsWay(a, p, way) <=> IsWay(a, q, way)
<1>1. ASSUME way[1][1] = Root,
             \A k \in 1..Len(way) : way[k][1] \in Routers
      PROVE  (\A k \in 1..Len(way) : LeadsTo(a, p, way[k][1], way[k][2]))
               <=> (\A k \in 1..Len(way) : LeadsTo(a, q, way[k][1], way[k][2]))
  BY <1>1 DEF Alike
<1> QED
  BY <1>1 DEF IsWay

(* A way that has followed the contexts is in the router of the next one.  *)
LEMMA WayRouter ==
  ASSUME NEW a, NEW S, Laid(a, S), NEW way, IsWay(a, S[1].path, way),
         NEW i \in 1..Len(S), i <= Len(way), Comes(S, i - 1, way)
  PROVE  /\ way[i][1] = S[i].router
         /\ LeadsTo(a, S[i].path, S[i].router, way[i][2])
<1>1. way[i][1] = S[i].router
  <2>1. CASE i = 1
    BY <2>1 DEF Laid, IsWay
  <2>2. CASE i # 1
    <3>1. i - 1 \in 1..(i - 1) /\ i - 1 \in 1..(Len(S) - 1) /\ i \in 2..Len(way) /\ (i - 1) + 1 = i
      BY <2>2 DEF Laid, IsWay
    <3>2. S[i].router = HandlerIn(a, S[i - 1].router, Spot(S[i - 1]))
      BY <3>1 DEF Laid
    <3>3. way[i][1] = HandlerIn(a, way[i - 1][1], way[i - 1][2])
      BY <3>1 DEF IsWay
    <3>4. way[i - 1][1] = S[i - 1].router /\ way[i - 1][2][1] = S[i - 1].node
          /\ way[i - 1][2][2] = S[i - 1].index
      BY <3>1 DEF Comes
    <3>5. HandlerIn(a, way[i - 1][1], way[i - 1][2]) = HandlerIn(a, S[i - 1].router, Spot(S[i - 1]))
      BY <3>4 DEF HandlerIn, Spot
    <3> QED
      BY <3>2, <3>3, <3>5
  <2> QED
    BY <2>1, <2>2
<1>2. i \in 1..Len(way)
  BY DEF IsWay, Laid
<1>3. LeadsTo(a, S[1].path, way[i][1], way[i][2]) /\ way[i][1] \in Routers
  BY <1>2 DEF IsWay
<1>4. Alike(a, S[i].path, S[1].path)
  BY DEF Laid
<1> QED
  BY <1>1, <1>3, <1>4 DEF Alike

(* A context at the end of its chain has nothing before it.                *)
LEMMA NothingAtEnd ==
  ASSUME NEW a, Shaped(a), NEW S, Laid(a, S), NEW way, IsWay(a, S[1].path, way),
         NEW i \in 1..Len(S), S[i].node > Len(a.chain[S[i].router])
  PROVE  ~Pending(S, i, way)
<1> SUFFICES ASSUME Pending(S, i, way) PROVE FALSE
  OBVIOUS
<1>1. LeadsTo(a, S[i].path, S[i].router, way[i][2])
  BY WayRouter DEF Pending
<1>2. S[i].node \in Nat /\ S[i].router \in Routers /\ Len(a.chain[S[i].router]) \in Nat
  BY DEF Laid, Shaped
<1>3. way[i][2][1] \in Nat /\ way[i][2][1] <= Len(a.chain[S[i].router])
  BY <1>1, <1>2 DEF LeadsTo
<1>4. S[i].node < way[i][2][1] \/ S[i].node = way[i][2][1]
  BY DEF Pending, Before, Spot
<1> QED
  BY <1>2, <1>3, <1>4

(* Contexts stay laid out when one of them moves and those above it go.    *)
LEMMA LaidCut ==
  ASSUME NEW a, NEW S, Laid(a, S), NEW T, NEW k, NEW d \in Context, Cut(S, T, k, d),
         d.router = S[k].router, d.at = S[k].at, Alike(a, d.path, S[k].path)
  PROVE  Laid(a, T) /\ Alike(a, T[1].path, S[1].path)
<1>1. k \in Nat /\ k >= 1 /\ Len(T) = k /\ T[k] = d /\ Len(S) \in Nat /\ k <= Len(S)
  BY DEF Cut, Laid
<1>2. \A i \in 1..k : /\ i \in 1..Len(S) /\ T[i].router = S[i].router /\ T[i].at = S[i].at
                      /\ Alike(a, T[i].path, S[i].path)
                      /\ T[i].node \in Nat /\ T[i].index \in Nat
  <2> SUFFICES ASSUME NEW i \in 1..k
               PROVE  /\ i \in 1..Len(S) /\ T[i].router = S[i].router /\ T[i].at = S[i].at
                      /\ Alike(a, T[i].path, S[i].path)
                      /\ T[i].node \in Nat /\ T[i].index \in Nat
    OBVIOUS
  <2>1. i \in 1..Len(S)
    BY <1>1
  <2>2. CASE i = k
    BY <1>1, <2>1, <2>2 DEF Context
  <2>3. CASE i # k
    <3>1. SamePlace(S[i], T[i])
      BY <1>1, <2>3 DEF Cut
    <3>2. Alike(a, S[i].path, S[i].path)
      BY AlikeEquiv
    <3>3. S[i].node \in Nat /\ S[i].index \in Nat
      BY <2>1 DEF Laid
    <3> QED
      BY <2>1, <3>1, <3>2, <3>3 DEF SamePlace
  <2> QED
    BY <2>2, <2>3
<1>3. \A i \in 1..(k - 1) : T[i].node = S[i].node /\ T[i].index = S[i].index
  BY <1>1 DEF Cut, SamePlace
<1>4. 1 \in 1..k
  BY <1>1
<1>5. Alike(a, T[1].path, S[1].path) /\ Alike(a, S[1].path, T[1].path)
  BY <1>2, <1>4, AlikeEquiv
<1>6. ASSUME NEW i \in 1..k
      PROVE  /\ T[i].router \in Routers /\ Alike(a, T[i].path, T[1].path)
             /\ T[i].node \in Nat /\ T[i].index \in Nat
             /\ \A level \in Layers(a) : i <= level[T[i].router]
             /\ Len(T[i].at) = 2 * (i - 1)
             /\ \A j \in 1..(i - 1) : T[i].at[2 * j - 1] = T[j].node /\ T[i].at[2 * j] = T[j].index
  <2>1. i \in 1..Len(S) /\ T[i].router = S[i].router /\ T[i].at = S[i].at
        /\ Alike(a, T[i].path, S[i].path) /\ T[i].node \in Nat /\ T[i].index \in Nat
    BY <1>2
  <2>2. /\ S[i].router \in Routers /\ Alike(a, S[i].path, S[1].path)
        /\ \A level \in Layers(a) : i <= level[S[i].router]
        /\ Len(S[i].at) = 2 * (i - 1)
        /\ \A j \in 1..(i - 1) : S[i].at[2 * j - 1] = S[j].node /\ S[i].at[2 * j] = S[j].index
    BY <2>1 DEF Laid
  <2>3. Alike(a, T[i].path, T[1].path)
    BY <1>5, <2>1, <2>2, AlikeEquiv
  <2>4. \A j \in 1..(i - 1) : T[i].at[2 * j - 1] = T[j].node /\ T[i].at[2 * j] = T[j].index
    <3>1. \A j \in 1..(i - 1) : j \in 1..(k - 1)
      BY <1>1
    <3> QED
      BY <1>3, <2>1, <2>2, <3>1
  <2> QED
    BY <2>1, <2>2, <2>3, <2>4
<1>7. ASSUME NEW i \in 1..(k - 1)
      PROVE  /\ T[i + 1].router = HandlerIn(a, T[i].router, Spot(T[i]))
             /\ LeadsTo(a, T[1].path, T[i].router, Spot(T[i]))
  <2>1. i \in 1..k /\ i + 1 \in 1..k /\ i \in 1..(Len(S) - 1)
    BY <1>1
  <2>2. T[i].router = S[i].router /\ T[i + 1].router = S[i + 1].router
        /\ T[i].node = S[i].node /\ T[i].index = S[i].index /\ Spot(T[i]) = Spot(S[i])
    BY <1>2, <1>3, <2>1 DEF Spot
  <2>3. /\ S[i + 1].router = HandlerIn(a, S[i].router, Spot(S[i]))
        /\ LeadsTo(a, S[1].path, S[i].router, Spot(S[i])) /\ S[i].router \in Routers
    BY <2>1 DEF Laid
  <2>4. LeadsTo(a, T[1].path, S[i].router, Spot(S[i]))
    BY <1>5, <2>3 DEF Alike
  <2> QED
    BY <2>2, <2>3, <2>4
<1>8. T[1].router = Root
  BY <1>2, <1>4 DEF Laid
<1> QED
  BY <1>1, <1>5, <1>6, <1>7, <1>8 DEF Laid

(* What is not behind a context is not behind one further on.              *)
LEMMA FurtherOn ==
  ASSUME NEW c, NEW d, c.node \in Nat, c.index \in Nat, d.node \in Nat, d.index \in Nat,
         NEW x \in Nat, NEW y \in Nat,
         ~Before(Spot(d), Spot(c)), ~Before(Spot(c), <<x, y>>)
  PROVE  ~Before(Spot(d), <<x, y>>)
BY DEF Before, Spot

(* What ran stays behind.                                                  *)
LEMMA RanCut ==
  ASSUME NEW a, Shaped(a), NEW S, Laid(a, S), NEW T, Laid(a, T),
         NEW ran \in Seq(Seq(Nat)), RanOK(a, S, ran),
         Alike(a, T[1].path, S[1].path), ~Before(Spot(T[1]), Spot(S[1]))
  PROVE  RanOK(a, T, ran)
<1> SUFFICES ASSUME NEW i \in 1..Len(ran)
             PROVE  /\ \E way : IsWay(a, T[1].path, way) /\ Along(ran[i], way)
                    /\ ~Before(Spot(T[1]), <<ran[i][1], ran[i][2]>>)
  BY DEF RanOK
<1>1. PICK way : IsWay(a, S[1].path, way) /\ Along(ran[i], way)
  BY DEF RanOK
<1>2. IsWay(a, T[1].path, way)
  BY <1>1, SameWays
<1>3. ~Before(Spot(S[1]), <<ran[i][1], ran[i][2]>>)
  BY DEF RanOK
<1>4. ran[i][1] \in Nat /\ ran[i][2] \in Nat
  <2>1. Len(way) \in Nat /\ Len(way) >= 1 /\ 1 \in 1..Len(way)
    BY <1>1 DEF IsWay
  <2>2. Len(ran[i]) = 2 * Len(way) /\ ran[i] \in Seq(Nat)
    BY <1>1 DEF Along
  <2>3. 1 \in 1..Len(ran[i]) /\ 2 \in 1..Len(ran[i])
    BY <2>1, <2>2
  <2> QED
    BY <2>2, <2>3
<1>5. 1 \in 1..Len(S) /\ 1 \in 1..Len(T)
  BY DEF Laid
<1>6. S[1].node \in Nat /\ S[1].index \in Nat /\ T[1].node \in Nat /\ T[1].index \in Nat
  BY <1>5 DEF Laid
<1>7. ~Before(Spot(T[1]), <<ran[i][1], ran[i][2]>>)
  BY <1>3, <1>4, <1>6, FurtherOn
<1> QED
  BY <1>1, <1>2, <1>7

(* What is before a context that stays is before it still.                 *)
LEMMA PendingCut ==
  ASSUME NEW S, Len(S) \in Nat, NEW T, NEW k, NEW d, Cut(S, T, k, d), NEW way, NEW i \in 1..k,
         i = k => d.node = S[k].node /\ d.index = S[k].index,
         Pending(S, i, way)
  PROVE  Pending(T, i, way)
<1>1. k \in Nat
  BY DEF Cut
<1>2. \A j \in 1..(i - 1) : j \in 1..(k - 1)
  BY <1>1
<1>3. \A j \in 1..(k - 1) : T[j].router = S[j].router /\ T[j].node = S[j].node /\ T[j].index = S[j].index
  BY DEF Cut, SamePlace
<1>4. Comes(T, i - 1, way)
  BY <1>2, <1>3 DEF Comes, Pending
<1>5. i = k \/ i \in 1..(k - 1)
  BY <1>1
<1>6. Spot(T[i]) = Spot(S[i])
  BY <1>3, <1>5 DEF Spot, Cut
<1> QED
  BY <1>4, <1>6 DEF Pending

(* What is before the contexts, or has run, when one of them moves and     *)
(* those above it go without having anything before them.                  *)
LEMMA CoversCut ==
  ASSUME NEW a, NEW S, Laid(a, S), NEW T, NEW k, NEW d, Cut(S, T, k, d), NEW ran, Covers(a, S, ran),
         Alike(a, T[1].path, S[1].path),
         \A way : IsWay(a, S[1].path, way) =>
            \A i \in k..Len(S) : Pending(S, i, way) => i = k /\ d.node = S[k].node /\ d.index = S[k].index
  PROVE  Covers(a, T, ran)
<1> SUFFICES ASSUME NEW way, IsWay(a, T[1].path, way), ~Done(ran, way)
             PROVE  \E i \in 1..Len(T) : Pending(T, i, way)
  BY DEF Covers
<1>1. IsWay(a, S[1].path, way)
  BY SameWays
<1>2. PICK i \in 1..Len(S) : Pending(S, i, way)
  BY <1>1 DEF Covers
<1>3. k \in Nat /\ Len(S) \in Nat /\ Len(T) = k
  BY DEF Cut, Laid
<1>4. i \in k..Len(S) => i = k /\ d.node = S[k].node /\ d.index = S[k].index
  BY <1>1, <1>2
<1>5. i \in 1..k /\ (i = k => d.node = S[k].node /\ d.index = S[k].index)
  BY <1>3, <1>4
<1>6. Pending(T, i, way)
  BY <1>2, <1>3, <1>5, PendingCut
<1> QED
  BY <1>3, <1>5, <1>6

(* A context that stays where it is has before it what it had.             *)
LEMMA CoversStay ==
  ASSUME NEW a, NEW S, Laid(a, S), NEW T, NEW d, Cut(S, T, Len(S), d), NEW ran,
         Alike(a, T[1].path, S[1].path), d.router = S[Len(S)].router,
         d.node = S[Len(S)].node, d.index = S[Len(S)].index
  PROVE  /\ Covers(a, S, ran) => Covers(a, T, ran)
         /\ CoversFresh(a, S, ran) => CoversFresh(a, T, ran)
<1>1. Len(S) \in Nat /\ Len(S) >= 1 /\ Len(T) = Len(S)
  BY DEF Laid, Cut
<1>2. ASSUME Covers(a, S, ran) PROVE Covers(a, T, ran)
  <2>1. \A way : IsWay(a, S[1].path, way) =>
            \A i \in Len(S)..Len(S) : Pending(S, i, way) =>
               i = Len(S) /\ d.node = S[Len(S)].node /\ d.index = S[Len(S)].index
    BY <1>1
  <2> QED
    BY <1>2, <2>1, CoversCut
<1>3. ASSUME CoversFresh(a, S, ran) PROVE CoversFresh(a, T, ran)
  <2> SUFFICES ASSUME NEW way, IsWay(a, T[1].path, way), ~Done(ran, way)
               PROVE  \/ \E i \in 1..Len(T) : Pending(T, i, way)
                      \/ Len(way) > Len(T) /\ Comes(T, Len(T), way)
    BY DEF CoversFresh
  <2>1. IsWay(a, S[1].path, way)
    BY SameWays
  <2>2. CASE \E i \in 1..Len(S) : Pending(S, i, way)
    BY <1>1, <2>2, PendingCut
  <2>3. CASE Len(way) > Len(S) /\ Comes(S, Len(S), way)
    <3>1. \A j \in 1..Len(S) : T[j].router = S[j].router /\ T[j].node = S[j].node /\ T[j].index = S[j].index
      <4>1. \A j \in 1..Len(S) : j = Len(S) \/ j \in 1..(Len(S) - 1)
        BY <1>1
      <4> QED
        BY <4>1 DEF Cut, SamePlace
    <3>2. Comes(T, Len(T), way)
      BY <1>1, <2>3, <3>1 DEF Comes
    <3> QED
      BY <1>1, <2>3, <3>2
  <2> QED
    BY <1>3, <2>1, <2>2, <2>3 DEF CoversFresh
<1> QED
  BY <1>2, <1>3

(* A handler that is no router has no handlers in it.                      *)
LEMMA CoversNoRouter ==
  ASSUME NEW a, NEW S, Laid(a, S), NEW ran, CoversFresh(a, S, ran),
         HandlerIn(a, S[Len(S)].router, Spot(S[Len(S)])) \notin Routers
  PROVE  Covers(a, S, ran)
<1> SUFFICES ASSUME NEW way, IsWay(a, S[1].path, way), Len(way) > Len(S), Comes(S, Len(S), way)
             PROVE  FALSE
  BY DEF Covers, CoversFresh
<1> DEFINE n == Len(S)
<1>1. n \in Nat /\ n >= 1 /\ n \in 1..n /\ Len(way) \in Nat
  BY DEF Laid, IsWay
<1>2. n + 1 \in 1..Len(way) /\ n + 1 \in 2..Len(way) /\ (n + 1) - 1 = n
  BY <1>1
<1>3. way[n + 1][1] \in Routers
  BY <1>2 DEF IsWay
<1>4. way[n + 1][1] = HandlerIn(a, way[n][1], way[n][2])
  BY <1>2 DEF IsWay
<1>5. way[n][1] = S[n].router /\ way[n][2][1] = S[n].node /\ way[n][2][2] = S[n].index
  BY <1>1 DEF Comes
<1>6. HandlerIn(a, way[n][1], way[n][2]) = HandlerIn(a, S[n].router, Spot(S[n]))
  BY <1>5 DEF HandlerIn, Spot
<1> QED
  BY <1>3, <1>4, <1>6

(* A mounted router is entered: what it may have before it, its context    *)
(* has.                                                                    *)
LEMMA Entered ==
  ASSUME NEW a, Shaped(a), NEW S, Laid(a, S), NEW ran, CoversFresh(a, S, ran), RanOK(a, S, ran), NEW T, NEW d \in Context,
         Len(T) = Len(S) + 1, T[Len(S) + 1] = d, \A i \in 1..Len(S) : T[i] = S[i],
         NEW c \in Context, c = S[Len(S)],
         LeadsTo(a, S[1].path, c.router, Spot(c)), d.router = HandlerIn(a, c.router, Spot(c)),
         d.path = c.path, d.node = 1, d.index = 0, d.at = Here(c),
         d.router \in HandlersOf(a.chain[c.router]) \cap Routers
  PROVE  Laid(a, T) /\ Covers(a, T, ran) /\ RanOK(a, T, ran)
<1> DEFINE n == Len(S)
<1>1. n \in Nat /\ n >= 1 /\ n \in 1..n /\ 1 \in 1..n /\ Len(T) = n + 1 /\ T[n + 1] = d
  BY DEF Laid
<1>2. T[1] = S[1] /\ T[n] = c
  BY <1>1
<1>3. /\ c.router \in Routers /\ Alike(a, c.path, S[1].path) /\ c.node \in Nat /\ c.index \in Nat
      /\ \A level \in Layers(a) : n <= level[c.router]
      /\ Len(c.at) = 2 * (n - 1) /\ c.at \in Seq(Nat)
      /\ \A k \in 1..(n - 1) : c.at[2 * k - 1] = S[k].node /\ c.at[2 * k] = S[k].index
  BY <1>1 DEF Laid, Context
<1>4. \A level \in Layers(a) : n + 1 <= level[d.router]
  <2> SUFFICES ASSUME NEW level \in Layers(a) PROVE n + 1 <= level[d.router]
    OBVIOUS
  <2>1. n <= level[c.router] /\ level[c.router] < level[d.router]
    BY <1>3 DEF Layers
  <2>2. level[c.router] \in Int /\ level[d.router] \in Int
    BY <1>3 DEF Layers
  <2> QED
    BY <1>1, <2>1, <2>2
<1>5. /\ Len(d.at) = 2 * n
      /\ \A k \in 1..n : d.at[2 * k - 1] = T[k].node /\ d.at[2 * k] = T[k].index
  <2>1. /\ Len(d.at) = Len(c.at) + 2 /\ \A j \in 1..Len(c.at) : d.at[j] = c.at[j]
        /\ d.at[Len(c.at) + 1] = c.node /\ d.at[Len(c.at) + 2] = c.index
    BY HereFacts
  <2>2. Len(d.at) = 2 * n /\ Len(c.at) + 1 = 2 * n - 1 /\ Len(c.at) + 2 = 2 * n
    <3> HIDE DEF n
    <3> QED
      BY <1>1, <1>3, <2>1
  <2>3. ASSUME NEW k \in 1..n PROVE d.at[2 * k - 1] = S[k].node /\ d.at[2 * k] = S[k].index
    <3>1. CASE k = n
      BY <1>1, <1>2, <2>1, <2>2, <3>1
    <3>2. CASE k # n
      <4>1. k \in 1..(n - 1) /\ 2 * k - 1 \in 1..Len(c.at) /\ 2 * k \in 1..Len(c.at)
        <5> HIDE DEF n
        <5> QED
          BY <1>1, <2>2, <3>2
      <4> QED
        BY <1>3, <2>1, <4>1
    <3> QED
      BY <3>1, <3>2
  <2>4. \A k \in 1..n : T[k] = S[k]
    OBVIOUS
  <2> QED
    BY <2>2, <2>3, <2>4
<1>6. Laid(a, T)
  <2>1. ASSUME NEW i \in 1..(n + 1)
        PROVE  /\ T[i].router \in Routers /\ Alike(a, T[i].path, T[1].path)
               /\ T[i].node \in Nat /\ T[i].index \in Nat
               /\ \A level \in Layers(a) : i <= level[T[i].router]
               /\ Len(T[i].at) = 2 * (i - 1)
               /\ \A j \in 1..(i - 1) : T[i].at[2 * j - 1] = T[j].node /\ T[i].at[2 * j] = T[j].index
    <3>1. CASE i = n + 1
      <4>1. (n + 1) - 1 = n
        BY <1>1
      <4> QED
        <5>1. d.node \in Nat /\ d.index \in Nat /\ d.router \in Routers /\ T[i] = d /\ Alike(a, d.path, T[1].path)
          BY <1>1, <1>2, <1>3, <3>1
        <5> QED
          BY <1>4, <1>5, <3>1, <4>1, <5>1
    <3>2. CASE i # n + 1
      <4>1. i \in 1..n /\ T[i] = S[i] /\ \A j \in 1..(i - 1) : T[j] = S[j]
        BY <1>1, <3>2
      <4> QED
        BY <1>2, <4>1 DEF Laid
    <3> QED
      BY <3>1, <3>2
  <2>2. ASSUME NEW i \in 1..n
        PROVE  /\ T[i + 1].router = HandlerIn(a, T[i].router, Spot(T[i]))
               /\ LeadsTo(a, T[1].path, T[i].router, Spot(T[i]))
    <3>1. CASE i = n
      BY <1>1, <1>2, <3>1
    <3>2. CASE i # n
      <4>1. i \in 1..(n - 1) /\ T[i] = S[i] /\ T[i + 1] = S[i + 1]
        BY <1>1, <3>2
      <4> QED
        BY <1>2, <4>1 DEF Laid
    <3> QED
      BY <3>1, <3>2
  <2>3. Len(T) - 1 = n /\ Len(T) \in Nat /\ Len(T) >= 1 /\ T[1].router = Root
    BY <1>1, <1>2 DEF Laid
  <2> QED
    BY <1>1, <2>1, <2>2, <2>3 DEF Laid
<1>7. Covers(a, T, ran)
  <2> SUFFICES ASSUME NEW way, IsWay(a, S[1].path, way), ~Done(ran, way)
               PROVE  \E i \in 1..(n + 1) : Pending(T, i, way)
    BY <1>1, <1>2 DEF Covers
  <2>1. Comes(S, n, way) => Comes(T, n, way)
    BY DEF Comes
  <2>2. CASE \E i \in 1..n : Pending(S, i, way)
    <3>1. PICK i \in 1..n : Pending(S, i, way)
      BY <2>2
    <3>2. Comes(T, i - 1, way) /\ T[i] = S[i] /\ i \in 1..(n + 1)
      <4>1. i - 1 \in 0..n /\ \A k \in 1..(i - 1) : T[k] = S[k]
        BY <1>1
      <4> QED
        BY <1>1, <3>1, <4>1 DEF Pending, Comes
    <3> QED
      BY <3>1, <3>2 DEF Pending
  <2>3. CASE Len(way) > n /\ Comes(S, n, way)
    <3>1. Comes(T, n, way)
      BY <1>1, <2>1, <2>3
    <3>2. Len(way) \in Nat /\ n + 1 \in 1..Len(way) /\ (n + 1) - 1 = n /\ n + 1 \in 1..(n + 1)
      BY <1>1, <2>3 DEF IsWay
    <3>3. LeadsTo(a, S[1].path, way[n + 1][1], way[n + 1][2]) /\ way[n + 1][1] \in Routers
      BY <3>2 DEF IsWay
    <3>4. Before(<<1, 0>>, way[n + 1][2])
      BY <3>3, PlaceNumbers
    <3>5. Pending(T, n + 1, way)
      BY <1>1, <3>1, <3>2, <3>4 DEF Pending, Spot
    <3> QED
      BY <3>2, <3>5
  <2> QED
    BY <2>2, <2>3 DEF CoversFresh
<1> QED
  BY <1>2, <1>6, <1>7 DEF RanOK

(* The place of the innermost context is come to along the way of them all.*)
LEMMA AlongHere ==
  ASSUME NEW a, NEW T, Laid(a, T), NEW d \in Context, d = T[Len(T)],
         NEW way, Len(way) = Len(T), Comes(T, Len(T), way)
  PROVE  Along(Here(d), way)
<1> DEFINE n == Len(T)
<1>1. n \in Nat /\ n >= 1 /\ n \in 1..n
  BY DEF Laid
<1>2. /\ Len(Here(d)) = Len(d.at) + 2 /\ \A j \in 1..Len(d.at) : Here(d)[j] = d.at[j]
      /\ Here(d)[Len(d.at) + 1] = d.node /\ Here(d)[Len(d.at) + 2] = d.index
  BY HereFacts
<1>3. /\ Len(d.at) = 2 * (n - 1)
      /\ \A k \in 1..(n - 1) : d.at[2 * k - 1] = T[k].node /\ d.at[2 * k] = T[k].index
  BY <1>1 DEF Laid
<1>4. Len(Here(d)) = 2 * n /\ Len(d.at) + 1 = 2 * n - 1 /\ Len(d.at) + 2 = 2 * n
  <2> HIDE DEF n
  <2> QED
    BY <1>1, <1>2, <1>3
<1>5. ASSUME NEW k \in 1..n PROVE Here(d)[2 * k - 1] = T[k].node /\ Here(d)[2 * k] = T[k].index
  <2>1. CASE k = n
    BY <1>2, <1>4, <2>1
  <2>2. CASE k # n
    <3>1. k \in 1..(n - 1) /\ 2 * k - 1 \in 1..Len(d.at) /\ 2 * k \in 1..Len(d.at)
      <4> HIDE DEF n
      <4> QED
        BY <1>1, <1>3, <2>2
    <3> QED
      BY <1>2, <1>3, <3>1
  <2> QED
    BY <2>1, <2>2
<1>6. \A k \in 1..n : way[k][2][1] = T[k].node /\ way[k][2][2] = T[k].index
  BY DEF Comes
<1> QED
  BY <1>4, <1>5, <1>6 DEF Along

(* The contexts are on a way, and it is the place of the innermost.        *)
LEMMA WayHere ==
  ASSUME NEW a, Shaped(a), IsFiniteSet(Routers), Layers(a) # {}, NEW T, Laid(a, T),
         NEW d \in Context, d = T[Len(T)], LeadsTo(a, T[1].path, d.router, Spot(d))
  PROVE  \E way : IsWay(a, T[1].path, way) /\ Along(Here(d), way) /\ Comes(T, Len(T), way)
<1> DEFINE n == Len(T) way == [k \in 1..n |-> <<T[k].router, Spot(T[k])>>]
<1>1. n \in Nat /\ n >= 1 /\ n \in 1..n /\ 1 \in 1..n
  BY DEF Laid
<1>2. Len(way) = n
  <2> HIDE DEF n
  <2> QED
    BY <1>1
<1>3. \A k \in 1..n : way[k][1] = T[k].router /\ way[k][2] = Spot(T[k])
  OBVIOUS
<1>4. n \in 1..Cardinality(Routers)
  <2>1. Cardinality(Routers) \in Nat
    BY FS_CardinalityType
  <2>2. PICK level \in Layers(a) : TRUE
    OBVIOUS
  <2>3. n <= level[d.router] /\ d.router \in Routers
    BY <1>1, <2>2 DEF Laid
  <2>4. level[d.router] \in 1..Cardinality(Routers)
    BY <2>2, <2>3 DEF Layers
  <2> HIDE DEF n
  <2> QED
    BY <1>1, <2>1, <2>3, <2>4
<1>5. \A k \in 1..n : T[k].router \in Routers /\ LeadsTo(a, T[1].path, T[k].router, Spot(T[k]))
  <2>1. \A k \in 1..n : k = n \/ k \in 1..(n - 1)
    BY <1>1
  <2> QED
    BY <1>1, <2>1 DEF Laid
<1>6. \A k \in 2..n : T[k].router = HandlerIn(a, T[k - 1].router, Spot(T[k - 1]))
  <2> SUFFICES ASSUME NEW k \in 2..n PROVE T[k].router = HandlerIn(a, T[k - 1].router, Spot(T[k - 1]))
    OBVIOUS
  <2>1. k - 1 \in 1..(n - 1) /\ (k - 1) + 1 = k
    BY <1>1
  <2> QED
    BY <2>1 DEF Laid
<1>7. IsWay(a, T[1].path, way)
  <2>1. \A k \in 2..n : k \in 1..n /\ k - 1 \in 1..n
    BY <1>1
  <2>2. \A k \in 2..n : way[k][1] = HandlerIn(a, way[k - 1][1], way[k - 1][2])
    BY <1>3, <1>6, <2>1
  <2>3. \A k \in 1..n : way[k][1] \in Routers /\ LeadsTo(a, T[1].path, way[k][1], way[k][2])
    BY <1>3, <1>5
  <2>4. way[1][1] = Root
    BY <1>1, <1>3 DEF Laid
  <2> HIDE DEF way
  <2> QED
    BY <1>2, <1>4, <2>2, <2>3, <2>4 DEF IsWay
<1>8. Along(Here(d), way) /\ Comes(T, n, way)
  <2>1. Comes(T, n, way)
    BY <1>3 DEF Comes, Spot
  <2> HIDE DEF way
  <2> QED
    BY <1>2, <2>1, AlongHere
<1> HIDE DEF way
<1> QED
  BY <1>7, <1>8

(* The first handler before a context is started.                          *)
LEMMA Started ==
  ASSUME NEW a, Shaped(a), IsFiniteSet(Routers), Layers(a) # {}, NEW S, Laid(a, S),
         NEW c \in Context, c = S[Len(S)], NEW T, NEW d \in Context, Cut(S, T, Len(S), d),
         d.router = c.router, d.at = c.at, d.path = c.path,
         FirstAhead(a, c, d), NEW ran \in Seq(Seq(Nat)), Covers(a, S, ran), RanOK(a, S, ran)
  PROVE  LET ran2 == Append(ran, Here(d)) IN
         /\ Laid(a, T) /\ LeadsTo(a, T[1].path, d.router, Spot(d))
         /\ CoversFresh(a, T, ran2) /\ RanOK(a, T, ran2)
<1> DEFINE n == Len(S) ran2 == Append(ran, Here(d))
<1>1. n \in Nat /\ n >= 1 /\ n \in 1..n /\ 1 \in 1..n /\ Len(T) = n /\ T[n] = d
  BY DEF Laid, Cut
<1>2. Laid(a, T) /\ Alike(a, T[1].path, S[1].path)
  <2>1. Alike(a, d.path, c.path)
    BY AlikeEquiv
  <2> QED
    BY <2>1, LaidCut
<1>3. LeadsTo(a, T[1].path, d.router, Spot(d))
  <2>1. Alike(a, T[n].path, T[1].path) /\ d.router \in Routers
    BY <1>1, <1>2 DEF Laid
  <2> QED
    BY <1>1, <2>1 DEF Alike, FirstAhead
<1>4. PICK here : IsWay(a, T[1].path, here) /\ Along(Here(d), here) /\ Comes(T, n, here)
  BY <1>1, <1>2, <1>3, WayHere
<1>5. /\ Here(d) \in Seq(Nat)
      /\ Len(ran2) = Len(ran) + 1 /\ Len(ran) \in Nat
      /\ \A i \in 1..Len(ran) : ran2[i] = ran[i]
      /\ ran2[Len(ran) + 1] = Here(d)
  BY HereFacts, Appended
<1>6. \A w : IsWay(a, T[1].path, w) <=> IsWay(a, S[1].path, w)
  BY <1>2, SameWays
<1>7. \A w : Done(ran, w) => Done(ran2, w)
  <2> HIDE DEF ran2
  <2>1. \A i \in 1..Len(ran) : i \in 1..Len(ran2)
    BY <1>5
  <2> QED
    BY <1>5, <2>1 DEF Done
<1>8. \A w : Along(Here(d), w) => Done(ran2, w)
  <2>1. Len(ran) + 1 \in 1..Len(ran2)
    BY <1>5
  <2> QED
    BY <1>5, <2>1 DEF Done
<1>9. \A j \in 1..(n - 1) : T[j].router = S[j].router /\ T[j].node = S[j].node /\ T[j].index = S[j].index
  BY DEF Cut, SamePlace
<1>10. CoversFresh(a, T, ran2)
  <2> SUFFICES ASSUME NEW w, IsWay(a, T[1].path, w), ~Done(ran2, w)
               PROVE  (\E i \in 1..n : Pending(T, i, w)) \/ (Len(w) > n /\ Comes(T, n, w))
    <3> HIDE DEF ran2
    <3> QED
      BY <1>1 DEF CoversFresh
  <2>1. PICK i \in 1..n : Pending(S, i, w)
    BY <1>6, <1>7 DEF Covers
  <2>2. CASE i # n
    <3>1. i \in 1..n /\ (i = n => d.node = S[n].node /\ d.index = S[n].index)
      BY <2>2
    <3>2. Pending(T, i, w)
      BY <1>1, <2>1, <3>1, PendingCut
    <3> QED
      BY <3>2
  <2>3. CASE i = n
    <3>1. Comes(S, n - 1, w) /\ Before(Spot(c), w[n][2]) /\ n <= Len(w)
      BY <2>1, <2>3 DEF Pending
    <3>2. w[n][1] = c.router /\ LeadsTo(a, c.path, c.router, w[n][2])
      BY <1>1, <1>6, <3>1, WayRouter
    <3>3. ~Before(w[n][2], Spot(d))
      BY <3>1, <3>2 DEF FirstAhead
    <3>4. Comes(T, n - 1, w)
      BY <1>9, <3>1 DEF Comes
    <3>5. CASE Before(Spot(d), w[n][2])
      <4>1. Pending(T, n, w)
        BY <1>1, <3>1, <3>4, <3>5 DEF Pending
      <4> QED
        BY <1>1, <4>1
    <3>6. CASE ~Before(Spot(d), w[n][2])
      <4>1. w[n][2][1] \in Nat /\ w[n][2][2] \in Nat /\ c.router \in Routers
        <5>1. c.router \in Routers
          BY <1>1 DEF Laid
        <5> QED
          BY <3>2, <5>1, PlaceNumbers
      <4>2. w[n][2][1] = d.node /\ w[n][2][2] = d.index
        <5> DEFINE x == w[n][2][1] y == w[n][2][2]
        <5>1. ~(x < d.node \/ (x = d.node /\ y < d.index)) /\ ~(d.node < x \/ (d.node = x /\ d.index < y))
          BY <3>3, <3>6 DEF Before, Spot
        <5>2. x \in Nat /\ y \in Nat /\ d.node \in Nat /\ d.index \in Nat
          BY <4>1 DEF Context
        <5> HIDE DEF x, y
        <5>3. x = d.node /\ y = d.index
          BY <5>1, <5>2
        <5> QED
          BY <5>3 DEF x, y
      <4>3. Comes(T, n, w)
        <5>1. \A j \in 1..n : j = n \/ j \in 1..(n - 1)
          BY <1>1
        <5> QED
          BY <1>1, <3>2, <3>4, <4>2, <5>1 DEF Comes
      <4>4. CASE Len(w) = n
        <5>1. Along(Here(d), w)
          BY <1>1, <1>2, <4>3, <4>4, AlongHere
        <5> QED
          BY <1>8, <5>1
      <4>5. CASE Len(w) # n
        <5>1. Len(w) > n
          BY <1>1, <3>1, <4>5 DEF IsWay
        <5> QED
          BY <4>3, <5>1
      <4> QED
        BY <4>4, <4>5
    <3> QED
      BY <3>5, <3>6
  <2> QED
    BY <2>2, <2>3
<1>11. RanOK(a, T, ran2)
  <2>1. ~Before(Spot(T[1]), Spot(S[1]))
    <3>1. CASE n = 1
      <4>1. T[1] = d /\ S[1] = c /\ Before(Spot(c), Spot(d))
        BY <1>1, <3>1 DEF FirstAhead
      <4>2. c.node \in Nat /\ c.index \in Nat /\ d.node \in Nat /\ d.index \in Nat
        BY DEF Context
      <4> QED
        BY <4>1, <4>2, BeforeTotal DEF Spot
    <3>2. CASE n # 1
      <4>1. 1 \in 1..(n - 1)
        BY <1>1, <3>2
      <4>2. Spot(T[1]) = Spot(S[1]) /\ S[1].node \in Nat /\ S[1].index \in Nat
        BY <1>1, <1>9, <4>1 DEF Spot, Laid
      <4> QED
        BY <4>2, BeforeTotal DEF Spot
    <3> QED
      BY <3>1, <3>2
  <2>2. RanOK(a, T, ran)
    BY <1>2, <2>1, RanCut
  <2>3. ~Before(Spot(T[1]), <<Here(d)[1], Here(d)[2]>>)
    <3>1. Len(here) \in Nat /\ 1 \in 1..Len(here) /\ 2 * 1 - 1 = 1 /\ 2 * 1 = 2
      BY <1>4 DEF IsWay
    <3>2. Here(d)[1] = here[1][2][1] /\ Here(d)[2] = here[1][2][2]
      BY <1>4, <3>1 DEF Along
    <3>3. here[1][2][1] = T[1].node /\ here[1][2][2] = T[1].index
      BY <1>1, <1>4 DEF Comes
    <3>4. T[1].node \in Nat /\ T[1].index \in Nat
      BY <1>1, <1>2 DEF Laid
    <3>5. <<Here(d)[1], Here(d)[2]>> = Spot(T[1])
      BY <3>2, <3>3 DEF Spot
    <3> QED
      BY <3>4, <3>5, BeforeTotal DEF Spot
  <2> HIDE DEF ran2
  <2>4. \A i \in 1..Len(ran2) : i \in 1..Len(ran) \/ i = Len(ran) + 1
    BY <1>5
  <2> SUFFICES ASSUME NEW i \in 1..Len(ran2)
               PROVE  /\ \E way : IsWay(a, T[1].path, way) /\ Along(ran2[i], way)
                      /\ ~Before(Spot(T[1]), <<ran2[i][1], ran2[i][2]>>)
    BY DEF RanOK
  <2>5. CASE i \in 1..Len(ran)
    <3>1. ran2[i] = ran[i]
      BY <1>5, <2>5
    <3> QED
      BY <2>2, <2>5, <3>1 DEF RanOK
  <2>6. CASE i = Len(ran) + 1
    <3>1. ran2[i] = Here(d)
      BY <1>5, <2>6
    <3> QED
      BY <1>4, <2>3, <3>1
  <2> QED
    BY <2>4, <2>5, <2>6
<1> QED
  BY <1>2, <1>3, <1>10, <1>11

(* What leads up to a codec is the same for every path.                    *)
LEMMA EarlyWays ==
  ASSUME NEW a, Shaped(a), DecodesFirst(a), NEW x, NEW p, LeadsTo(a, p, Root, x),
         HandlerIn(a, Root, x) \in Codecs,
         NEW way, NEW q, IsWay(a, q, way), ~Before(x, way[1][2]), NEW r \in Paths \cup {NoPath}
  PROVE  Len(way) = 1 /\ IsWay(a, r, way)
<1> DEFINE n == x[1] i == x[2] k == way[1][2][1] j == way[1][2][2]
<1>1. Len(way) \in Nat /\ Len(way) >= 1 /\ 1 \in 1..Len(way) /\ way[1][1] = Root
  BY DEF IsWay
<1>2. LeadsTo(a, q, Root, way[1][2])
  BY <1>1 DEF IsWay
<1>3. /\ n \in 1..Len(a.chain[Root]) /\ k \in 1..Len(a.chain[Root])
      /\ i \in 1..Len(a.chain[Root][n].handlers) /\ j \in 1..Len(a.chain[Root][k].handlers)
  BY <1>2 DEF LeadsTo
<1>4. a.chain[Root][n].handlers[i] \in Codecs
  BY DEF HandlerIn
<1>5. ~Before(<<n, i>>, <<k, j>>)
  BY DEF Before
<1>6. /\ a.chain[Root][k].on = Paths \cup {NoPath}
      /\ a.chain[Root][k].handlers[j] \notin Routers
  <2>1. \A l \in 1..Len(a.chain[Root][n].handlers), o \in 1..Len(a.chain[Root][k].handlers) :
            a.chain[Root][n].handlers[l] \in Codecs /\ ~Before(<<n, l>>, <<k, o>>) =>
                /\ a.chain[Root][k].on = Paths \cup {NoPath}
                /\ a.chain[Root][k].handlers[o] \notin Routers
    <3> HIDE DEF n, i, k, j
    <3> QED
      BY <1>3 DEF DecodesFirst
  <2> HIDE DEF n, i, k, j
  <2> QED
    BY <1>3, <1>4, <1>5, <2>1
<1>7. LeadsTo(a, r, Root, way[1][2])
  BY <1>3, <1>6 DEF LeadsTo
<1>8. HandlerIn(a, way[1][1], way[1][2]) \notin Routers
  BY <1>1, <1>6 DEF HandlerIn
<1>9. Len(way) = 1
  <2> SUFFICES ASSUME Len(way) # 1 PROVE FALSE
    OBVIOUS
  <2>1. 2 \in 1..Len(way) /\ 2 \in 2..Len(way) /\ 2 - 1 = 1
    <3> DEFINE l == Len(way)
    <3>1. l \in Nat /\ l >= 1 /\ l # 1
      BY <1>1
    <3> HIDE DEF l
    <3>2. 2 \in 1..l /\ 2 \in 2..l /\ 2 - 1 = 1
      BY <3>1
    <3> QED
      BY <3>2 DEF l
  <2>2. way[2][1] \in Routers /\ way[2][1] = HandlerIn(a, way[2 - 1][1], way[2 - 1][2])
    BY <2>1 DEF IsWay
  <2> QED
    BY <1>8, <2>1, <2>2
<1>10. IsWay(a, r, way)
  <2>1. \A l \in 1..Len(way) : l = 1
    BY <1>9
  <2>2. \A l \in 2..Len(way) : FALSE
    BY <1>9
  <2>3. way[1][1] \in Routers /\ Len(way) \in 1..Cardinality(Routers)
    BY <1>1 DEF IsWay
  <2> HIDE DEF n, i, k, j
  <2> QED
    BY <1>1, <1>7, <2>1, <2>2, <2>3 DEF IsWay
<1> QED
  BY <1>9, <1>10

(* A codec gives the root context a path.                                  *)
LEMMA PathGiven ==
  ASSUME NEW a, Shaped(a), DecodesFirst(a), NEW S, Laid(a, S), Len(S) = 1, NEW c \in Context, c = S[1],
         NEW T, NEW d \in Context, Len(T) = 1, T[1] = d,
         d.router = c.router, d.at = c.at, d.node = c.node, d.index = c.index,
         LeadsTo(a, c.path, c.router, Spot(c)), HandlerIn(a, c.router, Spot(c)) \in Codecs,
         NEW ran, CoversFresh(a, S, ran), RanOK(a, S, ran)
  PROVE  Laid(a, T) /\ Covers(a, T, ran) /\ RanOK(a, T, ran)
<1>1. c.router = Root /\ Spot(d) = Spot(c) /\ c.path \in Paths \cup {NoPath} /\ d.path \in Paths \cup {NoPath}
  BY DEF Laid, Spot, Context
<1>2. \A way, q, r : IsWay(a, q, way) /\ ~Before(Spot(c), way[1][2]) /\ r \in Paths \cup {NoPath}
                       => Len(way) = 1 /\ IsWay(a, r, way)
  BY <1>1, EarlyWays
<1>3. Laid(a, T)
  <2>1. \A i \in 1..Len(T) : i = 1
    OBVIOUS
  <2>2. \A i \in 1..(Len(T) - 1) : FALSE
    OBVIOUS
  <2>3. Alike(a, d.path, d.path)
    BY AlikeEquiv
  <2>4. /\ d.router \in Routers /\ d.node \in Nat /\ d.index \in Nat
        /\ \A level \in Layers(a) : 1 <= level[d.router]
        /\ Len(d.at) = 2 * (1 - 1)
    <3>1. 1 \in 1..Len(S)
      OBVIOUS
    <3> QED
      BY <3>1 DEF Laid
  <2>5. \A k \in 1..(1 - 1) : FALSE
    OBVIOUS
  <2> QED
    BY <1>1, <2>1, <2>2, <2>3, <2>4, <2>5 DEF Laid
<1>4. Covers(a, T, ran)
  <2> SUFFICES ASSUME NEW way, IsWay(a, d.path, way), ~Done(ran, way)
               PROVE  Pending(T, 1, way)
    BY DEF Covers
  <2>1. Before(Spot(c), way[1][2])
    <3> SUFFICES ASSUME ~Before(Spot(c), way[1][2]) PROVE FALSE
      OBVIOUS
    <3>1. Len(way) = 1 /\ IsWay(a, S[1].path, way)
      BY <1>1, <1>2
    <3>2. ~(Len(way) > Len(S))
      BY <3>1
    <3>3. PICK i \in 1..Len(S) : Pending(S, i, way)
      BY <3>2, <3>1 DEF CoversFresh
    <3>4. i = 1
      OBVIOUS
    <3> QED
      BY <3>3, <3>4 DEF Pending
  <2>2. 1 <= Len(way) /\ Comes(T, 1 - 1, way)
    BY DEF IsWay, Comes
  <2> QED
    BY <1>1, <2>1, <2>2 DEF Pending
<1>5. RanOK(a, T, ran)
  <2> SUFFICES ASSUME NEW i \in 1..Len(ran)
               PROVE  /\ \E way : IsWay(a, d.path, way) /\ Along(ran[i], way)
                      /\ ~Before(Spot(d), <<ran[i][1], ran[i][2]>>)
    BY DEF RanOK
  <2>1. PICK way : IsWay(a, c.path, way) /\ Along(ran[i], way)
    BY DEF RanOK
  <2>2. ~Before(Spot(c), <<ran[i][1], ran[i][2]>>)
    BY DEF RanOK
  <2>3. ran[i][1] = way[1][2][1] /\ ran[i][2] = way[1][2][2]
    <3>1. Len(way) \in Nat /\ 1 \in 1..Len(way) /\ 2 * 1 - 1 = 1 /\ 2 * 1 = 2
      BY <2>1 DEF IsWay
    <3> QED
      BY <2>1, <3>1 DEF Along
  <2>4. ~Before(Spot(c), way[1][2])
    BY <2>2, <2>3 DEF Before
  <2>5. IsWay(a, d.path, way)
    BY <1>1, <1>2, <2>1, <2>4
  <2> QED
    BY <1>1, <2>1, <2>2, <2>5
<1> QED
  BY <1>3, <1>4, <1>5

(* Paths that handlers match whatever they are, are alike.                 *)
LEMMA AnyAlike ==
  ASSUME NEW a, AnyPath(a), NEW p \in Paths \cup {NoPath}, NEW q \in Paths \cup {NoPath}
  PROVE  Alike(a, p, q)
BY DEF AnyPath, Alike, LeadsTo

(* The application at hand                                                 *)
LEMMA AppShaped == ASSUME app \in Setups PROVE Shaped(app)
<1> SUFFICES ASSUME NEW r \in Routers
             PROVE  /\ Len(app.chain[r]) \in Nat
                    /\ \A n \in 1..Len(app.chain[r]) : app.chain[r][n].handlers \in Seq(Handlers)
  BY DEF Shaped
<1>1. app.chain[r] \in Seq(Node) /\ \A n \in 1..Len(app.chain[r]) : app.chain[r][n].handlers \in Seq(Handlers)
  BY AppOK
<1> QED
  BY <1>1

(* Places are those where the path leads.                                  *)
LEMMA PlacesAre ==
  ASSUME app \in Setups, NEW r \in Routers, NEW path
  PROVE  /\ \A x \in Places(r, path) : LeadsTo(app, path, r, x)
         /\ \A n, i : LeadsTo(app, path, r, <<n, i>>) => <<n, i>> \in Places(r, path)
<1>1. app.chain[r] \in Seq(Node) /\ DOMAIN app.chain[r] = 1..Len(app.chain[r])
  BY AppOK, LenProperties
<1>2. \A n \in 1..Len(app.chain[r]) :
         DOMAIN app.chain[r][n].handlers = 1..Len(app.chain[r][n].handlers)
  BY AppOK, LenProperties
<1>3. ASSUME NEW x \in Places(r, path) PROVE LeadsTo(app, path, r, x)
  <2>1. PICK n \in DOMAIN app.chain[r] :
           path \in app.chain[r][n].on /\ x \in {n} \X DOMAIN app.chain[r][n].handlers
    BY <1>3 DEF Places
  <2>2. x[1] = n /\ x[2] \in DOMAIN app.chain[r][n].handlers
    BY <2>1
  <2> QED
    BY <1>1, <1>2, <2>1, <2>2 DEF LeadsTo
<1>4. ASSUME NEW n, NEW i, LeadsTo(app, path, r, <<n, i>>) PROVE <<n, i>> \in Places(r, path)
  <2>1. n \in 1..Len(app.chain[r]) /\ i \in 1..Len(app.chain[r][n].handlers)
        /\ path \in app.chain[r][n].on
    BY <1>4 DEF LeadsTo
  <2>2. n \in DOMAIN app.chain[r] /\ i \in DOMAIN app.chain[r][n].handlers
    BY <1>1, <1>2, <2>1
  <2>3. <<n, i>> \in {n} \X DOMAIN app.chain[r][n].handlers
    BY <2>2
  <2> QED
    BY <2>1, <2>2, <2>3 DEF Places
<1> QED
  BY <1>3, <1>4

(* Ways are ways, and every way has one of Ways beside it.                 *)
LEMMA WaysAre ==
  ASSUME app \in Setups, IsFiniteSet(Routers), NEW path
  PROVE  /\ \A way \in Ways(path) : IsWay(app, path, way)
         /\ \A way : IsWay(app, path, way) =>
              \E w \in Ways(path) : \A p : Along(p, way) => Along(p, w)
<1>1. Cardinality(Routers) \in Nat
  BY FS_CardinalityType
<1>2. ASSUME NEW s \in Stops(path) PROVE s[1] \in Routers /\ LeadsTo(app, path, s[1], s[2])
  <2>1. PICK r \in Routers : s \in {r} \X Places(r, path)
    BY <1>2 DEF Stops
  <2>2. s[1] = r /\ s[2] \in Places(r, path)
    BY <2>1
  <2> QED
    BY <2>2, PlacesAre
<1>3. ASSUME NEW way \in Ways(path) PROVE IsWay(app, path, way)
  <2>1. /\ way \in UNION {[1..m -> Stops(path)] : m \in 0..Cardinality(Routers)}
        /\ way # <<>> /\ way[1][1] = Root
        /\ \A k \in 2..Len(way) : way[k][1] = StopHandler(way[k - 1])
    BY <1>3 DEF Ways, SeqOf
  <2>2. PICK m \in 0..Cardinality(Routers) : way \in [1..m -> Stops(path)]
    BY <2>1
  <2>3. m \in Nat /\ way \in Seq(Stops(path)) /\ Len(way) = m
    BY <1>1, <2>2
  <2>4. m # 0
    BY <2>1, <2>3, EmptyOrNot
  <2>5. Len(way) \in 1..Cardinality(Routers)
    BY <1>1, <2>2, <2>3, <2>4
  <2>6. \A k \in 1..Len(way) : way[k] \in Stops(path)
    BY <2>2, <2>3
  <2>7. \A k \in 2..Len(way) : way[k][1] = HandlerIn(app, way[k - 1][1], way[k - 1][2])
    BY <2>1 DEF StopHandler, HandlerIn
  <2> QED
    BY <1>2, <2>1, <2>5, <2>6, <2>7 DEF IsWay
<1>4. ASSUME NEW way, IsWay(app, path, way)
      PROVE  \E w \in Ways(path) : \A p : Along(p, way) => Along(p, w)
  <2> DEFINE n == Len(way) w == [k \in 1..n |-> <<way[k][1], <<way[k][2][1], way[k][2][2]>>>>]
  <2>1. n \in 1..Cardinality(Routers) /\ n \in Nat /\ n >= 1 /\ 1 \in 1..n
    BY <1>1, <1>4 DEF IsWay
  <2>2. ASSUME NEW k \in 1..n PROVE <<way[k][1], <<way[k][2][1], way[k][2][2]>>>> \in Stops(path)
    <3>1. way[k][1] \in Routers /\ LeadsTo(app, path, way[k][1], way[k][2])
      BY <1>4 DEF IsWay
    <3>2. LeadsTo(app, path, way[k][1], <<way[k][2][1], way[k][2][2]>>)
      BY <3>1 DEF LeadsTo
    <3>3. <<way[k][2][1], way[k][2][2]>> \in Places(way[k][1], path)
      BY <3>1, <3>2, PlacesAre
    <3> QED
      BY <3>1, <3>3 DEF Stops
  <2>3. w \in [1..n -> Stops(path)]
    BY <2>2
  <2>4. w \in Seq(Stops(path)) /\ Len(w) = n
    <3> HIDE DEF w, n
    <3> QED
      BY <2>1, <2>3
  <2>5. n \in 0..Cardinality(Routers)
    <3> HIDE DEF n
    <3> QED
      BY <1>1, <2>1
  <2>6. w \in SeqOf(Stops(path), Cardinality(Routers))
    <3> HIDE DEF w, n
    <3> QED
      BY <2>3, <2>5 DEF SeqOf
  <2>7. \A k \in 1..n : w[k][1] = way[k][1] /\ w[k][2][1] = way[k][2][1] /\ w[k][2][2] = way[k][2][2]
    OBVIOUS
  <2>8. \A k \in 2..n : w[k][1] = StopHandler(w[k - 1])
    <3> SUFFICES ASSUME NEW k \in 2..n PROVE w[k][1] = StopHandler(w[k - 1])
      OBVIOUS
    <3>1. k \in 1..n /\ k - 1 \in 1..n
      <4> HIDE DEF n
      <4> QED
        BY <2>1
    <3>2. way[k][1] = HandlerIn(app, way[k - 1][1], way[k - 1][2])
      BY <1>4 DEF IsWay
    <3>3. StopHandler(w[k - 1]) = HandlerIn(app, way[k - 1][1], way[k - 1][2])
      <4> HIDE DEF w, n
      <4> QED
        BY <2>7, <3>1 DEF StopHandler, HandlerIn
    <3>4. w[k][1] = way[k][1]
      <4> HIDE DEF w, n
      <4> QED
        BY <2>7, <3>1
    <3> QED
      BY <3>2, <3>3, <3>4
  <2>9. w # <<>> /\ w[1][1] = Root
    <3>1. way[1][1] = Root
      BY <1>4 DEF IsWay
    <3> HIDE DEF w, n
    <3> QED
      BY <2>1, <2>4, <2>7, <3>1, EmptyOrNot
  <2>10. w \in Ways(path)
    <3> HIDE DEF w, n
    <3> QED
      BY <2>4, <2>6, <2>8, <2>9 DEF Ways
  <2>11. \A p : Along(p, way) => Along(p, w)
    <3> HIDE DEF w
    <3> QED
      BY <2>4, <2>7 DEF Along
  <2> HIDE DEF w
  <2> QED
    BY <2>10, <2>11
<1> QED
  BY <1>3, <1>4

-----------------------------------------------------------------------------
(* Chains that nobody stops.  Applications in which a message is led by its*)
(* path: routers are mounted in layers; codecs come first in the root      *)
(* router and there are none in other routers; open and close handlers     *)
(* match any path.                                                         *)
Straight(a) ==
    /\ IsFiniteSet(Routers) /\ Layers(a) # {}
    /\ a.kind = "normal" => DecodesFirst(a) /\ (Conversational(a) \/ Silent(a))
    /\ a.kind # "normal" => AnyPath(a) /\ Silent(a)

(* Nobody has stopped the chain, as NoneMissed says.                       *)
Good(m) ==
    \/ app.kind = "close"
    \/ app.kind = "open" /\ ~seen[m].failed /\ ~closed
    \/ /\ app.kind = "normal" /\ ~closed
       /\ ~seen[m].failed /\ ~seen[m].stopped /\ ~seen[m].moved
       /\ ~ctxs[m][1].gone

(* The handler in control has not called Next.                             *)
Fresh(control, K) == control \in {"run", "asleep"} /\ K[Len(K)].nexts = 0

(* The context is at the end.                                              *)
Spent(a, c) == c.node > Len(a.chain[c.router])

(* What is to run has run or is before a context; and it has all run when  *)
(* Next returns, to a handler or to the goroutine.                         *)
OnWay(a, control, S, K, ran) ==
    LET c == S[Len(S)] IN
    /\ Laid(a, S) /\ RanOK(a, S, ran)
    /\ Fresh(control, K) => CoversFresh(a, S, ran) /\ LeadsTo(a, S[1].path, c.router, Spot(c))
    /\ ~Fresh(control, K) => Covers(a, S, ran)
    /\ control \in {"run", "asleep"} /\ ~Fresh(control, K)
         => Spent(a, c) /\ (a.kind # "close" => c.beyond)
    /\ control \in {"finish", "ended"} => Len(S) = 1 /\ Spent(a, S[1])

MissOK(m) ==
    /\ seen[m].err => seen[m].failed
    /\ ctl[m] # "idle" /\ Good(m) => OnWay(app, ctl[m], ctxs[m], calls[m], seen[m].ran)

(* What the history keeps                                                  *)
LEMMA SeenGrows ==
  ASSUME TypeOK, NEW m \in Msgs, Steps(m)
  PROVE  /\ seen[m].failed => seen'[m].failed
         /\ seen[m].stopped => seen'[m].stopped
         /\ seen[m].moved => seen'[m].moved
         /\ seen'[m].err => seen[m].err \/ seen'[m].failed
         /\ ~NextRunsHandler(m) => seen'[m].ran = seen[m].ran
         /\ DecodeRefused(m) \/ NothingLeft(m) => seen'[m].failed
         /\ FuncReturns(m) /\ Call(m).nexts = 0 => seen'[m].stopped
         /\ SetMessagePath(m) => seen'[m].moved
<1>1. seen \in [Msgs -> History] /\ seen[m] \in History
  BY DEF TypeOK
<1>2. CASE seen' = seen
  <2>1. DecodeRefused(m) \/ NothingLeft(m) => seen'[m].failed
    BY <1>1 DEF DecodeRefused, NothingLeft, History
  <2>2. SetMessagePath(m) => seen'[m].moved
    BY <1>1 DEF SetMessagePath, History
  <2>3. FuncReturns(m) /\ Call(m).nexts = 0 => seen'[m].stopped
    BY <1>1 DEF FuncReturns, History
  <2> QED
    BY <1>2, <2>1, <2>2, <2>3
<1>3. CASE NextRunsHandler(m)
  <2>1. /\ seen'[m].failed = seen[m].failed /\ seen'[m].stopped = seen[m].stopped
        /\ seen'[m].moved = seen[m].moved /\ seen'[m].err = seen[m].err
    BY <1>1, <1>3 DEF NextRunsHandler, History
  <2>2. ctl[m] # "run"
    BY <1>3 DEF NextRunsHandler, Nexting
  <2> QED
    BY <1>3, <2>1, <2>2 DEF DecodeRefused, NothingLeft, FuncReturns, SetMessagePath, Doing, Running
<1>4. CASE DecodeRefused(m) \/ NothingLeft(m)
  <2>1. seen' = [seen EXCEPT ![m].failed = TRUE, ![m].err = TRUE]
    BY <1>4 DEF DecodeRefused, NothingLeft
  <2>2. /\ seen'[m].failed /\ seen'[m].stopped = seen[m].stopped
        /\ seen'[m].moved = seen[m].moved /\ seen'[m].ran = seen[m].ran
    BY <1>1, <2>1 DEF History
  <2>3. FuncReturns(m) /\ Call(m).nexts = 0 => seen'[m].stopped
    BY <1>1 DEF FuncReturns, History
  <2>4. SetMessagePath(m) => seen'[m].moved
    BY <1>1 DEF SetMessagePath, History
  <2> QED
    BY <2>2, <2>3, <2>4
<1>5. CASE FuncReturns(m)
  <2>1. /\ seen'[m].failed = seen[m].failed /\ seen'[m].err = seen[m].err
        /\ seen'[m].moved = seen[m].moved /\ seen'[m].ran = seen[m].ran
        /\ seen[m].stopped => seen'[m].stopped
        /\ Call(m).nexts = 0 => seen'[m].stopped
    BY <1>1, <1>5 DEF FuncReturns, History
  <2>2. DecodeRefused(m) \/ NothingLeft(m) => seen'[m].failed
    BY <1>1 DEF DecodeRefused, NothingLeft, History
  <2>3. SetMessagePath(m) => seen'[m].moved
    BY <1>1 DEF SetMessagePath, History
  <2> QED
    BY <2>1, <2>2, <2>3
<1>6. CASE Works(m)
  <2>1. /\ seen[m].failed => seen'[m].failed
        /\ seen'[m].stopped = seen[m].stopped
        /\ seen[m].moved => seen'[m].moved
        /\ seen'[m].err => seen[m].err \/ seen'[m].failed
        /\ seen'[m].ran = seen[m].ran
    <3>1. CASE SetError(m)
      BY <1>1, <3>1 DEF SetError, History
    <3>2. CASE ClearError(m)
      BY <1>1, <3>2 DEF ClearError, History
    <3>3. CASE SetMessagePath(m)
      BY <1>1, <3>3 DEF SetMessagePath, History
    <3>4. CASE Set(m)
      <4>1. PICK k \in Keys, v \in Vals : seen' = [seen EXCEPT ![m].latest[k] = v]
        BY <3>4 DEF Set
      <4> QED
        BY <1>1, <4>1 DEF History
    <3>5. CASE Delete(m)
      <4>1. PICK k \in Keys : seen' = [seen EXCEPT ![m].latest[k] = None]
        BY <3>5 DEF Delete
      <4> QED
        BY <1>1, <4>1 DEF History
    <3>6. CASE Receive(m)
      BY <1>1, <3>6 DEF Receive
    <3> QED
      BY <1>6, <3>1, <3>2, <3>3, <3>4, <3>5, <3>6 DEF Works
  <2>2. DecodeRefused(m) \/ NothingLeft(m) => seen'[m].failed
    BY <1>1 DEF DecodeRefused, NothingLeft, History
  <2>3. SetMessagePath(m) => seen'[m].moved
    BY <1>1 DEF SetMessagePath, History
  <2>4. FuncReturns(m) /\ Call(m).nexts = 0 => seen'[m].stopped
    BY <1>1 DEF FuncReturns, History
  <2> QED
    BY <2>1, <2>2, <2>3, <2>4
<1>7. seen' = seen \/ NextRunsHandler(m) \/ DecodeRefused(m) \/ NothingLeft(m) \/ FuncReturns(m) \/ Works(m)
  BY DEF Steps, Works, Start, Finish, NextRefused, NextBeyondEnd, NextHandsOver, EnterRouter,
         LeaveRouter, RouterReturns, DecodeSkipped, Decoded, CodecReturns, LockTaken, LockGivenUp,
         CallNext, LockedOut, TakeMessage, ReceiveCancelled
<1> QED
  BY <1>2, <1>3, <1>4, <1>5, <1>6, <1>7

(* What is known of a message that was read                                *)
LEMMA ReadFacts ==
  ASSUME ChainInv, NEW m \in Msgs, ctl[m] # "idle"
  PROVE  LET S == ctxs[m] n == Len(S) IN
         /\ app \in Setups /\ Shaped(app) /\ S \in Seq(Context)
         /\ n \in Nat /\ n >= 1 /\ n \in 1..n /\ 1 \in 1..n
         /\ Cur(m) = S[n] /\ Cur(m) \in Context /\ CtxOK(app, Cur(m))
         /\ \A i \in 1..n : S[i] \in Context
         /\ seen[m].ran \in Seq(Seq(Nat))
         /\ StackOK(m) /\ ContextsOK(m)
<1>1. TypeOK /\ StackOK(m) /\ ContextsOK(m) /\ app \in Setups
  BY DEF ChainInv, BaseInv, TypeOK
<1>2. ctxs[m] \in Seq(Context) /\ seen[m].ran \in Seq(Seq(Nat))
  BY <1>1 DEF TypeOK, History
<1>3. /\ Len(ctxs[m]) \in Nat /\ Len(ctxs[m]) >= 1
      /\ Cur(m) \in Context /\ Cur(m) = ctxs[m][Len(ctxs[m])] /\ CtxOK(app, Cur(m))
  BY CurFacts DEF ChainInv
<1>4. \A i \in 1..Len(ctxs[m]) : ctxs[m][i] \in Context
  <2> DEFINE S == ctxs[m]
  <2>1. S \in Seq(Context)
    BY <1>2
  <2> HIDE DEF S
  <2>2. \A i \in 1..Len(S) : S[i] \in Context
    BY <2>1
  <2> QED
    BY <2>2 DEF S
<1>5. Len(ctxs[m]) \in 1..Len(ctxs[m]) /\ 1 \in 1..Len(ctxs[m])
  <2> DEFINE n == Len(ctxs[m])
  <2>1. n \in Nat /\ n >= 1
    BY <1>3
  <2> HIDE DEF n
  <2>2. n \in 1..n /\ 1 \in 1..n
    BY <2>1
  <2> QED
    BY <2>2 DEF n
<1> QED
  BY <1>1, <1>2, <1>3, <1>4, <1>5, AppShaped

(* A context that has handed its message over does not get it back.        *)
LEMMA RootGone ==
  ASSUME ChainInv, NEW m \in Msgs, NEW n \in 1..Len(ctxs[m]), NEW d \in Context,
         Replaces(ctxs[m], ctxs'[m], n, d) \/ Relays(ctxs[m], ctxs'[m], n, d),
         ctxs[m][n].gone => d.gone
  PROVE  ctxs[m][1].gone => ctxs'[m][1].gone
<1>1. /\ n \in Nat /\ Len(ctxs'[m]) = n /\ ctxs'[m][n] = d
      /\ \A i \in 1..(n - 1) : SamePlace(ctxs[m][i], ctxs'[m][i])
  BY BelowSame
<1>2. n = 1 \/ 1 \in 1..(n - 1)
  BY <1>1
<1> QED
  BY <1>1, <1>2 DEF SamePlace

LEMMA GoneStays ==
  ASSUME ChainInv, NEW m \in Msgs, Steps(m), ctl[m] # "idle"
  PROVE  ctxs[m][1].gone => ctxs'[m][1].gone
<1>1. LET S == ctxs[m] n == Len(S) IN
      /\ n \in 1..n /\ Cur(m) = S[n] /\ n \in Nat /\ n >= 1
  BY ReadFacts
<1>2. CASE Start(m)
  BY <1>2 DEF Start
<1>3. CASE Returning(m)
  <2>1. PICK d \in Context : Relays(ctxs[m], ctxs'[m], Len(ctxs[m]), d) /\ (d.gone = Cur(m).gone \/ d.gone)
    BY <1>3, ReturningFacts
  <2> QED
    BY <1>1, <2>1, RootGone
<1>4. CASE NextRunsHandler(m)
  <2>1. PICK d \in Context : Replaces(ctxs[m], ctxs'[m], Len(ctxs[m]), d) /\ d.gone = Cur(m).gone
    BY <1>4, RunsFacts
  <2> QED
    BY <1>1, <2>1, RootGone
<1>5. CASE EnterRouter(m)
  <2>1. PICK d \in Context : Replaces(ctxs[m], ctxs'[m], Len(ctxs[m]) + 1, d)
    BY <1>5, EnterFacts
  <2>2. 1 \in 1..((Len(ctxs[m]) + 1) - 1)
    BY <1>1
  <2>3. ctxs'[m][1] = ctxs[m][1]
    BY <2>1, <2>2 DEF Replaces
  <2> QED
    BY <2>3
<1>6. CASE LeaveRouter(m)
  <2> DEFINE n == Len(ctxs[m]) p == ctxs[m][n - 1]
  <2>1. /\ n \in Nat /\ n >= 2 /\ p \in Context
        /\ \/ Replaces(ctxs[m], ctxs'[m], n - 1, p)
           \/ \E d \in Context : Left(m, n - 1, p, d)
    BY <1>6, LeavingFacts
  <2>2. n - 1 \in 1..n
    <3> HIDE DEF n
    <3> QED
      BY <2>1
  <2>3. CASE Replaces(ctxs[m], ctxs'[m], n - 1, p)
    BY <2>1, <2>2, <2>3, RootGone
  <2>4. CASE \E d \in Context : Left(m, n - 1, p, d)
    <3>1. PICK d \in Context : Left(m, n - 1, p, d)
      BY <2>4
    <3>2. d.gone = p.gone /\ (Replaces(ctxs[m], ctxs'[m], n - 1, d) \/ Relays(ctxs[m], ctxs'[m], n - 1, d))
      BY <3>1 DEF Left
    <3> QED
      BY <2>2, <3>2, RootGone
  <2> QED
    BY <2>1, <2>3, <2>4
<1>7. CASE Returned(m)
  <2>1. PICK c \in Context, d \in Context : Left(m, Len(ctxs[m]), c, d) /\ c.gone = Cur(m).gone
    BY <1>7, ReturnedFacts
  <2>2. /\ d.gone = c.gone
        /\ Replaces(ctxs[m], ctxs'[m], Len(ctxs[m]), d) \/ Relays(ctxs[m], ctxs'[m], Len(ctxs[m]), d)
    BY <2>1 DEF Left
  <2> QED
    BY <1>1, <2>1, <2>2, RootGone
<1>8. CASE Decoded(m)
  <2>1. LET d == Cur(m)' IN
        Replaces(ctxs[m], ctxs'[m], Len(ctxs[m]), d) /\ d \in Context /\ d.gone = Cur(m).gone
    BY <1>8, DecodedFacts
  <2> QED
    BY <1>1, <2>1, RootGone
<1>9. CASE Quiet(m)
  BY <1>9, QuietFacts
<1>10. CASE Works(m)
  <2>1. LET d == Cur(m)' IN
        Replaces(ctxs[m], ctxs'[m], Len(ctxs[m]), d) /\ d \in Context /\ d.gone = Cur(m).gone
    BY <1>10, WorksFacts
  <2> QED
    BY <1>1, <2>1, RootGone
<1> QED
  BY <1>2, <1>3, <1>4, <1>5, <1>6, <1>7, <1>8, <1>9, <1>10, StepGroups

(* A chain that is not stopped was not stopped before.                     *)
LEMMA GoodBefore ==
  ASSUME ChainInv, NEW m \in Msgs, Steps(m), app' = app, ctl[m] # "idle", Good(m)'
  PROVE  Good(m) /\ (app.kind # "close" => ~closed /\ ~seen'[m].failed)
<1>1. closed' = closed
  BY ClosedKept
<1>2. TypeOK
  BY DEF ChainInv, BaseInv
<1>3. /\ seen[m].failed => seen'[m].failed
      /\ seen[m].stopped => seen'[m].stopped
      /\ seen[m].moved => seen'[m].moved
  BY <1>2, SeenGrows
<1>4. ctxs[m][1].gone => ctxs'[m][1].gone
  BY GoneStays
<1> QED
  BY <1>1, <1>3, <1>4 DEF Good

(* A context moves on, or stays where it is, and those above it go.        *)
LEMMA MovesOn ==
  ASSUME ChainInv, NEW m \in Msgs, ctl[m] # "idle", NEW n \in 1..Len(ctxs[m]), NEW d \in Context,
         Replaces(ctxs[m], ctxs'[m], n, d) \/ Relays(ctxs[m], ctxs'[m], n, d),
         Laid(app, ctxs[m]), RanOK(app, ctxs[m], seen[m].ran),
         d.router = ctxs[m][n].router, d.at = ctxs[m][n].at, Alike(app, d.path, ctxs[m][n].path),
         ~Before(Spot(d), Spot(ctxs[m][n]))
  PROVE  LET S == ctxs[m] T == ctxs'[m] IN
         /\ Cut(S, T, n, d) /\ Len(T) = n /\ T[n] = d
         /\ Laid(app, T) /\ RanOK(app, T, seen[m].ran) /\ Alike(app, T[1].path, S[1].path)
<1>1. /\ n \in Nat /\ Len(ctxs'[m]) = n /\ ctxs'[m][n] = d
      /\ \A i \in 1..(n - 1) : SamePlace(ctxs[m][i], ctxs'[m][i])
  BY BelowSame
<1>2. Cut(ctxs[m], ctxs'[m], n, d)
  BY <1>1 DEF Cut
<1>3. /\ Shaped(app) /\ seen[m].ran \in Seq(Seq(Nat)) /\ ctxs[m][1] \in Context
  BY ReadFacts
<1>4. Laid(app, ctxs'[m]) /\ Alike(app, ctxs'[m][1].path, ctxs[m][1].path)
  BY <1>2, LaidCut
<1>5. ~Before(Spot(ctxs'[m][1]), Spot(ctxs[m][1]))
  <2>1. CASE n = 1
    BY <1>1, <2>1
  <2>2. CASE n # 1
    <3>1. 1 \in 1..(n - 1)
      BY <1>1, <2>2
    <3>2. Spot(ctxs'[m][1]) = Spot(ctxs[m][1])
      BY <1>1, <3>1 DEF SamePlace, Spot
    <3>3. ctxs[m][1].node \in Nat /\ ctxs[m][1].index \in Nat
      BY <1>3 DEF Context
    <3> QED
      BY <3>2, <3>3, BeforeTotal DEF Spot
  <2> QED
    BY <2>1, <2>2
<1>6. RanOK(app, ctxs'[m], seen[m].ran)
  BY <1>3, <1>4, <1>5, RanCut
<1> QED
  BY <1>1, <1>2, <1>4, <1>6

(* A message begins with everything before it.                             *)
LEMMA WayStart ==
  ASSUME ChainInv, NEW m \in Msgs, OrderOK(m), IsFiniteSet(Routers), Start(m)
  PROVE  OnWay(app, ctl'[m], ctxs'[m], calls'[m], seen'[m].ran)
<1> DEFINE S == <<NewContext>> ran == seen[m].ran
<1>1. /\ ctxs'[m] = S /\ ctl[m] = "idle" /\ seen' = seen /\ ctl'[m] = "next" /\ calls'[m] = calls[m]
  BY StartFacts DEF ChainInv, BaseInv, TypeOK
<1>2. Len(ran) = 0
  BY <1>1 DEF OrderOK
<1>3. /\ NewContext.router = Root /\ NewContext.node = 1 /\ NewContext.index = 0 /\ NewContext.at = <<>>
      /\ NewContext.path = NoPath /\ Root \in Routers /\ app \in Setups /\ Shaped(app)
  BY HandlerChainAssumption, AppShaped DEF NewContext, ChainInv, BaseInv, TypeOK
<1>4. Len(S) = 1 /\ S[1] = NewContext
  OBVIOUS
<1> HIDE DEF S
<1>5. ASSUME NEW level \in Layers(app) PROVE 1 <= level[Root]
  <2>1. level \in [Routers -> 1..Cardinality(Routers)] /\ Cardinality(Routers) \in Nat
    BY FS_CardinalityType DEF Layers
  <2>2. level[Root] \in 1..Cardinality(Routers)
    BY <1>3, <2>1
  <2> QED
    BY <2>1, <2>2
<1>6. Laid(app, S)
  <2>1. \A i \in 1..1 : i = 1
    OBVIOUS
  <2>2. \A k \in 1..(1 - 1) : FALSE
    OBVIOUS
  <2>3. Len(NewContext.at) = 2 * (1 - 1)
    BY <1>3
  <2>4. Alike(app, NewContext.path, NewContext.path)
    BY AlikeEquiv
  <2> QED
    BY <1>3, <1>4, <1>5, <2>1, <2>2, <2>3, <2>4 DEF Laid
<1>7. RanOK(app, S, ran)
  BY <1>2 DEF RanOK
<1>8. Covers(app, S, ran)
  <2> SUFFICES ASSUME NEW way, IsWay(app, S[1].path, way) PROVE Pending(S, 1, way)
    BY <1>4 DEF Covers
  <2>1. Len(way) \in 1..Cardinality(Routers) /\ way[1][1] = Root
    BY DEF IsWay
  <2>2. 1 \in 1..Len(way) /\ 1 <= Len(way)
    BY <2>1, FS_CardinalityType
  <2>3. LeadsTo(app, S[1].path, Root, way[1][2])
    BY <2>1, <2>2 DEF IsWay
  <2>4. Before(<<1, 0>>, way[1][2])
    BY <1>3, <2>3, PlaceNumbers
  <2>5. Comes(S, 1 - 1, way)
    BY DEF Comes
  <2> QED
    BY <1>3, <1>4, <2>2, <2>4, <2>5 DEF Pending, Spot
<1>9. ~Fresh("next", calls'[m])
  BY DEF Fresh
<1> QED
  BY <1>1, <1>6, <1>7, <1>8, <1>9 DEF OnWay

(* Where a context is at the end of its chain, or Ahead is empty, no way   *)
(* is before it.                                                           *)
LEMMA NothingAhead ==
  ASSUME ChainInv, NEW m \in Msgs, ctl[m] # "idle", Laid(app, ctxs[m]),
         Spent(app, Cur(m)) \/ Ahead(Cur(m)) = {},
         NEW way, IsWay(app, ctxs[m][1].path, way)
  PROVE  ~Pending(ctxs[m], Len(ctxs[m]), way)
<1> DEFINE S == ctxs[m] n == Len(S) x == way[n][2]
<1>1. /\ app \in Setups /\ Shaped(app) /\ n \in 1..n /\ Cur(m) = S[n] /\ n \in Nat
      /\ Cur(m) \in Context
  BY ReadFacts
<1>2. CASE Spent(app, Cur(m))
  BY <1>1, <1>2, NothingAtEnd DEF Spent
<1>3. CASE Ahead(Cur(m)) = {}
  <2> SUFFICES ASSUME Pending(S, n, way) PROVE FALSE
    OBVIOUS
  <2>1. LeadsTo(app, S[n].path, S[n].router, x)
    BY <1>1, WayRouter DEF Pending
  <2>2. Before(Spot(S[n]), x) /\ S[n].router \in Routers
    BY <1>1 DEF Pending, Laid
  <2>3. LeadsTo(app, S[n].path, S[n].router, <<x[1], x[2]>>)
    BY <2>1 DEF LeadsTo
  <2>4. <<x[1], x[2]>> \in Places(S[n].router, S[n].path)
    BY <1>1, <2>2, <2>3, PlacesAre
  <2>5. Before(<<Cur(m).node, Cur(m).index>>, <<x[1], x[2]>>)
    BY <1>1, <2>2 DEF Before, Spot
  <2>6. <<x[1], x[2]>> \in Ahead(Cur(m))
    BY <1>1, <2>4, <2>5 DEF Ahead
  <2> QED
    BY <1>3, <2>6
<1> QED
  BY <1>2, <1>3

(* A message that was handed over is not in a chain that nobody stopped.   *)
LEMMA NotHandedOver ==
  ASSUME ChainInv, Straight(app), NEW m \in Msgs, Good(m)', app' = app,
         LockInv, SilentInv, NextHandsOver(m)
  PROVE  FALSE
<1>1. Returning(m) /\ Nexting(m)
  BY DEF Returning, NextHandsOver
<1>2. ctl[m] # "idle"
  BY <1>1 DEF Nexting
<1>3. CASE Silent(app)
  <2>1. LET c == Cur(m) d == Walk(c) IN Kept(c, d)
    BY <1>1, WalkOfCur DEF ChainInv
  <2>2. Walk(Cur(m)).id # NoId
    BY DEF NextHandsOver, Meets
  <2>3. Cur(m).id # NoId
    BY <2>1, <2>2 DEF Kept
  <2>4. Cur(m) = ctxs[m][Len(ctxs[m])] /\ Len(ctxs[m]) \in 1..Len(ctxs[m])
    BY <1>2, ReadFacts
  <2> QED
    BY <1>3, <2>3, <2>4 DEF SilentInv, Mute
<1>4. CASE ~Silent(app)
  <2>1. app.kind = "normal" /\ Conversational(app)
    BY <1>4 DEF Straight
  <2>2. Turn(m) /\ RootReceives
    BY <2>1 DEF LockInv, LockOK
  <2>3. Steps(m)
    BY <1>1 DEF Returning, Steps
  <2>4. ctxs'[m][1].gone
    BY <1>1, <2>1, <2>2, <2>3, ClosedKept, TurnReturning
  <2> QED
    BY <2>1, <2>4 DEF Good
<1> QED
  BY <1>3, <1>4

(* Next returns: everything before the context has run.                    *)
LEMMA WayReturning ==
  ASSUME ChainInv, Straight(app), NEW m \in Msgs, ErrOK(m), MissOK(m), Good(m)', app' = app,
         LockInv, SilentInv, Returning(m)
  PROVE  OnWay(app, ctl'[m], ctxs'[m], calls'[m], seen'[m].ran)
<1> DEFINE S == ctxs[m] T == ctxs'[m] n == Len(S) ran == seen[m].ran
<1>1. Steps(m) /\ Nexting(m) /\ ctl[m] # "idle" /\ ctl[m] \in {"next", "auto"}
  BY DEF Returning, Steps, NextRefused, NextBeyondEnd, NextHandsOver, Nexting
<1>2. /\ app \in Setups /\ Shaped(app) /\ n \in 1..n /\ Cur(m) = S[n] /\ n \in Nat /\ n >= 1
      /\ Cur(m) \in Context /\ StackOK(m) /\ ran \in Seq(Seq(Nat))
  BY <1>1, ReadFacts
<1>3. Good(m) /\ (app.kind # "close" => ~closed /\ ~seen'[m].failed)
  BY <1>1, GoodBefore
<1>4. OnWay(app, ctl[m], S, calls[m], ran) /\ (seen[m].err => seen[m].failed)
  BY <1>1, <1>3 DEF MissOK
<1>5. Laid(app, S) /\ RanOK(app, S, ran) /\ Covers(app, S, ran)
  BY <1>1, <1>4 DEF OnWay, Fresh
<1>6. PICK d \in Context :
           /\ Relays(S, T, n, d)
           /\ Forward(Cur(m), d)
           /\ \/ NextRefused(m) /\ d.gone = Cur(m).gone /\ d.beyond = Cur(m).beyond
              \/ /\ NextBeyondEnd(m) /\ d.gone = Cur(m).gone /\ d.beyond /\ AtEnd(d)
                 /\ Ahead(Cur(m)) = {}
              \/ NextHandsOver(m) /\ d.gone /\ d.beyond = Cur(m).beyond /\ ~AtEnd(Cur(m))
           /\ calls' = calls /\ seen' = seen
           /\ ctl' = [ctl EXCEPT ![m] = IF calls[m] = <<>> THEN "finish" ELSE "run"]
  BY ReturningFacts
<1>7. d.router = Cur(m).router /\ d.at = Cur(m).at /\ d.path = Cur(m).path
      /\ ~Before(Spot(d), Spot(Cur(m)))
  BY <1>6 DEF Forward, Spot
<1>8. /\ Spent(app, d) /\ (app.kind # "close" => d.beyond)
      /\ Spent(app, Cur(m)) \/ Ahead(Cur(m)) = {}
  <2>1. CASE NextRefused(m)
    <3>1. Refused(Cur(m))
      BY <2>1 DEF NextRefused
    <3>2. Cur(m).error = seen[m].err
      BY <1>1 DEF ErrOK
    <3>3. app.kind # "close" => ~closed /\ ~seen[m].failed
      BY <1>3, <1>6
    <3>4. app.kind = "close" /\ AtEnd(Cur(m))
      BY <1>4, <3>1, <3>2, <3>3 DEF Refused
    <3>5. AtEnd(d)
      BY <1>6, <3>4 DEF Forward
    <3> QED
      BY <3>4, <3>5 DEF Spent, AtEnd, Chain
  <2>2. CASE NextBeyondEnd(m) /\ d.beyond /\ AtEnd(d) /\ Ahead(Cur(m)) = {}
    BY <2>2 DEF Spent, AtEnd, Chain
  <2>3. CASE NextHandsOver(m)
    BY <2>3, NotHandedOver
  <2> QED
    BY <1>6, <2>1, <2>2, <2>3
<1>9. /\ Cut(S, T, n, d) /\ Len(T) = n /\ T[n] = d
      /\ Laid(app, T) /\ RanOK(app, T, ran) /\ Alike(app, T[1].path, S[1].path)
  <2>1. Alike(app, d.path, S[n].path)
    BY <1>2, <1>7, AlikeEquiv
  <2> QED
    BY <1>1, <1>2, <1>5, <1>6, <1>7, <2>1, MovesOn
<1>10. Covers(app, T, ran)
  <2>1. ASSUME NEW way, IsWay(app, S[1].path, way), NEW i \in n..Len(S), Pending(S, i, way)
        PROVE  FALSE
    <3>1. i = n
      BY <1>2
    <3> QED
      BY <1>1, <1>5, <1>8, <2>1, <3>1, NothingAhead
  <2> QED
    BY <1>2, <1>5, <1>9, <2>1, CoversCut
<1>11. ctl'[m] = (IF calls[m] = <<>> THEN "finish" ELSE "run")
  BY <1>6 DEF ChainInv, BaseInv, TypeOK
<1>12. ~Fresh(ctl'[m], calls'[m])
  BY <1>1, <1>2, <1>6, <1>11 DEF Fresh, StackOK, Stacked
<1>13. ctl'[m] = "finish" => n = 1
  <2>1. calls[m] = <<>> => n <= 1
    BY <1>2 DEF StackOK, Stacked
  <2>2. n <= 1 => n = 1
    <3> HIDE DEF n
    <3> QED
      BY <1>2
  <2> QED
    BY <1>11, <2>1, <2>2
<1>14. ctl'[m] \notin {"ended"}
  BY <1>11
<1>15. ctl'[m] \in {"finish", "ended"} => Len(T) = 1 /\ Spent(app, T[1])
  BY <1>8, <1>9, <1>13, <1>14
<1> QED
  BY <1>6, <1>8, <1>9, <1>10, <1>12, <1>15 DEF OnWay

(* Next starts a handler.                                                  *)
LEMMA WayRuns ==
  ASSUME ChainInv, Straight(app), NEW m \in Msgs, MissOK(m), Good(m)', app' = app,
         NextRunsHandler(m)
  PROVE  OnWay(app, ctl'[m], ctxs'[m], calls'[m], seen'[m].ran)
<1> DEFINE S == ctxs[m] T == ctxs'[m] n == Len(S) ran == seen[m].ran c == Cur(m)
<1>1. Steps(m) /\ ctl[m] # "idle" /\ ctl[m] \in {"next", "auto"}
  BY DEF Steps, NextRunsHandler, Nexting
<1>2. /\ app \in Setups /\ Shaped(app) /\ n \in 1..n /\ c = S[n] /\ n \in Nat /\ n >= 1
      /\ c \in Context /\ ran \in Seq(Seq(Nat))
  BY <1>1, ReadFacts
<1>3. Laid(app, S) /\ RanOK(app, S, ran) /\ Covers(app, S, ran)
  BY <1>1, GoodBefore DEF OnWay, Fresh, MissOK
<1>4. PICK d \in Context :
           /\ Replaces(S, T, n, d)
           /\ Forward(c, d)
           /\ <<d.node, d.index>> \in Ahead(c)
           /\ \A p \in Ahead(c) : ~Before(p, <<d.node, d.index>>)
           /\ calls' = [calls EXCEPT ![m] =
                Append(@, [h |-> NodeOf(d).handlers[d.index], nexts |-> 0, ctx |-> Len(ctxs[m])])]
           /\ seen' = [seen EXCEPT ![m].ran = Append(@, d.at \o <<d.node, d.index>>)]
           /\ ctl' = [ctl EXCEPT ![m] = "run"]
           /\ NodeOf(d).handlers[d.index] \in Handlers
  BY RunsFacts
<1>5. c.router \in Routers
  BY <1>2 DEF Context
<1>6. FirstAhead(app, c, d)
  <2>1. <<d.node, d.index>> \in Places(c.router, c.path) /\ Before(Spot(c), Spot(d))
    BY <1>4 DEF Ahead, Spot
  <2>2. LeadsTo(app, c.path, c.router, Spot(d))
    BY <1>2, <1>5, <2>1, PlacesAre DEF Spot
  <2>3. ASSUME NEW x, LeadsTo(app, c.path, c.router, x), Before(Spot(c), x)
        PROVE  ~Before(x, Spot(d))
    <3>1. LeadsTo(app, c.path, c.router, <<x[1], x[2]>>)
      BY <2>3 DEF LeadsTo
    <3>2. <<x[1], x[2]>> \in Places(c.router, c.path)
      BY <1>2, <1>5, <3>1, PlacesAre
    <3>3. Before(<<c.node, c.index>>, <<x[1], x[2]>>)
      BY <2>3 DEF Before, Spot
    <3>4. <<x[1], x[2]>> \in Ahead(c)
      BY <3>2, <3>3 DEF Ahead
    <3>5. ~Before(<<x[1], x[2]>>, <<d.node, d.index>>)
      BY <1>4, <3>4
    <3> QED
      BY <3>5 DEF Before, Spot
  <2> QED
    BY <2>1, <2>2, <2>3 DEF FirstAhead
<1>7. Cut(S, T, n, d) /\ Len(T) = n /\ T[n] = d
  BY <1>2, <1>4, BelowSame DEF Cut
<1>8. d.router = c.router /\ d.at = c.at /\ d.path = c.path
  BY <1>4 DEF Forward
<1>9. IsFiniteSet(Routers) /\ Layers(app) # {}
  BY DEF Straight
<1>10. LET ran2 == Append(ran, Here(d)) IN
      /\ Laid(app, T) /\ LeadsTo(app, T[1].path, d.router, Spot(d))
      /\ CoversFresh(app, T, ran2) /\ RanOK(app, T, ran2)
  BY <1>2, <1>3, <1>6, <1>7, <1>8, <1>9, Started
<1>11. seen'[m].ran = Append(ran, Here(d)) /\ ctl'[m] = "run"
  BY <1>4 DEF ChainInv, BaseInv, TypeOK, History, Here
<1>12. calls'[m][Len(calls'[m])].nexts = 0
  BY <1>4, PushedFresh
<1>13. Fresh(ctl'[m], calls'[m])
  BY <1>11, <1>12 DEF Fresh
<1> QED
  BY <1>7, <1>10, <1>11, <1>13 DEF OnWay

(* A router is entered.                                                    *)
LEMMA WayEnter ==
  ASSUME ChainInv, Straight(app), NEW m \in Msgs, MissOK(m), Good(m)', app' = app,
         EnterRouter(m)
  PROVE  OnWay(app, ctl'[m], ctxs'[m], calls'[m], seen'[m].ran)
<1> DEFINE S == ctxs[m] T == ctxs'[m] n == Len(S) ran == seen[m].ran c == Cur(m)
           d == SubContext(Cur(m), Call(m).h)
<1>1. /\ d \in Context /\ Replaces(S, T, n + 1, d)
      /\ d.router = Call(m).h /\ d.at = Here(c)
      /\ d.node = 1 /\ d.index = 0
      /\ ctl[m] = "run" /\ ctl' = [ctl EXCEPT ![m] = "next"] /\ seen' = seen
      /\ Call(m).h \in Routers /\ Call(m).nexts = 0
  BY EnterFacts DEF Here
<1>2. Steps(m) /\ ctl[m] # "idle"
  BY <1>1 DEF Steps
<1>3. /\ app \in Setups /\ Shaped(app) /\ n \in 1..n /\ c = S[n] /\ n \in Nat /\ n >= 1
      /\ c \in Context /\ ContextsOK(m)
  BY <1>2, ReadFacts
<1>4. Call(m) = calls[m][Len(calls[m])]
  BY <1>1, RunFacts DEF ChainInv
<1>5. Fresh(ctl[m], calls[m])
  BY <1>1, <1>4 DEF Fresh
<1>6. /\ Laid(app, S) /\ RanOK(app, S, ran) /\ CoversFresh(app, S, ran)
      /\ LeadsTo(app, S[1].path, c.router, Spot(c))
  BY <1>2, <1>3, <1>5, GoodBefore DEF OnWay, MissOK
<1>7. d.router = HandlerIn(app, c.router, Spot(c))
  BY <1>1, <1>3, <1>4 DEF ContextsOK, FreshOK, AtHandler, HandlerIn, Spot
<1>8. d.router \in HandlersOf(app.chain[c.router]) \cap Routers
  BY <1>1, RunsIn DEF Serving
<1>9. d.path = c.path
  BY <1>3 DEF SubContext, Context
<1>10. Len(T) = n + 1 /\ T[n + 1] = d /\ \A i \in 1..n : T[i] = S[i]
  <2>1. (n + 1) - 1 = n
    BY <1>3
  <2> QED
    BY <1>1, <2>1 DEF Replaces
<1>11. Laid(app, T) /\ Covers(app, T, ran) /\ RanOK(app, T, ran)
  <2> HIDE DEF d, c
  <2> QED
    BY <1>1, <1>3, <1>6, <1>7, <1>8, <1>9, <1>10, Entered
<1>12. ctl'[m] = "next"
  BY <1>1 DEF ChainInv, BaseInv, TypeOK
<1> QED
  BY <1>1, <1>11, <1>12 DEF OnWay, Fresh

(* A router is left, which has nothing before it any more.                 *)
LEMMA WayLeave ==
  ASSUME ChainInv, Straight(app), NEW m \in Msgs, MissOK(m), Good(m)', app' = app,
         LeaveRouter(m)
  PROVE  OnWay(app, ctl'[m], ctxs'[m], calls'[m], seen'[m].ran)
<1> DEFINE S == ctxs[m] T == ctxs'[m] n == Len(S) ran == seen[m].ran p == S[n - 1]
<1>1. /\ n \in Nat /\ n >= 2 /\ Serving(Call(m)) /\ ctl[m] = "run"
      /\ p \in Context /\ seen' = seen
      /\ \/ /\ Cur(m).beyond /\ Replaces(S, T, n - 1, p)
            /\ ctl' = [ctl EXCEPT ![m] = "next"]
         \/ /\ ~Cur(m).beyond
            /\ \E d \in Context : Left(m, n - 1, p, d)
  BY LeavingFacts
<1>2. Steps(m) /\ ctl[m] # "idle"
  BY <1>1 DEF Steps
<1>3. /\ app \in Setups /\ Shaped(app) /\ Cur(m) = S[n] /\ Cur(m) \in Context
      /\ Call(m) = calls[m][Len(calls[m])]
  BY <1>1, <1>2, ReadFacts, RunFacts DEF ChainInv
<1>4. ~Fresh(ctl[m], calls[m])
  BY <1>1, <1>3 DEF Fresh, Serving
<1>5. /\ Laid(app, S) /\ RanOK(app, S, ran) /\ Covers(app, S, ran)
      /\ Spent(app, Cur(m)) /\ (app.kind # "close" => Cur(m).beyond)
  BY <1>1, <1>2, <1>3, <1>4, GoodBefore DEF OnWay, MissOK
<1>6. Replaces(S, T, n - 1, p) /\ ctl'[m] \in {"next", "auto"}
  <2>1. CASE Cur(m).beyond
    BY <1>1, <2>1 DEF ChainInv, BaseInv, TypeOK
  <2>2. CASE ~Cur(m).beyond
    <3>1. PICK d \in Context : Left(m, n - 1, p, d)
      BY <1>1, <2>2
    <3>2. GoesOn
      BY <1>5, <2>2 DEF GoesOn
    <3>3. d = p /\ Replaces(S, T, n - 1, d) /\ ctl' = [ctl EXCEPT ![m] = "auto"]
      BY <3>1, <3>2 DEF Left
    <3> QED
      BY <3>3 DEF ChainInv, BaseInv, TypeOK
  <2> QED
    BY <2>1, <2>2
<1>7. n - 1 \in 1..n /\ n \in 1..n /\ \A i \in (n - 1)..n : i = n - 1 \/ i = n
  <2> HIDE DEF n
  <2> QED
    BY <1>1
<1>8. ~Before(Spot(p), Spot(p))
  BY <1>1, BeforeTotal DEF Spot, Context
<1>9. /\ Cut(S, T, n - 1, p) /\ Len(T) = n - 1 /\ T[n - 1] = p
      /\ Laid(app, T) /\ RanOK(app, T, ran) /\ Alike(app, T[1].path, S[1].path)
  <2>1. Alike(app, p.path, p.path)
    BY AlikeEquiv
  <2> DEFINE k == n - 1
  <2>2. k \in 1..Len(ctxs[m]) /\ p = ctxs[m][k]
    BY <1>7
  <2>3. Replaces(ctxs[m], ctxs'[m], k, p)
    BY <1>6
  <2>4. Laid(app, ctxs[m]) /\ RanOK(app, ctxs[m], seen[m].ran)
    BY <1>5
  <2> HIDE DEF k, p
  <2>5. LET S1 == ctxs[m] T1 == ctxs'[m] IN
        /\ Cut(S1, T1, k, p) /\ Len(T1) = k /\ T1[k] = p
        /\ Laid(app, T1) /\ RanOK(app, T1, seen[m].ran) /\ Alike(app, T1[1].path, S1[1].path)
    BY <1>1, <1>2, <1>8, <2>1, <2>2, <2>3, <2>4, MovesOn
  <2> QED
    BY <2>5 DEF k
<1>10. Covers(app, T, ran)
  <2>1. ASSUME NEW way, IsWay(app, S[1].path, way), NEW i \in (n - 1)..n, Pending(S, i, way)
        PROVE  i = n - 1
    BY <1>2, <1>5, <1>7, <2>1, NothingAhead
  <2> QED
    BY <1>5, <1>7, <1>9, <2>1, CoversCut
<1> QED
  BY <1>1, <1>6, <1>9, <1>10 DEF OnWay, Fresh

(* A handler that is no router and has not called Next                     *)
LEMMA WayFresh ==
  ASSUME ChainInv, NEW m \in Msgs, ctl[m] \in {"run", "asleep"}, Call(m).nexts = 0, Call(m).h \notin Routers,
         OnWay(app, ctl[m], ctxs[m], calls[m], seen[m].ran)
  PROVE  Covers(app, ctxs[m], seen[m].ran)
<1> DEFINE S == ctxs[m] n == Len(S)
<1>1. ctl[m] # "idle" /\ StackOK(m) /\ ContextsOK(m) /\ calls[m] # <<>>
  BY ReadFacts DEF StackOK, Stacked
<1>2. Call(m) = calls[m][Len(calls[m])]
  BY <1>1, CallFacts DEF ChainInv, BaseInv, TypeOK, CallType
<1>3. AtHandler(app, S[n], Call(m).h)
  BY <1>1, <1>2 DEF ContextsOK, FreshOK
<1>4. HandlerIn(app, S[n].router, Spot(S[n])) \notin Routers
  BY <1>3 DEF AtHandler, HandlerIn, Spot
<1>5. Laid(app, S) /\ CoversFresh(app, S, seen[m].ran)
  BY <1>2 DEF OnWay, Fresh
<1> QED
  BY <1>4, <1>5, CoversNoRouter

(* A handler returns.                                                      *)
LEMMA WayReturned ==
  ASSUME ChainInv, ChainInv', Straight(app), NEW m \in Msgs, MissOK(m), Good(m)', app' = app,
         Returned(m)
  PROVE  OnWay(app, ctl'[m], ctxs'[m], calls'[m], seen'[m].ran)
<1> DEFINE S == ctxs[m] T == ctxs'[m] n == Len(S) ran == seen[m].ran
<1>1. Steps(m) /\ ~NextRunsHandler(m)
  BY DEF Steps, Returned, RouterReturns, CodecReturns, FuncReturns, DecodeRefused, NothingLeft,
         NextRunsHandler, Nexting, Running
<1>2. PICK c \in Context, d \in Context :
        /\ Left(m, n, c, d)
        /\ c.router = Cur(m).router /\ c.at = Cur(m).at /\ c.node = Cur(m).node
        /\ c.index = Cur(m).index /\ c.path = Cur(m).path /\ c.beyond = Cur(m).beyond
        /\ ctl[m] = "run" /\ ~Serving(Call(m))
  BY ReturnedFacts
<1>3. /\ app \in Setups /\ Shaped(app) /\ n \in 1..n /\ Cur(m) = S[n] /\ n \in Nat /\ n >= 1
      /\ Cur(m) \in Context /\ ran \in Seq(Seq(Nat))
      /\ Call(m) = calls[m][Len(calls[m])] /\ calls[m] # <<>>
  BY <1>2, ReadFacts, RunFacts DEF ChainInv
<1>4. Good(m) /\ (app.kind # "close" => ~closed /\ ~seen'[m].failed)
  BY <1>1, <1>2, GoodBefore
<1>5. OnWay(app, ctl[m], S, calls[m], ran)
  BY <1>2, <1>4 DEF MissOK
<1>6. seen'[m].ran = ran
  BY <1>1, SeenGrows DEF ChainInv, BaseInv
<1>7. Call(m).nexts = 0 => Call(m).h \notin Routers
  <2>1. Call(m).h \in Codecs \cup Funcs \/ Call(m).nexts = 2
    <3>1. CASE NothingLeft(m)
      BY <3>1 DEF NothingLeft, Doing, Running
    <3>2. CASE ~NothingLeft(m)
      BY <3>2 DEF Returned, RouterReturns, CodecReturns, FuncReturns, DecodeRefused, Running
    <3> QED
      BY <3>1, <3>2
  <2> QED
    BY <2>1, HandlerChainAssumption
<1>8. Laid(app, S) /\ RanOK(app, S, ran) /\ Covers(app, S, ran)
  <2>1. CASE Call(m).nexts = 0
    BY <1>2, <1>5, <1>7, <2>1, WayFresh DEF OnWay
  <2>2. CASE Call(m).nexts # 0
    BY <1>3, <1>5, <2>2 DEF OnWay, Fresh
  <2> QED
    BY <2>1, <2>2
<1>9. /\ Replaces(S, T, n, d) \/ Relays(S, T, n, d)
      /\ d.router = S[n].router /\ d.at = S[n].at /\ d.path = S[n].path
      /\ ~Before(Spot(d), Spot(S[n])) /\ d.beyond = S[n].beyond
  BY <1>2, <1>3 DEF Left, Forward, Spot
<1>10. /\ Cut(S, T, n, d) /\ Len(T) = n /\ T[n] = d
      /\ Laid(app, T) /\ RanOK(app, T, ran) /\ Alike(app, T[1].path, S[1].path)
  BY <1>2, <1>3, <1>8, <1>9, AlikeEquiv, MovesOn
<1>11. CASE GoesOn
  <2>1. d = c /\ ctl' = [ctl EXCEPT ![m] = "auto"]
    BY <1>2, <1>11 DEF Left
  <2>2. ctl'[m] = "auto"
    BY <2>1 DEF ChainInv, BaseInv, TypeOK
  <2>3. Covers(app, T, ran)
    BY <1>2, <1>3, <1>8, <1>9, <1>10, <2>1, CoversStay
  <2> QED
    BY <1>6, <1>10, <2>2, <2>3 DEF OnWay, Fresh
<1>12. CASE ~GoesOn
  <2>1. app.kind = "normal"
    <3>1. app.kind \in Kinds
      BY <1>3, AppOK, HandlerChainAssumption
    <3> QED
      BY <1>4, <1>12, <3>1 DEF GoesOn, Kinds
  <2>2. Call(m).nexts # 0
    <3>1. ~seen'[m].failed /\ ~seen'[m].stopped
      BY <2>1 DEF Good
    <3>2. ~DecodeRefused(m) /\ ~NothingLeft(m) /\ ~(FuncReturns(m) /\ Call(m).nexts = 0)
      BY <1>1, <3>1, SeenGrows DEF ChainInv, BaseInv
    <3> QED
      BY <3>2 DEF Returned, RouterReturns, CodecReturns, Running
  <2>3. ~Fresh(ctl[m], calls[m])
    BY <1>3, <2>2 DEF Fresh
  <2>4. Spent(app, Cur(m)) /\ Cur(m).beyond
    BY <1>2, <1>3, <1>5, <2>1, <2>3 DEF OnWay
  <2>5. /\ AtEnd(d) /\ ctl' = [ctl EXCEPT ![m] = IF Len(calls[m]) = 1 THEN "finish" ELSE "run"]
        /\ Len(calls'[m]) = Len(calls[m]) - 1
        /\ \A i \in 1..(Len(calls[m]) - 1) : calls'[m][i] = calls[m][i]
    BY <1>2, <1>12 DEF Left
  <2>6. Spent(app, d) /\ d.beyond
    BY <1>3, <1>9, <2>4, <2>5 DEF Spent, AtEnd, Chain
  <2>7. Covers(app, T, ran)
    <3>1. ASSUME NEW way, IsWay(app, S[1].path, way), NEW i \in n..n, Pending(S, i, way)
          PROVE  FALSE
      <4>1. i = n
        BY <1>3
      <4> QED
        BY <1>2, <1>8, <2>4, <3>1, <4>1, NothingAhead
    <3> QED
      BY <1>3, <1>8, <1>10, <3>1, CoversCut
  <2>8. ctl'[m] = IF Len(calls[m]) = 1 THEN "finish" ELSE "run"
    BY <2>5 DEF ChainInv, BaseInv, TypeOK
  <2>9. StackOK(m)' /\ calls'[m] \in Seq(CallType)
    BY DEF ChainInv, BaseInv, TypeOK, CallType
  <2>10. ~Fresh(ctl'[m], calls'[m])
    <3>1. calls'[m] # <<>> => calls'[m][Len(calls'[m])].nexts # 0
      BY <1>3, <2>5, <2>9, BelowHaveNexts
    <3>2. ctl'[m] = "run" => calls'[m] # <<>>
      BY <2>9 DEF StackOK, Stacked
    <3> QED
      BY <2>8, <3>1, <3>2 DEF Fresh
  <2>11. ctl'[m] = "finish" => n = 1
    <3>1. ctl'[m] = "finish" => Len(T) <= 1
      BY <2>9 DEF StackOK, Stacked
    <3>2. n <= 1 => n = 1
      <4> HIDE DEF n
      <4> QED
        BY <1>3
    <3> QED
      BY <1>10, <3>1, <3>2
  <2>12. ctl'[m] \in {"finish", "ended"} => Len(T) = 1 /\ Spent(app, T[1])
    BY <1>10, <2>6, <2>8, <2>11
  <2> QED
    BY <1>6, <1>10, <2>6, <2>7, <2>10, <2>12 DEF OnWay
<1> QED
  BY <1>11, <1>12

(* The contexts stay as they are.                                          *)
LEMMA WayQuiet ==
  ASSUME ChainInv, Straight(app), NEW m \in Msgs, MissOK(m), Good(m)', app' = app,
         Quiet(m)
  PROVE  OnWay(app, ctl'[m], ctxs'[m], calls'[m], seen'[m].ran)
<1> DEFINE S == ctxs[m] n == Len(S) ran == seen[m].ran
<1>1. Steps(m)
  BY DEF Steps, Quiet
<1>2. /\ ctxs' = ctxs /\ seen' = seen /\ ctl[m] \notin {"idle", "next", "auto", "ended"}
      /\ \/ Finish(m) /\ ctl'[m] = "ended" /\ calls' = calls
         \/ CallNext(m) /\ ctl[m] = "run" /\ ctl'[m] = "next" /\ Call(m).h \in Funcs
         \/ DecodeSkipped(m) /\ ctl[m] = "run" /\ ctl'[m] = "next" /\ Call(m).h \in Codecs
         \/ LockedOut(m) /\ ctl[m] = "run" /\ ctl'[m] = "stuck" /\ calls' = calls
         \/ (LockTaken(m) \/ LockGivenUp(m)) /\ ctl[m] = "waiting" /\ ctl'[m] = "next"
         \/ (TakeMessage(m) \/ ReceiveCancelled(m)) /\ ctl[m] = "asleep" /\ ctl'[m] = "run"
            /\ calls' = calls
  BY QuietFacts
<1>3. OnWay(app, ctl[m], S, calls[m], ran)
  BY <1>1, <1>2, GoodBefore DEF MissOK
<1>4. CASE ctl[m] \in {"finish", "waiting"} /\ ctl'[m] \in {"ended", "next"}
            /\ (ctl'[m] = "ended" => ctl[m] = "finish")
  BY <1>2, <1>3, <1>4 DEF OnWay, Fresh
<1>5. CASE ctl[m] = "asleep" /\ ctl'[m] = "run" /\ calls' = calls
  BY <1>2, <1>3, <1>5 DEF OnWay, Fresh
<1>6. CASE ctl[m] = "run" /\ ctl'[m] \in {"next", "stuck"} /\ Call(m).h \notin Routers
  <2>1. Covers(app, S, ran)
    <3>1. CASE Call(m).nexts = 0
      BY <1>3, <1>6, <3>1, WayFresh
    <3>2. CASE Call(m).nexts # 0
      <4>1. Call(m) = calls[m][Len(calls[m])]
        BY <1>6, RunFacts DEF ChainInv
      <4> QED
        BY <1>3, <3>2, <4>1 DEF OnWay, Fresh
    <3> QED
      BY <3>1, <3>2
  <2> QED
    BY <1>2, <1>3, <1>6, <2>1 DEF OnWay, Fresh
<1>7. Finish(m) => ctl[m] = "finish"
  BY DEF Finish
<1>8. LockedOut(m) => Call(m).h \in Funcs
  BY DEF LockedOut, Doing, Running
<1> QED
  BY <1>2, <1>4, <1>5, <1>6, <1>7, <1>8, HandlerChainAssumption

(* Only SetMessagePath changes the path.                                   *)
LEMMA PathStays ==
  ASSUME ChainInv, NEW m \in Msgs, Works(m), ~SetMessagePath(m)
  PROVE  Cur(m)'.path = Cur(m).path
<1> DEFINE c == Cur(m)
<1>1. /\ ctl[m] = "run" /\ Call(m).h \in Funcs
  BY WorksFacts
<1>2. /\ TypeOK /\ c \in Context /\ ctxs \in [Msgs -> Seq(Context)] /\ ctxs[m] # <<>>
  BY <1>1, RunFacts DEF ChainInv, TypeOK
<1>3. ASSUME NEW d \in Context, Put(m, d), d.router = c.router, d.path = c.path
      PROVE  Cur(m)'.path = c.path
  <2>1. /\ Topped(ctxs[m], ctxs'[m], d)
        /\ Len(ctxs'[m]) = Len(ctxs[m])
    BY <1>2, <1>3, PutMove
  <2>2. Cur(m)' = d
    BY <2>1 DEF Topped, Cur, Last
  <2> QED
    BY <1>3, <2>2
<1>4. CASE SetError(m) \/ ClearError(m)
  <2>1. PICK e \in BOOLEAN : Put(m, [c EXCEPT !.error = e])
    BY <1>4 DEF SetError, ClearError
  <2>2. LET d == [c EXCEPT !.error = e] IN d \in Context /\ d.router = c.router /\ d.path = c.path
    BY <1>2 DEF Context
  <2> QED
    BY <1>3, <2>1, <2>2
<1>5. CASE Set(m) \/ Delete(m)
  <2>1. PICK k \in Keys, v \in Vals \cup {None} : Put(m, [c EXCEPT !.values[k] = v])
    BY <1>5 DEF Set, Delete
  <2> DEFINE d == [c EXCEPT !.values[k] = v]
  <2>2. d \in Context /\ d.router = c.router /\ d.path = c.path
    BY <1>2 DEF Context
  <2> QED
    BY <1>3, <2>1, <2>2
<1>6. CASE Receive(m)
  <2>1. Put(m, [c EXCEPT !.chan = TRUE, !.owns = TRUE])
    BY <1>6 DEF Receive
  <2>2. LET d == [c EXCEPT !.chan = TRUE, !.owns = TRUE] IN
          d \in Context /\ d.router = c.router /\ d.path = c.path
    BY <1>2 DEF Context
  <2> QED
    BY <1>3, <2>1, <2>2
<1> QED
  BY <1>4, <1>5, <1>6 DEF Works

(* A function changes its context, but not where its path leads.           *)
LEMMA WayWorks ==
  ASSUME ChainInv, ChainInv', Straight(app), NEW m \in Msgs, MissOK(m), Good(m)', app' = app,
         Works(m)
  PROVE  OnWay(app, ctl'[m], ctxs'[m], calls'[m], seen'[m].ran)
<1> DEFINE S == ctxs[m] T == ctxs'[m] n == Len(S) ran == seen[m].ran c == Cur(m) d == Cur(m)'
<1>1. Steps(m) /\ ~NextRunsHandler(m)
  BY DEF Steps, Works, SetError, ClearError, SetMessagePath, Set, Delete, Receive, Doing, Running,
         NextRunsHandler, Nexting
<1>2. /\ Replaces(S, T, n, d) /\ d \in Context
      /\ d.router = c.router /\ d.at = c.at /\ d.node = c.node /\ d.index = c.index
      /\ d.beyond = c.beyond
      /\ calls' = calls /\ ctl[m] = "run"
      /\ ctl' = [ctl EXCEPT ![m] = "asleep"] \/ ctl' = ctl
      /\ seen'[m].ran = ran
  <2>1. /\ Replaces(ctxs[m], ctxs'[m], Len(ctxs[m]), Cur(m)') /\ Cur(m)' \in Context
        /\ Cur(m)'.router = Cur(m).router /\ Cur(m)'.node = Cur(m).node /\ Cur(m)'.index = Cur(m).index
        /\ Cur(m)'.at = Cur(m).at /\ Cur(m)'.beyond = Cur(m).beyond
        /\ calls' = calls /\ ctl[m] = "run"
        /\ ctl' = [ctl EXCEPT ![m] = "asleep"] \/ ctl' = ctl
    BY WorksFacts
  <2>2. seen'[m].ran = seen[m].ran
    BY <1>1, SeenGrows DEF ChainInv, BaseInv
  <2> QED
    BY <2>1, <2>2
<1>3. /\ app \in Setups /\ Shaped(app) /\ n \in 1..n /\ c = S[n] /\ n \in Nat /\ n >= 1
      /\ c \in Context /\ CtxOK(app, c)
  BY <1>2, ReadFacts
<1>4. Good(m) /\ (app.kind # "close" => ~closed /\ ~seen'[m].failed)
  BY <1>1, <1>2, GoodBefore
<1>5. OnWay(app, ctl[m], S, calls[m], ran)
  BY <1>2, <1>4 DEF MissOK
<1>6. ctl'[m] \in {"run", "asleep"}
  BY <1>2 DEF ChainInv, BaseInv, TypeOK
<1>7. Alike(app, d.path, c.path)
  <2>1. CASE SetMessagePath(m)
    <3>1. seen'[m].moved
      BY <1>1, <2>1, SeenGrows DEF ChainInv, BaseInv
    <3>2. app.kind # "normal"
      BY <3>1 DEF Good
    <3>3. AnyPath(app)
      BY <3>2 DEF Straight
    <3>4. d.path \in Paths \cup {NoPath} /\ c.path \in Paths \cup {NoPath}
      BY <1>2, <1>3 DEF Context
    <3> QED
      BY <3>3, <3>4, AnyAlike
  <2>2. CASE ~SetMessagePath(m)
    <3>1. d.path = c.path
      BY <2>2, PathStays
    <3> QED
      BY <3>1, AlikeEquiv
  <2> QED
    BY <2>1, <2>2
<1>8. ~Before(Spot(d), Spot(c))
  BY <1>2, <1>3, BeforeTotal DEF Spot, Context
<1>9. Laid(app, S) /\ RanOK(app, S, ran)
  BY <1>5 DEF OnWay
<1>10. /\ Cut(S, T, n, d) /\ Len(T) = n /\ T[n] = d
      /\ Laid(app, T) /\ RanOK(app, T, ran) /\ Alike(app, T[1].path, S[1].path)
  <2> HIDE DEF d
  <2> QED
    BY <1>2, <1>3, <1>7, <1>8, <1>9, MovesOn
<1>11. /\ Covers(app, S, ran) => Covers(app, T, ran)
       /\ CoversFresh(app, S, ran) => CoversFresh(app, T, ran)
  <2> HIDE DEF d
  <2> QED
    BY <1>2, <1>3, <1>9, <1>10, CoversStay
<1>12. Fresh(ctl'[m], calls'[m]) <=> Fresh(ctl[m], calls[m])
  BY <1>2, <1>6 DEF Fresh
<1>13. LeadsTo(app, S[1].path, c.router, Spot(c)) => LeadsTo(app, T[1].path, d.router, Spot(d))
  <2>1. Spot(d) = Spot(c) /\ d.router = c.router /\ c.router \in Routers
    BY <1>2, <1>3 DEF Spot, Context
  <2> QED
    BY <1>10, <2>1 DEF Alike
<1>14. Spent(app, c) => Spent(app, d)
  BY <1>2 DEF Spent
<1> HIDE DEF d
<1> QED
  BY <1>2, <1>3, <1>5, <1>6, <1>10, <1>11, <1>12, <1>13, <1>14 DEF OnWay

(* A codec that has just been started gives the root context its path.     *)
LEMMA WayDecoded ==
  ASSUME ChainInv, Straight(app), NEW m \in Msgs, MissOK(m), Good(m)', app' = app,
         Decoded(m)
  PROVE  OnWay(app, ctl'[m], ctxs'[m], calls'[m], seen'[m].ran)
<1> DEFINE S == ctxs[m] T == ctxs'[m] n == Len(S) ran == seen[m].ran c == Cur(m) d == Cur(m)'
<1>1. Steps(m)
  BY DEF Steps
<1>2. /\ Replaces(S, T, n, d) /\ d \in Context
      /\ d.router = c.router /\ d.at = c.at /\ d.node = c.node /\ d.index = c.index
      /\ Call(m).h \in Codecs /\ seen' = seen
      /\ Call(m).nexts = 0 /\ ctl[m] = "run"
      /\ ctl'[m] \in {"next", "waiting"}
  <2>1. /\ Replaces(ctxs[m], ctxs'[m], Len(ctxs[m]), Cur(m)') /\ Cur(m)' \in Context
        /\ Cur(m)'.router = Cur(m).router /\ Cur(m)'.node = Cur(m).node /\ Cur(m)'.index = Cur(m).index
        /\ Cur(m)'.at = Cur(m).at
        /\ Call(m).h \in Codecs /\ seen' = seen /\ Call(m).nexts = 0 /\ ctl[m] = "run"
        /\ IF frame[m].id = NoId THEN ctl' = [ctl EXCEPT ![m] = "next"] /\ UNCHANGED lock
                                 ELSE SetMessageID(m, frame[m].id)
    BY DecodedFacts
  <2>2. ctl'[m] \in {"next", "waiting"}
    BY <2>1 DEF SetMessageID, ChainInv, BaseInv, TypeOK
  <2> QED
    BY <2>1, <2>2
<1>3. ~Silent(app)
  BY <1>2, NoCodecs
<1>4. Conversational(app) /\ DecodesFirst(app)
  BY <1>3 DEF Straight
<1>5. n = 1 /\ c = S[1]
  BY <1>2, <1>4, InRoot
<1>6. /\ app \in Setups /\ Shaped(app) /\ c \in Context /\ ContextsOK(m)
      /\ Call(m) = calls[m][Len(calls[m])]
  BY <1>2, ReadFacts, RunFacts DEF ChainInv
<1>7. Fresh(ctl[m], calls[m])
  BY <1>2, <1>6 DEF Fresh
<1>8. /\ Laid(app, S) /\ RanOK(app, S, ran) /\ CoversFresh(app, S, ran)
      /\ LeadsTo(app, c.path, c.router, Spot(c))
  BY <1>1, <1>2, <1>5, <1>7, GoodBefore DEF OnWay, MissOK
<1>9. HandlerIn(app, c.router, Spot(c)) \in Codecs
  BY <1>2, <1>5, <1>6 DEF ContextsOK, FreshOK, AtHandler, HandlerIn, Spot
<1>10. Len(T) = 1 /\ T[1] = d
  BY <1>2, <1>5 DEF Replaces
<1>11. Laid(app, T) /\ Covers(app, T, ran) /\ RanOK(app, T, ran)
  <2> HIDE DEF d
  <2> QED
    BY <1>2, <1>4, <1>5, <1>6, <1>8, <1>9, <1>10, PathGiven
<1> QED
  BY <1>2, <1>11 DEF OnWay, Fresh

(* Every step keeps a message on its way.                                  *)
LEMMA MissStep ==
  ASSUME ChainInv, ChainInv', Straight(app), LockInv, SilentInv, NEW m \in Msgs,
         ErrOK(m), OrderOK(m), MissOK(m), Steps(m), app' = app
  PROVE  MissOK(m)'
<1>1. seen'[m].err => seen'[m].failed
  BY SeenGrows DEF MissOK, ChainInv, BaseInv
<1>2. ASSUME Good(m)' PROVE OnWay(app, ctl'[m], ctxs'[m], calls'[m], seen'[m].ran)
  <2>1. CASE Start(m)
    BY <2>1, WayStart DEF Straight
  <2>2. CASE Returning(m)
    BY <1>2, <2>2, WayReturning
  <2>3. CASE NextRunsHandler(m)
    BY <1>2, <2>3, WayRuns
  <2>4. CASE EnterRouter(m)
    BY <1>2, <2>4, WayEnter
  <2>5. CASE LeaveRouter(m)
    BY <1>2, <2>5, WayLeave
  <2>6. CASE Returned(m)
    BY <1>2, <2>6, WayReturned
  <2>7. CASE Decoded(m)
    BY <1>2, <2>7, WayDecoded
  <2>8. CASE Quiet(m)
    BY <1>2, <2>8, WayQuiet
  <2>9. CASE Works(m)
    BY <1>2, <2>9, WayWorks
  <2> QED
    BY <2>1, <2>2, <2>3, <2>4, <2>5, <2>6, <2>7, <2>8, <2>9, StepGroups
<1> QED
  BY <1>1, <1>2 DEF MissOK

(* For all messages                                                        *)
MissInv == Straight(app) => \A m \in Msgs : MissOK(m)

(* Sockets stay closed.                                                    *)
LEMMA StaysClosed == ASSUME [Next]_vars, closed PROVE closed'
<1>1. CASE UNCHANGED vars
  BY <1>1 DEF vars
<1>2. CASE Close
  BY <1>2 DEF Close
<1>3. CASE \E m \in Msgs : Steps(m)
  BY <1>3, ClosedKept
<1> QED
  BY <1>1, <1>2, <1>3, NextIsSteps

(* What is to run has run or is before a context, for ever.                *)
LEMMA MissInvHolds == Spec => []MissInv
<1>1. Init => MissInv
  BY DEF Init, MissInv, MissOK
<1>2. ASSUME ChainInv, ChainInv', LockInv, SilentInv, ErrInv, OrderInv, MissInv, [Next]_vars
      PROVE  MissInv'
  <2>0. app' = app
    BY <1>2, AppFixed
  <2> SUFFICES ASSUME Straight(app), NEW m \in Msgs PROVE MissOK(m)'
    BY <2>0 DEF MissInv
  <2>1. TypeOK /\ MissOK(m) /\ ErrOK(m) /\ OrderOK(m)
    BY <1>2 DEF ChainInv, BaseInv, MissInv, ErrInv, OrderInv
  <2>2. CASE Steps(m)
    BY <1>2, <2>0, <2>1, <2>2, MissStep
  <2>3. CASE Untouched(m)
    <3>1. closed => closed'
      BY <1>2, StaysClosed
    <3>2. Good(m)' => Good(m)
      BY <2>0, <2>3, <3>1 DEF Good, Untouched
    <3> QED
      BY <2>0, <2>1, <2>3, <3>2 DEF Untouched, MissOK
  <2> QED
    BY <1>2, <2>1, <2>2, <2>3, StepCases
<1> QED
  BY <1>1, <1>2, ChainInvHolds, LockInvHolds, SilentInvHolds, ErrInvHolds, OrderInvHolds, PTL DEF Spec

(* In applications in which a message is led by its path, a chain that     *)
(* nobody stopped has run every handler that the path leads to, in however *)
(* many routers, and no other: a message's when each handler called Next   *)
(* and none failed, the open chain when none failed, the close chain in any*)
(* case.                                                                   *)
THEOREM NoneAreMissed ==
  ASSUME \A s \in Setups : Straight(s)
  PROVE  Spec => []NoneMissed
<1>1. ASSUME ChainInv, MissInv PROVE NoneMissed
  <2> SUFFICES ASSUME NEW m \in Msgs, ctl[m] = "ended", Good(m)
               PROVE  LET ways == Ways(ctxs[m][1].path) IN
                      /\ \A w \in ways : \E i \in 1..Len(seen[m].ran) : Along(seen[m].ran[i], w)
                      /\ \A i \in 1..Len(seen[m].ran) : \E w \in ways : Along(seen[m].ran[i], w)
    BY DEF NoneMissed, Good
  <2>1. app \in Setups /\ Shaped(app)
    BY <1>1, AppShaped DEF ChainInv, BaseInv, TypeOK
  <2>2. IsFiniteSet(Routers) /\ OnWay(app, ctl[m], ctxs[m], calls[m], seen[m].ran)
    BY <1>1, <2>1 DEF MissInv, MissOK, Straight
  <2>3. /\ Laid(app, ctxs[m]) /\ RanOK(app, ctxs[m], seen[m].ran) /\ Covers(app, ctxs[m], seen[m].ran)
        /\ Len(ctxs[m]) = 1 /\ Spent(app, ctxs[m][1])
    BY <2>2 DEF OnWay, Fresh
  <2>4. ASSUME NEW w \in Ways(ctxs[m][1].path)
        PROVE  \E i \in 1..Len(seen[m].ran) : Along(seen[m].ran[i], w)
    <3>1. IsWay(app, ctxs[m][1].path, w)
      BY <2>1, <2>2, WaysAre
    <3>2. ASSUME NEW i \in 1..Len(ctxs[m]) PROVE ~Pending(ctxs[m], i, w)
      <4>1. i = 1
        BY <2>3
      <4> QED
        BY <2>1, <2>3, <3>1, <4>1, NothingAtEnd DEF Spent
    <3> QED
      BY <2>3, <3>1, <3>2 DEF Covers, Done
  <2>5. ASSUME NEW i \in 1..Len(seen[m].ran)
        PROVE  \E w \in Ways(ctxs[m][1].path) : Along(seen[m].ran[i], w)
    <3>1. PICK way : IsWay(app, ctxs[m][1].path, way) /\ Along(seen[m].ran[i], way)
      BY <2>3 DEF RanOK
    <3> QED
      BY <2>1, <2>2, <3>1, WaysAre
  <2> QED
    BY <2>4, <2>5
<1> QED
  BY <1>1, ChainInvHolds, MissInvHolds, PTL
=============================================================================
