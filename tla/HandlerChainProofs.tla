------------------------- MODULE HandlerChainProofs -------------------------
(***************************************************************************)
(* What holds of the stacks of every goroutine of HandlerChain, in every   *)
(* application: the contexts and the calls belong together, contexts are at*)
(* sensible places of their chains, and the variables keep their types.    *)
(***************************************************************************)
EXTENDS HandlerChain, SequenceTheorems, WellFoundedInduction, TLAPS

(* The last element of a sequence, and the rest.                           *)
LEMMA FrontOf ==
  ASSUME NEW S, NEW s \in Seq(S), s # <<>>
  PROVE  /\ Len(s) \in Nat /\ Len(s) >= 1
         /\ Last(s) \in S /\ Last(s) = s[Len(s)]
         /\ Front(s) \in Seq(S)
         /\ Len(Front(s)) = Len(s) - 1
         /\ \A i \in 1..(Len(s) - 1) : Front(s)[i] = s[i]
<1>1. Len(s) \in Nat /\ Len(s) >= 1
  BY EmptySeq, LenProperties
<1>2. Last(s) \in S /\ Last(s) = s[Len(s)]
  BY <1>1, ElementOfSeq DEF Last
<1>3. \A i \in 1..(Len(s) - 1) : s[i] \in S
  BY <1>1, ElementOfSeq
<1>4. /\ SubSeq(s, 1, Len(s) - 1) \in Seq(S)
      /\ Len(SubSeq(s, 1, Len(s) - 1)) = IF 1 <= Len(s) - 1 THEN Len(s) - 1 - 1 + 1 ELSE 0
      /\ \A i \in 1..(Len(s) - 1 - 1 + 1) : SubSeq(s, 1, Len(s) - 1)[i] = s[1 + i - 1]
  BY <1>1, <1>3, SubSeqProperties
<1>5. (IF 1 <= Len(s) - 1 THEN Len(s) - 1 - 1 + 1 ELSE 0) = Len(s) - 1
  <2> PICK n \in Nat : n = Len(s) /\ n >= 1
    BY <1>1
  <2> QED OBVIOUS
<1>7. \A i \in 1..(Len(s) - 1) : i \in 1..(Len(s) - 1 - 1 + 1) /\ 1 + i - 1 = i
  BY <1>1
<1> QED
  BY <1>1, <1>2, <1>4, <1>5, <1>7 DEF Front

(* A sequence with an element put at its end.                              *)
LEMMA Appended ==
  ASSUME NEW S, NEW s \in Seq(S), NEW x \in S
  PROVE  /\ Append(s, x) \in Seq(S) /\ Append(s, x) # <<>>
         /\ Len(Append(s, x)) = Len(s) + 1
         /\ \A i \in 1..Len(s) : Append(s, x)[i] = s[i]
         /\ Append(s, x)[Len(s) + 1] = x
         /\ Last(Append(s, x)) = x
         /\ Front(Append(s, x)) = s
<1> DEFINE t == Append(s, x)
<1>1. /\ t \in Seq(S) /\ t # <<>>
      /\ Len(t) = Len(s) + 1
      /\ \A i \in 1..Len(s) : t[i] = s[i]
      /\ t[Len(s) + 1] = x
  BY AppendProperties
<1>2. Len(s) \in Nat
  BY LenProperties
<1>3. Last(t) = x
  BY <1>1 DEF Last
<1>4. /\ Front(t) \in Seq(S)
      /\ Len(Front(t)) = Len(t) - 1
      /\ \A i \in 1..(Len(t) - 1) : Front(t)[i] = t[i]
  BY <1>1, FrontOf
<1>5. Len(Front(t)) = Len(s)
  BY <1>1, <1>2, <1>4
<1>6. \A i \in 1..Len(s) : Front(t)[i] = s[i]
  BY <1>1, <1>2, <1>4
<1>7. Front(t) = s
  BY <1>4, <1>5, <1>6, SeqEqual
<1> QED
  BY <1>1, <1>3, <1>7

(* The last element of a sequence is replaced                              *)
LEMMA LastReplaced ==
  ASSUME NEW S, NEW s \in Seq(S), s # <<>>, NEW x \in S
  PROVE  LET t == Append(Front(s), x) IN
         /\ t \in Seq(S) /\ t # <<>>
         /\ Len(t) = Len(s)
         /\ \A i \in 1..(Len(s) - 1) : t[i] = s[i]
         /\ t[Len(s)] = x
         /\ Last(t) = x
         /\ Front(t) = Front(s)
<1>1. /\ Len(s) \in Nat /\ Len(s) >= 1
      /\ Front(s) \in Seq(S)
      /\ Len(Front(s)) = Len(s) - 1
      /\ \A i \in 1..(Len(s) - 1) : Front(s)[i] = s[i]
  BY FrontOf
<1> DEFINE t == Append(Front(s), x)
<1>2. /\ t \in Seq(S) /\ t # <<>>
      /\ Len(t) = Len(Front(s)) + 1
      /\ \A i \in 1..Len(Front(s)) : t[i] = Front(s)[i]
      /\ t[Len(Front(s)) + 1] = x
      /\ Last(t) = x
      /\ Front(t) = Front(s)
  BY <1>1, Appended
<1> HIDE DEF t
<1>3. Len(t) = Len(s) /\ t[Len(s)] = x
  BY <1>1, <1>2
<1>4. \A i \in 1..(Len(s) - 1) : t[i] = s[i]
  BY <1>1, <1>2
<1> QED
  BY <1>2, <1>3, <1>4 DEF t

(* A set of numbers that is not empty has a least one.                     *)
LEMMA MinOf ==
  ASSUME NEW S \in SUBSET Nat, S # {}
  PROVE  /\ Min(S) \in S
         /\ \A y \in S : Min(S) <= y
<1> DEFINE R == {ss \in Nat \X Nat : ss[1] < ss[2]}
<1>0. IsWellFoundedOn(R, Nat)
  BY NatLessThanWellFounded DEF OpToRel
<1>1. \E x \in S : \A y \in S : ~(<<y, x>> \in R)
  <2> HIDE DEF R
  <2> QED BY <1>0, WFMin
<1>2. PICK x \in S : \A y \in S : ~(<<y, x>> \in R)
  BY <1>1
<1>3. ASSUME NEW y \in S PROVE x <= y
  <2>1. x \in Nat /\ y \in Nat
    OBVIOUS
  <2>2. ~(y < x)
    BY <1>2, <2>1
  <2> QED
    BY <2>1, <2>2
<1>4. \E z \in S : \A y \in S : z <= y
  BY <1>3
<1> QED
  BY <1>4 DEF Min

-----------------------------------------------------------------------------
(* What HandlerChainAssumption says of the application at hand.            *)
LEMMA AppOK ==
  ASSUME app \in Setups, NEW r \in Routers
  PROVE  /\ app.kind \in Kinds
         /\ app.chain[r] \in Seq(Node)
         /\ \A n \in 1..Len(app.chain[r]) : app.chain[r][n].handlers \in Seq(Handlers) /\ app.chain[r][n].handlers # <<>>
         /\ app.sent \subseteq Frame
<1>1. IsSetup(app)
  BY HandlerChainAssumption
<1>2. app.chain[r] \in Seq(Node) /\ DOMAIN app.chain[r] = 1..Len(app.chain[r])
  BY <1>1, LenProperties DEF IsSetup
<1>3. ASSUME NEW n \in 1..Len(app.chain[r])
      PROVE app.chain[r][n].handlers \in Seq(Handlers) /\ app.chain[r][n].handlers # <<>>
  <2>1. app.chain[r][n] \in Node
    BY <1>2, ElementOfSeq
  <2> QED
    BY <1>1, <1>2, <2>1 DEF IsSetup, Node
<1> QED
  BY <1>1, <1>2, <1>3 DEF IsSetup

(* A new context is a context.                                             *)
LEMMA NewContextType == NewContext \in Context
BY HandlerChainAssumption DEF NewContext, Context, Mutex

(* So is one of a mounted router,                                          *)
LEMMA SubContextType ==
  ASSUME NEW c \in Context, NEW r \in Routers
  PROVE  SubContext(c, r) \in Context
<1>1. c.at \o <<c.node, c.index>> \in Seq(Nat)
  <2>1. c.at \in Seq(Nat) /\ <<c.node, c.index>> \in Seq(Nat)
    BY DEF Context
  <2> QED
    BY <2>1, ConcatProperties
<1> QED
  BY <1>1 DEF SubContext, Context, Mutex

(* and one whose place was cleared.                                        *)
LEMMA ClearedType ==
  ASSUME app \in Setups, NEW c \in Context
  PROVE  Cleared(c) \in Context
<1>1. c.router \in Routers
  BY DEF Context
<1>2. Len(Chain(c)) + 1 \in Nat
  BY <1>1, AppOK, LenProperties DEF Chain
<1> QED
  BY <1>2 DEF Cleared, Context

-----------------------------------------------------------------------------
(* A context is at a node of its chain or at the end; a node that matches  *)
(* matches its path and has left its parameters; a mutex is left locked    *)
(* only without a message.                                                 *)
CtxOK(a, c) ==
    LET chain == a.chain[c.router] IN
    /\ c.node \in 1..(Len(chain) + 1)
    /\ c.matches => c.node <= Len(chain) /\ c.index <= Len(chain[c.node].handlers)
    /\ ~c.matches => c.index = 0
    /\ c.matches /\ ~c.setPath =>
         /\ c.path \in chain[c.node].on
         /\ a.kind = "normal" => c.params = <<c.router, c.node, c.path>>
    /\ c.mu # "free" => c.gone
    /\ c.beyond => c.node > Len(chain)

(* What the walk leaves alone.                                             *)
Kept(c, d) ==
    /\ d.router = c.router /\ d.at = c.at /\ d.path = c.path /\ d.id = c.id
    /\ d.gone = c.gone /\ d.chan = c.chan /\ d.owns = c.owns /\ d.beyond = c.beyond
    /\ d.error = c.error /\ d.codec = c.codec /\ d.values = c.values /\ d.mu = c.mu

(* The chain of a context: nodes, each with handlers.                      *)
LEMMA ChainOf ==
  ASSUME app \in Setups, NEW c \in Context
  PROVE  /\ Chain(c) \in Seq(Node) /\ Len(Chain(c)) \in Nat
         /\ \A n \in 1..Len(Chain(c)) :
              Chain(c)[n].handlers \in Seq(Handlers) /\ Len(Chain(c)[n].handlers) \in Nat
              /\ Len(Chain(c)[n].handlers) >= 1
<1>1. c.router \in Routers
  BY DEF Context
<1>2. Chain(c) \in Seq(Node) /\ Len(Chain(c)) \in Nat
  BY <1>1, AppOK, LenProperties DEF Chain
<1>3. ASSUME NEW n \in 1..Len(Chain(c))
      PROVE Chain(c)[n].handlers \in Seq(Handlers) /\ Len(Chain(c)[n].handlers) \in Nat
              /\ Len(Chain(c)[n].handlers) >= 1
  <2>1. Chain(c)[n].handlers \in Seq(Handlers) /\ Chain(c)[n].handlers # <<>>
    BY <1>1, AppOK DEF Chain
  <2>2. Len(Chain(c)[n].handlers) \in Nat /\ Len(Chain(c)[n].handlers) # 0
    BY <2>1, LenProperties, EmptySeq
  <2> QED
    BY <2>1, <2>2
<1> QED
  BY <1>2, <1>3

(* Ahead has the handlers behind the context, of nodes that match, and no  *)
(* others.                                                                 *)
LEMMA AheadOf ==
  ASSUME app \in Setups, NEW c \in Context
  PROVE  /\ \A n \in 1..Len(Chain(c)) : \A i \in 1..Len(Chain(c)[n].handlers) :
              c.path \in Chain(c)[n].on /\ Before(<<c.node, c.index>>, <<n, i>>)
                => <<n, i>> \in Ahead(c)
         /\ \A p \in Ahead(c) :
              /\ \E n \in 1..Len(Chain(c)) : \E i \in 1..Len(Chain(c)[n].handlers) :
                    c.path \in Chain(c)[n].on /\ p = <<n, i>>
              /\ Before(<<c.node, c.index>>, p)
<1>1. Chain(c) \in Seq(Node) /\ DOMAIN Chain(c) = 1..Len(Chain(c))
  BY ChainOf, LenProperties
<1>2. \A n \in 1..Len(Chain(c)) : DOMAIN Chain(c)[n].handlers = 1..Len(Chain(c)[n].handlers)
  BY ChainOf, LenProperties
<1> QED
  BY <1>1, <1>2, SMTT(40) DEF Ahead, Places, Chain

(* A cleared context is at the end of its chain, and else the same.        *)
LEMMA ClearedFacts ==
  ASSUME app \in Setups, NEW c \in Context, c.mu # "free" => c.gone
  PROVE  /\ Cleared(c) \in Context /\ Kept(c, Cleared(c)) /\ CtxOK(app, Cleared(c))
         /\ AtEnd(Cleared(c)) /\ Cleared(c).setPath = c.setPath
<1>1. Len(Chain(c)) \in Nat
  BY ChainOf
<1>2. Cleared(c) \in Context
  BY ClearedType
<1>3. Kept(c, Cleared(c)) /\ Cleared(c).setPath = c.setPath
  BY DEF Kept, Cleared, Context
<1>4. /\ Cleared(c).node = Len(Chain(c)) + 1 /\ Cleared(c).matches = FALSE
      /\ Cleared(c).index = 0
      /\ Chain(Cleared(c)) = Chain(c)
  BY DEF Cleared, Chain, Context
<1> QED
  BY <1>1, <1>2, <1>3, <1>4 DEF CtxOK, AtEnd, Kept, Chain, NodeOf

(* When the path was set, the node is left only if it does not match any   *)
(* more.                                                                   *)
LEMMA RecheckFacts ==
  ASSUME app \in Setups, NEW c \in Context, CtxOK(app, c)
  PROVE  LET d == Recheck(c) IN
         /\ d \in Context /\ Kept(c, d) /\ d.setPath = FALSE
         /\ \/ /\ d.node = c.node /\ d.index = c.index /\ d.matches = c.matches
               /\ c.matches => c.path \in NodeOf(c).on
               /\ c.matches /\ app.kind = "normal" => d.params = <<c.router, c.node, c.path>>
            \/ /\ c.matches /\ c.path \notin NodeOf(c).on
               /\ d.node = c.node + 1 /\ d.index = 0 /\ d.matches = FALSE
<1>1. Len(Chain(c)) \in Nat
  BY ChainOf
<1> DEFINE d == Recheck(c)
<1>2. CASE ~(c.setPath /\ c.matches)
  <2>1. d = [c EXCEPT !.setPath = FALSE]
    BY <1>2 DEF Recheck
  <2>2. d \in Context
    BY <2>1 DEF Context
  <2>3. Kept(c, d) /\ d.setPath = FALSE /\ d.params = c.params
        /\ d.node = c.node /\ d.index = c.index /\ d.matches = c.matches
    BY <2>1 DEF Kept, Context
  <2> QED
    BY <1>2, <2>2, <2>3 DEF CtxOK, Chain, NodeOf, AtEnd
<1>3. CASE c.setPath /\ c.matches /\ c.path \in NodeOf(c).on
  <2>1. d = [c EXCEPT !.setPath = FALSE, !.params = Matched(c, c.node)]
    BY <1>3 DEF Recheck
  <2>2. Matched(c, c.node) \in {<<>>} \cup (Routers \X Nat \X (Paths \cup {NoPath}))
    BY DEF Matched, Context
  <2>3. d \in Context
    BY <2>1, <2>2 DEF Context
  <2>4. Kept(c, d) /\ d.setPath = FALSE /\ d.params = Matched(c, c.node)
        /\ d.node = c.node /\ d.index = c.index /\ d.matches = c.matches
    BY <2>1 DEF Kept, Context
  <2> QED
    BY <1>3, <2>3, <2>4 DEF Matched
<1>4. CASE c.setPath /\ c.matches /\ c.path \notin NodeOf(c).on
  <2>1. d = [c EXCEPT !.setPath = FALSE, !.node = @ + 1, !.matches = FALSE, !.index = 0]
    BY <1>4 DEF Recheck
  <2>2. d \in Context
    <3>1. PICK n \in Nat : n = c.node + 1
      BY DEF Context
    <3>2. d = [c EXCEPT !.setPath = FALSE, !.node = n, !.matches = FALSE, !.index = 0]
      BY <2>1, <3>1
    <3>3. [c EXCEPT !.setPath = FALSE, !.node = n, !.matches = FALSE, !.index = 0] \in Context
      BY DEF Context
    <3> QED
      BY <3>2, <3>3
  <2>3. Kept(c, d) /\ d.setPath = FALSE
        /\ d.node = c.node + 1 /\ d.index = 0 /\ d.matches = FALSE
    BY <2>1 DEF Kept, Context
  <2> QED
    BY <1>4, <2>2, <2>3
<1> QED
  BY <1>2, <1>3, <1>4

(* The walk comes to the first handler ahead, or else to the end.          *)
LEMMA WalkFacts ==
  ASSUME app \in Setups, NEW c \in Context, CtxOK(app, c)
  PROVE  LET d == Walk(c) IN
         /\ d \in Context /\ Kept(c, d) /\ CtxOK(app, d) /\ d.setPath = FALSE
         /\ AtEnd(d) => Ahead(c) = {}
         /\ ~AtEnd(d) =>
              /\ d.matches /\ d.node \in 1..Len(Chain(c))
              /\ d.index + 1 \in 1..Len(NodeOf(d).handlers)
              /\ <<d.node, d.index + 1>> \in Ahead(c)
              /\ \A p \in Ahead(c) : ~Before(p, <<d.node, d.index + 1>>)
<1> DEFINE r == Recheck(c)
           first == IF r.matches THEN r.node + 1 ELSE r.node
           ahead == {n \in first..Len(Chain(r)) : r.path \in Chain(r)[n].on}
           d == Walk(c)
<1>1. /\ Len(Chain(c)) \in Nat
      /\ \A n \in 1..Len(Chain(c)) :
           Len(Chain(c)[n].handlers) \in Nat /\ Len(Chain(c)[n].handlers) >= 1
  BY ChainOf
<1>2. /\ r \in Context /\ Kept(c, r) /\ r.setPath = FALSE
      /\ \/ /\ r.node = c.node /\ r.index = c.index /\ r.matches = c.matches
            /\ c.matches => c.path \in NodeOf(c).on
            /\ c.matches /\ app.kind = "normal" => r.params = <<c.router, c.node, c.path>>
         \/ /\ c.matches /\ c.path \notin NodeOf(c).on
            /\ r.node = c.node + 1 /\ r.index = 0 /\ r.matches = FALSE
  BY RecheckFacts
<1>3. /\ Chain(r) = Chain(c) /\ r.path = c.path /\ r.router = c.router
  BY <1>2 DEF Chain, Kept
<1>4. r.node \in Nat /\ r.index \in Nat /\ c.node \in Nat /\ c.index \in Nat /\ r.matches \in BOOLEAN
      /\ c.matches \in BOOLEAN /\ c.node >= 1
  BY <1>2 DEF Context, CtxOK, Chain, NodeOf, AtEnd
<1>5. d = IF MoreHandlers(r) THEN r ELSE IF ahead = {} THEN Cleared(r)
          ELSE [r EXCEPT !.node = Min(ahead), !.index = 0, !.matches = TRUE,
                         !.params = Matched(r, Min(ahead))]
  BY DEF Walk
<1>6. r.mu # "free" => r.gone
  BY <1>2 DEF Kept, CtxOK, Chain, NodeOf, AtEnd
<1>7. c.beyond => c.node = Len(Chain(c)) + 1 /\ ~c.matches
  BY <1>1, <1>4 DEF CtxOK, AtEnd, Chain, NodeOf
<1>8. /\ \A n \in 1..Len(Chain(c)) : \A i \in 1..Len(Chain(c)[n].handlers) :
           c.path \in Chain(c)[n].on /\ Before(<<c.node, c.index>>, <<n, i>>)
             => <<n, i>> \in Ahead(c)
      /\ \A p \in Ahead(c) :
           /\ \E n \in 1..Len(Chain(c)) : \E i \in 1..Len(Chain(c)[n].handlers) :
                 c.path \in Chain(c)[n].on /\ p = <<n, i>>
           /\ Before(<<c.node, c.index>>, p)
  BY AheadOf
<1>9. CASE MoreHandlers(r)
  <2>1. d = r /\ r.matches /\ r.index < Len(NodeOf(r).handlers)
    BY <1>5, <1>9 DEF MoreHandlers
  <2>2. r.node = c.node /\ r.index = c.index /\ c.matches /\ c.path \in NodeOf(c).on
    BY <1>2, <2>1
  <2>3. NodeOf(r) = Chain(c)[c.node] /\ NodeOf(c) = Chain(c)[c.node] /\ c.node <= Len(Chain(c))
    BY <1>3, <2>2 DEF NodeOf, CtxOK, Chain, AtEnd
  <2>4. CtxOK(app, r)
    <3>1. r.beyond => AtEnd(r)
      BY <1>7, <1>2, <2>2 DEF Kept
    <3>2. r.params = <<r.router, r.node, r.path>> \/ app.kind # "normal"
      BY <1>2, <1>3, <2>2
    <3> QED
      BY <1>1, <1>2, <1>3, <1>4, <1>6, <2>1, <2>2, <2>3, <3>1, <3>2 DEF CtxOK, Chain, NodeOf, AtEnd
  <2>5. r.index + 1 \in 1..Len(NodeOf(r).handlers) /\ r.node \in 1..Len(Chain(c))
    BY <1>1, <1>4, <2>1, <2>2, <2>3
  <2>6. <<r.node, r.index + 1>> \in Ahead(c)
    BY <1>4, <1>8, <2>2, <2>3, <2>5 DEF Before
  <2>7. ASSUME NEW p \in Ahead(c) PROVE ~Before(p, <<r.node, r.index + 1>>)
    BY <1>1, <1>4, <1>8, <2>2 DEF Before
  <2>8. ~AtEnd(r)
    BY <1>3, <1>1, <2>5 DEF AtEnd
  <2> QED
    BY <1>2, <2>1, <2>4, <2>5, <2>6, <2>7, <2>8
<1>10. ASSUME ~MoreHandlers(r), NEW n \in 1..Len(Chain(c)), NEW i \in 1..Len(Chain(c)[n].handlers),
              c.path \in Chain(c)[n].on, Before(<<c.node, c.index>>, <<n, i>>)
       PROVE n \in ahead
  <2>1. n > c.node \/ (n = c.node /\ i > c.index)
    BY <1>4, <1>10 DEF Before
  <2>2. ASSUME r.matches PROVE r.index >= Len(NodeOf(r).handlers)
    <3>1. c.matches /\ r.node = c.node /\ r.index = c.index
      BY <1>2, <2>2
    <3>2. c.node \in 1..Len(Chain(c))
      BY <1>1, <1>4, <3>1 DEF CtxOK, Chain
    <3>3. NodeOf(r) = Chain(c)[c.node]
      BY <1>3, <3>1 DEF NodeOf
    <3>4. Len(NodeOf(r).handlers) \in Nat
      BY <1>1, <3>2, <3>3
    <3>5. ~(r.index < Len(NodeOf(r).handlers))
      BY <1>10, <2>2 DEF MoreHandlers
    <3> QED
      BY <1>4, <3>4, <3>5
  <2>3. n >= first
    <3>1. CASE r.matches
      <4>1. r.node = c.node /\ r.index = c.index /\ NodeOf(r) = Chain(c)[c.node]
        BY <1>2, <1>3, <3>1 DEF NodeOf
      <4>2. n # c.node
        BY <1>1, <1>4, <2>1, <2>2, <3>1, <4>1
      <4> QED
        BY <1>4, <2>1, <3>1, <4>1, <4>2
    <3>2. CASE ~r.matches
      <4>1. n # c.node \/ r.node = c.node
        BY <1>2, <1>10 DEF NodeOf
      <4>2. r.node = c.node \/ r.node = c.node + 1
        BY <1>2
      <4> QED
        BY <1>4, <2>1, <3>2, <4>1, <4>2
    <3> QED
      BY <3>1, <3>2
  <2>4. first \in Nat
    BY <1>4
  <2> QED
    BY <1>1, <1>3, <1>10, <2>3, <2>4
<1>11. CASE ~MoreHandlers(r) /\ ahead = {}
  <2>1. d = Cleared(r)
    BY <1>5, <1>11
  <2>2. d \in Context /\ Kept(r, d) /\ CtxOK(app, d) /\ AtEnd(d) /\ d.setPath = FALSE
    BY <1>2, <1>6, <2>1, ClearedFacts
  <2>3. Kept(c, d)
    BY <1>2, <2>2 DEF Kept
  <2>4. Ahead(c) = {}
    BY <1>8, <1>10, <1>11
  <2> QED
    BY <2>2, <2>3, <2>4
<1>12. CASE ~MoreHandlers(r) /\ ahead # {}
  <2> DEFINE n0 == Min(ahead)
  <2>1. d = [r EXCEPT !.node = n0, !.index = 0, !.matches = TRUE, !.params = Matched(r, n0)]
    BY <1>5, <1>12
  <2>2. first \in Nat /\ first >= 1 /\ first >= c.node
    BY <1>2, <1>4
  <2>3. ahead \in SUBSET Nat
    BY <1>1, <1>3, <2>2
  <2>4. n0 \in ahead /\ \A y \in ahead : n0 <= y
    BY <1>12, <2>3, MinOf
  <2>5. n0 \in 1..Len(Chain(c)) /\ c.path \in Chain(c)[n0].on /\ n0 >= first
    BY <1>1, <1>3, <2>2, <2>4
  <2> HIDE DEF n0, ahead, first
  <2>6. Matched(r, n0) \in {<<>>} \cup (Routers \X Nat \X (Paths \cup {NoPath}))
    BY <1>2, <2>5 DEF Matched, Context
  <2>7. d \in Context
    <3>1. n0 \in Nat
      BY <2>5
    <3>2. PICK ps \in {<<>>} \cup (Routers \X Nat \X (Paths \cup {NoPath})) : ps = Matched(r, n0)
      BY <2>6
    <3>3. d = [r EXCEPT !.node = n0, !.index = 0, !.matches = TRUE, !.params = ps]
      BY <2>1, <3>2
    <3>4. r \in Context
      BY <1>2
    <3> HIDE DEF r, d
    <3> QED
      BY <3>1, <3>3, <3>4 DEF Context
  <2>8. Kept(r, d) /\ d.setPath = FALSE /\ d.node = n0 /\ d.index = 0 /\ d.matches = TRUE
        /\ d.params = Matched(r, n0)
    BY <1>2, <2>1 DEF Kept, Context
  <2>9. Kept(c, d)
    BY <1>2, <2>8 DEF Kept
  <2>10. Chain(d) = Chain(c) /\ NodeOf(d) = Chain(c)[n0]
    BY <2>8, <2>9 DEF Kept, Chain, NodeOf
  <2>11. ~c.beyond
    <3>1. c.beyond => n0 > Len(Chain(c))
      BY <1>1, <1>2, <1>4, <1>7, <2>5 DEF first
    <3> QED
      BY <1>1, <2>5, <3>1 DEF Context
  <2>12. CtxOK(app, d)
    <3>1. d.mu # "free" => d.gone
      BY <1>6, <2>8 DEF Kept
    <3>2. ~d.beyond
      BY <2>9, <2>11 DEF Kept
    <3>3. app.kind = "normal" => d.params = <<d.router, d.node, d.path>>
      BY <1>3, <2>8, <2>9 DEF Matched, Kept
    <3>4. d.path \in NodeOf(d).on
      BY <2>5, <2>9, <2>10 DEF Kept
    <3>5. d.node \in 1..(Len(Chain(d)) + 1) /\ d.node <= Len(Chain(d)) /\ d.index <= Len(NodeOf(d).handlers)
      BY <1>1, <2>5, <2>8, <2>10
    <3> QED
      BY <2>8, <3>1, <3>2, <3>3, <3>4, <3>5 DEF CtxOK, Chain, NodeOf, AtEnd
  <2>13. ~AtEnd(d)
    BY <1>1, <2>5, <2>8, <2>10 DEF AtEnd
  <2>14. d.index + 1 \in 1..Len(NodeOf(d).handlers) /\ d.node \in 1..Len(Chain(c))
    BY <1>1, <2>5, <2>8, <2>10
  <2>15. Before(<<c.node, c.index>>, <<n0, 1>>)
    <3>1. n0 > c.node \/ (n0 = c.node /\ c.index = 0)
      <4>1. CASE r.matches
        BY <1>2, <1>4, <2>5, <4>1 DEF first
      <4>2. CASE ~r.matches
        <5>1. r.node = c.node + 1 \/ (r.node = c.node /\ c.matches = FALSE)
          BY <1>2, <4>2
        <5>2. c.matches = FALSE => c.index = 0
          BY DEF CtxOK, Chain, NodeOf, AtEnd
        <5> QED
          BY <1>4, <2>5, <4>2, <5>1, <5>2 DEF first
      <4> QED
        BY <4>1, <4>2
    <3> QED
      BY <1>1, <1>4, <2>5, <3>1 DEF Before
  <2>16. <<d.node, d.index + 1>> \in Ahead(c)
    BY <1>1, <1>8, <2>5, <2>8, <2>15
  <2>17. ASSUME NEW p \in Ahead(c) PROVE ~Before(p, <<d.node, d.index + 1>>)
    <3>1. PICK n \in 1..Len(Chain(c)) : \E i \in 1..Len(Chain(c)[n].handlers) :
              c.path \in Chain(c)[n].on /\ p = <<n, i>>
      BY <1>8
    <3>2. PICK i \in 1..Len(Chain(c)[n].handlers) : c.path \in Chain(c)[n].on /\ p = <<n, i>>
      BY <3>1
    <3>3. n0 <= n
      BY <1>8, <1>10, <1>12, <2>4, <3>2
    <3> QED
      BY <1>1, <2>5, <2>8, <3>2, <3>3 DEF Before
  <2> QED
    BY <2>7, <2>8, <2>9, <2>12, <2>13, <2>14, <2>16, <2>17
<1> QED
  BY <1>9, <1>11, <1>12

-----------------------------------------------------------------------------
(* Moves of the two stacks                                                 *)

(* Contexts that differ in error and values only.                          *)
SamePlace(c, d) ==
    /\ d.router = c.router /\ d.at = c.at /\ d.node = c.node /\ d.index = c.index
    /\ d.matches = c.matches /\ d.params = c.params /\ d.path = c.path
    /\ d.setPath = c.setPath /\ d.id = c.id /\ d.gone = c.gone /\ d.chan = c.chan
    /\ d.owns = c.owns /\ d.beyond = c.beyond /\ d.codec = c.codec /\ d.mu = c.mu

(* What a parent is when a context below it has told it                    *)
Told(p, c) ==
    [p EXCEPT !.error = c.error,
              !.values = [k \in Keys |-> IF c.values[k] = None THEN @[k] ELSE c.values[k]]]

(* A parent that is told keeps its place.                                  *)
LEMMA ToldFacts ==
  ASSUME NEW p \in Context, NEW c \in Context
  PROVE  /\ Told(p, c) \in Context
         /\ SamePlace(p, Told(p, c))
         /\ Told(p, c).error = c.error
         /\ \A k \in Keys : Told(p, c).values[k] = IF c.values[k] = None THEN p.values[k] ELSE c.values[k]
<1> DEFINE v == [k \in Keys |-> IF c.values[k] = None THEN p.values[k] ELSE c.values[k]]
<1>1. v \in [Keys -> Vals \cup {None}]
  BY DEF Context
<1>2. Told(p, c) = [p EXCEPT !.error = c.error, !.values = v]
  BY DEF Told
<1>3. c.error \in BOOLEAN
  BY DEF Context
<1> HIDE DEF v
<1>4. Told(p, c) \in Context
  BY <1>1, <1>2, <1>3 DEF Context
<1>5. SamePlace(p, Told(p, c)) /\ Told(p, c).error = c.error /\ Told(p, c).values = v
  BY <1>2 DEF SamePlace, Context
<1> QED
  BY <1>4, <1>5 DEF v

(* tryUpdateParent changes the last context only.                          *)
LEMMA UpdateParentFacts ==
  ASSUME NEW s \in Seq(Context), NEW c \in Context
  PROVE  LET t == UpdateParent(s, c) IN
         /\ t \in Seq(Context) /\ Len(t) = Len(s)
         /\ \A i \in 1..(Len(s) - 1) : t[i] = s[i]
         /\ s # <<>> => t[Len(s)] = Told(s[Len(s)], c)
<1>1. CASE s = <<>>
  <2>1. UpdateParent(s, c) = s /\ Len(s) = 0
    BY <1>1 DEF UpdateParent
  <2> QED
    BY <1>1, <2>1
<1>2. CASE s # <<>>
  <2>1. Last(s) \in Context /\ Last(s) = s[Len(s)]
    BY <1>2, FrontOf
  <2>2. UpdateParent(s, c) = Append(Front(s), Told(Last(s), c))
    BY <1>2 DEF UpdateParent, Told
  <2>3. Told(Last(s), c) \in Context
    BY <2>1, ToldFacts
  <2> QED
    BY <1>2, <2>1, <2>2, <2>3, LastReplaced
<1> QED
  BY <1>1, <1>2

(* s2 is s, cut off at some length, with c put at its end                  *)
Topped(s, s2, c) ==
    /\ s2 \in Seq(Context) /\ Len(s2) \in 1..Len(s)
    /\ s2[Len(s2)] = c /\ c \in Context /\ c.router = s[Len(s2)].router
    /\ \A i \in 1..(Len(s2) - 1) : SamePlace(s[i], s2[i])

(* Of course.                                                              *)
LEMMA SamePlaceRefl == ASSUME NEW c PROVE SamePlace(c, c)
BY DEF SamePlace

(* what a context tells its parent                                         *)
LEMMA ToldMove ==
  ASSUME NEW s \in Seq(Context), NEW c \in Context
  PROVE  LET t == Append(UpdateParent(s, c), c) IN
         /\ t \in Seq(Context) /\ Len(t) = Len(s) + 1 /\ t[Len(t)] = c
         /\ \A i \in 1..(Len(s) - 1) : t[i] = s[i]
         /\ \A i \in 1..Len(s) : SamePlace(s[i], t[i])
         /\ s # <<>> => t[Len(s)] = Told(s[Len(s)], c)
<1> DEFINE u == UpdateParent(s, c)
           t == Append(u, c)
<1>1. /\ u \in Seq(Context) /\ Len(u) = Len(s)
      /\ \A i \in 1..(Len(s) - 1) : u[i] = s[i]
      /\ s # <<>> => u[Len(s)] = Told(s[Len(s)], c)
  BY UpdateParentFacts
<1> HIDE DEF u
<1>2. /\ t \in Seq(Context) /\ Len(t) = Len(u) + 1 /\ t[Len(u) + 1] = c
      /\ \A i \in 1..Len(u) : t[i] = u[i]
  BY <1>1, Appended
<1> HIDE DEF t
<1>3. Len(s) \in Nat
  BY LenProperties
<1>4. s # <<>> => Len(s) >= 1
  BY FrontOf
<1>5. \A i \in 1..(Len(s) - 1) : t[i] = s[i]
  BY <1>1, <1>2, <1>3
<1>6. s # <<>> => t[Len(s)] = Told(s[Len(s)], c)
  BY <1>1, <1>2, <1>3, <1>4
<1>7. ASSUME NEW i \in 1..Len(s) PROVE SamePlace(s[i], t[i])
  <2>1. s # <<>> /\ s[i] \in Context
    BY <1>3, ElementOfSeq
  <2>2. CASE i = Len(s)
    BY <1>6, <2>1, <2>2, ToldFacts
  <2>3. CASE i # Len(s)
    BY <1>3, <1>5, <2>3, SamePlaceRefl
  <2> QED
    BY <2>2, <2>3
<1>8. Len(t) = Len(s) + 1 /\ t[Len(t)] = c /\ t \in Seq(Context)
  BY <1>1, <1>2
<1> QED
  BY <1>5, <1>6, <1>7, <1>8 DEF t, u

(* The empty sequence is the one of length 0.                              *)
LEMMA EmptyOrNot ==
  ASSUME NEW S, NEW s \in Seq(S)
  PROVE  Len(s) \in Nat /\ (s = <<>> <=> Len(s) = 0)
BY EmptySeq, LenProperties

(* A handler on the stack                                                  *)
CallType == [h : Handlers, nexts : 0..2, ctx : Nat]

(* Put changes the innermost context.                                      *)
LEMMA PutMove ==
  ASSUME ctxs \in [Msgs -> Seq(Context)], NEW m \in Msgs, ctxs[m] # <<>>,
         NEW c \in Context, Put(m, c), c.router = Cur(m).router
  PROVE  /\ ctxs' \in [Msgs -> Seq(Context)]
         /\ Topped(ctxs[m], ctxs'[m], c)
         /\ Len(ctxs'[m]) = Len(ctxs[m])
         /\ \A i \in 1..(Len(ctxs[m]) - 1) : ctxs'[m][i] = ctxs[m][i]
         /\ \A x \in Msgs \ {m} : ctxs'[x] = ctxs[x]
<1> DEFINE s == ctxs[m]
           t == Append(Front(s), c)
<1>1. s \in Seq(Context) /\ s # <<>>
  OBVIOUS
<1>2. ctxs' = [ctxs EXCEPT ![m] = t]
  BY DEF Put
<1>3. Len(s) \in Nat /\ Len(s) >= 1 /\ Cur(m) = s[Len(s)]
  BY <1>1, FrontOf DEF Cur
<1>4. /\ t \in Seq(Context) /\ Len(t) = Len(s) /\ t[Len(s)] = c
      /\ \A i \in 1..(Len(s) - 1) : t[i] = s[i]
  BY <1>1, LastReplaced
<1> HIDE DEF t
<1>5. ctxs'[m] = t /\ ctxs' \in [Msgs -> Seq(Context)]
  BY <1>2, <1>4
<1> HIDE DEF s
<1>6. Topped(s, t, c)
  BY <1>3, <1>4, SamePlaceRefl DEF Topped, s
<1> QED
  BY <1>2, <1>4, <1>5, <1>6 DEF s

(* When Next returns, the innermost context has moved, and the one below   *)
(* is told.                                                                *)
LEMMA NextReturnsMove ==
  ASSUME app \in Setups, ctxs \in [Msgs -> Seq(Context)], NEW m \in Msgs, ctxs[m] # <<>>,
         NEW c \in Context, NEW rest, NextReturns(m, c, rest), c.router = Cur(m).router,
         CtxOK(app, c)
  PROVE  LET c1 == IF ctl[m] = "auto" THEN Cleared(c) ELSE c IN
         /\ ctxs' \in [Msgs -> Seq(Context)]
         /\ Topped(ctxs[m], ctxs'[m], c1) /\ CtxOK(app, c1)
         /\ Len(ctxs'[m]) = Len(ctxs[m])
         /\ \A i \in 1..(Len(ctxs[m]) - 2) : ctxs'[m][i] = ctxs[m][i]
         /\ Len(ctxs[m]) > 1 =>
              ctxs'[m][Len(ctxs[m]) - 1] = Told(ctxs[m][Len(ctxs[m]) - 1], c1)
         /\ \A x \in Msgs \ {m} : ctxs'[x] = ctxs[x]
<1> DEFINE s == ctxs[m]
           c1 == IF ctl[m] = "auto" THEN Cleared(c) ELSE c
           t == Append(UpdateParent(Front(s), c1), c1)
<1>1. s \in Seq(Context) /\ s # <<>>
  OBVIOUS
<1>2. ctxs' = [ctxs EXCEPT ![m] = t]
  BY DEF NextReturns
<1>3. /\ Len(s) \in Nat /\ Len(s) >= 1 /\ Cur(m) = s[Len(s)]
      /\ Front(s) \in Seq(Context) /\ Len(Front(s)) = Len(s) - 1
      /\ \A i \in 1..(Len(s) - 1) : Front(s)[i] = s[i]
  BY <1>1, FrontOf DEF Cur
<1>4. c1 \in Context /\ c1.router = c.router /\ CtxOK(app, c1)
  <2>1. c.mu # "free" => c.gone
    BY DEF CtxOK, Chain, NodeOf, AtEnd
  <2> QED
    BY <2>1, ClearedFacts DEF Kept
<1> HIDE DEF c1, s
<1> DEFINE f == Front(s)
<1>5. /\ t \in Seq(Context) /\ Len(t) = Len(f) + 1 /\ t[Len(t)] = c1
      /\ \A i \in 1..(Len(f) - 1) : t[i] = f[i]
      /\ \A i \in 1..Len(f) : SamePlace(f[i], t[i])
      /\ f # <<>> => t[Len(f)] = Told(f[Len(f)], c1)
  BY <1>3, <1>4, ToldMove
<1>6. f \in Seq(Context) /\ Len(f) = Len(s) - 1 /\ \A i \in 1..(Len(s) - 1) : f[i] = s[i]
  BY <1>3
<1> HIDE DEF t, f
<1>7. ctxs'[m] = t /\ ctxs' \in [Msgs -> Seq(Context)]
  BY <1>2, <1>5
<1>8. Len(t) = Len(s) /\ t[Len(s)] = c1
  BY <1>3, <1>5, <1>6
<1>9. \A i \in 1..(Len(s) - 1) : SamePlace(s[i], t[i])
  BY <1>3, <1>5, <1>6
<1>10. Topped(s, t, c1)
  BY <1>3, <1>4, <1>5, <1>8, <1>9 DEF Topped
<1>11. \A i \in 1..(Len(s) - 2) : t[i] = s[i]
  BY <1>3, <1>5, <1>6
<1>12. Len(s) > 1 => t[Len(s) - 1] = Told(s[Len(s) - 1], c1)
  <2>1. ASSUME Len(s) > 1 PROVE f # <<>> /\ Len(s) - 1 \in 1..(Len(s) - 1)
    BY <1>3, <1>6, <2>1, EmptySeq
  <2> QED
    BY <1>5, <1>6, <2>1
<1> QED
  BY <1>2, <1>4, <1>7, <1>8, <1>10, <1>11, <1>12 DEF s, c1

(* When a handler returns, its context is the innermost; unless the chain  *)
(* goes on by itself it is cleared, and the one below is told.             *)
LEMMA HandlerReturnsMove ==
  ASSUME app \in Setups, ctxs \in [Msgs -> Seq(Context)], NEW m \in Msgs,
         NEW stack \in Seq(Context), NEW c \in Context, CtxOK(app, c),
         Len(stack) + 1 \in 1..Len(ctxs[m]),
         \A i \in 1..Len(stack) : stack[i] = ctxs[m][i],
         c.router = ctxs[m][Len(stack) + 1].router,
         HandlerReturns(m, stack, c)
  PROVE  LET d == IF GoesOn THEN c ELSE Cleared(c)
             n == Len(stack) + 1 IN
         /\ ctxs' \in [Msgs -> Seq(Context)]
         /\ Topped(ctxs[m], ctxs'[m], d) /\ CtxOK(app, d)
         /\ Len(ctxs'[m]) = n
         /\ \A i \in 1..(n - 2) : ctxs'[m][i] = ctxs[m][i]
         /\ n > 1 => ctxs'[m][n - 1] = IF GoesOn THEN ctxs[m][n - 1] ELSE Told(ctxs[m][n - 1], d)
         /\ \A x \in Msgs \ {m} : ctxs'[x] = ctxs[x]
<1> DEFINE s == ctxs[m]
           d == IF GoesOn THEN c ELSE Cleared(c)
           n == Len(stack) + 1
           t == IF GoesOn THEN Append(stack, d) ELSE Append(UpdateParent(stack, d), d)
<1>1. s \in Seq(Context) /\ Len(stack) \in Nat /\ Len(s) \in Nat
  BY LenProperties
<1>2. ctxs' = [ctxs EXCEPT ![m] = t]
  BY DEF HandlerReturns
<1>3. d \in Context /\ d.router = c.router /\ CtxOK(app, d)
  <2>1. c.mu # "free" => c.gone
    BY DEF CtxOK, Chain, NodeOf, AtEnd
  <2> QED
    BY <2>1, ClearedFacts DEF Kept
<1>4. n \in 1..Len(s) /\ n - 1 = Len(stack)
  BY <1>1
<1>5. \A i \in 1..(n - 1) : stack[i] = s[i]
  BY <1>4
<1>6. d.router = s[n].router
  BY <1>3
<1> HIDE DEF d, s, n
<1>7. /\ t \in Seq(Context) /\ Len(t) = n /\ t[n] = d
      /\ \A i \in 1..(n - 2) : t[i] = stack[i]
      /\ \A i \in 1..(n - 1) : SamePlace(stack[i], t[i])
      /\ n > 1 => t[n - 1] = IF GoesOn THEN stack[n - 1] ELSE Told(stack[n - 1], d)
  <2>1. CASE GoesOn
    <3>1. t = Append(stack, d)
      BY <2>1
    <3> HIDE DEF t
    <3>2. t \in Seq(Context) /\ Len(t) = Len(stack) + 1 /\ t[Len(stack) + 1] = d
          /\ \A i \in 1..Len(stack) : t[i] = stack[i]
      BY <1>3, <3>1, Appended
    <3>3. Len(t) = n /\ t[n] = d
      BY <3>2 DEF n
    <3>4. \A i \in 1..(n - 1) : t[i] = stack[i]
      BY <1>4, <3>2
    <3>5. \A i \in 1..(n - 2) : t[i] = stack[i]
      BY <1>1, <1>4, <3>4
    <3>6. n > 1 => t[n - 1] = stack[n - 1]
      BY <1>1, <1>4, <3>4
    <3> QED
      BY <2>1, <3>2, <3>3, <3>4, <3>5, <3>6, SamePlaceRefl
  <2>2. CASE ~GoesOn
    <3>1. t = Append(UpdateParent(stack, d), d)
      BY <2>2
    <3> HIDE DEF t
    <3>2. /\ t \in Seq(Context) /\ Len(t) = Len(stack) + 1 /\ t[Len(t)] = d
          /\ \A i \in 1..(Len(stack) - 1) : t[i] = stack[i]
          /\ \A i \in 1..Len(stack) : SamePlace(stack[i], t[i])
          /\ stack # <<>> => t[Len(stack)] = Told(stack[Len(stack)], d)
      BY <1>3, <3>1, ToldMove
    <3>3. Len(t) = n /\ t[n] = d
      BY <3>2 DEF n
    <3>4. n > 1 => stack # <<>>
      BY <1>1, <1>4, EmptySeq
    <3>5. \A i \in 1..(n - 2) : t[i] = stack[i]
      BY <1>1, <1>4, <3>2
    <3> QED
      BY <1>4, <2>2, <3>2, <3>3, <3>4, <3>5
  <2> QED
    BY <2>1, <2>2
<1> HIDE DEF t
<1>8. ctxs'[m] = t /\ ctxs' \in [Msgs -> Seq(Context)]
  BY <1>2, <1>7
<1>9. /\ \A i \in 1..(n - 2) : t[i] = s[i]
      /\ \A i \in 1..(n - 1) : SamePlace(s[i], t[i])
  <2>1. \A i \in 1..(n - 2) : i \in 1..(n - 1)
    BY <1>1, <1>4
  <2>2. \A i \in 1..(n - 1) : SamePlace(s[i], t[i])
    BY <1>5, <1>7
  <2>3. \A i \in 1..(n - 2) : t[i] = s[i]
    BY <1>5, <1>7, <2>1
  <2> QED
    BY <2>2, <2>3
<1>10. n > 1 => t[n - 1] = IF GoesOn THEN s[n - 1] ELSE Told(s[n - 1], d)
  BY <1>1, <1>4, <1>5, <1>7
<1>11. Topped(s, t, d)
  BY <1>1, <1>3, <1>4, <1>6, <1>7, <1>9 DEF Topped
<1> QED
  BY <1>2, <1>3, <1>7, <1>8, <1>9, <1>10, <1>11 DEF s, d, n

(* The handler in control                                                  *)
LEMMA CallFacts ==
  ASSUME calls \in [Msgs -> Seq(CallType)], NEW m \in Msgs, calls[m] # <<>>
  PROVE  /\ Len(calls[m]) \in Nat /\ Len(calls[m]) >= 1
         /\ Call(m) = calls[m][Len(calls[m])]
         /\ Call(m).h \in Handlers /\ Call(m).nexts \in 0..2 /\ Call(m).ctx \in Nat
<1>1. Len(calls[m]) \in Nat /\ Len(calls[m]) >= 1 /\ Call(m) = calls[m][Len(calls[m])] /\ Call(m) \in CallType
  BY FrontOf DEF Call
<1> QED
  BY <1>1 DEF CallType

(* Nexts counts a call of Next, of the handler in control.                 *)
LEMMA NextsMove ==
  ASSUME calls \in [Msgs -> Seq(CallType)], NEW m \in Msgs, calls[m] # <<>>,
         NEW n \in 0..2, Nexts(m, n)
  PROVE  /\ calls' \in [Msgs -> Seq(CallType)]
         /\ calls'[m] # <<>> /\ Len(calls'[m]) = Len(calls[m])
         /\ \A i \in 1..(Len(calls[m]) - 1) : calls'[m][i] = calls[m][i]
         /\ LET k == calls'[m][Len(calls[m])] IN
              /\ k = Call(m)'
              /\ k.h = Call(m).h /\ k.ctx = Call(m).ctx /\ k.nexts = n
         /\ \A x \in Msgs \ {m} : calls'[x] = calls[x]
<1> DEFINE K == calls[m]
           k == [Last(K) EXCEPT !.nexts = n]
           t == Append(Front(K), k)
<1>1. K \in Seq(CallType) /\ K # <<>>
  OBVIOUS
<1>2. calls' = [calls EXCEPT ![m] = t]
  BY DEF Nexts
<1>3. Last(K) \in CallType /\ Last(K) = Call(m)
  BY <1>1, FrontOf DEF Call
<1>4. k \in CallType /\ k.h = Call(m).h /\ k.ctx = Call(m).ctx /\ k.nexts = n
  BY <1>3 DEF CallType
<1> HIDE DEF k, K
<1>5. /\ t \in Seq(CallType) /\ t # <<>>
      /\ Len(t) = Len(K)
      /\ \A i \in 1..(Len(K) - 1) : t[i] = K[i]
      /\ t[Len(K)] = k
      /\ Last(t) = k
  BY <1>1, <1>4, LastReplaced
<1> HIDE DEF t
<1>6. calls'[m] = t /\ calls' \in [Msgs -> Seq(CallType)]
  BY <1>2, <1>5
<1>7. Call(m)' = k
  BY <1>5, <1>6 DEF Call
<1> QED
  BY <1>2, <1>4, <1>5, <1>6, <1>7 DEF K

(* A handler leaves the stack.                                             *)
LEMMA PopMove ==
  ASSUME calls \in [Msgs -> Seq(CallType)], NEW m \in Msgs, calls[m] # <<>>,
         calls' = [calls EXCEPT ![m] = Front(calls[m])]
  PROVE  /\ calls' \in [Msgs -> Seq(CallType)]
         /\ Len(calls'[m]) = Len(calls[m]) - 1
         /\ \A i \in 1..(Len(calls[m]) - 1) : calls'[m][i] = calls[m][i]
         /\ \A x \in Msgs \ {m} : calls'[x] = calls[x]
<1>1. calls[m] \in Seq(CallType)
  OBVIOUS
<1>2. /\ Front(calls[m]) \in Seq(CallType)
      /\ Len(Front(calls[m])) = Len(calls[m]) - 1
      /\ \A i \in 1..(Len(calls[m]) - 1) : Front(calls[m])[i] = calls[m][i]
  BY <1>1, FrontOf
<1>3. calls'[m] = Front(calls[m])
  OBVIOUS
<1> QED
  BY <1>2, <1>3

-----------------------------------------------------------------------------
(* A router whose chain is running                                         *)
Serving(k) == k.h \in Routers /\ k.nexts = 1
(* The context that is innermost while k is in control                     *)
Level(k) == IF Serving(k) THEN k.ctx + 1 ELSE k.ctx

(* The two stacks belong together: every router that is running has made   *)
(* one context, handlers on the stack have called Next, and who is in      *)
(* control fits the stack.                                                 *)
Stacked(control, S, K) ==
    LET n == Len(K) IN
    /\ control = "idle" <=> S = <<>>
    /\ K = <<>> => Len(S) <= 1
    /\ K # <<>> => K[1].ctx = 1 /\ Len(S) = Level(K[n])
    /\ \A i, j \in 1..n : i <= j => K[i].ctx <= K[j].ctx
    /\ \A i \in 1..(n - 1) : K[i].nexts >= 1 /\ K[i + 1].ctx = Level(K[i])
    /\ control \in {"idle", "finish", "ended"} => K = <<>>
    /\ control \in {"run", "waiting", "asleep", "stuck"} => K # <<>>
    /\ control \in {"next", "auto", "waiting"} /\ K # <<>> => K[n].nexts >= 1
    /\ control = "waiting" => K[n].h \in Codecs
    /\ control = "asleep" => K[n].h \in Funcs
(* The stacks of one goroutine                                             *)
StackOK(m) == Stacked(ctl[m], ctxs[m], calls[m])

(* The handlers of a chain                                                 *)
HandlersOf(chain) ==
    {x \in Handlers : \E n \in 1..Len(chain) :
        \E i \in 1..Len(chain[n].handlers) : x = chain[n].handlers[i]}
(* The routers mounted somewhere                                           *)
Mounts(a) == {r \in Routers : \E q \in Routers : r \in HandlersOf(a.chain[q])}

(* The context is at this handler.                                         *)
AtHandler(a, c, h) ==
    c.matches /\ c.index >= 1 /\ h = a.chain[c.router][c.node].handlers[c.index]
(* The context is not at the end.                                          *)
InChain(a, c) == c.node <= Len(a.chain[c.router])

(* The first context is of the root, all others of mounted routers.        *)
RoutersOK(m) ==
    /\ ctxs[m] # <<>> => ctxs[m][1].router = Root
    /\ \A i \in 2..Len(ctxs[m]) : ctxs[m][i].router \in Mounts(app)
(* A handler is one of the chain of the context it was given.              *)
CallsOK(m) ==
    \A i \in 1..Len(calls[m]) :
        calls[m][i].h \in HandlersOf(app.chain[ctxs[m][calls[m][i].ctx].router])
(* Contexts are at sensible places, and those that wait for a mounted      *)
(* router are in their chain.                                              *)
PlacesOK(m) ==
    /\ \A i \in 1..Len(ctxs[m]) : CtxOK(app, ctxs[m][i])
    /\ \A i \in 1..(Len(ctxs[m]) - 1) : InChain(app, ctxs[m][i])
(* A handler that has not called Next yet is the one the context is at.    *)
FreshOK(m) ==
    ctl[m] \in {"run", "asleep"} /\ calls[m][Len(calls[m])].nexts = 0
        => AtHandler(app, ctxs[m][Len(ctxs[m])], calls[m][Len(calls[m])].h)

(* All of these, of one goroutine                                          *)
ContextsOK(m) == RoutersOK(m) /\ CallsOK(m) /\ PlacesOK(m) /\ FreshOK(m)

(* The stacks of the other goroutines                                      *)
OthersSame(m) ==
    \A x \in Msgs \ {m} :
        ctl'[x] = ctl[x] /\ ctxs'[x] = ctxs[x] /\ calls'[x] = calls[x]

(* Types and stacks                                                        *)
BaseInv == TypeOK /\ \A m \in Msgs : StackOK(m) /\ ContextsOK(m)

(* Types and stacks are kept if the goroutine that steps keeps its own.    *)
LEMMA Assemble ==
  ASSUME BaseInv, NEW m \in Msgs, OthersSame(m), app' = app, TypeOK', StackOK(m)', ContextsOK(m)'
  PROVE  BaseInv'
<1>1. ASSUME NEW x \in Msgs \ {m} PROVE StackOK(x)'
  <2>1. StackOK(x) /\ ctl'[x] = ctl[x] /\ ctxs'[x] = ctxs[x] /\ calls'[x] = calls[x]
    BY DEF BaseInv, OthersSame
  <2> QED
    BY <2>1 DEF StackOK, Stacked
<1>2. ASSUME NEW x \in Msgs \ {m} PROVE ContextsOK(x)'
  <2>1. ContextsOK(x) /\ ctl'[x] = ctl[x] /\ ctxs'[x] = ctxs[x] /\ calls'[x] = calls[x]
    BY DEF BaseInv, OthersSame
  <2> QED
    BY <2>1 DEF ContextsOK, RoutersOK, CallsOK, PlacesOK, FreshOK
<1> QED
  BY <1>1, <1>2 DEF BaseInv

(* What the types say of the stacks of one goroutine                       *)
LEMMA StackTypes ==
  ASSUME TypeOK, NEW m \in Msgs
  PROVE  /\ ctxs[m] \in Seq(Context) /\ Len(ctxs[m]) \in Nat /\ (ctxs[m] = <<>> <=> Len(ctxs[m]) = 0)
         /\ calls[m] \in Seq(CallType) /\ Len(calls[m]) \in Nat /\ (calls[m] = <<>> <=> Len(calls[m]) = 0)
         /\ \A i \in 1..Len(ctxs[m]) : ctxs[m][i] \in Context
         /\ \A i \in 1..Len(calls[m]) : calls[m][i].h \in Handlers /\ calls[m][i].nexts \in 0..2
                                         /\ calls[m][i].ctx \in Nat
<1>1. ctxs[m] \in Seq(Context) /\ calls[m] \in Seq(CallType)
  BY DEF TypeOK, CallType
<1>2. \A i \in 1..Len(calls[m]) : calls[m][i] \in CallType
  BY <1>1, ElementOfSeq
<1>3. \A i \in 1..Len(ctxs[m]) : ctxs[m][i] \in Context
  BY <1>1, ElementOfSeq
<1> QED
  BY <1>1, <1>2, <1>3, EmptySeq, LenProperties DEF CallType

(* The stacks stay as high as they are.                                    *)
LEMMA StackStay ==
  ASSUME TypeOK, TypeOK', NEW m \in Msgs, StackOK(m),
         ctxs[m] # <<>>, Len(ctxs'[m]) = Len(ctxs[m]), calls'[m] = calls[m],
         \/ ctl[m] \in {"run", "asleep"} /\ ctl'[m] \in {"run", "stuck"}
         \/ ctl[m] = "waiting" /\ ctl'[m] = "next"
         \/ ctl[m] = "run" /\ ctl'[m] = "asleep" /\ Call(m).h \in Funcs
         \/ ctl[m] \in {"next", "auto"} /\ ctl'[m] = IF calls[m] = <<>> THEN "finish" ELSE "run"
         \/ ctl[m] = "finish" /\ ctl'[m] = "ended"
  PROVE  StackOK(m)'
<1>1. ctxs'[m] # <<>>
  BY StackTypes, EmptySeq DEF TypeOK
<1>2. calls[m] # <<>> => Call(m) = calls[m][Len(calls[m])]
  BY CallFacts DEF TypeOK, CallType
<1> QED
  BY <1>1, <1>2 DEF StackOK, Stacked, Level, Serving

(* A function or codec calls Next.                                         *)
LEMMA StackBump ==
  ASSUME TypeOK, TypeOK', NEW m \in Msgs, StackOK(m), NEW n \in {1, 2}, Nexts(m, n),
         ctl[m] = "run", Call(m).h \notin Routers, Len(ctxs'[m]) = Len(ctxs[m]),
         \/ ctl'[m] = "next"
         \/ ctl'[m] = "waiting" /\ Call(m).h \in Codecs
  PROVE  StackOK(m)'
<1>1. calls[m] # <<>> /\ ctxs[m] # <<>>
  BY DEF StackOK, Stacked
<1>2. ctxs'[m] # <<>>
  BY <1>1, StackTypes, EmptySeq DEF TypeOK
<1>3. /\ calls'[m] # <<>> /\ Len(calls'[m]) = Len(calls[m])
      /\ \A i \in 1..(Len(calls[m]) - 1) : calls'[m][i] = calls[m][i]
      /\ LET k == calls'[m][Len(calls[m])] IN
              k.h = Call(m).h /\ k.ctx = Call(m).ctx /\ k.nexts = n
  <2>1. n \in 0..2
    OBVIOUS
  <2>2. calls \in [Msgs -> Seq(CallType)]
    BY DEF TypeOK, CallType
  <2> QED
    BY <1>1, <2>1, <2>2, NextsMove
<1>4. Call(m) = calls[m][Len(calls[m])] /\ Len(calls[m]) \in Nat /\ Len(calls[m]) >= 1
  BY <1>1, CallFacts DEF TypeOK, CallType
<1> DEFINE K == calls[m]
           K2 == calls'[m]
           N == Len(calls[m])
<1>5. \A i \in 1..N : K2[i].ctx = K[i].ctx /\ K2[i].h = K[i].h
  BY <1>3, <1>4
<1>6. Level(K2[N]) = Level(K[N])
  BY <1>3, <1>4 DEF Level, Serving
<1>7. \A i \in 1..(N - 1) : K2[i].nexts >= 1 /\ K2[i + 1].ctx = Level(K2[i])
  <2> TAKE i \in 1..(N - 1)
  <2>1. i + 1 \in 1..N /\ i \in 1..N
    BY <1>4
  <2> QED
    BY <1>3, <1>5, <2>1 DEF StackOK, Stacked
<1>8. K2[1].ctx = 1
  BY <1>1, <1>4, <1>5 DEF StackOK, Stacked
<1>9. \A i, j \in 1..N : i <= j => K2[i].ctx <= K2[j].ctx
  BY <1>5 DEF StackOK, Stacked
<1>10. Len(ctxs'[m]) = Level(K2[N])
  BY <1>1, <1>6 DEF StackOK, Stacked
<1>11. K2[N].nexts >= 1 /\ K2[N].h = Call(m).h
  BY <1>3
<1> HIDE DEF K2
<1> QED
  BY <1>1, <1>2, <1>3, <1>7, <1>8, <1>9, <1>10, <1>11 DEF StackOK, Stacked, K2

(* The context of a handler is on the stack.                               *)
LEMMA CallLevels ==
  ASSUME NEW control, NEW S \in Seq(Context), NEW K \in Seq(CallType), Stacked(control, S, K),
         NEW i \in 1..Len(K)
  PROVE  K[i].ctx \in 1..Len(S)
<1> DEFINE n == Len(K)
<1>1. n \in Nat /\ Len(S) \in Nat
  BY LenProperties
<1>2. K[i] \in CallType /\ K[n] \in CallType /\ K # <<>>
  BY <1>1, ElementOfSeq, EmptyOrNot
<1>3. 1 \in 1..n /\ n \in 1..n /\ 1 <= i /\ i <= n
  BY <1>1
<1>4. K[1].ctx <= K[i].ctx /\ K[i].ctx <= K[n].ctx /\ K[1].ctx = 1 /\ Len(S) = Level(K[n])
  BY <1>2, <1>3 DEF Stacked
<1> QED
  BY <1>1, <1>2, <1>4 DEF Level, CallType

(* A handler returns.                                                      *)
LEMMA StackPop ==
  ASSUME TypeOK, TypeOK', NEW m \in Msgs, StackOK(m), calls' = [calls EXCEPT ![m] = Front(calls[m])],
         ctl[m] = "run", Len(ctxs'[m]) = Call(m).ctx,
         ctl'[m] = "auto" \/ ctl'[m] = IF Front(calls[m]) = <<>> THEN "finish" ELSE "run"
  PROVE  StackOK(m)'
<1> DEFINE K == calls[m]
           K2 == calls'[m]
           n == Len(K)
<1>1. K # <<>> /\ n \in Nat /\ n >= 1 /\ Call(m) = K[n]
  <2>1. K # <<>>
    BY DEF StackOK, Stacked
  <2> QED
    BY <2>1, CallFacts DEF TypeOK, CallType
<1>2. Len(K2) = n - 1 /\ \A i \in 1..(n - 1) : K2[i] = K[i]
  BY <1>1, PopMove DEF TypeOK, CallType
<1>3. K2 = Front(K)
  BY DEF TypeOK
<1>4. K2 = <<>> <=> n = 1
  <2>1. K2 \in Seq(CallType)
    BY DEF TypeOK, CallType
  <2>2. K2 = <<>> <=> Len(K2) = 0
    BY <2>1, EmptyOrNot
  <2> HIDE DEF n, K2
  <2> QED
    BY <1>1, <1>2, <2>2
<1>5. K[n].ctx \in 1..Len(ctxs[m])
  <2>1. n \in 1..n
    BY <1>1
  <2> QED
    BY <2>1, CallLevels, StackTypes DEF StackOK
<1>6. Len(ctxs'[m]) \in Nat /\ Len(ctxs'[m]) >= 1 /\ (ctxs'[m] = <<>> <=> Len(ctxs'[m]) = 0) /\ Len(ctxs[m]) \in Nat
  <2>1. ctxs'[m] \in Seq(Context)
    BY DEF TypeOK
  <2> QED
    BY <1>1, <1>5, <2>1, EmptySeq, LenProperties, StackTypes
<1>7. n > 1 => K[n].ctx = Level(K[n - 1]) /\ K[n - 1].nexts >= 1
  <2>1. n > 1 => n - 1 \in 1..(n - 1) /\ (n - 1) + 1 = n
    BY <1>1
  <2> QED
    BY <2>1 DEF StackOK, Stacked
<1>8. n = 1 => K[n].ctx = 1
  BY <1>1 DEF StackOK, Stacked
<1>9. ctl'[m] \in {"auto", "finish", "run"} /\ (ctl'[m] = "finish" => n = 1) /\ (ctl'[m] = "run" => n # 1)
  BY <1>3, <1>4
<1>10. K2 # <<>> => K2[1].ctx = 1 /\ Len(ctxs'[m]) = Level(K2[n - 1]) /\ K2[n - 1].nexts >= 1
  <2>1. ASSUME K2 # <<>> PROVE n > 1 /\ 1 \in 1..(n - 1) /\ n - 1 \in 1..(n - 1)
    <3>1. n # 1
      BY <1>4, <2>1
    <3> HIDE DEF n
    <3> QED
      BY <1>1, <3>1
  <2> QED
    BY <1>1, <1>2, <1>7, <2>1 DEF StackOK, Stacked
<1>11. \A i, j \in 1..(n - 1) : i <= j => K2[i].ctx <= K2[j].ctx
  <2>1. \A i \in 1..(n - 1) : i \in 1..n
    BY <1>1
  <2> QED
    BY <1>2, <2>1 DEF StackOK, Stacked
<1>12. \A i \in 1..(n - 2) : K2[i].nexts >= 1 /\ K2[i + 1].ctx = Level(K2[i])
  <2>1. \A i \in 1..(n - 2) : i \in 1..(n - 1) /\ i + 1 \in 1..(n - 1)
    BY <1>1
  <2> QED
    BY <1>2, <2>1 DEF StackOK, Stacked
<1>13. n - 1 - 1 = n - 2 /\ (K2 = <<>> => Len(ctxs'[m]) = 1)
  BY <1>1, <1>4, <1>8
<1> HIDE DEF K2, n
<1>14. ctxs'[m] # <<>> /\ Len(K2) - 1 = n - 2
  BY <1>2, <1>6, <1>13
<1> QED
  BY <1>2, <1>4, <1>9, <1>10, <1>11, <1>12, <1>13, <1>14 DEF StackOK, Stacked, K2

(* Next calls a handler.                                                   *)
LEMMA StackPush ==
  ASSUME TypeOK, TypeOK', NEW m \in Msgs, StackOK(m), NEW h, Nexting(m),
         calls' = [calls EXCEPT ![m] = Append(calls[m], [h |-> h, nexts |-> 0, ctx |-> Len(ctxs[m])])],
         Len(ctxs'[m]) = Len(ctxs[m]), h \in Handlers, ctl'[m] = "run"
  PROVE  StackOK(m)'
<1> DEFINE K == calls[m]
           K2 == calls'[m]
           n == Len(K)
           k == [h |-> h, nexts |-> 0, ctx |-> Len(ctxs[m])]
<1>1. n \in Nat /\ K \in Seq(CallType) /\ ctl[m] \in {"next", "auto"}
  BY StackTypes DEF Nexting
<1>2. Len(ctxs[m]) \in Nat /\ Len(ctxs[m]) >= 1 /\ (K = <<>> <=> n = 0)
  <2>1. ctxs[m] # <<>>
    BY <1>1 DEF StackOK, Stacked
  <2> QED
    BY <2>1, StackTypes
<1>3. k \in CallType
  BY <1>2 DEF CallType
<1>4. K2 = Append(K, k)
  BY DEF TypeOK
<1>5. K2 # <<>> /\ Len(K2) = n + 1 /\ K2[n + 1] = k /\ \A i \in 1..n : K2[i] = K[i]
  BY <1>1, <1>3, <1>4, Appended
<1>6. k.nexts = 0 /\ k.ctx = Len(ctxs[m]) /\ k.h = h
  OBVIOUS
<1>7. ctxs'[m] # <<>>
  BY <1>2, StackTypes, EmptySeq DEF TypeOK
<1>8. Level(k) = Len(ctxs[m])
  BY <1>6 DEF Level, Serving
<1> HIDE DEF k, K2
<1>9. K # <<>> => Len(ctxs[m]) = Level(K[n]) /\ K[1].ctx = 1 /\ K[n].nexts >= 1
  <2>1. K # <<>> => Len(ctxs[m]) = Level(K[n]) /\ K[1].ctx = 1
    BY DEF StackOK, Stacked
  <2>2. K # <<>> => K[n].nexts >= 1
    BY <1>1 DEF StackOK, Stacked
  <2> QED
    BY <2>1, <2>2
<1>10. K = <<>> => Len(ctxs[m]) = 1
  <2> DEFINE l == Len(ctxs[m])
  <2>1. K = <<>> => l <= 1
    BY DEF StackOK, Stacked
  <2>2. l \in Nat /\ l >= 1
    BY <1>2
  <2> HIDE DEF l
  <2>3. K = <<>> => l = 1
    BY <2>1, <2>2
  <2> QED
    BY <2>3 DEF l
<1>11. K2[1].ctx = 1
  <2>1. CASE K = <<>>
    <3>1. n + 1 = 1
      BY <1>2, <2>1
    <3>2. K2[1] = k
      BY <1>5, <3>1
    <3> QED
      BY <1>6, <1>10, <2>1, <3>2
  <2>2. CASE K # <<>>
    <3>1. 1 \in 1..n
      BY <1>1, <1>2, <2>2
    <3> QED
      BY <1>5, <1>9, <2>2, <3>1
  <2> QED
    BY <2>1, <2>2
<1>12. \A i, j \in 1..(n + 1) : i <= j => K2[i].ctx <= K2[j].ctx
  <2> TAKE i, j \in 1..(n + 1)
  <2> HAVE i <= j
  <2>1. CASE j \in 1..n
    <3>1. i \in 1..n
      BY <1>1, <2>1
    <3> QED
      BY <1>5, <2>1, <3>1 DEF StackOK, Stacked
  <2>2. CASE j = n + 1 /\ i = n + 1
    BY <1>2, <1>5, <1>6, <2>2
  <2>3. CASE j = n + 1 /\ i \in 1..n
    <3>1. K[i].ctx \in 1..Len(ctxs[m])
      BY <2>3, CallLevels, StackTypes DEF StackOK
    <3> QED
      BY <1>2, <1>5, <1>6, <2>3, <3>1
  <2> QED
    BY <1>1, <2>1, <2>2, <2>3
<1>13. \A i \in 1..n : K2[i].nexts >= 1 /\ K2[i + 1].ctx = Level(K2[i])
  <2> TAKE i \in 1..n
  <2>1. CASE i = n
    <3>1. K # <<>>
      BY <1>1, <1>2, <2>1
    <3> QED
      BY <1>5, <1>6, <1>9, <2>1, <3>1
  <2>2. CASE i # n
    <3>1. i \in 1..(n - 1) /\ i + 1 \in 1..n
      BY <1>1, <2>2
    <3> QED
      BY <1>5, <3>1 DEF StackOK, Stacked
  <2> QED
    BY <2>1, <2>2
<1>14. Len(K2) - 1 = n /\ Len(K2) = n + 1
  BY <1>1, <1>5
<1>15. Len(ctxs'[m]) = Level(K2[n + 1])
  BY <1>5, <1>8
<1> HIDE DEF n
<1> QED
  BY <1>5, <1>7, <1>11, <1>12, <1>13, <1>14, <1>15 DEF StackOK, Stacked, K2

(* A router is entered, or left with its parent's Next                     *)
LEMMA StackRouter ==
  ASSUME TypeOK, TypeOK', NEW m \in Msgs, StackOK(m), NEW n \in {1, 2}, Nexts(m, n),
         ctl[m] = "run", Call(m).h \in Routers, ctl'[m] = "next",
         Len(ctxs'[m]) = IF n = 1 THEN Call(m).ctx + 1 ELSE Call(m).ctx
  PROVE  StackOK(m)'
<1> DEFINE K == calls[m]
           K2 == calls'[m]
           N == Len(calls[m])
<1>1. K # <<>> /\ ctxs[m] # <<>>
  BY DEF StackOK, Stacked
<1>3. /\ K2 # <<>> /\ Len(K2) = N
      /\ \A i \in 1..(N - 1) : K2[i] = K[i]
      /\ K2[N].h = Call(m).h /\ K2[N].ctx = Call(m).ctx /\ K2[N].nexts = n
  <2>1. n \in 0..2
    OBVIOUS
  <2>2. calls \in [Msgs -> Seq(CallType)]
    BY DEF TypeOK, CallType
  <2> QED
    BY <1>1, <2>1, <2>2, NextsMove
<1>4. Call(m) = K[N] /\ N \in Nat /\ N >= 1 /\ Call(m).ctx \in Nat
  BY <1>1, CallFacts DEF TypeOK, CallType
<1>2. ctxs'[m] # <<>>
  <2>1. Call(m).ctx \in 1..Len(ctxs[m])
    <3>1. N \in 1..N
      BY <1>4
    <3> QED
      BY <1>4, <3>1, CallLevels, StackTypes DEF StackOK
  <2>2. Len(ctxs'[m]) # 0 /\ ctxs'[m] \in Seq(Context)
    BY <1>4, <2>1, StackTypes, SMTT(40) DEF TypeOK
  <2> QED
    BY <2>2, EmptySeq
<1>5. \A i \in 1..N : K2[i].ctx = K[i].ctx /\ K2[i].h = K[i].h
  BY <1>3, <1>4
<1>6. Level(K2[N]) = Len(ctxs'[m])
  BY <1>3, <1>4 DEF Level, Serving
<1>7. \A i \in 1..(N - 1) : K2[i].nexts >= 1 /\ K2[i + 1].ctx = Level(K2[i])
  <2> TAKE i \in 1..(N - 1)
  <2>1. i + 1 \in 1..N /\ i \in 1..N
    BY <1>4
  <2> QED
    BY <1>3, <1>5, <2>1 DEF StackOK, Stacked
<1>8. K2[1].ctx = 1
  BY <1>1, <1>4, <1>5 DEF StackOK, Stacked
<1>9. \A i, j \in 1..N : i <= j => K2[i].ctx <= K2[j].ctx
  BY <1>5 DEF StackOK, Stacked
<1>11. K2[N].nexts >= 1
  BY <1>3
<1> HIDE DEF K2
<1> QED
  BY <1>1, <1>2, <1>3, <1>6, <1>7, <1>8, <1>9, <1>11 DEF StackOK, Stacked, K2

(* A context that is told stays at a sensible place.                       *)
LEMMA SamePlaceOK ==
  ASSUME NEW a, NEW c, NEW d, SamePlace(c, d)
  PROVE  /\ CtxOK(a, c) => CtxOK(a, d)
         /\ InChain(a, c) => InChain(a, d)
         /\ d.router = c.router
BY DEF SamePlace, CtxOK, InChain

(* The invariant of contexts, when the innermost moves and handlers may    *)
(* leave.                                                                  *)
LEMMA ContextsTopped ==
  ASSUME TypeOK, TypeOK', NEW m \in Msgs, StackOK(m), StackOK(m)', ContextsOK(m), app' = app,
         NEW c, CtxOK(app, c), Topped(ctxs[m], ctxs'[m], c),
         Len(calls'[m]) <= Len(calls[m]),
         \A i \in 1..Len(calls'[m]) : /\ calls'[m][i].h = calls[m][i].h
                                      /\ calls'[m][i].ctx = calls[m][i].ctx,
         FreshOK(m)'
  PROVE  ContextsOK(m)'
<1> DEFINE S == ctxs[m]
           T == ctxs'[m]
           N == Len(S)
           n == Len(T)
<1>1. N \in Nat /\ n \in 1..N /\ n \in Nat
  BY StackTypes DEF Topped
<1>2. T[n] = c /\ c.router = S[n].router /\ \A i \in 1..(n - 1) : SamePlace(S[i], T[i])
  BY DEF Topped
<1>3. ASSUME NEW i \in 1..n PROVE T[i].router = S[i].router
  <2>1. CASE i = n
    BY <1>2, <2>1
  <2>2. CASE i \in 1..(n - 1)
    BY <1>2, <2>2, SamePlaceOK
  <2> QED
    BY <1>1, <2>1, <2>2
<1>4. \A i \in 1..N : CtxOK(app, S[i])
  BY DEF ContextsOK, PlacesOK
<1>5. \A i \in 1..(N - 1) : InChain(app, S[i])
  BY DEF ContextsOK, PlacesOK
<1> HIDE DEF S, T, N
<1>6. ASSUME NEW i \in 1..n PROVE CtxOK(app, T[i])
  <2>1. CASE i = n
    BY <1>2, <2>1
  <2>2. CASE i \in 1..(n - 1)
    <3>1. i \in 1..N
      BY <1>1
    <3> QED
      BY <1>2, <1>4, <2>2, <3>1, SamePlaceOK
  <2> QED
    BY <1>1, <2>1, <2>2
<1>7. ASSUME NEW i \in 1..(n - 1) PROVE InChain(app, T[i])
  <2>1. i \in 1..(N - 1)
    BY <1>1
  <2> QED
    BY <1>2, <1>5, <2>1, SamePlaceOK
<1>8. PlacesOK(m)'
  BY <1>6, <1>7 DEF PlacesOK, T
<1>9. RoutersOK(m)'
  <2>1. T[1].router = S[1].router /\ S # <<>>
    BY <1>1, <1>3, StackTypes DEF S, N
  <2>2. \A i \in 2..n : T[i].router = S[i].router /\ i \in 2..N
    BY <1>1, <1>3
  <2> QED
    BY <2>1, <2>2 DEF ContextsOK, RoutersOK, S, T, N
<1>10. CallsOK(m)'
  <2> SUFFICES ASSUME NEW i \in 1..Len(calls'[m])
               PROVE calls'[m][i].h \in HandlersOf(app.chain[T[calls'[m][i].ctx].router])
    BY DEF CallsOK, T
  <2>1. i \in 1..Len(calls[m])
    BY StackTypes DEF TypeOK
  <2>2. calls'[m][i].ctx \in 1..n
    <3>1. ctxs'[m] \in Seq(Context) /\ calls'[m] \in Seq(CallType)
      BY DEF TypeOK, CallType
    <3>2. Stacked(ctl'[m], ctxs'[m], calls'[m])
      BY DEF StackOK
    <3> QED
      BY <3>1, <3>2, CallLevels DEF T
  <2>3. calls[m][i].h \in HandlersOf(app.chain[S[calls[m][i].ctx].router])
    BY <2>1 DEF ContextsOK, CallsOK, S
  <2> QED
    BY <1>3, <2>2, <2>3
<1> QED
  BY <1>8, <1>9, <1>10 DEF ContextsOK

-----------------------------------------------------------------------------
(* At first there are no stacks.                                           *)
LEMMA BaseInvInit == Init => BaseInv
<1> SUFFICES ASSUME Init PROVE BaseInv
  OBVIOUS
<1>1. TypeOK
  <2>1. [ran |-> <<>>, stopped |-> FALSE, failed |-> FALSE, err |-> FALSE, moved |-> FALSE,
         latest |-> [k \in Keys |-> None]] \in History
    BY DEF History
  <2>2. seen \in [Msgs -> History]
    BY <2>1 DEF Init
  <2>3. app \in Setups /\ frame \in [Msgs -> Frame \cup {None}] /\ ctl \in [Msgs -> Controls]
        /\ closed \in BOOLEAN /\ lock \in [Ids -> Msgs \cup {None}]
        /\ receivers \in [Ids -> Entry \cup {None}] /\ inbox \in [Msgs -> Msgs \cup {None}]
    BY DEF Init, Controls
  <2>4. ctxs \in [Msgs -> Seq(Context)] /\ calls \in [Msgs -> Seq([h : Handlers, nexts : 0..2, ctx : Nat])]
    BY DEF Init
  <2> QED
    BY <2>2, <2>3, <2>4 DEF TypeOK
<1>2. ASSUME NEW m \in Msgs PROVE StackOK(m) /\ ContextsOK(m)
  <2>1. ctxs[m] = <<>> /\ calls[m] = <<>> /\ ctl[m] = "idle" /\ Len(ctxs[m]) = 0 /\ Len(calls[m]) = 0
    BY DEF Init
  <2>2. StackOK(m)
    BY <2>1 DEF StackOK, Stacked
  <2>3. ContextsOK(m)
    BY <2>1 DEF ContextsOK, RoutersOK, CallsOK, PlacesOK, FreshOK
  <2> QED
    BY <2>2, <2>3
<1> QED
  BY <1>1, <1>2 DEF BaseInv

(* The innermost context                                                   *)
LEMMA CurFacts ==
  ASSUME BaseInv, NEW m \in Msgs, ctl[m] # "idle"
  PROVE  /\ ctxs[m] # <<>> /\ Len(ctxs[m]) \in Nat /\ Len(ctxs[m]) >= 1
         /\ Cur(m) \in Context /\ Cur(m) = ctxs[m][Len(ctxs[m])]
         /\ CtxOK(app, Cur(m))
         /\ TypeOK /\ StackOK(m) /\ ContextsOK(m) /\ app \in Setups
<1>1. TypeOK /\ StackOK(m) /\ ContextsOK(m) /\ app \in Setups /\ ctxs[m] \in Seq(Context)
  BY DEF BaseInv, TypeOK
<1>2. ctxs[m] # <<>>
  BY <1>1 DEF StackOK, Stacked
<1>3. Len(ctxs[m]) \in Nat /\ Len(ctxs[m]) >= 1 /\ Cur(m) \in Context /\ Cur(m) = ctxs[m][Len(ctxs[m])]
  BY <1>1, <1>2, FrontOf DEF Cur
<1>4. CtxOK(app, Cur(m))
  <2>1. Len(ctxs[m]) \in 1..Len(ctxs[m])
    BY <1>3
  <2> QED
    BY <1>1, <1>3, <2>1 DEF ContextsOK, PlacesOK
<1> QED
  BY <1>1, <1>2, <1>3, <1>4

(* Contexts that stay as they are                                          *)
LEMMA ToppedSame ==
  ASSUME BaseInv, NEW m \in Msgs, ctl[m] # "idle", ctxs'[m] = ctxs[m]
  PROVE  Topped(ctxs[m], ctxs'[m], Cur(m))
<1>1. ctxs[m] \in Seq(Context)
  BY DEF BaseInv, TypeOK
<1>2. \A i \in 1..(Len(ctxs[m]) - 1) : SamePlace(ctxs[m][i], ctxs[m][i])
  BY SamePlaceRefl
<1>3. Len(ctxs[m]) \in 1..Len(ctxs[m])
  BY CurFacts
<1> QED
  BY <1>1, <1>2, <1>3, CurFacts DEF Topped

(* The context in control changes, but not its place; nothing is called    *)
LEMMA StayStep ==
  ASSUME BaseInv, TypeOK', app' = app, NEW m \in Msgs, calls' = calls,
         ctl[m] \in {"run", "waiting", "asleep"}, NEW x, ctl' = [ctl EXCEPT ![m] = x],
         \/ ctl[m] \in {"run", "asleep"} /\ x \in {"run", "stuck"}
         \/ ctl[m] = "waiting" /\ x = "next"
         \/ ctl[m] = "run" /\ x = "asleep" /\ Call(m).h \in Funcs,
         NEW c, CtxOK(app, c), Topped(ctxs[m], ctxs'[m], c), Len(ctxs'[m]) = Len(ctxs[m]),
         c.node = Cur(m).node, c.index = Cur(m).index, c.matches = Cur(m).matches,
         \A y \in Msgs \ {m} : ctxs'[y] = ctxs[y]
  PROVE  BaseInv'
<1>1. /\ ctxs[m] # <<>> /\ Cur(m) = ctxs[m][Len(ctxs[m])]
      /\ TypeOK /\ StackOK(m) /\ ContextsOK(m)
  BY CurFacts
<1>2. ctl'[m] = x /\ calls'[m] = calls[m] /\ \A y \in Msgs \ {m} : ctl'[y] = ctl[y]
  BY <1>1 DEF TypeOK
<1>3. StackOK(m)'
  BY <1>1, <1>2, StackStay
<1>4. FreshOK(m)'
  <2>1. ctxs'[m][Len(ctxs'[m])] = c /\ c.router = Cur(m).router
    BY <1>1 DEF Topped
  <2>2. ctl'[m] \in {"run", "asleep"} => ctl[m] \in {"run", "asleep"}
    BY <1>2
  <2> DEFINE h == calls[m][Len(calls[m])].h
  <2>3. SUFFICES ASSUME ctl'[m] \in {"run", "asleep"}, calls[m][Len(calls[m])].nexts = 0
                 PROVE AtHandler(app, c, h)
    BY <1>2, <2>1 DEF FreshOK
  <2>4. AtHandler(app, Cur(m), h)
    BY <1>1, <2>2, <2>3 DEF FreshOK, ContextsOK
  <2> QED
    BY <2>1, <2>4 DEF AtHandler
<1>5. Len(calls[m]) \in Nat
  BY <1>1, StackTypes
<1>6. ContextsOK(m)'
  BY <1>1, <1>2, <1>3, <1>4, <1>5, ContextsTopped
<1> QED
  BY <1>2, <1>3, <1>6, Assemble DEF OthersSame

(* The handler in control calls Next                                       *)
LEMMA BumpStep ==
  ASSUME BaseInv, TypeOK', app' = app, NEW m \in Msgs, NEW n \in {1, 2}, Nexts(m, n),
         ctl[m] = "run", Call(m).h \notin Routers, NEW x, ctl' = [ctl EXCEPT ![m] = x],
         x = "next" \/ (x = "waiting" /\ Call(m).h \in Codecs),
         NEW c, CtxOK(app, c), Topped(ctxs[m], ctxs'[m], c), Len(ctxs'[m]) = Len(ctxs[m]),
         \A y \in Msgs \ {m} : ctxs'[y] = ctxs[y]
  PROVE  BaseInv'
<1>1. /\ ctxs[m] # <<>> /\ Cur(m) = ctxs[m][Len(ctxs[m])]
      /\ TypeOK /\ StackOK(m) /\ ContextsOK(m)
  BY CurFacts
<1>2. ctl'[m] = x /\ \A y \in Msgs \ {m} : ctl'[y] = ctl[y]
  BY <1>1 DEF TypeOK
<1>3. StackOK(m)'
  BY <1>1, <1>2, StackBump
<1>4. FreshOK(m)'
  BY <1>2 DEF FreshOK
<1>5. calls[m] # <<>>
  BY <1>1 DEF StackOK, Stacked
<1>6. /\ Len(calls'[m]) = Len(calls[m])
      /\ \A i \in 1..(Len(calls[m]) - 1) : calls'[m][i] = calls[m][i]
      /\ calls'[m][Len(calls[m])].h = Call(m).h /\ calls'[m][Len(calls[m])].ctx = Call(m).ctx
      /\ \A y \in Msgs \ {m} : calls'[y] = calls[y]
  <2>1. n \in 0..2
    OBVIOUS
  <2>2. calls \in [Msgs -> Seq(CallType)]
    BY <1>1 DEF TypeOK, CallType
  <2> QED
    BY <1>5, <2>1, <2>2, NextsMove
<1>7. Call(m) = calls[m][Len(calls[m])] /\ Len(calls[m]) \in Nat
  BY <1>1, <1>5, CallFacts DEF TypeOK, CallType
<1>8. \A i \in 1..Len(calls'[m]) : calls'[m][i].h = calls[m][i].h /\ calls'[m][i].ctx = calls[m][i].ctx
  BY <1>6, <1>7
<1>9. ContextsOK(m)'
  BY <1>1, <1>3, <1>4, <1>6, <1>7, <1>8, ContextsTopped
<1> QED
  BY <1>2, <1>3, <1>6, <1>9, Assemble DEF OthersSame

(* Next returns                                                            *)
LEMMA NextReturnsStep ==
  ASSUME BaseInv, ctxs' \in [Msgs -> Seq(Context)] => TypeOK', app' = app, NEW m \in Msgs,
         calls' = calls, Nexting(m), NEW c \in Context, CtxOK(app, c), c.router = Cur(m).router,
         NextReturns(m, c, calls[m])
  PROVE  BaseInv'
<1>0. ctl[m] \in {"next", "auto"} /\ ctl[m] # "idle"
  BY DEF Nexting
<1>1. /\ ctxs[m] # <<>> /\ Cur(m) = ctxs[m][Len(ctxs[m])]
      /\ TypeOK /\ StackOK(m) /\ ContextsOK(m) /\ app \in Setups /\ ctxs \in [Msgs -> Seq(Context)]
  BY <1>0, CurFacts DEF TypeOK
<1> DEFINE x == IF calls[m] = <<>> THEN "finish" ELSE "run"
           c1 == IF ctl[m] = "auto" THEN Cleared(c) ELSE c
<1>2. /\ ctxs' \in [Msgs -> Seq(Context)]
      /\ Topped(ctxs[m], ctxs'[m], c1) /\ CtxOK(app, c1)
      /\ Len(ctxs'[m]) = Len(ctxs[m])
      /\ \A y \in Msgs \ {m} : ctxs'[y] = ctxs[y]
  BY <1>1, NextReturnsMove
<1>3. ctl'[m] = x /\ calls'[m] = calls[m] /\ \A y \in Msgs \ {m} : ctl'[y] = ctl[y]
  BY <1>1 DEF TypeOK, NextReturns
<1>4. TypeOK'
  BY <1>2
<1>5. StackOK(m)'
  BY <1>0, <1>1, <1>2, <1>3, <1>4, StackStay
<1>6. FreshOK(m)'
  <2>1. calls[m] # <<>> => calls[m][Len(calls[m])].nexts >= 1
    BY <1>0, <1>1 DEF StackOK, Stacked
  <2>2. calls[m] # <<>> => calls[m][Len(calls[m])].nexts # 0
    BY <2>1
  <2> QED
    BY <1>3, <2>2 DEF FreshOK
<1>7. Len(calls[m]) \in Nat
  BY <1>1, StackTypes
<1>8. ContextsOK(m)'
  BY <1>1, <1>2, <1>3, <1>4, <1>5, <1>6, <1>7, ContextsTopped
<1> QED
  BY <1>2, <1>3, <1>4, <1>5, <1>8, Assemble DEF OthersSame

(* A handler returns                                                       *)
LEMMA HandlerReturnsStep ==
  ASSUME BaseInv, ctxs' \in [Msgs -> Seq(Context)] /\ calls' \in [Msgs -> Seq(CallType)] => TypeOK',
         app' = app, NEW m \in Msgs, ctl[m] = "run",
         NEW stack \in Seq(Context), NEW c \in Context, CtxOK(app, c),
         Len(stack) + 1 = Call(m).ctx,
         \A i \in 1..Len(stack) : stack[i] = ctxs[m][i],
         c.router = ctxs[m][Len(stack) + 1].router,
         HandlerReturns(m, stack, c)
  PROVE  BaseInv'
<1>1. /\ ctxs[m] # <<>> /\ Cur(m) = ctxs[m][Len(ctxs[m])]
      /\ TypeOK /\ StackOK(m) /\ ContextsOK(m) /\ app \in Setups /\ ctxs \in [Msgs -> Seq(Context)]
      /\ calls \in [Msgs -> Seq(CallType)]
  BY CurFacts DEF TypeOK, CallType
<1>2. calls[m] # <<>>
  BY <1>1 DEF StackOK, Stacked
<1>3. Call(m) = calls[m][Len(calls[m])] /\ Len(calls[m]) \in Nat /\ Len(calls[m]) >= 1
  BY <1>1, <1>2, CallFacts
<1>4. Call(m).ctx \in 1..Len(ctxs[m])
  <2>1. Len(calls[m]) \in 1..Len(calls[m])
    BY <1>3
  <2> QED
    BY <1>1, <1>3, <2>1, CallLevels, StackTypes DEF StackOK
<1> DEFINE d == IF GoesOn THEN c ELSE Cleared(c)
<1>5. /\ ctxs' \in [Msgs -> Seq(Context)]
      /\ Topped(ctxs[m], ctxs'[m], d) /\ CtxOK(app, d)
      /\ Len(ctxs'[m]) = Len(stack) + 1
      /\ \A x \in Msgs \ {m} : ctxs'[x] = ctxs[x]
  BY <1>1, <1>4, HandlerReturnsMove
<1>6. calls' = [calls EXCEPT ![m] = Front(calls[m])]
  BY DEF HandlerReturns
<1>7. /\ calls' \in [Msgs -> Seq(CallType)]
      /\ Len(calls'[m]) = Len(calls[m]) - 1
      /\ \A i \in 1..(Len(calls[m]) - 1) : calls'[m][i] = calls[m][i]
      /\ \A x \in Msgs \ {m} : calls'[x] = calls[x]
  BY <1>1, <1>2, <1>6, PopMove
<1>8. TypeOK'
  BY <1>5, <1>7
<1>9. /\ ctl'[m] = "auto" \/ ctl'[m] = IF Front(calls[m]) = <<>> THEN "finish" ELSE "run"
      /\ \A y \in Msgs \ {m} : ctl'[y] = ctl[y]
  BY <1>1 DEF TypeOK, HandlerReturns
<1>10. StackOK(m)'
  BY <1>1, <1>5, <1>6, <1>8, <1>9, StackPop
<1>11. FreshOK(m)'
  <2>1. SUFFICES ASSUME ctl'[m] = "run" PROVE calls'[m][Len(calls'[m])].nexts # 0
    BY <1>9 DEF FreshOK
  <2>2. calls'[m] # <<>>
    BY <1>10, <2>1 DEF StackOK, Stacked
  <2>3. calls'[m] = <<>> <=> Len(calls'[m]) = 0
    BY <1>7, EmptyOrNot, ZenonT(60)
  <2>4. Len(calls'[m]) \in 1..(Len(calls[m]) - 1)
    BY <1>3, <1>7, <2>2, <2>3
  <2>5. calls[m][Len(calls'[m])].nexts >= 1
    BY <1>1, <2>4 DEF StackOK, Stacked
  <2> QED
    BY <1>7, <2>4, <2>5
<1>12. /\ Len(calls'[m]) <= Len(calls[m])
       /\ \A i \in 1..Len(calls'[m]) : calls'[m][i].h = calls[m][i].h /\ calls'[m][i].ctx = calls[m][i].ctx
  BY <1>3, <1>7
<1>13. ContextsOK(m)'
  BY <1>1, <1>5, <1>8, <1>10, <1>11, <1>12, ContextsTopped
<1> QED
  BY <1>5, <1>7, <1>8, <1>9, <1>10, <1>13, Assemble DEF OthersSame

-----------------------------------------------------------------------------
(* The steps                                                               *)

(* The stacks of the others are left alone.                                *)
LEMMA OthersStep ==
  ASSUME BaseInv, app' = app, ctl' = ctl, ctxs' = ctxs, calls' = calls, TypeOK'
  PROVE  BaseInv'
<1>1. ASSUME NEW m \in Msgs PROVE StackOK(m)' /\ ContextsOK(m)'
  <2>1. StackOK(m) /\ ContextsOK(m)
    BY DEF BaseInv
  <2> QED
    BY <2>1 DEF StackOK, ContextsOK, RoutersOK, CallsOK, PlacesOK, FreshOK
<1> QED
  BY <1>1 DEF BaseInv

(* A goroutine begins with one context.                                    *)
LEMMA StartStep == ASSUME BaseInv, NEW m \in Msgs, Start(m) PROVE BaseInv'
<1>1. /\ TypeOK /\ StackOK(m) /\ ContextsOK(m) /\ ctl[m] = "idle" /\ app \in Setups /\ app' = app
      /\ calls' = calls
  BY DEF BaseInv, Start, TypeOK, fixed
<1>2. calls[m] = <<>> /\ Len(calls[m]) = 0
  BY <1>1 DEF StackOK, Stacked
<1>3. ctxs'[m] = <<NewContext>> /\ ctl'[m] = "next"
      /\ \A y \in Msgs \ {m} : ctxs'[y] = ctxs[y] /\ ctl'[y] = ctl[y]
  BY <1>1 DEF Start, TypeOK
<1>4. <<NewContext>> \in Seq(Context) /\ Len(<<NewContext>>) = 1 /\ <<NewContext>>[1] = NewContext
      /\ <<NewContext>> # <<>>
  BY NewContextType
<1>5. TypeOK'
  <2>1. \A s \in app.sent : s \in Frame
    <3>1. Root \in Routers
      BY HandlerChainAssumption
    <3> QED
      BY <1>1, <3>1, AppOK
  <2>2. frame' \in [Msgs -> Frame \cup {None}]
    BY <1>1, <2>1 DEF Start, TypeOK
  <2>3. ctxs' \in [Msgs -> Seq(Context)]
    BY <1>1, <1>4 DEF Start, TypeOK
  <2>4. ctl' \in [Msgs -> Controls]
    BY <1>1 DEF Start, TypeOK, Controls
  <2> QED
    BY <1>1, <2>2, <2>3, <2>4 DEF Start, TypeOK, shared
<1>6. StackOK(m)'
  BY <1>1, <1>2, <1>3, <1>4 DEF StackOK, Stacked
<1>7. ContextsOK(m)'
  <2>1. NewContext.router = Root /\ CtxOK(app, NewContext)
    <3>1. /\ NewContext.router = Root /\ NewContext.node = 1 /\ NewContext.index = 0
          /\ NewContext.matches = FALSE /\ NewContext.mu = "free" /\ NewContext.beyond = FALSE
      BY DEF NewContext
    <3>2. Len(app.chain[Root]) \in Nat
      BY <1>1, AppOK, LenProperties, HandlerChainAssumption
    <3> QED
      BY <3>1, <3>2 DEF CtxOK
  <2>2. RoutersOK(m)'
    BY <1>3, <1>4, <2>1 DEF RoutersOK
  <2>3. CallsOK(m)'
    BY <1>1, <1>2 DEF CallsOK
  <2>4. PlacesOK(m)'
    BY <1>1, <1>3, <1>4, <2>1 DEF PlacesOK
  <2>5. FreshOK(m)'
    BY <1>3 DEF FreshOK
  <2> QED
    BY <2>2, <2>3, <2>4, <2>5 DEF ContextsOK
<1> QED
  BY <1>1, <1>3, <1>5, <1>6, <1>7, Assemble DEF OthersSame

(* Next is refused.                                                        *)
LEMMA NextRefusedStep == ASSUME BaseInv, NEW m \in Msgs, NextRefused(m) PROVE BaseInv'
<1>1. Nexting(m) /\ NextReturns(m, Cur(m), calls[m]) /\ app' = app /\ calls' = calls
      /\ UNCHANGED <<fixed, calls, shared, seen>> /\ ctl[m] # "idle"
  BY DEF NextRefused, fixed, Nexting
<1>2. Cur(m) \in Context /\ CtxOK(app, Cur(m)) /\ TypeOK
  BY <1>1, CurFacts
<1>3. ctl' \in [Msgs -> Controls]
  BY <1>1, <1>2 DEF NextReturns, TypeOK, Controls
<1>4. ctxs' \in [Msgs -> Seq(Context)] => TypeOK'
  BY <1>1, <1>2, <1>3 DEF TypeOK, fixed, shared
<1> QED
  BY <1>1, <1>2, <1>4, NextReturnsStep

(* Where the walk of Next comes to                                         *)
LEMMA WalkOfCur ==
  ASSUME BaseInv, NEW m \in Msgs, Nexting(m)
  PROVE  LET c == Cur(m) d == Walk(Cur(m)) IN
         /\ TypeOK /\ app \in Setups /\ ctl[m] # "idle" /\ c \in Context /\ CtxOK(app, c)
         /\ d \in Context /\ Kept(c, d) /\ CtxOK(app, d) /\ d.setPath = FALSE
         /\ AtEnd(d) => Ahead(c) = {}
         /\ ~AtEnd(d) =>
              /\ d.matches /\ d.node \in 1..Len(Chain(c))
              /\ d.index + 1 \in 1..Len(NodeOf(d).handlers)
              /\ <<d.node, d.index + 1>> \in Ahead(c)
              /\ \A p \in Ahead(c) : ~Before(p, <<d.node, d.index + 1>>)
<1>1. ctl[m] # "idle"
  BY DEF Nexting
<1>2. Cur(m) \in Context /\ CtxOK(app, Cur(m)) /\ app \in Setups /\ TypeOK
  BY <1>1, CurFacts
<1> QED
  BY <1>1, <1>2, WalkFacts

(* Next comes to the end.                                                  *)
LEMMA NextBeyondEndStep == ASSUME BaseInv, NEW m \in Msgs, NextBeyondEnd(m) PROVE BaseInv'
<1> DEFINE d == Walk(Cur(m))
           e == [d EXCEPT !.beyond = TRUE]
<1>1. /\ Nexting(m) /\ NextReturns(m, e, calls[m]) /\ app' = app /\ calls' = calls
      /\ UNCHANGED <<fixed, calls, closed, lock, inbox, seen>> /\ AtEnd(d)
      /\ receivers' = IF d.id = NoId \/ d.chan THEN receivers
                      ELSE [receivers EXCEPT ![d.id] = None]
  BY DEF NextBeyondEnd, fixed
<1>2. /\ TypeOK /\ d \in Context /\ CtxOK(app, d) /\ Kept(Cur(m), d)
  BY <1>1, WalkOfCur
<1> HIDE DEF d
<1>3. e \in Context /\ e.router = Cur(m).router
  BY <1>2 DEF Context, Kept
<1>4. CtxOK(app, e)
  <2>1. /\ e.router = d.router /\ e.node = d.node /\ e.index = d.index /\ e.matches = d.matches
        /\ e.setPath = d.setPath /\ e.path = d.path /\ e.params = d.params /\ e.mu = d.mu /\ e.gone = d.gone
    BY <1>2 DEF Context
  <2>2. e.node > Len(app.chain[e.router])
    BY <1>1, <2>1 DEF AtEnd, Chain
  <2> HIDE DEF e
  <2> QED
    BY <1>2, <2>1, <2>2 DEF CtxOK
<1>5. receivers' \in [Ids -> Entry \cup {None}]
  BY <1>1, <1>2 DEF TypeOK
<1>6. ctl' \in [Msgs -> Controls]
  BY <1>1, <1>2 DEF NextReturns, TypeOK, Controls
<1>7. ctxs' \in [Msgs -> Seq(Context)] => TypeOK'
  BY <1>1, <1>2, <1>5, <1>6 DEF TypeOK, fixed
<1> QED
  BY <1>1, <1>3, <1>4, <1>7, NextReturnsStep

(* Next hands the message over.                                            *)
LEMMA NextHandsOverStep == ASSUME BaseInv, NEW m \in Msgs, NextHandsOver(m) PROVE BaseInv'
<1> DEFINE d == Walk(Cur(m))
           e == [d EXCEPT !.gone = TRUE]
<1>1. /\ Nexting(m) /\ NextReturns(m, e, calls[m]) /\ app' = app /\ calls' = calls
      /\ UNCHANGED <<fixed, calls, closed, lock, seen>> /\ Meets(d)
      /\ receivers' = [receivers EXCEPT ![d.id] = None]
      /\ inbox' = [inbox EXCEPT ![receivers[d.id].by] = m]
  BY DEF NextHandsOver, fixed
<1>2. /\ TypeOK /\ d \in Context /\ CtxOK(app, d) /\ Kept(Cur(m), d)
  BY <1>1, WalkOfCur
<1> HIDE DEF d
<1>3. e \in Context /\ e.router = Cur(m).router
  BY <1>2 DEF Context, Kept
<1>4. CtxOK(app, e)
  <2>1. /\ e.router = d.router /\ e.node = d.node /\ e.index = d.index /\ e.matches = d.matches
        /\ e.setPath = d.setPath /\ e.path = d.path /\ e.params = d.params /\ e.gone
        /\ e.beyond = d.beyond
    BY <1>2 DEF Context
  <2> HIDE DEF e
  <2> QED
    BY <1>2, <2>1 DEF CtxOK
<1>5. receivers' \in [Ids -> Entry \cup {None}] /\ inbox' \in [Msgs -> Msgs \cup {None}]
  BY <1>1, <1>2 DEF TypeOK
<1>6. ctl' \in [Msgs -> Controls]
  BY <1>1, <1>2 DEF NextReturns, TypeOK, Controls
<1>7. ctxs' \in [Msgs -> Seq(Context)] => TypeOK'
  BY <1>1, <1>2, <1>5, <1>6 DEF TypeOK, fixed
<1> QED
  BY <1>1, <1>3, <1>4, <1>7, NextReturnsStep

(* Next calls a handler.                                                   *)
LEMMA NextRunsHandlerStep == ASSUME BaseInv, NEW m \in Msgs, NextRunsHandler(m) PROVE BaseInv'
<1> DEFINE d == Walk(Cur(m))
           n == Len(ctxs[m])
           i == d.index + 1
           e == [d EXCEPT !.index = @ + 1]
           h == NodeOf(d).handlers[i]
<1>1. /\ Nexting(m) /\ Put(m, e) /\ app' = app /\ UNCHANGED <<fixed, shared>> /\ ~AtEnd(d)
      /\ calls' = [calls EXCEPT ![m] = Append(@, [h |-> h, nexts |-> 0, ctx |-> n])]
      /\ ctl' = [ctl EXCEPT ![m] = "run"]
      /\ seen' = [seen EXCEPT ![m].ran = Append(@, d.at \o <<d.node, i>>)]
  BY DEF NextRunsHandler, fixed
<1>2. /\ TypeOK /\ d \in Context /\ CtxOK(app, d) /\ Kept(Cur(m), d) /\ app \in Setups
      /\ d.matches /\ d.node \in 1..Len(Chain(Cur(m)))
      /\ i \in 1..Len(NodeOf(d).handlers) /\ ctl[m] # "idle" /\ Cur(m) \in Context /\ d.setPath = FALSE
  BY <1>1, WalkOfCur
<1>3. ctxs[m] # <<>> /\ n \in Nat /\ n >= 1 /\ StackOK(m) /\ ContextsOK(m) /\ Cur(m) = ctxs[m][n]
  BY <1>2, CurFacts
<1> HIDE DEF d
<1>4. Chain(d) = Chain(Cur(m)) /\ NodeOf(d) = Chain(d)[d.node] /\ Chain(d) = app.chain[d.router]
  BY <1>2 DEF Chain, Kept, NodeOf
<1>5. h \in Handlers /\ h \in HandlersOf(app.chain[d.router])
  <2>1. Chain(d)[d.node].handlers \in Seq(Handlers)
    BY <1>2, <1>4, ChainOf
  <2>2. h \in Handlers
    BY <1>2, <1>4, <2>1, ElementOfSeq
  <2> QED
    BY <1>2, <1>4, <2>2 DEF HandlersOf
<1>6. d.index \in Nat /\ i \in Nat /\ d.at \in Seq(Nat) /\ d.node \in Nat
  BY <1>2 DEF Context
<1>7. PICK j \in Nat : j = i
  BY <1>6
<1>8. e = [d EXCEPT !.index = j]
  BY <1>7
<1>9. e \in Context
  <2>1. [d EXCEPT !.index = j] \in Context
    BY <1>2 DEF Context
  <2> QED
    BY <1>8, <2>1
<1>10. /\ e.router = d.router /\ e.node = d.node /\ e.index = i /\ e.matches = d.matches
       /\ e.setPath = d.setPath /\ e.path = d.path /\ e.params = d.params /\ e.gone = d.gone
       /\ e.beyond = d.beyond /\ e.mu = d.mu
  BY <1>2 DEF Context
<1> HIDE DEF e
<1>11. CtxOK(app, e)
  BY <1>2, <1>4, <1>6, <1>10 DEF CtxOK
<1>12. /\ ctxs' \in [Msgs -> Seq(Context)]
       /\ Topped(ctxs[m], ctxs'[m], e)
       /\ Len(ctxs'[m]) = n
       /\ \A x \in Msgs \ {m} : ctxs'[x] = ctxs[x]
  <2>1. e.router = Cur(m).router
    BY <1>2, <1>10 DEF Kept
  <2> QED
    BY <1>1, <1>2, <1>3, <1>9, <2>1, PutMove DEF TypeOK
<1>13. [h |-> h, nexts |-> 0, ctx |-> n] \in CallType
  BY <1>3, <1>5 DEF CallType
<1>14. calls[m] \in Seq(CallType) /\ calls \in [Msgs -> Seq(CallType)]
  BY <1>2 DEF TypeOK, CallType
<1>15. /\ calls' \in [Msgs -> Seq(CallType)]
       /\ calls'[m] = Append(calls[m], [h |-> h, nexts |-> 0, ctx |-> n])
       /\ \A x \in Msgs \ {m} : calls'[x] = calls[x]
  BY <1>1, <1>13, <1>14, AppendProperties
<1>16. seen' \in [Msgs -> History]
  <2>1. d.at \o <<d.node, i>> \in Seq(Nat)
    <3>1. <<d.node, i>> \in Seq(Nat)
      BY <1>6
    <3> QED
      BY <1>6, <3>1, ConcatProperties
  <2>2. seen[m].ran \in Seq(Seq(Nat)) /\ seen \in [Msgs -> History]
    BY <1>2 DEF TypeOK, History
  <2>3. Append(seen[m].ran, d.at \o <<d.node, i>>) \in Seq(Seq(Nat))
    BY <2>1, <2>2, AppendProperties
  <2>4. PICK r \in Seq(Seq(Nat)) : r = Append(seen[m].ran, d.at \o <<d.node, i>>)
    BY <2>3
  <2>5. seen' = [seen EXCEPT ![m].ran = r]
    BY <1>1, <2>4
  <2> QED
    BY <2>2, <2>5 DEF History
<1>17. TypeOK'
  <2>1. ctl' \in [Msgs -> Controls]
    BY <1>1, <1>2 DEF TypeOK, Controls
  <2> QED
    BY <1>1, <1>2, <1>12, <1>15, <1>16, <2>1 DEF TypeOK, CallType, fixed, shared
<1>18. ctl'[m] = "run" /\ \A x \in Msgs \ {m} : ctl'[x] = ctl[x]
  BY <1>1, <1>2 DEF TypeOK
<1>19. StackOK(m)'
  BY <1>1, <1>2, <1>3, <1>5, <1>12, <1>17, <1>18, StackPush
<1>20. Len(calls[m]) \in Nat /\ Len(calls'[m]) = Len(calls[m]) + 1
       /\ calls'[m][Len(calls[m]) + 1] = [h |-> h, nexts |-> 0, ctx |-> n]
       /\ \A x \in 1..Len(calls[m]) : calls'[m][x] = calls[m][x]
  BY <1>13, <1>14, <1>15, AppendProperties, LenProperties
<1>21. ctxs'[m][n] = e /\ \A x \in 1..(n - 1) : SamePlace(ctxs[m][x], ctxs'[m][x])
  BY <1>12 DEF Topped
<1>22. \A x \in 1..n : ctxs'[m][x].router = ctxs[m][x].router
  <2> TAKE x \in 1..n
  <2>1. CASE x = n
    BY <1>2, <1>3, <1>10, <1>21, <2>1 DEF Kept
  <2>2. CASE x \in 1..(n - 1)
    BY <1>21, <2>2, SamePlaceOK
  <2> QED
    BY <1>3, <2>1, <2>2
<1>23. RoutersOK(m)'
  <2>1. 1 \in 1..n /\ \A x \in 2..n : x \in 1..n
    BY <1>3
  <2> QED
    BY <1>1, <1>3, <1>12, <1>22, <2>1 DEF ContextsOK, RoutersOK
<1>24. CallsOK(m)'
  <2> SUFFICES ASSUME NEW x \in 1..Len(calls'[m])
               PROVE calls'[m][x].h \in HandlersOf(app.chain[ctxs'[m][calls'[m][x].ctx].router])
    BY <1>1 DEF CallsOK
  <2>1. CASE x \in 1..Len(calls[m])
    <3>1. calls[m][x].ctx \in 1..n
      BY <1>2, <1>3, <2>1, CallLevels, StackTypes DEF StackOK
    <3>2. calls[m][x].h \in HandlersOf(app.chain[ctxs[m][calls[m][x].ctx].router])
      BY <1>3, <2>1 DEF ContextsOK, CallsOK
    <3> QED
      BY <1>20, <1>22, <2>1, <3>1, <3>2
  <2>2. CASE x = Len(calls[m]) + 1
    <3>1. calls'[m][x].h = h /\ calls'[m][x].ctx = n
      BY <1>20, <2>2
    <3> QED
      BY <1>5, <1>10, <1>21, <3>1
  <2>3. x \in 1..(Len(calls[m]) + 1)
    BY <1>20
  <2>4. x \in 1..Len(calls[m]) \/ x = Len(calls[m]) + 1
    BY <1>20, <2>3
  <2> QED
    BY <2>1, <2>2, <2>4
<1>25. PlacesOK(m)'
  <2>1. \A x \in 1..n : CtxOK(app, ctxs'[m][x])
    <3> TAKE x \in 1..n
    <3>1. CASE x = n
      BY <1>11, <1>21, <3>1
    <3>2. CASE x \in 1..(n - 1)
      <4>1. CtxOK(app, ctxs[m][x])
        BY <1>3 DEF ContextsOK, PlacesOK
      <4> QED
        BY <1>21, <3>2, <4>1, SamePlaceOK
    <3> QED
      BY <1>3, <3>1, <3>2
  <2>2. \A x \in 1..(n - 1) : InChain(app, ctxs'[m][x])
    <3> TAKE x \in 1..(n - 1)
    <3>1. InChain(app, ctxs[m][x])
      BY <1>3 DEF ContextsOK, PlacesOK
    <3> QED
      BY <1>21, <3>1, SamePlaceOK
  <2> QED
    BY <1>1, <1>12, <2>1, <2>2 DEF PlacesOK
<1>26. FreshOK(m)'
  <2>1. calls'[m][Len(calls'[m])].h = h /\ ctxs'[m][Len(ctxs'[m])] = e
    BY <1>12, <1>20, <1>21
  <2>2. AtHandler(app, e, h)
    BY <1>2, <1>4, <1>6, <1>10 DEF AtHandler
  <2> QED
    BY <1>1, <2>1, <2>2 DEF FreshOK
<1>27. ContextsOK(m)'
  BY <1>23, <1>24, <1>25, <1>26 DEF ContextsOK
<1> QED
  BY <1>1, <1>12, <1>15, <1>17, <1>18, <1>19, <1>27, Assemble DEF OthersSame

(* The handler in control, and its context                                 *)
LEMMA RunFacts ==
  ASSUME BaseInv, NEW m \in Msgs, ctl[m] = "run"
  PROVE  /\ TypeOK /\ StackOK(m) /\ ContextsOK(m) /\ app \in Setups
         /\ ctxs[m] # <<>> /\ Len(ctxs[m]) \in Nat /\ Len(ctxs[m]) >= 1 /\ ctxs[m] \in Seq(Context)
         /\ Cur(m) \in Context /\ Cur(m) = ctxs[m][Len(ctxs[m])] /\ CtxOK(app, Cur(m))
         /\ calls[m] # <<>> /\ Len(calls[m]) \in Nat /\ Len(calls[m]) >= 1
         /\ calls \in [Msgs -> Seq(CallType)]
         /\ Call(m) = calls[m][Len(calls[m])] /\ Call(m).h \in Handlers /\ Call(m).nexts \in 0..2
         /\ Call(m).ctx \in Nat /\ Call(m).ctx >= 1
         /\ Len(ctxs[m]) = Level(Call(m))
<1>1. /\ TypeOK /\ StackOK(m) /\ ContextsOK(m) /\ app \in Setups
      /\ ctxs[m] # <<>> /\ Len(ctxs[m]) \in Nat /\ Len(ctxs[m]) >= 1 /\ ctxs[m] \in Seq(Context)
      /\ Cur(m) \in Context /\ Cur(m) = ctxs[m][Len(ctxs[m])] /\ CtxOK(app, Cur(m))
      /\ calls \in [Msgs -> Seq(CallType)]
  BY CurFacts DEF TypeOK, CallType
<1>2. calls[m] # <<>>
  BY <1>1 DEF StackOK, Stacked
<1>3. /\ Len(calls[m]) \in Nat /\ Len(calls[m]) >= 1
      /\ Call(m) = calls[m][Len(calls[m])] /\ Call(m).h \in Handlers /\ Call(m).nexts \in 0..2
      /\ Call(m).ctx \in Nat
  BY <1>1, <1>2, CallFacts
<1>4. Len(ctxs[m]) = Level(Call(m))
  BY <1>1, <1>2, <1>3 DEF StackOK, Stacked
<1>5. Call(m).ctx \in 1..Len(ctxs[m])
  <2>1. Len(calls[m]) \in 1..Len(calls[m])
    BY <1>3
  <2> QED
    BY <1>1, <1>3, <2>1, CallLevels, StackTypes DEF StackOK
<1>6. Call(m).ctx >= 1
  BY <1>3, <1>5
<1> QED
  BY <1>1, <1>2, <1>3, <1>4, <1>6

(* A handler returns whose context is the innermost.                       *)
LEMMA HandlerReturnsHere ==
  ASSUME BaseInv, ctxs' \in [Msgs -> Seq(Context)] /\ calls' \in [Msgs -> Seq(CallType)]
                 /\ ctl' \in [Msgs -> Controls] => TypeOK',
         app' = app, NEW m \in Msgs, ctl[m] = "run", ~Serving(Call(m)),
         NEW c \in Context, CtxOK(app, c), c.router = Cur(m).router,
         HandlerReturns(m, Front(ctxs[m]), c)
  PROVE  BaseInv'
<1> DEFINE s == Front(ctxs[m])
<1>1. /\ s \in Seq(Context) /\ Len(s) = Len(ctxs[m]) - 1
      /\ \A i \in 1..(Len(ctxs[m]) - 1) : s[i] = ctxs[m][i]
  BY RunFacts, FrontOf
<1>2. Len(ctxs[m]) = Call(m).ctx /\ Len(ctxs[m]) \in Nat
  BY RunFacts DEF Level
<1>3. ctl' \in [Msgs -> Controls]
  BY RunFacts DEF TypeOK, HandlerReturns, Controls
<1>4. Len(s) + 1 = Call(m).ctx /\ c.router = ctxs[m][Len(s) + 1].router
  BY <1>1, <1>2, RunFacts
<1> HIDE DEF s
<1>5. HandlerReturns(m, s, c)
  BY DEF s
<1>6. \A i \in 1..Len(s) : s[i] = ctxs[m][i]
  BY <1>1
<1> QED
  BY <1>1, <1>3, <1>4, <1>5, <1>6, HandlerReturnsStep

(* A goroutine ends.                                                       *)
LEMMA FinishStep == ASSUME BaseInv, NEW m \in Msgs, Finish(m) PROVE BaseInv'
<1>1. /\ ctl[m] = "finish" /\ ctl' = [ctl EXCEPT ![m] = "ended"] /\ ctl[m] # "idle"
      /\ UNCHANGED <<fixed, ctxs, calls, closed, inbox, seen>> /\ app' = app
      /\ lock' = IF ctxs[m][1].gone \/ ctxs[m][1].id = NoId THEN lock
                 ELSE [lock EXCEPT ![ctxs[m][1].id] = None]
      /\ Finalized(ctxs[m][1])
  BY DEF Finish, fixed
<1>2. TypeOK /\ StackOK(m) /\ ContextsOK(m) /\ ctxs[m] # <<>>
  BY <1>1, CurFacts
<1>3. TypeOK'
  <2>1. receivers' \in [Ids -> Entry \cup {None}]
    BY <1>1, <1>2 DEF TypeOK, Finalized
  <2>2. lock' \in [Ids -> Msgs \cup {None}]
    BY <1>1, <1>2 DEF TypeOK
  <2>3. ctl' \in [Msgs -> Controls]
    BY <1>1, <1>2 DEF TypeOK, Controls
  <2> QED
    BY <1>1, <1>2, <2>1, <2>2, <2>3 DEF TypeOK, fixed
<1>4. /\ ctl'[m] = "ended" /\ ctxs'[m] = ctxs[m] /\ calls'[m] = calls[m]
      /\ \A x \in Msgs \ {m} : ctl'[x] = ctl[x] /\ ctxs'[x] = ctxs[x] /\ calls'[x] = calls[x]
  BY <1>1, <1>2 DEF TypeOK
<1>5. StackOK(m)'
  BY <1>1, <1>2, <1>3, <1>4, StackStay
<1>6. ContextsOK(m)'
  BY <1>1, <1>2, <1>4 DEF ContextsOK, RoutersOK, CallsOK, PlacesOK, FreshOK
<1> QED
  BY <1>1, <1>3, <1>4, <1>5, <1>6, Assemble DEF OthersSame

(* A mounted router makes its context.                                     *)
LEMMA EnterRouterStep == ASSUME BaseInv, NEW m \in Msgs, EnterRouter(m) PROVE BaseInv'
<1> DEFINE r == Call(m).h
           n == Len(ctxs[m])
           sub == SubContext(Cur(m), r)
           t == Append(ctxs[m], sub)
<1>1. /\ ctl[m] = "run" /\ r \in Routers /\ Call(m).nexts = 0 /\ Nexts(m, 1)
      /\ ctxs' = [ctxs EXCEPT ![m] = t] /\ ctl' = [ctl EXCEPT ![m] = "next"]
      /\ UNCHANGED <<fixed, shared, seen>> /\ app' = app
  BY DEF EnterRouter, Running, fixed
<1>2. /\ TypeOK /\ StackOK(m) /\ ContextsOK(m) /\ app \in Setups
      /\ n \in Nat /\ n >= 1 /\ ctxs[m] \in Seq(Context) /\ ctxs[m] # <<>>
      /\ Cur(m) \in Context /\ Cur(m) = ctxs[m][n] /\ CtxOK(app, Cur(m))
      /\ calls[m] # <<>> /\ Len(calls[m]) \in Nat /\ Len(calls[m]) >= 1
      /\ calls \in [Msgs -> Seq(CallType)]
      /\ Call(m) = calls[m][Len(calls[m])] /\ Call(m).ctx = n
  BY <1>1, RunFacts DEF Level, Serving
<1>3. sub \in Context
  BY <1>1, <1>2, SubContextType
<1>4. /\ sub.router = r /\ sub.node = 1 /\ sub.index = 0 /\ sub.matches = FALSE /\ sub.mu = "free"
      /\ sub.beyond = FALSE
  BY <1>2 DEF SubContext, Context
<1> HIDE DEF sub
<1>5. /\ t \in Seq(Context) /\ t # <<>> /\ Len(t) = n + 1 /\ t[n + 1] = sub
      /\ \A i \in 1..n : t[i] = ctxs[m][i]
  BY <1>2, <1>3, Appended
<1> HIDE DEF t
<1>6. /\ ctxs'[m] = t /\ ctxs' \in [Msgs -> Seq(Context)] /\ ctl'[m] = "next"
      /\ \A x \in Msgs \ {m} : ctl'[x] = ctl[x] /\ ctxs'[x] = ctxs[x]
  BY <1>1, <1>2, <1>5 DEF TypeOK
<1>7. /\ calls' \in [Msgs -> Seq(CallType)]
      /\ Len(calls'[m]) = Len(calls[m])
      /\ \A i \in 1..(Len(calls[m]) - 1) : calls'[m][i] = calls[m][i]
      /\ calls'[m][Len(calls[m])].h = r /\ calls'[m][Len(calls[m])].ctx = n
      /\ \A x \in Msgs \ {m} : calls'[x] = calls[x]
  <2>1. 1 \in 0..2
    OBVIOUS
  <2> QED
    BY <1>1, <1>2, <2>1, NextsMove
<1>8. TypeOK'
  <2>1. ctl' \in [Msgs -> Controls]
    BY <1>1, <1>2 DEF TypeOK, Controls
  <2> QED
    BY <1>1, <1>2, <1>6, <1>7, <2>1 DEF TypeOK, CallType, fixed, shared
<1>9. StackOK(m)'
  <2>1. Len(ctxs'[m]) = Call(m).ctx + 1
    BY <1>2, <1>5, <1>6
  <2>2. 1 \in {1, 2}
    OBVIOUS
  <2> QED
    BY <1>1, <1>2, <1>6, <1>8, <2>1, <2>2, StackRouter
<1>10. AtHandler(app, Cur(m), r) /\ r \in HandlersOf(app.chain[Cur(m).router])
  <2>1. AtHandler(app, Cur(m), r)
    BY <1>1, <1>2 DEF ContextsOK, FreshOK
  <2>2. Len(calls[m]) \in 1..Len(calls[m])
    BY <1>2
  <2>3. r \in HandlersOf(app.chain[Cur(m).router])
    BY <1>2, <2>2 DEF ContextsOK, CallsOK
  <2> QED
    BY <2>1, <2>3
<1>11. InChain(app, Cur(m))
  BY <1>2, <1>10 DEF InChain, AtHandler, CtxOK
<1>12. RoutersOK(m)'
  <2>1. t[1].router = Root
    <3>1. 1 \in 1..n
      BY <1>2
    <3> QED
      BY <1>2, <1>5, <3>1 DEF ContextsOK, RoutersOK
  <2>2. ASSUME NEW i \in 2..(n + 1) PROVE t[i].router \in Mounts(app)
    <3>1. CASE i = n + 1
      <4>1. Cur(m).router \in Routers
        BY <1>2 DEF Context
      <4> QED
        BY <1>1, <1>4, <1>5, <1>10, <3>1, <4>1 DEF Mounts
    <3>2. CASE i \in 2..n
      <4>1. i \in 1..n
        BY <3>2
      <4> QED
        BY <1>2, <1>5, <3>2, <4>1 DEF ContextsOK, RoutersOK
    <3> QED
      BY <1>2, <3>1, <3>2
  <2> QED
    BY <1>1, <1>5, <1>6, <2>1, <2>2 DEF RoutersOK
<1>13. CallsOK(m)'
  <2> SUFFICES ASSUME NEW x \in 1..Len(calls'[m])
               PROVE calls'[m][x].h \in HandlersOf(app.chain[t[calls'[m][x].ctx].router])
    BY <1>1, <1>6 DEF CallsOK
  <2>0. x \in 1..Len(calls[m])
    BY <1>7
  <2>1. calls'[m][x].h = calls[m][x].h /\ calls'[m][x].ctx = calls[m][x].ctx
    <3>1. CASE x = Len(calls[m])
      BY <1>2, <1>7, <3>1
    <3>2. CASE x \in 1..(Len(calls[m]) - 1)
      BY <1>7, <3>2
    <3> QED
      BY <2>0, <3>1, <3>2
  <2>2. calls[m][x].ctx \in 1..n
    BY <1>2, <2>0, CallLevels, StackTypes DEF StackOK
  <2>3. calls[m][x].h \in HandlersOf(app.chain[ctxs[m][calls[m][x].ctx].router])
    BY <1>2, <2>0 DEF ContextsOK, CallsOK
  <2> QED
    BY <1>5, <2>1, <2>2, <2>3
<1>14. PlacesOK(m)'
  <2>1. CtxOK(app, sub)
    <3>1. Len(app.chain[r]) \in Nat
      BY <1>1, <1>2, AppOK, LenProperties
    <3> QED
      BY <1>4, <3>1 DEF CtxOK
  <2>2. ASSUME NEW i \in 1..(n + 1) PROVE CtxOK(app, t[i])
    <3>1. CASE i = n + 1
      BY <1>5, <2>1, <3>1
    <3>2. CASE i \in 1..n
      BY <1>2, <1>5, <3>2 DEF ContextsOK, PlacesOK
    <3> QED
      BY <1>2, <3>1, <3>2
  <2>3. ASSUME NEW i \in 1..n PROVE InChain(app, t[i])
    <3>1. CASE i = n
      BY <1>2, <1>5, <1>11, <3>1
    <3>2. CASE i \in 1..(n - 1)
      BY <1>2, <1>5, <3>2 DEF ContextsOK, PlacesOK
    <3> QED
      BY <1>2, <3>1, <3>2
  <2>4. Len(t) - 1 = n /\ Len(t) = n + 1
    BY <1>2, <1>5
  <2> QED
    BY <1>1, <1>6, <2>2, <2>3, <2>4 DEF PlacesOK
<1>15. FreshOK(m)'
  BY <1>6 DEF FreshOK
<1>16. ContextsOK(m)'
  BY <1>12, <1>13, <1>14, <1>15 DEF ContextsOK
<1> QED
  BY <1>1, <1>6, <1>7, <1>8, <1>9, <1>16, Assemble DEF OthersSame

(* A mounted router drops its context, and its parent goes on or it        *)
(* returns.                                                                *)
LEMMA LeaveRouterStep == ASSUME BaseInv, NEW m \in Msgs, LeaveRouter(m) PROVE BaseInv'
<1> DEFINE S == ctxs[m]
           n == Len(S)
           stack == Front(S)
<1>1. /\ ctl[m] = "run" /\ Call(m).h \in Routers /\ Call(m).nexts = 1
      /\ Finalized(Cur(m)) /\ UNCHANGED <<fixed, closed, lock, inbox, seen>> /\ app' = app
      /\ \/ /\ Cur(m).beyond
            /\ ctxs' = [ctxs EXCEPT ![m] = stack] /\ Nexts(m, 2)
            /\ ctl' = [ctl EXCEPT ![m] = "next"]
         \/ ~Cur(m).beyond /\ HandlerReturns(m, Front(stack), Last(stack))
  BY DEF LeaveRouter, Running, fixed
<1>2. /\ TypeOK /\ StackOK(m) /\ ContextsOK(m) /\ app \in Setups
      /\ n \in Nat /\ n = Call(m).ctx + 1 /\ Call(m).ctx \in Nat /\ Call(m).ctx >= 1
      /\ S \in Seq(Context) /\ S # <<>>
      /\ Cur(m) \in Context /\ Cur(m) = S[n]
      /\ calls[m] # <<>> /\ Len(calls[m]) \in Nat /\ Len(calls[m]) >= 1
      /\ calls \in [Msgs -> Seq(CallType)] /\ ctxs \in [Msgs -> Seq(Context)]
      /\ Call(m) = calls[m][Len(calls[m])]
  BY <1>1, RunFacts DEF Level, Serving, TypeOK
<1>3. receivers' \in [Ids -> Entry \cup {None}]
  BY <1>1, <1>2 DEF TypeOK, Finalized
<1>4. /\ stack \in Seq(Context) /\ Len(stack) = n - 1
      /\ \A i \in 1..(n - 1) : stack[i] = S[i]
  BY <1>2, FrontOf
<1>5. n - 1 = Call(m).ctx /\ n - 1 \in Nat /\ n - 1 >= 1 /\ n - 1 \in 1..n
  BY <1>2
<1>6. stack # <<>>
  BY <1>4, <1>5, EmptyOrNot
<1> HIDE DEF stack, S, n
<1>7. /\ Last(stack) = S[n - 1] /\ Last(stack) \in Context /\ Front(stack) \in Seq(Context)
      /\ Len(Front(stack)) = (n - 1) - 1 /\ \A i \in 1..((n - 1) - 1) : Front(stack)[i] = S[i]
  <2>1. /\ Last(stack) \in Context /\ Last(stack) = stack[n - 1]
        /\ Front(stack) \in Seq(Context)
        /\ Len(Front(stack)) = (n - 1) - 1
        /\ \A i \in 1..((n - 1) - 1) : Front(stack)[i] = stack[i]
    BY <1>4, <1>6, FrontOf
  <2>2. \A i \in 1..((n - 1) - 1) : i \in 1..(n - 1)
    BY <1>5
  <2>3. n - 1 \in 1..(n - 1)
    BY <1>5
  <2> QED
    BY <1>4, <2>1, <2>2, <2>3
<1>8. CtxOK(app, Last(stack))
  BY <1>2, <1>5, <1>7 DEF ContextsOK, PlacesOK, S, n
<1>9. CASE Cur(m).beyond
  <2>1. ctxs' = [ctxs EXCEPT ![m] = stack] /\ Nexts(m, 2) /\ ctl' = [ctl EXCEPT ![m] = "next"]
    BY <1>1, <1>9
  <2>2. /\ ctxs'[m] = stack /\ ctxs' \in [Msgs -> Seq(Context)] /\ ctl'[m] = "next"
        /\ \A x \in Msgs \ {m} : ctl'[x] = ctl[x] /\ ctxs'[x] = ctxs[x]
    BY <1>2, <1>4, <2>1 DEF TypeOK
  <2>3. /\ calls' \in [Msgs -> Seq(CallType)]
        /\ Len(calls'[m]) = Len(calls[m])
        /\ \A i \in 1..(Len(calls[m]) - 1) : calls'[m][i] = calls[m][i]
        /\ calls'[m][Len(calls[m])].h = Call(m).h /\ calls'[m][Len(calls[m])].ctx = Call(m).ctx
        /\ \A x \in Msgs \ {m} : calls'[x] = calls[x]
    <3>1. 2 \in 0..2
      OBVIOUS
    <3> QED
      BY <1>2, <2>1, <3>1, NextsMove
  <2>4. TypeOK'
    <3>1. ctl' \in [Msgs -> Controls]
      BY <1>2, <2>1 DEF TypeOK, Controls
    <3> QED
      BY <1>1, <1>2, <1>3, <2>2, <2>3, <3>1 DEF TypeOK, CallType, fixed
  <2>5. StackOK(m)'
    <3>1. Len(ctxs'[m]) = Call(m).ctx
      BY <1>4, <1>5, <2>2
    <3>2. 2 \in {1, 2} /\ 2 # 1
      OBVIOUS
    <3> QED
      BY <1>1, <1>2, <2>1, <2>2, <2>4, <3>1, <3>2, StackRouter
  <2>6. Topped(ctxs[m], ctxs'[m], Last(stack))
    <3>1. stack[n - 1] = Last(stack) /\ stack[n - 1] = S[n - 1]
      BY <1>4, <1>5, <1>7
    <3>2. \A i \in 1..((n - 1) - 1) : SamePlace(S[i], stack[i])
      <4>1. \A i \in 1..((n - 1) - 1) : i \in 1..(n - 1)
        BY <1>5
      <4> QED
        BY <1>4, <4>1, SamePlaceRefl
    <3> QED
      BY <1>4, <1>5, <1>7, <2>2, <3>1, <3>2 DEF Topped, S, n
  <2>7. FreshOK(m)'
    BY <2>2 DEF FreshOK
  <2>8. ASSUME NEW i \in 1..Len(calls'[m])
        PROVE calls'[m][i].h = calls[m][i].h /\ calls'[m][i].ctx = calls[m][i].ctx
    <3>1. CASE i = Len(calls[m])
      BY <1>2, <2>3, <3>1
    <3>2. CASE i \in 1..(Len(calls[m]) - 1)
      BY <2>3, <3>2
    <3> QED
      BY <1>2, <2>3, <3>1, <3>2
  <2>9. Len(calls'[m]) <= Len(calls[m])
    BY <1>2, <2>3
  <2>10. ContextsOK(m)'
    BY <1>1, <1>2, <1>8, <2>4, <2>5, <2>6, <2>7, <2>8, <2>9, ContextsTopped
  <2> QED
    BY <1>1, <2>2, <2>3, <2>4, <2>5, <2>10, Assemble DEF OthersSame
<1>10. CASE ~Cur(m).beyond
  <2>1. HandlerReturns(m, Front(stack), Last(stack))
    BY <1>1, <1>10
  <2>2. ctl' \in [Msgs -> Controls]
    BY <1>2, <2>1 DEF TypeOK, HandlerReturns, Controls
  <2>3. ctxs' \in [Msgs -> Seq(Context)] /\ calls' \in [Msgs -> Seq(CallType)] => TypeOK'
    BY <1>1, <1>2, <1>3, <2>2 DEF TypeOK, CallType, fixed
  <2> DEFINE f == Front(stack)
  <2>4. f \in Seq(Context) /\ Len(f) + 1 = Call(m).ctx /\ Len(f) + 1 = n - 1
    <3>1. f \in Seq(Context) /\ Len(f) = (n - 1) - 1
      BY <1>2, <1>5, <1>7
    <3> HIDE DEF f
    <3>2. n - 1 = Call(m).ctx /\ n - 1 \in Nat
      BY <1>2, <1>5, <1>7
    <3>3. Len(f) + 1 = n - 1
      BY <3>1, <3>2
    <3> QED
      BY <3>1, <3>2, <3>3
  <2>5. \A i \in 1..Len(f) : f[i] = ctxs[m][i]
    BY <1>7 DEF S
  <2>6. Last(stack).router = ctxs[m][Len(f) + 1].router
    BY <1>7, <2>4 DEF S
  <2> HIDE DEF f
  <2>7. HandlerReturns(m, f, Last(stack))
    BY <2>1 DEF f
  <2> QED
    BY <1>1, <1>7, <1>8, <2>3, <2>4, <2>5, <2>6, <2>7, HandlerReturnsStep
<1> QED
  BY <1>9, <1>10

(* A mounted router returns.                                               *)
LEMMA RouterReturnsStep == ASSUME BaseInv, NEW m \in Msgs, RouterReturns(m) PROVE BaseInv'
<1>1. /\ ctl[m] = "run" /\ Call(m).nexts = 2 /\ HandlerReturns(m, Front(ctxs[m]), Cur(m))
      /\ UNCHANGED <<fixed, shared, seen>> /\ app' = app
  BY DEF RouterReturns, Running, fixed
<1>2. ~Serving(Call(m))
  BY <1>1 DEF Serving
<1>3. TypeOK /\ Cur(m) \in Context /\ CtxOK(app, Cur(m))
  BY <1>1, RunFacts
<1>4. ctxs' \in [Msgs -> Seq(Context)] /\ calls' \in [Msgs -> Seq(CallType)]
        /\ ctl' \in [Msgs -> Controls] => TypeOK'
  BY <1>1, <1>3 DEF TypeOK, CallType, fixed, shared
<1> QED
  BY <1>1, <1>2, <1>3, <1>4, HandlerReturnsHere

(* Codecs and functions make no contexts.                                  *)
LEMMA NotServing ==
  ASSUME NEW k, k.h \in Codecs \cup Funcs
  PROVE  ~Serving(k) /\ k.h \notin Routers
BY HandlerChainAssumption DEF Serving

(* a panic, and what else sets an error in passing                         *)
LEMMA ErrorFacts ==
  ASSUME app \in Setups, NEW c \in Context, CtxOK(app, c), NEW mu \in Mutex, mu # "free" => c.gone
  PROVE  LET d == [c EXCEPT !.error = TRUE, !.mu = mu] IN
         d \in Context /\ CtxOK(app, d) /\ d.router = c.router
<1> DEFINE d == [c EXCEPT !.error = TRUE, !.mu = mu]
<1>1. d \in Context
  BY DEF Context
<1>2. /\ d.router = c.router /\ d.node = c.node /\ d.index = c.index /\ d.matches = c.matches
      /\ d.setPath = c.setPath /\ d.path = c.path /\ d.params = c.params /\ d.gone = c.gone
      /\ d.beyond = c.beyond /\ d.mu = mu
  BY DEF Context
<1> HIDE DEF d
<1>3. CtxOK(app, d)
  BY <1>2 DEF CtxOK
<1> QED
  BY <1>1, <1>2, <1>3 DEF d

(* The history keeps its type.                                             *)
LEMMA FailedTypes ==
  ASSUME seen \in [Msgs -> History], NEW m \in Msgs
  PROVE  /\ [seen EXCEPT ![m].failed = TRUE, ![m].err = TRUE] \in [Msgs -> History]
         /\ \A b \in BOOLEAN : /\ [seen EXCEPT ![m].err = b] \in [Msgs -> History]
                               /\ [seen EXCEPT ![m].stopped = b] \in [Msgs -> History]
                               /\ [seen EXCEPT ![m].moved = b] \in [Msgs -> History]
BY ZenonT(60) DEF History

(* A codec refuses.                                                        *)
LEMMA DecodeRefusedStep == ASSUME BaseInv, NEW m \in Msgs, DecodeRefused(m) PROVE BaseInv'
<1> DEFINE c == Cur(m)
           d == [c EXCEPT !.error = TRUE]
<1>1. /\ ctl[m] = "run" /\ Call(m).h \in Codecs /\ HandlerReturns(m, Front(ctxs[m]), d)
      /\ UNCHANGED <<fixed, shared>> /\ app' = app
      /\ seen' = [seen EXCEPT ![m].failed = TRUE, ![m].err = TRUE]
  BY DEF DecodeRefused, Running, fixed
<1>2. TypeOK /\ c \in Context /\ CtxOK(app, c) /\ app \in Setups
  BY <1>1, RunFacts
<1>3. d = [c EXCEPT !.error = TRUE, !.mu = c.mu] /\ c.mu \in Mutex /\ (c.mu # "free" => c.gone)
  BY <1>2 DEF Context, CtxOK
<1>4. d \in Context /\ CtxOK(app, d) /\ d.router = c.router
  BY <1>2, <1>3, ErrorFacts
<1>5. seen' \in [Msgs -> History]
  BY <1>1, <1>2, FailedTypes DEF TypeOK
<1>6. ctxs' \in [Msgs -> Seq(Context)] /\ calls' \in [Msgs -> Seq(CallType)]
        /\ ctl' \in [Msgs -> Controls] => TypeOK'
  BY <1>1, <1>2, <1>5 DEF TypeOK, CallType, fixed, shared
<1>7. ~Serving(Call(m))
  BY <1>1, NotServing
<1> HIDE DEF d
<1> QED
  BY <1>1, <1>2, <1>4, <1>6, <1>7, HandlerReturnsHere

(* A codec returns.                                                        *)
LEMMA CodecReturnsStep == ASSUME BaseInv, NEW m \in Msgs, CodecReturns(m) PROVE BaseInv'
<1>1. /\ ctl[m] = "run" /\ Call(m).h \in Codecs /\ HandlerReturns(m, Front(ctxs[m]), Cur(m))
      /\ UNCHANGED <<fixed, shared, seen>> /\ app' = app
  BY DEF CodecReturns, Running, fixed
<1>2. ~Serving(Call(m))
  BY <1>1, NotServing
<1>3. TypeOK /\ Cur(m) \in Context /\ CtxOK(app, Cur(m))
  BY <1>1, RunFacts
<1>4. ctxs' \in [Msgs -> Seq(Context)] /\ calls' \in [Msgs -> Seq(CallType)]
        /\ ctl' \in [Msgs -> Controls] => TypeOK'
  BY <1>1, <1>3 DEF TypeOK, CallType, fixed, shared
<1> QED
  BY <1>1, <1>2, <1>3, <1>4, HandlerReturnsHere

(* A function returns.                                                     *)
LEMMA FuncReturnsStep == ASSUME BaseInv, NEW m \in Msgs, FuncReturns(m) PROVE BaseInv'
<1>1. /\ ctl[m] = "run" /\ Call(m).h \in Funcs /\ HandlerReturns(m, Front(ctxs[m]), Cur(m))
      /\ UNCHANGED <<fixed, shared>> /\ app' = app
      /\ seen' = [seen EXCEPT ![m].stopped = @ \/ Call(m).nexts = 0]
  BY DEF FuncReturns, Running, fixed
<1>2. ~Serving(Call(m))
  BY <1>1, NotServing
<1>3. TypeOK /\ Cur(m) \in Context /\ CtxOK(app, Cur(m))
  BY <1>1, RunFacts
<1>4. seen' \in [Msgs -> History]
  <2>1. (seen[m].stopped \/ Call(m).nexts = 0) \in BOOLEAN
    OBVIOUS
  <2>2. PICK b \in BOOLEAN : b = (seen[m].stopped \/ Call(m).nexts = 0)
    BY <2>1
  <2>3. seen' = [seen EXCEPT ![m].stopped = b]
    BY <1>1, <2>2
  <2> QED
    BY <1>3, <2>3, FailedTypes DEF TypeOK
<1>5. ctxs' \in [Msgs -> Seq(Context)] /\ calls' \in [Msgs -> Seq(CallType)]
        /\ ctl' \in [Msgs -> Controls] => TypeOK'
  BY <1>1, <1>3, <1>4 DEF TypeOK, CallType, fixed, shared
<1> QED
  BY <1>1, <1>2, <1>3, <1>5, HandlerReturnsHere

(* A function panics for want of a message.                                *)
LEMMA NothingLeftStep == ASSUME BaseInv, NEW m \in Msgs, NothingLeft(m) PROVE BaseInv'
<1> DEFINE c == Cur(m)
<1>1. PICK mu \in Mutex :
        /\ Call(m).h \in Funcs
        /\ HandlerReturns(m, Front(ctxs[m]), [c EXCEPT !.error = TRUE, !.mu = mu])
  BY DEF NothingLeft, Doing, Running
<1>2. /\ ctl[m] = "run" /\ c.gone /\ UNCHANGED <<fixed, shared>> /\ app' = app
      /\ seen' = [seen EXCEPT ![m].failed = TRUE, ![m].err = TRUE]
  BY DEF NothingLeft, fixed
<1> DEFINE d == [c EXCEPT !.error = TRUE, !.mu = mu]
<1>3. TypeOK /\ c \in Context /\ CtxOK(app, c) /\ app \in Setups
  BY <1>2, RunFacts
<1>4. d \in Context /\ CtxOK(app, d) /\ d.router = c.router
  BY <1>2, <1>3, ErrorFacts
<1>5. seen' \in [Msgs -> History]
  BY <1>2, <1>3, FailedTypes DEF TypeOK
<1>6. ctxs' \in [Msgs -> Seq(Context)] /\ calls' \in [Msgs -> Seq(CallType)]
        /\ ctl' \in [Msgs -> Controls] => TypeOK'
  BY <1>2, <1>3, <1>5 DEF TypeOK, CallType, fixed, shared
<1>7. ~Serving(Call(m))
  BY <1>1, NotServing
<1> HIDE DEF d
<1>8. HandlerReturns(m, Front(ctxs[m]), d)
  BY <1>1 DEF d
<1> QED
  BY <1>2, <1>3, <1>4, <1>6, <1>7, <1>8, HandlerReturnsHere

-----------------------------------------------------------------------------
(* The function in control changes its context, but stays at its place.    *)
SameHold(c, d) ==
    /\ d.router = c.router /\ d.node = c.node /\ d.index = c.index /\ d.matches = c.matches

(* A function changes its context, but not its place.                      *)
LEMMA TouchStep ==
  ASSUME BaseInv, NEW m \in Msgs, app' = app, calls' = calls, ctl[m] = "run",
         NEW x, ctl' = [ctl EXCEPT ![m] = x],
         x \in {"run", "stuck"} \/ (x = "asleep" /\ Call(m).h \in Funcs),
         NEW d \in Context, CtxOK(app, d), SameHold(Cur(m), d), Put(m, d),
         ctxs' \in [Msgs -> Seq(Context)] => TypeOK'
  PROVE  BaseInv'
<1>1. TypeOK /\ ctxs[m] # <<>> /\ ctxs \in [Msgs -> Seq(Context)]
  BY RunFacts DEF TypeOK
<1>2. /\ ctxs' \in [Msgs -> Seq(Context)]
      /\ Topped(ctxs[m], ctxs'[m], d)
      /\ Len(ctxs'[m]) = Len(ctxs[m])
      /\ \A y \in Msgs \ {m} : ctxs'[y] = ctxs[y]
  BY <1>1, PutMove DEF SameHold
<1>3. TypeOK'
  BY <1>2
<1> QED
  BY <1>2, <1>3, StayStep DEF SameHold

(* A way to say that control stays where it is.                            *)
LEMMA SameControl ==
  ASSUME TypeOK, NEW m \in Msgs, ctl[m] = "run", ctl' = ctl
  PROVE  ctl' = [ctl EXCEPT ![m] = "run"]
BY DEF TypeOK

(* A function sets the error,                                              *)
LEMMA SetErrorStep == ASSUME BaseInv, NEW m \in Msgs, SetError(m) PROVE BaseInv'
<1> DEFINE c == Cur(m)
           d == [c EXCEPT !.error = TRUE]
<1>1. /\ ctl[m] = "run" /\ Put(m, d) /\ ctl' = ctl /\ calls' = calls
      /\ UNCHANGED <<fixed, shared>> /\ app' = app
      /\ seen' = [seen EXCEPT ![m].failed = TRUE, ![m].err = TRUE]
  BY DEF SetError, Doing, Running, fixed
<1>2. TypeOK /\ c \in Context /\ CtxOK(app, c) /\ app \in Setups
  BY <1>1, RunFacts
<1>3. d = [c EXCEPT !.error = TRUE, !.mu = c.mu] /\ c.mu \in Mutex /\ (c.mu # "free" => c.gone)
  BY <1>2 DEF Context, CtxOK
<1>4. d \in Context /\ CtxOK(app, d)
  BY <1>2, <1>3, ErrorFacts
<1>5. SameHold(c, d)
  BY <1>2 DEF SameHold, Context
<1>6. seen' \in [Msgs -> History]
  BY <1>1, <1>2, FailedTypes DEF TypeOK
<1>7. ctxs' \in [Msgs -> Seq(Context)] => TypeOK'
  BY <1>1, <1>2, <1>6 DEF TypeOK, fixed, shared
<1> HIDE DEF d
<1> QED
  BY <1>1, <1>2, <1>4, <1>5, <1>7, SameControl, TouchStep

(* clears it,                                                              *)
LEMMA ClearErrorStep == ASSUME BaseInv, NEW m \in Msgs, ClearError(m) PROVE BaseInv'
<1> DEFINE c == Cur(m)
           d == [c EXCEPT !.error = FALSE]
<1>1. /\ ctl[m] = "run" /\ Put(m, d) /\ ctl' = ctl /\ calls' = calls
      /\ UNCHANGED <<fixed, shared>> /\ app' = app
      /\ seen' = [seen EXCEPT ![m].err = FALSE]
  BY DEF ClearError, Doing, Running, fixed
<1>2. TypeOK /\ c \in Context /\ CtxOK(app, c) /\ app \in Setups
  BY <1>1, RunFacts
<1>3. d \in Context
  BY <1>2 DEF Context
<1>4. d.path = c.path /\ d.setPath = c.setPath /\ d.params = c.params /\ d.mu = c.mu
      /\ d.gone = c.gone /\ d.beyond = c.beyond /\ SameHold(c, d)
  BY <1>2 DEF SameHold, Context
<1>6. seen' \in [Msgs -> History]
  BY <1>1, <1>2, FailedTypes DEF TypeOK
<1>7. ctxs' \in [Msgs -> Seq(Context)] => TypeOK'
  BY <1>1, <1>2, <1>6 DEF TypeOK, fixed, shared
<1> HIDE DEF d
<1>5. CtxOK(app, d)
  BY <1>2, <1>4 DEF CtxOK, SameHold
<1> QED
  BY <1>1, <1>2, <1>3, <1>4, <1>5, <1>7, SameControl, TouchStep

(* sets the path,                                                          *)
LEMMA SetMessagePathStep == ASSUME BaseInv, NEW m \in Msgs, SetMessagePath(m) PROVE BaseInv'
<1> DEFINE c == Cur(m)
<1>1. PICK p \in Paths : Put(m, [c EXCEPT !.path = p, !.setPath = TRUE])
  BY DEF SetMessagePath
<1> DEFINE d == [c EXCEPT !.path = p, !.setPath = TRUE]
<1>2. /\ ctl[m] = "run" /\ ctl' = ctl /\ calls' = calls
      /\ UNCHANGED <<fixed, shared>> /\ app' = app
      /\ seen' = [seen EXCEPT ![m].moved = TRUE]
  BY DEF SetMessagePath, Doing, Running, fixed
<1>3. TypeOK /\ c \in Context /\ CtxOK(app, c) /\ app \in Setups
  BY <1>2, RunFacts
<1>4. d \in Context
  BY <1>3 DEF Context
<1>5. d.setPath = TRUE /\ d.params = c.params /\ d.mu = c.mu
      /\ d.gone = c.gone /\ d.beyond = c.beyond /\ SameHold(c, d)
  BY <1>3 DEF SameHold, Context
<1>6. seen' \in [Msgs -> History]
  BY <1>2, <1>3, FailedTypes DEF TypeOK
<1>7. ctxs' \in [Msgs -> Seq(Context)] => TypeOK'
  BY <1>2, <1>3, <1>6 DEF TypeOK, fixed, shared
<1> HIDE DEF d
<1>8. CtxOK(app, d)
  BY <1>3, <1>5 DEF CtxOK, SameHold
<1>9. Put(m, d)
  BY <1>1 DEF d
<1> QED
  BY <1>2, <1>3, <1>4, <1>5, <1>7, <1>8, <1>9, SameControl, TouchStep

(* Set and Delete                                                          *)
LEMMA ValueStep ==
  ASSUME BaseInv, NEW m \in Msgs, ctl[m] = "run", NEW k \in Keys, NEW v \in Vals \cup {None},
         Put(m, [Cur(m) EXCEPT !.values[k] = v]), seen' = [seen EXCEPT ![m].latest[k] = v],
         UNCHANGED <<fixed, ctl, calls, shared>>
  PROVE  BaseInv'
<1> DEFINE c == Cur(m)
           d == [c EXCEPT !.values[k] = v]
<1>1. ctl' = ctl /\ calls' = calls /\ UNCHANGED <<fixed, shared>> /\ app' = app
  BY DEF fixed
<1>2. TypeOK /\ c \in Context /\ CtxOK(app, c) /\ app \in Setups
  BY RunFacts
<1>3. d \in Context
  <2>1. [c.values EXCEPT ![k] = v] \in [Keys -> Vals \cup {None}]
    BY <1>2 DEF Context
  <2> QED
    BY <1>2, <2>1 DEF Context
<1>4. d.path = c.path /\ d.setPath = c.setPath /\ d.params = c.params /\ d.mu = c.mu
      /\ d.gone = c.gone /\ d.beyond = c.beyond /\ SameHold(c, d)
  BY <1>2 DEF SameHold, Context
<1>6. seen' \in [Msgs -> History]
  <2>1. seen[m] \in History /\ [seen[m].latest EXCEPT ![k] = v] \in [Keys -> Vals \cup {None}]
    BY <1>2 DEF TypeOK, History
  <2>2. [seen[m] EXCEPT !.latest[k] = v] \in History
    BY <2>1 DEF History
  <2> QED
    BY <1>2, <2>2 DEF TypeOK
<1>7. ctxs' \in [Msgs -> Seq(Context)] => TypeOK'
  BY <1>1, <1>2, <1>6 DEF TypeOK, fixed, shared
<1> HIDE DEF d
<1>5. CtxOK(app, d)
  BY <1>2, <1>4 DEF CtxOK, SameHold
<1>8. Put(m, d)
  BY DEF d
<1> QED
  BY <1>1, <1>2, <1>3, <1>4, <1>5, <1>7, <1>8, SameControl, TouchStep

(* sets a value,                                                           *)
LEMMA SetStep == ASSUME BaseInv, NEW m \in Msgs, Set(m) PROVE BaseInv'
<1>1. ctl[m] = "run" /\ UNCHANGED <<fixed, ctl, calls, shared>>
  BY DEF Set, Doing, Running
<1>2. PICK k \in Keys, v \in Vals : /\ Put(m, [Cur(m) EXCEPT !.values[k] = v])
                                    /\ seen' = [seen EXCEPT ![m].latest[k] = v]
  BY DEF Set
<1> QED
  BY <1>1, <1>2, ValueStep

(* deletes one,                                                            *)
LEMMA DeleteStep == ASSUME BaseInv, NEW m \in Msgs, Delete(m) PROVE BaseInv'
<1>1. ctl[m] = "run" /\ UNCHANGED <<fixed, ctl, calls, shared>>
  BY DEF Delete, Doing, Running
<1>2. PICK k \in Keys : /\ Put(m, [Cur(m) EXCEPT !.values[k] = None])
                        /\ seen' = [seen EXCEPT ![m].latest[k] = None]
  BY DEF Delete
<1> QED
  BY <1>1, <1>2, ValueStep

(* goes to sleep,                                                          *)
LEMMA ReceiveStep == ASSUME BaseInv, NEW m \in Msgs, Receive(m) PROVE BaseInv'
<1> DEFINE c == Cur(m)
           d == [c EXCEPT !.chan = TRUE, !.owns = TRUE]
           e == [at |-> <<c.router, c.node, c.index - 1>>, by |-> m]
<1>1. /\ ctl[m] = "run" /\ Call(m).h \in Funcs /\ Put(m, d) /\ ctl' = [ctl EXCEPT ![m] = "asleep"]
      /\ c.id # NoId /\ receivers' = [receivers EXCEPT ![c.id] = e]
      /\ lock' = [lock EXCEPT ![c.id] = None]
      /\ UNCHANGED <<fixed, calls, closed, inbox, seen>> /\ app' = app
  BY DEF Receive, Doing, Running, fixed
<1>2. TypeOK /\ c \in Context /\ CtxOK(app, c) /\ app \in Setups
  BY <1>1, RunFacts
<1>3. d \in Context
  BY <1>2 DEF Context
<1>4. d.path = c.path /\ d.setPath = c.setPath /\ d.params = c.params /\ d.mu = c.mu
      /\ d.gone = c.gone /\ d.beyond = c.beyond /\ SameHold(c, d)
  BY <1>2 DEF SameHold, Context
<1>5. e \in Entry
  <2>1. c.router \in Routers /\ c.node \in Int /\ c.index - 1 \in Int
    BY <1>2 DEF Context
  <2>2. PICK i \in Int : i = c.index - 1
    BY <2>1
  <2>3. [at |-> <<c.router, c.node, i>>, by |-> m] \in Entry
    BY <2>1 DEF Entry
  <2> QED
    BY <2>2, <2>3
<1> HIDE DEF e
<1>6. receivers' \in [Ids -> Entry \cup {None}] /\ lock' \in [Ids -> Msgs \cup {None}]
  BY <1>1, <1>2, <1>5 DEF TypeOK
<1>7. ctl' \in [Msgs -> Controls]
  BY <1>1, <1>2 DEF TypeOK, Controls
<1>8. ctxs' \in [Msgs -> Seq(Context)] => TypeOK'
  BY <1>1, <1>2, <1>6, <1>7 DEF TypeOK, fixed
<1> HIDE DEF d
<1>9. CtxOK(app, d)
  BY <1>2, <1>4 DEF CtxOK, SameHold
<1> QED
  BY <1>1, <1>2, <1>3, <1>4, <1>8, <1>9, TouchStep

(* What changes no context and no call                                     *)
LEMMA ControlStep ==
  ASSUME BaseInv, NEW m \in Msgs, app' = app, ctxs' = ctxs, calls' = calls,
         NEW x, ctl' = [ctl EXCEPT ![m] = x],
         \/ ctl[m] \in {"run", "asleep"} /\ x \in {"run", "stuck"}
         \/ ctl[m] = "waiting" /\ x = "next",
         TypeOK'
  PROVE  BaseInv'
<1>0. ctl[m] # "idle" /\ ctl[m] \in {"run", "waiting", "asleep"}
  OBVIOUS
<1>1. CtxOK(app, Cur(m)) /\ TypeOK
  BY <1>0, CurFacts
<1>2. Topped(ctxs[m], ctxs'[m], Cur(m)) /\ Len(ctxs'[m]) = Len(ctxs[m])
  BY <1>0, ToppedSame
<1> QED
  BY <1>0, <1>1, <1>2, StayStep

(* or blocks on the mutex.                                                 *)
LEMMA LockedOutStep == ASSUME BaseInv, NEW m \in Msgs, LockedOut(m) PROVE BaseInv'
<1>1. /\ ctl[m] = "run" /\ ctl' = [ctl EXCEPT ![m] = "stuck"]
      /\ UNCHANGED <<fixed, ctxs, calls, shared, seen>> /\ app' = app
  BY DEF LockedOut, Doing, Running, fixed
<1>2. TypeOK
  BY DEF BaseInv
<1>3. TypeOK'
  BY <1>1, <1>2 DEF TypeOK, fixed, shared, Controls
<1> QED
  BY <1>1, <1>3, ControlStep

(* A sleeper gets its message,                                             *)
LEMMA TakeMessageStep == ASSUME BaseInv, NEW m \in Msgs, TakeMessage(m) PROVE BaseInv'
<1>1. /\ ctl[m] = "asleep" /\ ctl' = [ctl EXCEPT ![m] = "run"]
      /\ UNCHANGED <<fixed, ctxs, calls, closed, lock, receivers, seen>> /\ app' = app
      /\ inbox' = [inbox EXCEPT ![m] = None]
  BY DEF TakeMessage, fixed
<1>2. TypeOK
  BY DEF BaseInv
<1>3. TypeOK'
  BY <1>1, <1>2 DEF TypeOK, fixed, Controls
<1> QED
  BY <1>1, <1>3, ControlStep

(* or is told that the socket is closed.                                   *)
LEMMA ReceiveCancelledStep == ASSUME BaseInv, NEW m \in Msgs, ReceiveCancelled(m) PROVE BaseInv'
<1>1. /\ ctl[m] = "asleep" /\ ctl' = [ctl EXCEPT ![m] = "run"]
      /\ UNCHANGED <<fixed, ctxs, calls, shared, seen>> /\ app' = app
  BY DEF ReceiveCancelled, fixed
<1>2. TypeOK
  BY DEF BaseInv
<1>3. TypeOK'
  BY <1>1, <1>2 DEF TypeOK, fixed, shared, Controls
<1> QED
  BY <1>1, <1>3, ControlStep

(* A codec gets the lock it waits for,                                     *)
LEMMA LockTakenStep == ASSUME BaseInv, NEW m \in Msgs, LockTaken(m) PROVE BaseInv'
<1>1. /\ ctl[m] = "waiting" /\ ctl' = [ctl EXCEPT ![m] = "next"]
      /\ lock' = [lock EXCEPT ![Cur(m).id] = m]
      /\ UNCHANGED <<fixed, ctxs, calls, closed, receivers, inbox, seen>> /\ app' = app
  BY DEF LockTaken, fixed
<1>2. TypeOK
  BY DEF BaseInv
<1>3. TypeOK'
  BY <1>1, <1>2 DEF TypeOK, fixed, Controls
<1> QED
  BY <1>1, <1>3, ControlStep

(* or goes on without it.                                                  *)
LEMMA LockGivenUpStep == ASSUME BaseInv, NEW m \in Msgs, LockGivenUp(m) PROVE BaseInv'
<1>1. /\ ctl[m] = "waiting" /\ ctl' = [ctl EXCEPT ![m] = "next"]
      /\ UNCHANGED <<fixed, ctxs, calls, shared, seen>> /\ app' = app
  BY DEF LockGivenUp, fixed
<1>2. TypeOK
  BY DEF BaseInv
<1>3. TypeOK'
  BY <1>1, <1>2 DEF TypeOK, fixed, shared, Controls
<1> QED
  BY <1>1, <1>3, ControlStep

(* Close changes no stack.                                                 *)
LEMMA CloseStep == ASSUME BaseInv, Close PROVE BaseInv'
<1>1. TypeOK
  BY DEF BaseInv
<1>2. TypeOK'
  BY <1>1 DEF TypeOK, Close, fixed
<1> QED
  BY <1>2, OthersStep DEF Close, fixed

(* A function or a codec calls Next on the context as it is                *)
LEMMA CallsNextStep ==
  ASSUME BaseInv, NEW m \in Msgs, NEW n \in {1, 2}, Nexts(m, n), ctl' = [ctl EXCEPT ![m] = "next"],
         ctl[m] = "run", Call(m).h \in Codecs \cup Funcs,
         UNCHANGED <<fixed, ctxs, shared, seen>>
  PROVE  BaseInv'
<1>1. /\ TypeOK /\ CtxOK(app, Cur(m)) /\ calls[m] # <<>> /\ calls \in [Msgs -> Seq(CallType)]
      /\ ctl[m] # "idle"
  BY RunFacts
<1>2. Call(m).h \notin Routers
  BY NotServing
<1>3. calls' \in [Msgs -> Seq(CallType)]
  <2>1. n \in 0..2
    OBVIOUS
  <2> QED
    BY <1>1, <2>1, NextsMove
<1>4. TypeOK' /\ app' = app /\ ctxs' = ctxs
  BY <1>1, <1>3 DEF TypeOK, fixed, shared, Controls, CallType
<1>5. Topped(ctxs[m], ctxs'[m], Cur(m)) /\ Len(ctxs'[m]) = Len(ctxs[m])
  BY <1>1, <1>4, ToppedSame
<1> QED
  BY <1>1, <1>2, <1>4, <1>5, BumpStep

(* A codec leaves a message to others.                                     *)
LEMMA DecodeSkippedStep == ASSUME BaseInv, NEW m \in Msgs, DecodeSkipped(m) PROVE BaseInv'
BY CallsNextStep DEF DecodeSkipped, Running

(* A function calls Next.                                                  *)
LEMMA CallNextStep == ASSUME BaseInv, NEW m \in Msgs, CallNext(m) PROVE BaseInv'
<1>1. /\ ctl[m] = "run" /\ Call(m).h \in Funcs /\ ctl' = [ctl EXCEPT ![m] = "next"]
      /\ Call(m).nexts \in {0, 1} /\ Nexts(m, Call(m).nexts + 1)
      /\ UNCHANGED <<fixed, ctxs, shared, seen>>
  BY DEF CallNext, Doing, Running
<1>2. PICK n \in {1, 2} : n = Call(m).nexts + 1
  BY <1>1
<1> QED
  BY <1>1, <1>2, CallsNextStep

(* A message that is being handled has been read.                          *)
FramesRead == \A m \in Msgs : ctl[m] # "idle" => frame[m] \in Frame

(* A message is read before anything is done with it, and once             *)
LEMMA FramesReadStep == ASSUME TypeOK, FramesRead, [Next]_vars PROVE FramesRead'
<1>1. CASE UNCHANGED vars
  BY <1>1 DEF FramesRead, vars
<1>2. CASE Close
  BY <1>2 DEF FramesRead, Close, fixed
<1>3. ASSUME NEW m \in Msgs, Start(m) PROVE FramesRead'
  <2>1. PICK sent \in app.sent : frame' = [frame EXCEPT ![m] = sent]
    BY <1>3 DEF Start
  <2>2. sent \in Frame
    <3>1. Root \in Routers
      BY HandlerChainAssumption
    <3> QED
      BY <2>1, <3>1, AppOK DEF TypeOK
  <2>3. ctl' = [ctl EXCEPT ![m] = "next"]
    BY <1>3 DEF Start
  <2> QED
    BY <2>1, <2>2, <2>3 DEF TypeOK, FramesRead
<1>4. ASSUME NEW m \in Msgs, frame' = frame, ctl[m] # "idle",
             \A x \in Msgs \ {m} : ctl'[x] = ctl[x]
      PROVE FramesRead'
  BY <1>4 DEF FramesRead
<1>5. ASSUME NEW m \in Msgs, NEW c, NEW stack, HandlerReturns(m, stack, c)
      PROVE \A x \in Msgs \ {m} : ctl'[x] = ctl[x]
  BY <1>5 DEF TypeOK, HandlerReturns
<1>6. ASSUME NEW m \in Msgs,
             \/ Finish(m) \/ NextRefused(m) \/ NextBeyondEnd(m) \/ NextHandsOver(m)
             \/ NextRunsHandler(m)
      PROVE FramesRead'
  BY <1>4, <1>6 DEF TypeOK, Finish, NextRefused, NextBeyondEnd, NextHandsOver, NextRunsHandler,
       NextReturns, Nexting, fixed
<1>7. ASSUME NEW m \in Msgs,
             \/ EnterRouter(m) \/ DecodeSkipped(m) \/ Decoded(m) \/ CallNext(m) \/ LockedOut(m)
             \/ SetError(m) \/ ClearError(m) \/ SetMessagePath(m) \/ Set(m) \/ Delete(m)
             \/ Receive(m) \/ TakeMessage(m) \/ ReceiveCancelled(m) \/ LockTaken(m)
             \/ LockGivenUp(m)
      PROVE FramesRead'
  BY <1>4, <1>7 DEF TypeOK, EnterRouter, DecodeSkipped, Decoded, CallNext, LockedOut, SetError,
       ClearError, SetMessagePath, Set, Delete, Receive, TakeMessage, ReceiveCancelled, LockTaken,
       LockGivenUp, SetMessageID, Doing, Running, fixed
<1>8. ASSUME NEW m \in Msgs, RouterReturns(m) \/ DecodeRefused(m) \/ CodecReturns(m) \/ FuncReturns(m)
      PROVE FramesRead'
  BY <1>4, <1>5, <1>8 DEF RouterReturns, DecodeRefused, CodecReturns, FuncReturns, Running, fixed
<1>9. ASSUME NEW m \in Msgs, NothingLeft(m) PROVE FramesRead'
  <2>1. ctl[m] = "run" /\ frame' = frame /\ \E c, stack : HandlerReturns(m, stack, c)
    BY <1>9 DEF NothingLeft, fixed
  <2> QED
    BY <1>4, <1>5, <2>1
<1>10. ASSUME NEW m \in Msgs, LeaveRouter(m) PROVE FramesRead'
  <2>1. ctl[m] = "run" /\ frame' = frame
    BY <1>10 DEF LeaveRouter, Running, fixed
  <2>2. CASE Cur(m).beyond
    BY <1>4, <1>10, <2>1, <2>2 DEF LeaveRouter, TypeOK
  <2>3. CASE ~Cur(m).beyond
    <3>1. \E c, stack : HandlerReturns(m, stack, c)
      BY <1>10, <2>3 DEF LeaveRouter
    <3> QED
      BY <1>4, <1>5, <2>1, <3>1
  <2> QED
    BY <2>2, <2>3
<1> QED
  BY <1>1, <1>2, <1>3, <1>6, <1>7, <1>8, <1>9, <1>10 DEF Next

(* A codec gives the context its message.                                  *)
LEMMA DecodedStep == ASSUME BaseInv, FramesRead, NEW m \in Msgs, Decoded(m) PROVE BaseInv'
<1> DEFINE c == Cur(m)
           id == frame[m].id
           d == [c EXCEPT !.codec = Call(m).h,
                          !.id = IF id = NoId THEN @ ELSE id,
                          !.path = IF frame[m].path = NoPath THEN @ ELSE frame[m].path,
                          !.setPath = @ \/ frame[m].path # NoPath]
<1>1. /\ ctl[m] = "run" /\ Call(m).h \in Codecs /\ Nexts(m, 1) /\ Put(m, d)
      /\ frame[m].format = Call(m).h
      /\ UNCHANGED <<fixed, closed, receivers, inbox, seen>> /\ app' = app
      /\ IF id = NoId THEN ctl' = [ctl EXCEPT ![m] = "next"] /\ UNCHANGED lock
                      ELSE SetMessageID(m, id)
  BY DEF Decoded, Running, Readable, fixed
<1>2. /\ TypeOK /\ c \in Context /\ CtxOK(app, c) /\ app \in Setups /\ ctl[m] # "idle"
      /\ calls[m] # <<>> /\ calls \in [Msgs -> Seq(CallType)] /\ ctxs[m] # <<>>
      /\ ctxs \in [Msgs -> Seq(Context)]
  BY <1>1, RunFacts DEF TypeOK
<1>3. Call(m).h \notin Routers
  BY <1>1, NotServing
<1>4. frame[m] \in Frame
  BY <1>1 DEF FramesRead
<1>5. d \in Context
  <2>1. /\ (IF id = NoId THEN c.id ELSE id) \in Ids \cup {NoId}
        /\ (IF frame[m].path = NoPath THEN c.path ELSE frame[m].path) \in Paths \cup {NoPath}
        /\ (c.setPath \/ frame[m].path # NoPath) \in BOOLEAN
    BY <1>2, <1>4 DEF Frame, Context
  <2>2. PICK i \in Ids \cup {NoId}, p \in Paths \cup {NoPath}, b \in BOOLEAN :
             /\ i = IF id = NoId THEN c.id ELSE id
             /\ p = IF frame[m].path = NoPath THEN c.path ELSE frame[m].path
             /\ b = (c.setPath \/ frame[m].path # NoPath)
    BY <2>1
  <2>3. [c EXCEPT !.codec = Call(m).h, !.id = i, !.path = p, !.setPath = b] \in Context
    BY <1>1, <1>2 DEF Context
  <2>4. d = [c EXCEPT !.codec = Call(m).h, !.id = i, !.path = p, !.setPath = b]
    BY <2>2
  <2> QED
    BY <2>3, <2>4
<1>6. /\ d.params = c.params /\ d.mu = c.mu /\ d.gone = c.gone /\ d.beyond = c.beyond
      /\ SameHold(c, d) /\ d.setPath = (c.setPath \/ frame[m].path # NoPath)
      /\ d.path = IF frame[m].path = NoPath THEN c.path ELSE frame[m].path
  BY <1>2 DEF SameHold, Context
<1> HIDE DEF d
<1>7. CtxOK(app, d)
  BY <1>2, <1>6 DEF CtxOK, SameHold
<1>8. PICK x \in {"next", "waiting"} : ctl' = [ctl EXCEPT ![m] = x]
  BY <1>1 DEF SetMessageID
<1>9. lock' \in [Ids -> Msgs \cup {None}]
  BY <1>1, <1>2, ZenonT(60) DEF SetMessageID, TypeOK
<1>10. calls' \in [Msgs -> Seq(CallType)]
  <2>1. 1 \in 0..2
    OBVIOUS
  <2> QED
    BY <1>1, <1>2, <2>1, NextsMove
<1>11. /\ ctxs' \in [Msgs -> Seq(Context)] /\ Topped(ctxs[m], ctxs'[m], d)
       /\ Len(ctxs'[m]) = Len(ctxs[m]) /\ \A y \in Msgs \ {m} : ctxs'[y] = ctxs[y]
  BY <1>1, <1>2, <1>5, <1>6, PutMove DEF SameHold
<1>12. ctl' \in [Msgs -> Controls]
  BY <1>2, <1>8 DEF TypeOK, Controls
<1>13. TypeOK'
  BY <1>1, <1>2, <1>9, <1>10, <1>11, <1>12 DEF TypeOK, CallType, fixed
<1>14. 1 \in {1, 2}
  OBVIOUS
<1> QED
  BY <1>1, <1>3, <1>7, <1>8, <1>11, <1>13, <1>14, BumpStep

-----------------------------------------------------------------------------
(* What all later invariants rest on                                       *)
ChainInv == BaseInv /\ FramesRead

(* Every step keeps it,                                                    *)
LEMMA ChainInvStep == ASSUME ChainInv, [Next]_vars PROVE ChainInv'
<1>1. BaseInv /\ TypeOK /\ FramesRead
  BY DEF ChainInv, BaseInv
<1>2. FramesRead'
  BY <1>1, FramesReadStep
<1>3. CASE UNCHANGED vars
  <2>1. app' = app /\ ctl' = ctl /\ ctxs' = ctxs /\ calls' = calls /\ TypeOK'
    BY <1>1, <1>3 DEF vars, TypeOK
  <2> QED
    BY <1>1, <1>2, <2>1, OthersStep DEF ChainInv
<1>4. CASE Close
  BY <1>1, <1>2, <1>4, CloseStep DEF ChainInv
<1>5. ASSUME NEW m \in Msgs,
             \/ Start(m) \/ Finish(m)
             \/ NextRefused(m) \/ NextBeyondEnd(m) \/ NextHandsOver(m) \/ NextRunsHandler(m)
             \/ EnterRouter(m) \/ LeaveRouter(m) \/ RouterReturns(m)
      PROVE BaseInv'
  BY <1>1, <1>5, StartStep, FinishStep, NextRefusedStep, NextBeyondEndStep, NextHandsOverStep,
     NextRunsHandlerStep, EnterRouterStep, LeaveRouterStep, RouterReturnsStep
<1>6. ASSUME NEW m \in Msgs,
             \/ DecodeRefused(m) \/ DecodeSkipped(m) \/ Decoded(m) \/ CodecReturns(m)
             \/ LockTaken(m) \/ LockGivenUp(m)
      PROVE BaseInv'
  BY <1>1, <1>6, DecodeRefusedStep, DecodeSkippedStep, DecodedStep, CodecReturnsStep,
     LockTakenStep, LockGivenUpStep
<1>7. ASSUME NEW m \in Msgs,
             \/ CallNext(m) \/ NothingLeft(m) \/ LockedOut(m) \/ FuncReturns(m)
             \/ SetError(m) \/ ClearError(m) \/ SetMessagePath(m) \/ Set(m) \/ Delete(m)
             \/ Receive(m) \/ TakeMessage(m) \/ ReceiveCancelled(m)
      PROVE BaseInv'
  BY <1>1, <1>7, CallNextStep, NothingLeftStep, LockedOutStep, FuncReturnsStep, SetErrorStep,
     ClearErrorStep, SetMessagePathStep, SetStep, DeleteStep, ReceiveStep, TakeMessageStep,
     ReceiveCancelledStep
<1> QED
  BY <1>2, <1>3, <1>4, <1>5, <1>6, <1>7 DEF Next, ChainInv

(* it holds at first,                                                      *)
LEMMA ChainInvInit == Init => ChainInv
BY BaseInvInit DEF ChainInv, FramesRead, Init

(* and so for ever: types, stacks and places, for every application.       *)
THEOREM ChainInvHolds == Spec => []ChainInv
BY ChainInvInit, ChainInvStep, PTL DEF Spec

(* The variables keep their types.                                         *)
THEOREM TypeCorrect == Spec => []TypeOK
<1>1. ChainInv => TypeOK
  BY DEF ChainInv, BaseInv
<1> QED
  BY <1>1, ChainInvHolds, PTL

-----------------------------------------------------------------------------
(* The steps of one goroutine                                              *)
Steps(m) ==
    \/ Start(m) \/ Finish(m)
    \/ NextRefused(m) \/ NextBeyondEnd(m) \/ NextHandsOver(m) \/ NextRunsHandler(m)
    \/ EnterRouter(m) \/ LeaveRouter(m) \/ RouterReturns(m)
    \/ DecodeRefused(m) \/ DecodeSkipped(m) \/ Decoded(m) \/ CodecReturns(m)
    \/ LockTaken(m) \/ LockGivenUp(m)
    \/ CallNext(m) \/ NothingLeft(m) \/ LockedOut(m) \/ FuncReturns(m)
    \/ SetError(m) \/ ClearError(m) \/ SetMessagePath(m) \/ Set(m) \/ Delete(m)
    \/ Receive(m) \/ TakeMessage(m) \/ ReceiveCancelled(m)

(* A step of the system is a step of a goroutine or Close.                 *)
LEMMA NextIsSteps == Next <=> (\E m \in Msgs : Steps(m)) \/ Close
BY DEF Next, Steps

(* What a step leaves alone                                                *)
Untouched(m) ==
    /\ ctl'[m] = ctl[m] /\ ctxs'[m] = ctxs[m] /\ calls'[m] = calls[m]
    /\ seen'[m] = seen[m] /\ frame'[m] = frame[m]

(* A goroutine changes nothing of another one's.                           *)
LEMMA OthersUntouched ==
  ASSUME TypeOK, NEW x \in Msgs, Steps(x), NEW m \in Msgs \ {x}
  PROVE  Untouched(m)
<1>1. ASSUME NEW stack, NEW c, HandlerReturns(x, stack, c)
      PROVE  ctl'[m] = ctl[m] /\ ctxs'[m] = ctxs[m] /\ calls'[m] = calls[m]
  BY <1>1 DEF TypeOK, HandlerReturns
<1>2. CASE Start(x) \/ Finish(x) \/ NextRefused(x) \/ NextBeyondEnd(x) \/ NextHandsOver(x)
           \/ NextRunsHandler(x)
  BY <1>2 DEF Untouched, TypeOK, Start, Finish, NextRefused, NextBeyondEnd, NextHandsOver,
       NextRunsHandler, NextReturns, Put, fixed
<1>3. CASE EnterRouter(x) \/ DecodeSkipped(x) \/ Decoded(x) \/ CallNext(x) \/ LockedOut(x)
           \/ LockTaken(x) \/ LockGivenUp(x) \/ TakeMessage(x) \/ ReceiveCancelled(x)
  BY <1>3 DEF Untouched, TypeOK, EnterRouter, DecodeSkipped, Decoded, CallNext, LockedOut,
       LockTaken, LockGivenUp, TakeMessage, ReceiveCancelled, Put, Nexts, SetMessageID, fixed
<1>4. CASE SetError(x) \/ ClearError(x) \/ SetMessagePath(x) \/ Set(x) \/ Delete(x) \/ Receive(x)
  BY <1>4 DEF Untouched, TypeOK, SetError, ClearError, SetMessagePath, Set, Delete, Receive, Put, fixed
<1>5. CASE RouterReturns(x) \/ DecodeRefused(x) \/ CodecReturns(x) \/ FuncReturns(x) \/ NothingLeft(x)
  <2>1. \E stack, c : HandlerReturns(x, stack, c)
    BY <1>5 DEF RouterReturns, DecodeRefused, CodecReturns, FuncReturns, NothingLeft
  <2>2. seen'[m] = seen[m] /\ frame'[m] = frame[m]
    BY <1>5 DEF RouterReturns, DecodeRefused, CodecReturns, FuncReturns, NothingLeft, fixed, TypeOK
  <2> QED
    BY <1>1, <2>1, <2>2 DEF Untouched
<1>6. CASE LeaveRouter(x)
  <2>1. seen'[m] = seen[m] /\ frame'[m] = frame[m]
    BY <1>6 DEF LeaveRouter, fixed
  <2>2. CASE Cur(x).beyond
    BY <1>6, <2>1, <2>2 DEF Untouched, LeaveRouter, Nexts, TypeOK
  <2>3. CASE ~Cur(x).beyond
    <3>1. \E stack, c : HandlerReturns(x, stack, c)
      BY <1>6, <2>3 DEF LeaveRouter
    <3> QED
      BY <1>1, <2>1, <3>1 DEF Untouched
  <2> QED
    BY <2>2, <2>3
<1> QED
  BY <1>2, <1>3, <1>4, <1>5, <1>6 DEF Steps

(* The application stays the same.                                         *)
LEMMA AppFixed == ASSUME [Next]_vars PROVE app' = app
<1>1. ASSUME NEW m \in Msgs, Steps(m) PROVE app' = app
  BY <1>1 DEF Steps, Start, Finish, NextRefused, NextBeyondEnd, NextHandsOver, NextRunsHandler,
       EnterRouter, LeaveRouter, RouterReturns, DecodeRefused, DecodeSkipped, Decoded, CodecReturns,
       LockTaken, LockGivenUp, CallNext, NothingLeft, LockedOut, FuncReturns, SetError, ClearError,
       SetMessagePath, Set, Delete, Receive, TakeMessage, ReceiveCancelled, fixed
<1> QED
  BY <1>1, NextIsSteps DEF Close, fixed, vars

(* A property of one message is kept if its own goroutine keeps it         *)
LEMMA StepCases ==
  ASSUME TypeOK, [Next]_vars, NEW m \in Msgs
  PROVE  Steps(m) \/ Untouched(m)
<1>1. CASE UNCHANGED vars
  BY <1>1 DEF vars, Untouched
<1>2. CASE Close
  BY <1>2 DEF Close, Untouched, fixed
<1>3. ASSUME NEW x \in Msgs, Steps(x), x # m PROVE Untouched(m)
  BY <1>3, OthersUntouched
<1> QED
  BY <1>1, <1>2, <1>3, NextIsSteps

-----------------------------------------------------------------------------
(* What the steps do to the contexts: T is the first n of S, ending in d.  *)
Replaces(S, T, n, d) ==
    /\ Len(T) = n /\ T[n] = d
    /\ \A i \in 1..(n - 1) : T[i] = S[i]

(* and the one below is told                                               *)
Relays(S, T, n, d) ==
    /\ Len(T) = n /\ T[n] = d
    /\ \A i \in 1..(n - 2) : T[i] = S[i]
    /\ n > 1 => T[n - 1] = Told(S[n - 1], d)

(* d is c, gone on in its chain                                            *)
Forward(c, d) ==
    /\ d.router = c.router /\ d.at = c.at /\ d.path = c.path /\ d.id = c.id
    /\ d.chan = c.chan /\ d.owns = c.owns /\ d.error = c.error /\ d.codec = c.codec
    /\ d.values = c.values /\ d.mu = c.mu
    /\ ~Before(<<d.node, d.index>>, <<c.node, c.index>>)
    /\ AtEnd(c) => AtEnd(d)

(* Before is a strict order.                                               *)
LEMMA BeforeTotal ==
  ASSUME NEW a \in Nat, NEW b \in Nat, NEW c \in Nat, NEW d \in Nat
  PROVE  /\ Before(<<a, b>>, <<c, d>>) => ~Before(<<c, d>>, <<a, b>>)
         /\ ~Before(<<a, b>>, <<a, b>>)
BY DEF Before

(* The end is behind every place.                                          *)
LEMMA ClearedForward ==
  ASSUME app \in Setups, NEW c \in Context, CtxOK(app, c)
  PROVE  Forward(c, Cleared(c)) /\ Cleared(c).gone = c.gone /\ Cleared(c).beyond = c.beyond
<1> DEFINE d == Cleared(c)
<1>1. Len(Chain(c)) \in Nat
  BY ChainOf
<1>2. d \in Context /\ Kept(c, d) /\ AtEnd(d)
  BY ClearedFacts DEF CtxOK
<1>3. d.node = Len(Chain(c)) + 1 /\ d.index = 0
  BY DEF Cleared, Context
<1>4. /\ c.node \in Nat /\ c.index \in Nat /\ c.node <= Len(Chain(c)) + 1
      /\ c.node = Len(Chain(c)) + 1 => c.index = 0
  BY <1>1 DEF Context, CtxOK, Chain
<1> HIDE DEF d
<1>5. ~Before(<<d.node, d.index>>, <<c.node, c.index>>)
  BY <1>1, <1>3, <1>4 DEF Before
<1> QED
  BY <1>2, <1>5 DEF Forward, Kept, d

(* Going on twice is going on.                                             *)
LEMMA ForwardAgain ==
  ASSUME app \in Setups, NEW c \in Context, NEW d \in Context, NEW e \in Context,
         Forward(c, d), Forward(d, e)
  PROVE  Forward(c, e)
<1>1. c.node \in Nat /\ c.index \in Nat /\ d.node \in Nat /\ d.index \in Nat /\ e.node \in Nat /\ e.index \in Nat
  BY DEF Context
<1>2. ~Before(<<e.node, e.index>>, <<c.node, c.index>>)
  BY <1>1 DEF Forward, Before
<1> QED
  BY <1>2 DEF Forward

(* Where Next comes to is ahead                                            *)
LEMMA WalkForward ==
  ASSUME ChainInv, NEW m \in Msgs, Nexting(m)
  PROVE  LET c == Cur(m) d == Walk(c) IN
         /\ Forward(c, d)
         /\ ~AtEnd(d) => /\ c.node <= d.node
                         /\ Before(<<c.node, c.index>>, <<d.node, d.index + 1>>)
<1> DEFINE c == Cur(m)
           d == Walk(c)
<1>1. /\ app \in Setups /\ c \in Context /\ CtxOK(app, c) /\ d \in Context /\ Kept(c, d)
      /\ CtxOK(app, d)
      /\ ~AtEnd(d) => d.node \in 1..Len(Chain(c)) /\ <<d.node, d.index + 1>> \in Ahead(c)
  BY WalkOfCur DEF ChainInv
<1>2. Len(Chain(c)) \in Nat /\ Chain(d) = Chain(c)
  BY <1>1, ChainOf DEF Kept, Chain
<1>3. c.node \in Nat /\ c.index \in Nat /\ d.node \in Nat /\ d.index \in Nat
  BY <1>1 DEF Context
<1>4. CASE AtEnd(d)
  <2>1. d.node = Len(Chain(c)) + 1
    BY <1>1, <1>2, <1>3, <1>4 DEF AtEnd, CtxOK, Chain
  <2>2. c.node <= Len(Chain(c)) + 1 /\ (c.node = Len(Chain(c)) + 1 => c.index = 0)
    BY <1>1, <1>2, <1>3 DEF CtxOK, Chain
  <2> HIDE DEF c, d
  <2>3. ~Before(<<d.node, d.index>>, <<c.node, c.index>>)
    BY <1>2, <1>3, <2>1, <2>2 DEF Before
  <2> QED
    BY <1>1, <1>4, <2>3 DEF Forward, Kept, c, d
<1>5. CASE ~AtEnd(d)
  <2>1. Before(<<c.node, c.index>>, <<d.node, d.index + 1>>)
    BY <1>1, <1>5, AheadOf
  <2>2. ~AtEnd(c)
    BY <1>1, <1>2, <1>3, <1>5, <2>1 DEF AtEnd, Before
  <2> HIDE DEF c, d
  <2>3. /\ ~Before(<<d.node, d.index>>, <<c.node, c.index>>)
        /\ c.node <= d.node
    BY <1>3, <2>1 DEF Before
  <2> QED
    BY <1>1, <1>5, <2>1, <2>2, <2>3 DEF Forward, Kept, c, d
<1> QED
  BY <1>4, <1>5
=============================================================================
