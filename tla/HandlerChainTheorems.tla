------------------------ MODULE HandlerChainTheorems ------------------------
(***************************************************************************)
(* What HandlerChain promises to handlers: Next goes by the path, errors   *)
(* end the chain, handlers see the values set before them, those that do   *)
(* not call Next end it, they run in order, and with a subprotocol only on *)
(* messages in it.  First what the steps do to the contexts, in groups of  *)
(* actions, so that a proof about all of them has one case for each group. *)
(***************************************************************************)
EXTENDS HandlerChainProofs

(* What handlers cannot change of a context                                *)
Carries(c, e) ==
    /\ e.router = c.router /\ e.at = c.at /\ e.path = c.path /\ e.id = c.id
    /\ e.chan = c.chan /\ e.owns = c.owns /\ e.error = c.error /\ e.codec = c.codec
    /\ e.values = c.values /\ e.mu = c.mu

(* Next returns: refused, at the end, or after the message was handed over *)
Returning(m) == NextRefused(m) \/ NextBeyondEnd(m) \/ NextHandsOver(m)

(* What the contexts are when Next returns without having called a handler *)
LEMMA ReturningFacts ==
  ASSUME ChainInv, NEW m \in Msgs, Returning(m)
  PROVE  \E d \in Context :
           /\ Relays(ctxs[m], ctxs'[m], Len(ctxs[m]), d)
           /\ Forward(Cur(m), d)
           /\ ctl[m] = "auto" => AtEnd(d)
           /\ \/ NextRefused(m) /\ d.gone = Cur(m).gone /\ d.beyond = Cur(m).beyond
              \/ /\ NextBeyondEnd(m) /\ d.gone = Cur(m).gone /\ d.beyond /\ AtEnd(d)
                 /\ Ahead(Cur(m)) = {}
              \/ NextHandsOver(m) /\ d.gone /\ d.beyond = Cur(m).beyond /\ ~AtEnd(Cur(m))
           /\ Nexting(m) /\ calls' = calls /\ seen' = seen /\ frame' = frame
           /\ ctl' = [ctl EXCEPT ![m] = IF calls[m] = <<>> THEN "finish" ELSE "run"]
<1> DEFINE c == Cur(m)
           w == Walk(c)
<1>1. /\ TypeOK /\ app \in Setups /\ ctl[m] # "idle" /\ c \in Context /\ CtxOK(app, c)
      /\ ctxs[m] # <<>> /\ ctxs \in [Msgs -> Seq(Context)] /\ Nexting(m)
      /\ calls' = calls /\ seen' = seen /\ frame' = frame
      /\ Len(ctxs[m]) \in Nat /\ Len(ctxs[m]) >= 1
  <2>1. /\ Nexting(m) /\ calls' = calls /\ seen' = seen /\ frame' = frame
    BY DEF Returning, NextRefused, NextBeyondEnd, NextHandsOver, fixed
  <2>2. ctl[m] # "idle"
    BY <2>1 DEF Nexting
  <2> QED
    BY <2>1, <2>2, CurFacts DEF ChainInv, TypeOK
<1>2. /\ w \in Context /\ Kept(c, w) /\ CtxOK(app, w)
      /\ AtEnd(w) => Ahead(c) = {}
  BY <1>1, WalkOfCur DEF ChainInv
<1>3. /\ Forward(c, w)
      /\ ~AtEnd(w) => ~AtEnd(c)
  BY <1>1, WalkForward DEF Forward
<1>4. PICK e \in Context :
        /\ CtxOK(app, e) /\ Forward(c, e) /\ NextReturns(m, e, calls[m])
        /\ \/ NextRefused(m) /\ e.gone = c.gone /\ e.beyond = c.beyond
           \/ /\ NextBeyondEnd(m) /\ e.gone = c.gone /\ e.beyond /\ AtEnd(e)
              /\ Ahead(c) = {}
           \/ NextHandsOver(m) /\ e.gone /\ e.beyond = c.beyond /\ ~AtEnd(c)
  <2>1. CASE NextRefused(m)
    <3>1. NextReturns(m, c, calls[m])
      BY <2>1 DEF NextRefused
    <3>2. Forward(c, c)
      <4>1. c.node \in Nat /\ c.index \in Nat
        BY <1>1 DEF Context
      <4> QED
        BY <4>1, BeforeTotal DEF Forward
    <3> QED
      BY <1>1, <2>1, <3>1, <3>2
  <2>2. CASE NextBeyondEnd(m)
    <3> DEFINE e == [w EXCEPT !.beyond = TRUE]
    <3>1. NextReturns(m, e, calls[m]) /\ AtEnd(w)
      BY <2>2 DEF NextBeyondEnd
    <3>2. e \in Context
      BY <1>2 DEF Context
    <3>3. e.beyond /\ e.gone = w.gone /\ e.node = w.node /\ e.index = w.index /\ e.matches = w.matches
          /\ e.setPath = w.setPath /\ e.params = w.params /\ Carries(w, e)
      BY <1>2 DEF Context, Carries
    <3> HIDE DEF e
    <3>4. CtxOK(app, e) /\ AtEnd(e)
      BY <1>2, <3>1, <3>3 DEF CtxOK, AtEnd, Chain, Carries
    <3>5. Forward(c, e)
      BY <1>3, <3>1, <3>3, <3>4 DEF Forward, Carries
    <3>6. e.gone = c.gone
      BY <1>2, <3>3 DEF Kept
    <3> QED
      BY <1>2, <2>2, <3>1, <3>2, <3>3, <3>4, <3>5, <3>6
  <2>3. CASE NextHandsOver(m)
    <3> DEFINE e == [w EXCEPT !.gone = TRUE]
    <3>1. NextReturns(m, e, calls[m]) /\ ~AtEnd(w)
      BY <2>3 DEF NextHandsOver, Meets
    <3>2. e \in Context
      BY <1>2 DEF Context
    <3>3. e.gone /\ e.beyond = w.beyond /\ e.node = w.node /\ e.index = w.index /\ e.matches = w.matches
          /\ e.setPath = w.setPath /\ e.params = w.params /\ Carries(w, e)
      BY <1>2 DEF Context, Carries
    <3> HIDE DEF e
    <3>4. CtxOK(app, e) /\ ~AtEnd(e)
      BY <1>2, <3>1, <3>3 DEF CtxOK, AtEnd, Chain, Carries
    <3>5. Forward(c, e)
      BY <1>3, <3>1, <3>3, <3>4 DEF Forward, Carries
    <3>6. e.beyond = c.beyond
      BY <1>2, <3>3 DEF Kept
    <3> QED
      BY <1>3, <2>3, <3>1, <3>2, <3>3, <3>4, <3>5, <3>6
  <2> QED
    BY <2>1, <2>2, <2>3 DEF Returning
<1> DEFINE d == IF ctl[m] = "auto" THEN Cleared(e) ELSE e
<1> HIDE DEF w, c
<1>5. e.router = Cur(m).router
  BY <1>4 DEF Forward, c
<1>6. /\ Topped(ctxs[m], ctxs'[m], d)
      /\ Len(ctxs'[m]) = Len(ctxs[m])
      /\ \A i \in 1..(Len(ctxs[m]) - 2) : ctxs'[m][i] = ctxs[m][i]
      /\ Len(ctxs[m]) > 1 =>
           ctxs'[m][Len(ctxs[m]) - 1] = Told(ctxs[m][Len(ctxs[m]) - 1], d)
  BY <1>1, <1>4, <1>5, NextReturnsMove
<1>7. /\ d \in Context /\ Forward(e, d) /\ d.gone = e.gone /\ d.beyond = e.beyond
      /\ ctl[m] = "auto" => AtEnd(d)
      /\ AtEnd(e) => AtEnd(d)
  <2>1. CASE ctl[m] = "auto"
    BY <1>1, <1>4, <2>1, ClearedForward, ClearedFacts DEF CtxOK
  <2>2. CASE ctl[m] # "auto"
    <3>1. e.node \in Nat /\ e.index \in Nat
      BY DEF Context
    <3> QED
      BY <2>2, <3>1, BeforeTotal DEF Forward
  <2> QED
    BY <2>1, <2>2
<1> HIDE DEF d
<1>8. Relays(ctxs[m], ctxs'[m], Len(ctxs[m]), d)
  BY <1>6 DEF Relays, Topped
<1>9. Forward(c, d)
  BY <1>1, <1>4, <1>7, ForwardAgain
<1>10. ctl' = [ctl EXCEPT ![m] = IF calls[m] = <<>> THEN "finish" ELSE "run"]
  BY <1>4 DEF NextReturns
<1> QED
  BY <1>1, <1>4, <1>7, <1>8, <1>9, <1>10 DEF c

(* Next runs a handler                                                     *)
LEMMA RunsFacts ==
  ASSUME ChainInv, NEW m \in Msgs, NextRunsHandler(m)
  PROVE  \E d \in Context :
           /\ Replaces(ctxs[m], ctxs'[m], Len(ctxs[m]), d)
           /\ Forward(Cur(m), d) /\ d.gone = Cur(m).gone /\ d.beyond = Cur(m).beyond
           /\ ~AtEnd(Cur(m)) /\ ~AtEnd(d) /\ ~Refused(Cur(m)) /\ Nexting(m)
           /\ Before(<<Cur(m).node, Cur(m).index>>, <<d.node, d.index>>)
           /\ <<d.node, d.index>> \in Ahead(Cur(m))
           /\ \A p \in Ahead(Cur(m)) : ~Before(p, <<d.node, d.index>>)
           /\ app.kind = "normal" => d.params = <<d.router, d.node, d.path>>
           /\ calls' = [calls EXCEPT ![m] =
                Append(@, [h |-> NodeOf(d).handlers[d.index], nexts |-> 0, ctx |-> Len(ctxs[m])])]
           /\ seen' = [seen EXCEPT ![m].ran = Append(@, d.at \o <<d.node, d.index>>)]
           /\ ctl' = [ctl EXCEPT ![m] = "run"] /\ frame' = frame
           /\ NodeOf(d).handlers[d.index] \in Handlers
<1> DEFINE c == Cur(m)
           w == Walk(c)
           d == [w EXCEPT !.index = @ + 1]
<1>1. /\ Nexting(m) /\ ~Refused(c) /\ frame' = frame /\ ~AtEnd(w) /\ Put(m, d)
      /\ calls' = [calls EXCEPT ![m] =
              Append(@, [h |-> NodeOf(w).handlers[w.index + 1], nexts |-> 0, ctx |-> Len(ctxs[m])])]
      /\ ctl' = [ctl EXCEPT ![m] = "run"]
      /\ seen' = [seen EXCEPT ![m].ran = Append(@, w.at \o <<w.node, w.index + 1>>)]
  BY DEF NextRunsHandler, fixed
<1>2. /\ TypeOK /\ app \in Setups /\ c \in Context /\ CtxOK(app, c)
      /\ ctxs[m] # <<>> /\ ctxs \in [Msgs -> Seq(Context)]
      /\ Len(ctxs[m]) \in Nat /\ Len(ctxs[m]) >= 1
  <2>1. ctl[m] # "idle"
    BY <1>1 DEF Nexting
  <2> QED
    BY <2>1, CurFacts DEF ChainInv, TypeOK
<1>3. /\ w \in Context /\ Kept(c, w) /\ CtxOK(app, w) /\ w.setPath = FALSE
      /\ w.matches /\ w.node \in 1..Len(Chain(c))
      /\ w.index + 1 \in 1..Len(NodeOf(w).handlers)
      /\ <<w.node, w.index + 1>> \in Ahead(c)
      /\ \A p \in Ahead(c) : ~Before(p, <<w.node, w.index + 1>>)
  BY <1>1, WalkOfCur DEF ChainInv
<1>4. /\ Forward(c, w) /\ ~AtEnd(c)
      /\ Before(<<c.node, c.index>>, <<w.node, w.index + 1>>)
  BY <1>1, WalkForward DEF Forward
<1>5. PICK i \in Nat : i = w.index + 1
  BY <1>3 DEF Context
<1>6. d = [w EXCEPT !.index = i]
  BY <1>5
<1>7. d \in Context
  <2>1. [w EXCEPT !.index = i] \in Context
    BY <1>3 DEF Context
  <2> QED
    BY <1>6, <2>1
<1>8. /\ d.node = w.node /\ d.index = i /\ d.gone = w.gone /\ d.beyond = w.beyond
      /\ d.params = w.params /\ Carries(w, d)
  BY <1>3, <1>6 DEF Context, Carries
<1>9. i >= 1 /\ i \in 1..Len(NodeOf(w).handlers) /\ w.index \in Nat /\ w.node \in Nat /\ c.node \in Nat
      /\ c.index \in Nat
  BY <1>2, <1>3, <1>5 DEF Context
<1>10. NodeOf(d) = NodeOf(w) /\ ~AtEnd(d) /\ w.params = IF app.kind = "normal" THEN <<w.router, w.node, w.path>> ELSE w.params
  BY <1>1, <1>3, <1>8 DEF NodeOf, Chain, AtEnd, Carries, CtxOK
<1>11. NodeOf(w).handlers[i] \in Handlers
  <2>1. NodeOf(w).handlers \in Seq(Handlers)
    BY <1>2, <1>3, ChainOf DEF NodeOf, Kept, Chain
  <2> QED
    BY <1>9, <2>1, ElementOfSeq
<1>12. d.gone = c.gone /\ d.beyond = c.beyond
  BY <1>3, <1>8 DEF Kept
<1>13. d.router = c.router
  BY <1>3, <1>8 DEF Kept, Carries
<1> HIDE DEF d, w
<1>14. Replaces(ctxs[m], ctxs'[m], Len(ctxs[m]), d)
  <2>1. /\ Topped(ctxs[m], ctxs'[m], d)
        /\ Len(ctxs'[m]) = Len(ctxs[m])
        /\ \A j \in 1..(Len(ctxs[m]) - 1) : ctxs'[m][j] = ctxs[m][j]
    BY <1>1, <1>2, <1>7, <1>13, PutMove
  <2> QED
    BY <2>1 DEF Topped, Replaces
<1>15. Forward(c, d)
  <2>1. ~Before(<<d.node, d.index>>, <<c.node, c.index>>)
    BY <1>4, <1>5, <1>8, <1>9, BeforeTotal
  <2> QED
    BY <1>4, <1>8, <2>1 DEF Forward, Carries
<1>16. <<d.node, d.index>> = <<w.node, w.index + 1>> /\ d.at = w.at
  BY <1>5, <1>8 DEF Carries
<1>17. app.kind = "normal" => d.params = <<d.router, d.node, d.path>>
  BY <1>8, <1>10 DEF Carries
<1>18. seen' = [seen EXCEPT ![m].ran = Append(@, d.at \o <<d.node, d.index>>)]
  BY <1>1, <1>16
<1>19. calls' = [calls EXCEPT ![m] =
          Append(@, [h |-> NodeOf(d).handlers[d.index], nexts |-> 0, ctx |-> Len(ctxs[m])])]
  BY <1>1, <1>5, <1>8, <1>10
<1>20. NodeOf(d).handlers[d.index] \in Handlers
  BY <1>8, <1>10, <1>11
<1>21. /\ Before(<<c.node, c.index>>, <<d.node, d.index>>)
       /\ <<d.node, d.index>> \in Ahead(c)
       /\ \A p \in Ahead(c) : ~Before(p, <<d.node, d.index>>)
  BY <1>3, <1>4, <1>16
<1> QED
  BY <1>1, <1>4, <1>7, <1>10, <1>12, <1>14, <1>15, <1>17, <1>18, <1>19, <1>20, <1>21

(* A router is entered                                                     *)
LEMMA EnterFacts ==
  ASSUME ChainInv, NEW m \in Msgs, EnterRouter(m)
  PROVE  LET n == Len(ctxs[m]) d == SubContext(Cur(m), Call(m).h) IN
         /\ d \in Context /\ Replaces(ctxs[m], ctxs'[m], n + 1, d)
         /\ d.router = Call(m).h /\ d.at = Cur(m).at \o <<Cur(m).node, Cur(m).index>>
         /\ d.node = 1 /\ d.index = 0 /\ d.owns = FALSE /\ d.beyond = FALSE
         /\ d.id = Cur(m).id /\ d.gone = Cur(m).gone /\ d.error = Cur(m).error
         /\ d.codec = Cur(m).codec /\ d.values = Cur(m).values
         /\ ctl[m] = "run" /\ ctl' = [ctl EXCEPT ![m] = "next"] /\ seen' = seen /\ frame' = frame
         /\ Call(m).h \in Routers /\ Call(m).nexts = 0 /\ Nexts(m, 1)
<1> DEFINE n == Len(ctxs[m])
           d == SubContext(Cur(m), Call(m).h)
<1>1. /\ ctl[m] = "run" /\ ctl' = [ctl EXCEPT ![m] = "next"] /\ seen' = seen /\ frame' = frame
      /\ Call(m).h \in Routers /\ Call(m).nexts = 0 /\ Nexts(m, 1)
      /\ ctxs' = [ctxs EXCEPT ![m] = Append(@, d)]
  BY DEF EnterRouter, Running, fixed
<1>2. /\ TypeOK /\ ctxs \in [Msgs -> Seq(Context)] /\ Cur(m) \in Context
  BY <1>1, RunFacts DEF ChainInv, TypeOK
<1>3. d \in Context
  BY <1>1, <1>2, SubContextType
<1>4. /\ d.router = Call(m).h /\ d.at = Cur(m).at \o <<Cur(m).node, Cur(m).index>>
      /\ d.node = 1 /\ d.index = 0 /\ d.owns = FALSE /\ d.beyond = FALSE
      /\ d.id = Cur(m).id /\ d.gone = Cur(m).gone /\ d.error = Cur(m).error
      /\ d.codec = Cur(m).codec /\ d.values = Cur(m).values
  BY <1>2 DEF SubContext, Context
<1> HIDE DEF d
<1>5. Replaces(ctxs[m], ctxs'[m], n + 1, d)
  <2>1. /\ Len(Append(ctxs[m], d)) = n + 1
        /\ \A i \in 1..n : Append(ctxs[m], d)[i] = ctxs[m][i]
        /\ Append(ctxs[m], d)[n + 1] = d
    BY <1>2, <1>3, Appended
  <2>2. n \in Nat
    BY <1>2, LenProperties
  <2>3. ctxs'[m] = Append(ctxs[m], d)
    BY <1>1, <1>2
  <2>4. (n + 1) - 1 = n
    BY <2>2
  <2> HIDE DEF n
  <2> QED
    BY <2>1, <2>2, <2>3, <2>4 DEF Replaces
<1> QED
  BY <1>1, <1>3, <1>4, <1>5 DEF d

(* A handler returns, with its context as c, the n-th; what is left on top *)
Left(m, n, c, d) ==
    /\ IF GoesOn
       THEN d = c /\ Replaces(ctxs[m], ctxs'[m], n, d) /\ ctl' = [ctl EXCEPT ![m] = "auto"]
       ELSE /\ d = Cleared(c) /\ Relays(ctxs[m], ctxs'[m], n, d) /\ AtEnd(d)
            /\ ctl' = [ctl EXCEPT ![m] = IF Len(calls[m]) = 1 THEN "finish" ELSE "run"]
    /\ d \in Context /\ Forward(c, d) /\ d.gone = c.gone /\ d.beyond = c.beyond
    /\ Len(calls'[m]) = Len(calls[m]) - 1
    /\ \A i \in 1..(Len(calls[m]) - 1) : calls'[m][i] = calls[m][i]

(* HandlerReturns is Left.                                                 *)
LEMMA LeftFacts ==
  ASSUME ChainInv, NEW m \in Msgs, ctl[m] = "run",
         NEW stack \in Seq(Context), NEW c \in Context, CtxOK(app, c),
         Len(stack) + 1 = Call(m).ctx,
         \A i \in 1..Len(stack) : stack[i] = ctxs[m][i],
         c.router = ctxs[m][Len(stack) + 1].router,
         HandlerReturns(m, stack, c)
  PROVE  Left(m, Len(stack) + 1, c, IF GoesOn THEN c ELSE Cleared(c))
<1> DEFINE d == IF GoesOn THEN c ELSE Cleared(c)
           n == Len(stack) + 1
<1>1. /\ TypeOK /\ StackOK(m) /\ app \in Setups /\ ctxs \in [Msgs -> Seq(Context)]
      /\ calls \in [Msgs -> Seq(CallType)] /\ calls[m] # <<>>
      /\ Len(calls[m]) \in Nat /\ Len(calls[m]) >= 1
      /\ Call(m) = calls[m][Len(calls[m])] /\ ctxs[m] \in Seq(Context)
  BY RunFacts DEF ChainInv, TypeOK
<1>2. Call(m).ctx \in 1..Len(ctxs[m])
  <2>1. Len(calls[m]) \in 1..Len(calls[m])
    BY <1>1
  <2> QED
    BY <1>1, <2>1, CallLevels DEF StackOK
<1>3. /\ Topped(ctxs[m], ctxs'[m], d)
      /\ Len(ctxs'[m]) = n
      /\ \A i \in 1..(n - 2) : ctxs'[m][i] = ctxs[m][i]
      /\ n > 1 => ctxs'[m][n - 1] = IF GoesOn THEN ctxs[m][n - 1] ELSE Told(ctxs[m][n - 1], d)
  BY <1>1, <1>2, HandlerReturnsMove
<1>4. calls' = [calls EXCEPT ![m] = Front(calls[m])]
  BY DEF HandlerReturns
<1>5. /\ Len(calls'[m]) = Len(calls[m]) - 1
      /\ \A i \in 1..(Len(calls[m]) - 1) : calls'[m][i] = calls[m][i]
  BY <1>1, <1>4, PopMove
<1>6. /\ d \in Context /\ Forward(c, d) /\ d.gone = c.gone /\ d.beyond = c.beyond
      /\ ~GoesOn => AtEnd(d)
  <2>1. CASE ~GoesOn
    BY <1>1, <2>1, ClearedForward, ClearedFacts DEF CtxOK
  <2>2. CASE GoesOn
    <3>1. c.node \in Nat /\ c.index \in Nat
      BY DEF Context
    <3> QED
      BY <2>2, <3>1, BeforeTotal DEF Forward
  <2> QED
    BY <2>1, <2>2
<1>7. Front(calls[m]) = <<>> <=> Len(calls[m]) = 1
  <2>1. Front(calls[m]) \in Seq(CallType) /\ Len(Front(calls[m])) = Len(calls[m]) - 1
    BY <1>1, FrontOf
  <2>2. Front(calls[m]) = <<>> <=> Len(Front(calls[m])) = 0
    BY <2>1, EmptyOrNot
  <2> QED
    BY <1>1, <2>1, <2>2
<1>8. n \in Nat /\ ctxs'[m][n] = d
  BY <1>2, <1>3 DEF Topped
<1>9. CASE GoesOn
  <2>1. ctl' = [ctl EXCEPT ![m] = "auto"] /\ d = c
    BY <1>9 DEF HandlerReturns
  <2> HIDE DEF d
  <2>2. \A i \in 1..(n - 1) : ctxs'[m][i] = ctxs[m][i]
    <3> SUFFICES ASSUME NEW i \in 1..(n - 1) PROVE ctxs'[m][i] = ctxs[m][i]
      OBVIOUS
    <3>1. i = n - 1 \/ i \in 1..(n - 2)
      BY <1>8
    <3>2. n > 1
      BY <1>8
    <3> HIDE DEF n
    <3> QED
      BY <1>3, <1>9, <3>1, <3>2
  <2> HIDE DEF n
  <2>3. Replaces(ctxs[m], ctxs'[m], n, d)
    BY <1>3, <1>8, <2>2 DEF Replaces
  <2>4. Left(m, n, c, d)
    BY <1>5, <1>6, <1>9, <2>1, <2>3 DEF Left
  <2> QED
    BY <2>4 DEF n, d
<1>10. CASE ~GoesOn
  <2>1. /\ ctl' = [ctl EXCEPT ![m] = IF Len(calls[m]) = 1 THEN "finish" ELSE "run"]
        /\ d = Cleared(c)
    BY <1>7, <1>10 DEF HandlerReturns
  <2> HIDE DEF d, n
  <2>2. Relays(ctxs[m], ctxs'[m], n, d)
    BY <1>3, <1>8, <1>10 DEF Relays
  <2>3. Left(m, n, c, d)
    BY <1>5, <1>6, <1>10, <2>1, <2>2 DEF Left
  <2> QED
    BY <2>3 DEF n, d
<1> QED
  BY <1>9, <1>10

(* A handler other than a router that is being left returns                *)
Returned(m) ==
    RouterReturns(m) \/ CodecReturns(m) \/ FuncReturns(m) \/ DecodeRefused(m) \/ NothingLeft(m)

(* What the contexts are when a handler returns                            *)
LEMMA ReturnedFacts ==
  ASSUME ChainInv, NEW m \in Msgs, Returned(m)
  PROVE  \E c \in Context, d \in Context :
           /\ Left(m, Len(ctxs[m]), c, d)
           /\ \/ (RouterReturns(m) \/ CodecReturns(m) \/ FuncReturns(m)) /\ c = Cur(m)
              \/ (DecodeRefused(m) \/ NothingLeft(m)) /\ c.error
           /\ c.router = Cur(m).router /\ c.at = Cur(m).at /\ c.node = Cur(m).node
           /\ c.index = Cur(m).index /\ c.path = Cur(m).path /\ c.id = Cur(m).id
           /\ c.gone = Cur(m).gone /\ c.chan = Cur(m).chan /\ c.owns = Cur(m).owns
           /\ c.beyond = Cur(m).beyond /\ c.codec = Cur(m).codec /\ c.values = Cur(m).values
           /\ ctl[m] = "run" /\ ~Serving(Call(m)) /\ Call(m).ctx = Len(ctxs[m]) /\ frame' = frame
<1>1. ctl[m] = "run" /\ ~Serving(Call(m)) /\ frame' = frame
  <2>1. CASE RouterReturns(m)
    BY <2>1 DEF RouterReturns, Running, Serving, fixed
  <2>2. CASE CodecReturns(m) \/ FuncReturns(m) \/ DecodeRefused(m) \/ NothingLeft(m)
    BY <2>2, NotServing DEF CodecReturns, FuncReturns, DecodeRefused, NothingLeft, Doing, Running, fixed
  <2> QED
    BY <2>1, <2>2 DEF Returned
<1>2. /\ Cur(m) \in Context /\ CtxOK(app, Cur(m)) /\ ctxs[m] \in Seq(Context) /\ ctxs[m] # <<>>
      /\ Len(ctxs[m]) \in Nat /\ Call(m).ctx = Len(ctxs[m]) /\ app \in Setups
      /\ Cur(m) = ctxs[m][Len(ctxs[m])]
  BY <1>1, RunFacts DEF ChainInv, Level
<1>3. /\ Front(ctxs[m]) \in Seq(Context) /\ Len(Front(ctxs[m])) + 1 = Len(ctxs[m])
      /\ \A i \in 1..Len(Front(ctxs[m])) : Front(ctxs[m])[i] = ctxs[m][i]
  <2>1. /\ Front(ctxs[m]) \in Seq(Context) /\ Len(Front(ctxs[m])) = Len(ctxs[m]) - 1
        /\ \A i \in 1..(Len(ctxs[m]) - 1) : Front(ctxs[m])[i] = ctxs[m][i]
    BY <1>2, FrontOf
  <2> QED
    BY <1>2, <2>1
<1>4. PICK c \in Context :
        /\ CtxOK(app, c) /\ HandlerReturns(m, Front(ctxs[m]), c)
        /\ \/ (RouterReturns(m) \/ CodecReturns(m) \/ FuncReturns(m)) /\ c = Cur(m)
           \/ (DecodeRefused(m) \/ NothingLeft(m)) /\ c.error
        /\ c.router = Cur(m).router /\ c.at = Cur(m).at /\ c.node = Cur(m).node
        /\ c.index = Cur(m).index /\ c.path = Cur(m).path /\ c.id = Cur(m).id
        /\ c.gone = Cur(m).gone /\ c.chan = Cur(m).chan /\ c.owns = Cur(m).owns
        /\ c.beyond = Cur(m).beyond /\ c.codec = Cur(m).codec /\ c.values = Cur(m).values
  <2>1. CASE RouterReturns(m) \/ CodecReturns(m) \/ FuncReturns(m)
    <3>1. HandlerReturns(m, Front(ctxs[m]), Cur(m))
      BY <2>1 DEF RouterReturns, CodecReturns, FuncReturns
    <3> QED
      BY <1>2, <2>1, <3>1
  <2>2. ASSUME NEW mu \in Mutex, mu # "free" => Cur(m).gone,
               HandlerReturns(m, Front(ctxs[m]), [Cur(m) EXCEPT !.error = TRUE, !.mu = mu]),
               DecodeRefused(m) \/ NothingLeft(m)
        PROVE  \E c \in Context :
                /\ CtxOK(app, c) /\ HandlerReturns(m, Front(ctxs[m]), c)
                /\ (DecodeRefused(m) \/ NothingLeft(m)) /\ c.error
                /\ c.router = Cur(m).router /\ c.at = Cur(m).at /\ c.node = Cur(m).node
                /\ c.index = Cur(m).index /\ c.path = Cur(m).path /\ c.id = Cur(m).id
                /\ c.gone = Cur(m).gone /\ c.chan = Cur(m).chan /\ c.owns = Cur(m).owns
                /\ c.beyond = Cur(m).beyond /\ c.codec = Cur(m).codec /\ c.values = Cur(m).values
    <3> DEFINE c == [Cur(m) EXCEPT !.error = TRUE, !.mu = mu]
    <3>1. c \in Context /\ CtxOK(app, c)
      BY <1>2, <2>2, ErrorFacts
    <3>2. /\ c.error
          /\ c.router = Cur(m).router /\ c.at = Cur(m).at /\ c.node = Cur(m).node
          /\ c.index = Cur(m).index /\ c.path = Cur(m).path /\ c.id = Cur(m).id
          /\ c.gone = Cur(m).gone /\ c.chan = Cur(m).chan /\ c.owns = Cur(m).owns
          /\ c.beyond = Cur(m).beyond /\ c.codec = Cur(m).codec /\ c.values = Cur(m).values
      BY <1>2 DEF Context
    <3> QED
      BY <2>2, <3>1, <3>2
  <2>3. CASE DecodeRefused(m)
    <3>1. HandlerReturns(m, Front(ctxs[m]), [Cur(m) EXCEPT !.error = TRUE])
      BY <2>3 DEF DecodeRefused
    <3>2. /\ [Cur(m) EXCEPT !.error = TRUE] = [Cur(m) EXCEPT !.error = TRUE, !.mu = Cur(m).mu]
          /\ Cur(m).mu \in Mutex /\ (Cur(m).mu # "free" => Cur(m).gone)
      BY <1>2 DEF Context, CtxOK
    <3>3. HandlerReturns(m, Front(ctxs[m]), [Cur(m) EXCEPT !.error = TRUE, !.mu = Cur(m).mu])
      BY <3>1, <3>2
    <3> QED
      BY <2>2, <2>3, <3>2, <3>3
  <2>4. CASE NothingLeft(m)
    <3>1. PICK mu \in Mutex : HandlerReturns(m, Front(ctxs[m]), [Cur(m) EXCEPT !.error = TRUE, !.mu = mu])
      BY <2>4 DEF NothingLeft
    <3>2. Cur(m).gone
      BY <2>4 DEF NothingLeft
    <3> QED
      BY <2>2, <2>4, <3>1, <3>2
  <2> QED
    BY <2>1, <2>3, <2>4 DEF Returned
<1> DEFINE stack == Front(ctxs[m])
<1> HIDE DEF stack
<1>5. /\ stack \in Seq(Context) /\ Len(stack) + 1 = Len(ctxs[m]) /\ HandlerReturns(m, stack, c)
      /\ \A i \in 1..Len(stack) : stack[i] = ctxs[m][i]
  BY <1>3, <1>4 DEF stack
<1>6. c.router = ctxs[m][Len(stack) + 1].router /\ Len(stack) + 1 = Call(m).ctx
  BY <1>2, <1>4, <1>5
<1> DEFINE d == IF GoesOn THEN c ELSE Cleared(c)
<1>7. Left(m, Len(stack) + 1, c, d)
  BY <1>1, <1>4, <1>5, <1>6, LeftFacts
<1> HIDE DEF d
<1>8. Left(m, Len(ctxs[m]), c, d)
  BY <1>5, <1>7
<1>9. d \in Context
  BY <1>7 DEF Left
<1> QED
  BY <1>1, <1>2, <1>4, <1>8, <1>9

(* The chain of a mounted router is left                                   *)
LEMMA LeavingFacts ==
  ASSUME ChainInv, NEW m \in Msgs, LeaveRouter(m)
  PROVE  LET n == Len(ctxs[m]) p == ctxs[m][n - 1] IN
         /\ n \in Nat /\ n >= 2 /\ Call(m).ctx = n - 1 /\ Serving(Call(m)) /\ ctl[m] = "run"
         /\ p \in Context /\ seen' = seen /\ frame' = frame
         /\ \/ /\ Cur(m).beyond /\ Replaces(ctxs[m], ctxs'[m], n - 1, p) /\ Nexts(m, 2)
               /\ ctl' = [ctl EXCEPT ![m] = "next"]
            \/ /\ ~Cur(m).beyond
               /\ \E d \in Context : Left(m, n - 1, p, d)
<1> DEFINE S == ctxs[m]
           n == Len(S)
           stack == Front(S)
<1>1. /\ ctl[m] = "run" /\ Serving(Call(m)) /\ seen' = seen /\ frame' = frame
      /\ \/ /\ Cur(m).beyond
            /\ ctxs' = [ctxs EXCEPT ![m] = stack] /\ Nexts(m, 2)
            /\ ctl' = [ctl EXCEPT ![m] = "next"]
         \/ ~Cur(m).beyond /\ HandlerReturns(m, Front(stack), Last(stack))
  BY DEF LeaveRouter, Running, Serving, fixed
<1>2. /\ TypeOK /\ ContextsOK(m) /\ app \in Setups
      /\ n \in Nat /\ n = Call(m).ctx + 1 /\ Call(m).ctx \in Nat /\ Call(m).ctx >= 1
      /\ S \in Seq(Context) /\ S # <<>> /\ ctxs \in [Msgs -> Seq(Context)]
  BY <1>1, RunFacts DEF ChainInv, Level, TypeOK
<1>3. /\ stack \in Seq(Context) /\ Len(stack) = n - 1
      /\ \A i \in 1..(n - 1) : stack[i] = S[i]
  BY <1>2, FrontOf
<1>4. n - 1 = Call(m).ctx /\ n - 1 \in Nat /\ n - 1 >= 1 /\ n - 1 \in 1..n /\ n >= 2
  BY <1>2
<1>5. stack # <<>>
  BY <1>3, <1>4, EmptyOrNot
<1> HIDE DEF stack, S, n
<1>6. /\ Last(stack) = S[n - 1] /\ Last(stack) \in Context /\ Front(stack) \in Seq(Context)
      /\ Len(Front(stack)) = (n - 1) - 1 /\ \A i \in 1..((n - 1) - 1) : Front(stack)[i] = S[i]
  <2>1. /\ Last(stack) \in Context /\ Last(stack) = stack[n - 1]
        /\ Front(stack) \in Seq(Context)
        /\ Len(Front(stack)) = (n - 1) - 1
        /\ \A i \in 1..((n - 1) - 1) : Front(stack)[i] = stack[i]
    BY <1>3, <1>5, FrontOf
  <2>2. \A i \in 1..((n - 1) - 1) : i \in 1..(n - 1)
    BY <1>4
  <2>3. n - 1 \in 1..(n - 1)
    BY <1>4
  <2> QED
    BY <1>3, <2>1, <2>2, <2>3
<1>7. CtxOK(app, Last(stack))
  BY <1>2, <1>4, <1>6 DEF ContextsOK, PlacesOK, S, n
<1> DEFINE p == S[n - 1]
<1>8. p \in Context /\ Last(stack) = p
  BY <1>6
<1> HIDE DEF p
<1>9. \/ /\ Cur(m).beyond /\ Replaces(S, ctxs'[m], n - 1, p) /\ Nexts(m, 2)
         /\ ctl' = [ctl EXCEPT ![m] = "next"]
      \/ /\ ~Cur(m).beyond
         /\ \E d \in Context : Left(m, n - 1, p, d)
  <2>1. CASE Cur(m).beyond
    <3>1. ctxs'[m] = stack /\ Nexts(m, 2) /\ ctl' = [ctl EXCEPT ![m] = "next"]
      BY <1>1, <1>2, <2>1
    <3>2. \A i \in 1..((n - 1) - 1) : i \in 1..(n - 1)
      BY <1>4
    <3>3. n - 1 \in 1..(n - 1)
      BY <1>4
    <3>4. stack[n - 1] = p
      BY <1>3, <3>3 DEF p
    <3>5. Replaces(S, ctxs'[m], n - 1, p)
      BY <1>3, <3>1, <3>2, <3>4 DEF Replaces
    <3> QED
      BY <2>1, <3>1, <3>5
  <2>2. CASE ~Cur(m).beyond
    <3> DEFINE f == Front(stack)
    <3>1. HandlerReturns(m, f, p)
      BY <1>1, <1>8, <2>2
    <3>2. f \in Seq(Context) /\ Len(f) + 1 = Call(m).ctx /\ Len(f) + 1 = n - 1
      <4>1. f \in Seq(Context) /\ Len(f) = (n - 1) - 1
        BY <1>2, <1>4, <1>6
      <4> HIDE DEF f
      <4>2. n - 1 = Call(m).ctx /\ n - 1 \in Nat
        BY <1>2, <1>4, <1>6
      <4>3. Len(f) + 1 = n - 1
        BY <4>1, <4>2
      <4> QED
        BY <4>1, <4>2, <4>3
    <3>3. \A i \in 1..Len(f) : f[i] = ctxs[m][i]
      BY <1>6 DEF S
    <3>4. p.router = ctxs[m][Len(f) + 1].router
      BY <3>2 DEF S, p
    <3> HIDE DEF f
    <3> DEFINE d == IF GoesOn THEN p ELSE Cleared(p)
    <3>5. Left(m, Len(f) + 1, p, d)
      BY <1>1, <1>7, <1>8, <3>1, <3>2, <3>3, <3>4, LeftFacts
    <3> HIDE DEF d
    <3>6. Left(m, n - 1, p, d) /\ d \in Context
      BY <3>2, <3>5 DEF Left
    <3> QED
      BY <2>2, <3>6
  <2> QED
    BY <2>1, <2>2
<1>10. /\ n \in Nat /\ n >= 2 /\ Call(m).ctx = n - 1 /\ Serving(Call(m)) /\ ctl[m] = "run"
       /\ p \in Context /\ seen' = seen /\ frame' = frame
  BY <1>1, <1>4, <1>2, <1>8
<1> QED
  BY <1>9, <1>10 DEF p, n, S

(* Handlers are started by NextRunsHandler only, and only Next comes to    *)
(* the end.                                                                *)
LEMMA OneStarts ==
  ASSUME ChainInv, NEW m \in Msgs, Steps(m), ~NextRunsHandler(m)
  PROVE  ~Starts(m) /\ (Nexting(m) => Returning(m))
<1>1. TypeOK
  BY DEF ChainInv, BaseInv
<1>2. Len(calls[m]) \in Nat /\ calls \in [Msgs -> Seq(CallType)]
  BY <1>1, StackTypes DEF TypeOK, CallType
<1>3. CASE Returning(m)
  <2>1. calls' = calls
    BY <1>3 DEF Returning, NextRefused, NextBeyondEnd, NextHandsOver, fixed
  <2> QED
    BY <1>2, <1>3, <2>1 DEF Starts
<1>4. CASE Start(m) \/ Finish(m) \/ LockTaken(m) \/ LockGivenUp(m) \/ LockedOut(m)
           \/ TakeMessage(m) \/ ReceiveCancelled(m)
           \/ SetError(m) \/ ClearError(m) \/ SetMessagePath(m) \/ Set(m) \/ Delete(m) \/ Receive(m)
  <2>1. calls' = calls /\ ctl[m] \in {"idle", "finish", "waiting", "run", "asleep"}
    BY <1>4 DEF Start, Finish, LockTaken, LockGivenUp, LockedOut, TakeMessage, ReceiveCancelled,
         SetError, ClearError, SetMessagePath, Set, Delete, Receive, Doing, Running, fixed
  <2> QED
    BY <1>2, <2>1 DEF Starts, Nexting
<1>5. CASE EnterRouter(m) \/ DecodeSkipped(m) \/ Decoded(m) \/ CallNext(m)
  <2>1. ctl[m] = "run" /\ \E n \in 0..2 : Nexts(m, n)
    <3>1. CASE EnterRouter(m) \/ DecodeSkipped(m) \/ Decoded(m)
      <4>1. ctl[m] = "run" /\ Nexts(m, 1)
        BY <3>1 DEF EnterRouter, DecodeSkipped, Decoded, Running
      <4>2. 1 \in 0..2
        OBVIOUS
      <4> QED
        BY <4>1, <4>2
    <3>2. CASE CallNext(m)
      <4>1. ctl[m] = "run" /\ Nexts(m, Call(m).nexts + 1) /\ Call(m).nexts \in {0, 1}
        BY <3>2 DEF CallNext, Doing, Running
      <4>2. Call(m).nexts + 1 \in 0..2
        BY <4>1
      <4> QED
        BY <4>1, <4>2
    <3> QED
      BY <1>5, <3>1, <3>2
  <2>2. calls[m] # <<>>
    BY <2>1, RunFacts DEF ChainInv
  <2>3. Len(calls'[m]) = Len(calls[m])
    BY <1>2, <2>1, <2>2, NextsMove
  <2> QED
    BY <1>2, <2>1, <2>3 DEF Starts, Nexting
<1>6. CASE Returned(m)
  <2>1. ctl[m] = "run" /\ Len(calls'[m]) = Len(calls[m]) - 1
    BY <1>6, ReturnedFacts DEF Left
  <2> QED
    BY <1>2, <2>1 DEF Starts, Nexting
<1>7. CASE LeaveRouter(m)
  <2>1. ctl[m] = "run" /\ (Nexts(m, 2) \/ Len(calls'[m]) = Len(calls[m]) - 1)
    BY <1>7, LeavingFacts DEF Left
  <2>2. calls[m] # <<>> /\ 2 \in 0..2
    BY <2>1, RunFacts DEF ChainInv
  <2>3. Len(calls'[m]) <= Len(calls[m])
    BY <1>2, <2>1, <2>2, NextsMove
  <2> QED
    BY <1>2, <2>1, <2>3 DEF Starts, Nexting
<1> QED
  BY <1>3, <1>4, <1>5, <1>6, <1>7 DEF Steps, Returning, Returned

(* One step of NextByPath                                                  *)
LEMMA ByPathStep ==
  ASSUME ChainInv, [Next]_vars, NEW m \in Msgs
  PROVE  LET c == Cur(m) d == Cur(m)' IN
         /\ Starts(m) =>
              /\ <<d.node, d.index>> \in Ahead(c)
              /\ \A p \in Ahead(c) : ~Before(p, <<d.node, d.index>>)
              /\ app.kind = "normal" => d.params = <<c.router, d.node, c.path>>
         /\ (Nexting(m) /\ Len(ctxs[m]) = Len(ctxs'[m]) /\ d.beyond /\ ~c.beyond)
              => Ahead(c) = {}
<1>1. TypeOK
  BY DEF ChainInv, BaseInv
<1>2. CASE Untouched(m)
  <2>1. ~Starts(m)
    BY <1>1, <1>2, StackTypes DEF Untouched, Starts
  <2>2. Cur(m)' = Cur(m)
    BY <1>2 DEF Untouched, Cur
  <2> QED
    BY <2>1, <2>2
<1>3. CASE NextRunsHandler(m)
  <2>1. PICK d \in Context :
           /\ Replaces(ctxs[m], ctxs'[m], Len(ctxs[m]), d)
           /\ Forward(Cur(m), d) /\ d.beyond = Cur(m).beyond
           /\ <<d.node, d.index>> \in Ahead(Cur(m))
           /\ \A p \in Ahead(Cur(m)) : ~Before(p, <<d.node, d.index>>)
           /\ app.kind = "normal" => d.params = <<d.router, d.node, d.path>>
    BY <1>3, RunsFacts
  <2>2. Cur(m)' = d
    BY <2>1 DEF Replaces, Cur, Last
  <2>3. d.router = Cur(m).router /\ d.path = Cur(m).path
    BY <2>1 DEF Forward
  <2> QED
    BY <2>1, <2>2, <2>3
<1>4. CASE Returning(m)
  <2>1. PICK d \in Context :
           /\ Relays(ctxs[m], ctxs'[m], Len(ctxs[m]), d)
           /\ d.beyond = Cur(m).beyond \/ Ahead(Cur(m)) = {}
    BY <1>4, ReturningFacts
  <2>2. Cur(m)' = d
    BY <2>1 DEF Relays, Cur, Last
  <2>3. ~Starts(m)
    <3>1. calls' = calls
      BY <1>4, ReturningFacts
    <3> QED
      BY <1>1, <3>1, StackTypes DEF Starts
  <2> QED
    BY <2>1, <2>2, <2>3
<1>5. CASE Steps(m) /\ ~NextRunsHandler(m) /\ ~Returning(m)
  BY <1>5, OneStarts
<1> QED
  BY <1>1, <1>2, <1>3, <1>4, <1>5, StepCases

(* In every application, Next runs the first handler ahead that matches    *)
(* the path of that moment, with its parameters, and comes to the end only *)
(* when there is none.                                                     *)
THEOREM ByPath == Spec => NextByPath
<1>1. ChainInv /\ [Next]_vars =>
        (\A m \in Msgs :
          LET c == Cur(m) d == Cur(m)' IN
          /\ Starts(m) =>
            /\ <<d.node, d.index>> \in Ahead(c)
            /\ \A p \in Ahead(c) : ~Before(p, <<d.node, d.index>>)
            /\ app.kind = "normal" => d.params = <<c.router, d.node, c.path>>
          /\ (Nexting(m) /\ Len(ctxs[m]) = Len(ctxs'[m]) /\ d.beyond /\ ~c.beyond)
              => Ahead(c) = {})
  BY ByPathStep
<1> QED
  BY <1>1, ChainInvHolds, PTL DEF Spec, NextByPath

(* Steps that leave all contexts as they are                               *)
Quiet(m) ==
    \/ Finish(m) \/ LockTaken(m) \/ LockGivenUp(m) \/ LockedOut(m)
    \/ CallNext(m) \/ DecodeSkipped(m) \/ TakeMessage(m) \/ ReceiveCancelled(m)

(* What they leave alone, and what they do to control and calls            *)
LEMMA QuietFacts ==
  ASSUME ChainInv, NEW m \in Msgs, Quiet(m)
  PROVE  /\ ctxs' = ctxs /\ seen' = seen /\ frame' = frame /\ Cur(m)' = Cur(m)
         /\ ctl[m] \notin {"idle", "next", "auto", "ended"}
         /\ ctl'[m] \notin {"idle", "auto"}
         /\ \/ Finish(m) /\ ctl'[m] = "ended" /\ calls' = calls
            \/ CallNext(m) /\ ctl[m] = "run" /\ ctl'[m] = "next"
               /\ Call(m).h \in Funcs /\ Nexts(m, Call(m).nexts + 1) /\ Call(m).nexts + 1 \in {1, 2}
            \/ DecodeSkipped(m) /\ ctl[m] = "run" /\ ctl'[m] = "next"
               /\ Call(m).h \in Codecs /\ Nexts(m, 1)
            \/ LockedOut(m) /\ ctl[m] = "run" /\ ctl'[m] = "stuck" /\ calls' = calls
            \/ (LockTaken(m) \/ LockGivenUp(m)) /\ ctl[m] = "waiting" /\ ctl'[m] = "next"
               /\ calls' = calls
            \/ (TakeMessage(m) \/ ReceiveCancelled(m)) /\ ctl[m] = "asleep" /\ ctl'[m] = "run"
               /\ calls' = calls
<1>1. TypeOK
  BY DEF ChainInv, BaseInv
<1>2. CASE Finish(m) \/ LockTaken(m) \/ LockGivenUp(m) \/ TakeMessage(m) \/ ReceiveCancelled(m)
  BY <1>1, <1>2 DEF TypeOK, Finish, LockTaken, LockGivenUp, TakeMessage, ReceiveCancelled, fixed, Cur
<1>3. CASE LockedOut(m) \/ DecodeSkipped(m)
  BY <1>1, <1>3 DEF TypeOK, LockedOut, DecodeSkipped, Doing, Running, fixed, Cur
<1>4. CASE CallNext(m)
  <2>1. /\ ctl[m] = "run" /\ ctl'[m] = "next" /\ Call(m).h \in Funcs /\ Nexts(m, Call(m).nexts + 1)
        /\ Call(m).nexts \in {0, 1} /\ ctxs' = ctxs /\ seen' = seen /\ frame' = frame /\ Cur(m)' = Cur(m)
    BY <1>1, <1>4 DEF TypeOK, CallNext, Doing, Running, fixed, Cur
  <2>2. Call(m).nexts + 1 \in {1, 2}
    BY <2>1
  <2> QED
    BY <1>4, <2>1, <2>2
<1> QED
  BY <1>2, <1>3, <1>4 DEF Quiet

(* Steps of a function that change its context                             *)
Works(m) == SetError(m) \/ ClearError(m) \/ SetMessagePath(m) \/ Set(m) \/ Delete(m) \/ Receive(m)

(* What functions change of their context, and what the history has of it  *)
LEMMA WorksFacts ==
  ASSUME ChainInv, NEW m \in Msgs, Works(m)
  PROVE  LET c == Cur(m) d == Cur(m)' IN
         /\ Replaces(ctxs[m], ctxs'[m], Len(ctxs[m]), d) /\ d \in Context
         /\ d.router = c.router /\ d.at = c.at /\ d.node = c.node /\ d.index = c.index
         /\ d.id = c.id /\ d.gone = c.gone /\ d.beyond = c.beyond /\ d.codec = c.codec
         /\ AtEnd(d) = AtEnd(c)
         /\ calls' = calls /\ frame' = frame /\ ctl[m] = "run" /\ Call(m).h \in Funcs
         /\ \/ Receive(m) /\ ctl' = [ctl EXCEPT ![m] = "asleep"] /\ d.owns
            \/ ~Receive(m) /\ ctl' = ctl /\ d.owns = c.owns
         /\ \/ (SetError(m) \/ ClearError(m)) /\ d.error = seen'[m].err
            \/ d.error = c.error /\ seen'[m].err = seen[m].err
         /\ \/ (Set(m) \/ Delete(m)) /\ \E k \in Keys, v \in Vals \cup {None} :
                 /\ d.values = [c.values EXCEPT ![k] = v]
                 /\ seen'[m].latest = [seen[m].latest EXCEPT ![k] = v]
                 /\ v = None => Delete(m)
            \/ d.values = c.values /\ seen'[m].latest = seen[m].latest
         /\ seen'[m].stopped = seen[m].stopped /\ seen'[m].ran = seen[m].ran
<1> DEFINE c == Cur(m)
<1>1. ctl[m] = "run" /\ Call(m).h \in Funcs /\ calls' = calls /\ app' = app /\ frame' = frame
  BY DEF Works, SetError, ClearError, SetMessagePath, Set, Delete, Receive, Doing, Running, fixed
<1>2. /\ TypeOK /\ c \in Context /\ ctxs[m] # <<>> /\ ctxs \in [Msgs -> Seq(Context)]
      /\ Len(ctxs[m]) \in Nat /\ seen[m] \in History /\ seen \in [Msgs -> History]
  BY <1>1, RunFacts DEF ChainInv, TypeOK
<1>3. ASSUME NEW d \in Context, Put(m, d), d.router = c.router
      PROVE  Replaces(ctxs[m], ctxs'[m], Len(ctxs[m]), d) /\ Cur(m)' = d
  <2>1. /\ Topped(ctxs[m], ctxs'[m], d)
        /\ Len(ctxs'[m]) = Len(ctxs[m])
        /\ \A i \in 1..(Len(ctxs[m]) - 1) : ctxs'[m][i] = ctxs[m][i]
    BY <1>2, <1>3, PutMove
  <2> QED
    BY <2>1 DEF Topped, Replaces, Cur, Last
<1>4. CASE SetError(m)
  <2> DEFINE d == [c EXCEPT !.error = TRUE]
  <2>1. Put(m, d) /\ ctl' = ctl /\ seen' = [seen EXCEPT ![m].failed = TRUE, ![m].err = TRUE]
    BY <1>4 DEF SetError
  <2>2. /\ d \in Context /\ d.router = c.router /\ d.at = c.at /\ d.node = c.node
        /\ d.index = c.index /\ d.id = c.id /\ d.gone = c.gone /\ d.beyond = c.beyond
        /\ d.codec = c.codec /\ d.owns = c.owns /\ d.values = c.values /\ d.error = TRUE
    BY <1>2 DEF Context
  <2>3. /\ seen'[m].err = TRUE /\ seen'[m].latest = seen[m].latest
        /\ seen'[m].stopped = seen[m].stopped /\ seen'[m].ran = seen[m].ran
    BY <1>2, <2>1 DEF History
  <2>4. ~Receive(m) \/ ctl'[m] = "asleep"
    BY <1>2 DEF Receive, TypeOK
  <2>5. ~Receive(m)
    BY <1>1, <2>1, <2>4
  <2> HIDE DEF d
  <2>6. Replaces(ctxs[m], ctxs'[m], Len(ctxs[m]), d) /\ Cur(m)' = d
    BY <1>3, <2>1, <2>2
  <2> QED
    BY <1>1, <1>4, <2>1, <2>2, <2>3, <2>5, <2>6 DEF AtEnd, Chain
<1>5. CASE ClearError(m)
  <2> DEFINE d == [c EXCEPT !.error = FALSE]
  <2>1. Put(m, d) /\ ctl' = ctl /\ seen' = [seen EXCEPT ![m].err = FALSE]
    BY <1>5 DEF ClearError
  <2>2. /\ d \in Context /\ d.router = c.router /\ d.at = c.at /\ d.node = c.node
        /\ d.index = c.index /\ d.id = c.id /\ d.gone = c.gone /\ d.beyond = c.beyond
        /\ d.codec = c.codec /\ d.owns = c.owns /\ d.values = c.values /\ d.error = FALSE
    BY <1>2 DEF Context
  <2>3. /\ seen'[m].err = FALSE /\ seen'[m].latest = seen[m].latest
        /\ seen'[m].stopped = seen[m].stopped /\ seen'[m].ran = seen[m].ran
    BY <1>2, <2>1 DEF History
  <2>4. ~Receive(m) \/ ctl'[m] = "asleep"
    BY <1>2 DEF Receive, TypeOK
  <2>5. ~Receive(m)
    BY <1>1, <2>1, <2>4
  <2> HIDE DEF d
  <2>6. Replaces(ctxs[m], ctxs'[m], Len(ctxs[m]), d) /\ Cur(m)' = d
    BY <1>3, <2>1, <2>2
  <2> QED
    BY <1>1, <1>5, <2>1, <2>2, <2>3, <2>5, <2>6 DEF AtEnd, Chain
<1>6. CASE SetMessagePath(m)
  <2>0. PICK p \in Paths : Put(m, [c EXCEPT !.path = p, !.setPath = TRUE])
    BY <1>6 DEF SetMessagePath
  <2> DEFINE d == [c EXCEPT !.path = p, !.setPath = TRUE]
  <2>1. ctl' = ctl /\ seen' = [seen EXCEPT ![m].moved = TRUE]
    BY <1>6 DEF SetMessagePath
  <2>2. /\ d \in Context /\ d.router = c.router /\ d.at = c.at /\ d.node = c.node
        /\ d.index = c.index /\ d.id = c.id /\ d.gone = c.gone /\ d.beyond = c.beyond
        /\ d.codec = c.codec /\ d.owns = c.owns /\ d.values = c.values /\ d.error = c.error
    BY <1>2 DEF Context
  <2>3. /\ seen'[m].err = seen[m].err /\ seen'[m].latest = seen[m].latest
        /\ seen'[m].stopped = seen[m].stopped /\ seen'[m].ran = seen[m].ran
    BY <1>2, <2>1 DEF History
  <2>4. ~Receive(m) \/ ctl'[m] = "asleep"
    BY <1>2 DEF Receive, TypeOK
  <2>5. ~Receive(m)
    BY <1>1, <2>1, <2>4
  <2>6. Replaces(ctxs[m], ctxs'[m], Len(ctxs[m]), d) /\ Cur(m)' = d
    BY <1>3, <2>0, <2>2
  <2> HIDE DEF d
  <2> QED
    BY <1>1, <1>6, <2>1, <2>2, <2>3, <2>5, <2>6 DEF AtEnd, Chain
<1>7. CASE Set(m) \/ Delete(m)
  <2>0. PICK k \in Keys, v \in Vals \cup {None} :
            /\ Put(m, [c EXCEPT !.values[k] = v])
            /\ seen' = [seen EXCEPT ![m].latest[k] = v]
            /\ v = None => Delete(m)
    <3>1. CASE Set(m)
      BY <3>1, HandlerChainAssumption DEF Set
    <3>2. CASE Delete(m)
      BY <3>2 DEF Delete
    <3> QED
      BY <1>7, <3>1, <3>2
  <2> DEFINE d == [c EXCEPT !.values[k] = v]
  <2>1. ctl' = ctl
    BY <1>7 DEF Set, Delete
  <2>2. /\ d \in Context /\ d.router = c.router /\ d.at = c.at /\ d.node = c.node
        /\ d.index = c.index /\ d.id = c.id /\ d.gone = c.gone /\ d.beyond = c.beyond
        /\ d.codec = c.codec /\ d.owns = c.owns /\ d.error = c.error
        /\ d.values = [c.values EXCEPT ![k] = v]
    <3>1. [c.values EXCEPT ![k] = v] \in [Keys -> Vals \cup {None}]
      BY <1>2 DEF Context
    <3> QED
      BY <1>2, <3>1 DEF Context
  <2>3. /\ seen'[m].err = seen[m].err /\ seen'[m].latest = [seen[m].latest EXCEPT ![k] = v]
        /\ seen'[m].stopped = seen[m].stopped /\ seen'[m].ran = seen[m].ran
    BY <1>2, <2>0 DEF History
  <2>4. ~Receive(m) \/ ctl'[m] = "asleep"
    BY <1>2 DEF Receive, TypeOK
  <2>5. ~Receive(m)
    BY <1>1, <2>1, <2>4
  <2>6. Replaces(ctxs[m], ctxs'[m], Len(ctxs[m]), d) /\ Cur(m)' = d
    BY <1>3, <2>0, <2>2
  <2> HIDE DEF d
  <2> QED
    BY <1>1, <1>7, <2>0, <2>1, <2>2, <2>3, <2>5, <2>6 DEF AtEnd, Chain
<1>8. CASE Receive(m)
  <2> DEFINE d == [c EXCEPT !.chan = TRUE, !.owns = TRUE]
  <2>1. Put(m, d) /\ ctl' = [ctl EXCEPT ![m] = "asleep"] /\ seen' = seen
    BY <1>8 DEF Receive
  <2>2. /\ d \in Context /\ d.router = c.router /\ d.at = c.at /\ d.node = c.node
        /\ d.index = c.index /\ d.id = c.id /\ d.gone = c.gone /\ d.beyond = c.beyond
        /\ d.codec = c.codec /\ d.owns /\ d.values = c.values /\ d.error = c.error
    BY <1>2 DEF Context
  <2> HIDE DEF d
  <2>6. Replaces(ctxs[m], ctxs'[m], Len(ctxs[m]), d) /\ Cur(m)' = d
    BY <1>3, <2>1, <2>2
  <2> QED
    BY <1>1, <1>8, <2>1, <2>2, <2>6 DEF AtEnd, Chain
<1> QED
  BY <1>4, <1>5, <1>6, <1>7, <1>8 DEF Works

(* A codec gives the context its message                                   *)
LEMMA DecodedFacts ==
  ASSUME ChainInv, NEW m \in Msgs, Decoded(m)
  PROVE  LET c == Cur(m) d == Cur(m)' IN
         /\ Replaces(ctxs[m], ctxs'[m], Len(ctxs[m]), d) /\ d \in Context
         /\ d.router = c.router /\ d.at = c.at /\ d.node = c.node /\ d.index = c.index
         /\ d.gone = c.gone /\ d.beyond = c.beyond /\ d.owns = c.owns /\ d.error = c.error
         /\ d.values = c.values /\ d.codec = Call(m).h
         /\ d.id = IF frame[m].id = NoId THEN c.id ELSE frame[m].id
         /\ frame[m].format = Call(m).h /\ Speaks(Call(m).h) /\ Call(m).h \in Codecs
         /\ frame[m] \in Frame /\ frame' = frame /\ seen' = seen
         /\ Nexts(m, 1) /\ Call(m).nexts = 0 /\ ctl[m] = "run"
         /\ IF frame[m].id = NoId THEN ctl' = [ctl EXCEPT ![m] = "next"] /\ UNCHANGED lock
                                  ELSE SetMessageID(m, frame[m].id)
<1> DEFINE c == Cur(m)
           id == frame[m].id
           e == [c EXCEPT !.codec = Call(m).h,
                          !.id = IF id = NoId THEN @ ELSE id,
                          !.path = IF frame[m].path = NoPath THEN @ ELSE frame[m].path,
                          !.setPath = @ \/ frame[m].path # NoPath]
<1>1. /\ ctl[m] = "run" /\ Call(m).h \in Codecs /\ Nexts(m, 1) /\ Put(m, e) /\ Call(m).nexts = 0
      /\ frame[m].format = Call(m).h /\ Speaks(Call(m).h) /\ frame' = frame /\ seen' = seen
      /\ IF id = NoId THEN ctl' = [ctl EXCEPT ![m] = "next"] /\ UNCHANGED lock
                      ELSE SetMessageID(m, id)
  BY DEF Decoded, Running, Readable, fixed
<1>2. /\ TypeOK /\ c \in Context /\ ctxs[m] # <<>> /\ ctxs \in [Msgs -> Seq(Context)]
      /\ frame[m] \in Frame
  BY <1>1, RunFacts DEF ChainInv, TypeOK, FramesRead
<1>3. e \in Context
  <2>1. /\ (IF id = NoId THEN c.id ELSE id) \in Ids \cup {NoId}
        /\ (IF frame[m].path = NoPath THEN c.path ELSE frame[m].path) \in Paths \cup {NoPath}
        /\ (c.setPath \/ frame[m].path # NoPath) \in BOOLEAN
    BY <1>2 DEF Frame, Context
  <2>2. PICK i \in Ids \cup {NoId}, p \in Paths \cup {NoPath}, b \in BOOLEAN :
             /\ i = IF id = NoId THEN c.id ELSE id
             /\ p = IF frame[m].path = NoPath THEN c.path ELSE frame[m].path
             /\ b = (c.setPath \/ frame[m].path # NoPath)
    BY <2>1
  <2>3. [c EXCEPT !.codec = Call(m).h, !.id = i, !.path = p, !.setPath = b] \in Context
    BY <1>1, <1>2 DEF Context
  <2>4. e = [c EXCEPT !.codec = Call(m).h, !.id = i, !.path = p, !.setPath = b]
    BY <2>2
  <2> QED
    BY <2>3, <2>4
<1>4. /\ e.router = c.router /\ e.at = c.at /\ e.node = c.node /\ e.index = c.index
      /\ e.gone = c.gone /\ e.beyond = c.beyond /\ e.owns = c.owns /\ e.error = c.error
      /\ e.values = c.values /\ e.codec = Call(m).h
      /\ e.id = IF id = NoId THEN c.id ELSE id
  BY <1>2 DEF Context
<1> HIDE DEF e
<1>5. /\ Topped(ctxs[m], ctxs'[m], e)
      /\ Len(ctxs'[m]) = Len(ctxs[m])
      /\ \A i \in 1..(Len(ctxs[m]) - 1) : ctxs'[m][i] = ctxs[m][i]
  BY <1>1, <1>2, <1>3, <1>4, PutMove
<1>6. Replaces(ctxs[m], ctxs'[m], Len(ctxs[m]), e) /\ Cur(m)' = e
  BY <1>5 DEF Topped, Replaces, Cur, Last
<1> QED
  BY <1>1, <1>2, <1>3, <1>4, <1>6

(* A goroutine begins with a new context.                                  *)
LEMMA StartFacts ==
  ASSUME ChainInv, NEW m \in Msgs, Start(m)
  PROVE  /\ ctxs'[m] = <<NewContext>> /\ Len(ctxs'[m]) = 1 /\ Cur(m)' = NewContext
         /\ calls' = calls /\ calls[m] = <<>> /\ seen' = seen
         /\ ctl[m] = "idle" /\ ctl' = [ctl EXCEPT ![m] = "next"]
<1>1. TypeOK /\ StackOK(m)
  BY DEF ChainInv, BaseInv
<1> QED
  BY <1>1 DEF Start, TypeOK, StackOK, Stacked, Cur, Last

(* How deep the contexts are                                               *)
LEMMA Depth ==
  ASSUME ChainInv, NEW m \in Msgs, calls[m] # <<>>
  PROVE  LET n == Len(calls[m]) k == calls[m][n] IN
         /\ n \in Nat /\ n >= 1 /\ Call(m) = k /\ k.ctx \in Nat /\ k.ctx >= 1
         /\ Len(ctxs[m]) \in Nat /\ Len(ctxs[m]) = Level(k)
         /\ n > 1 => /\ calls[m][n - 1].ctx \in Nat /\ calls[m][n - 1].ctx >= 1
                     /\ k.ctx = Level(calls[m][n - 1]) /\ calls[m][n - 1].nexts >= 1
<1> DEFINE n == Len(calls[m])
<1>1. StackOK(m) /\ TypeOK
  BY DEF ChainInv, BaseInv
<1>2. /\ n \in Nat /\ n >= 1 /\ \A i \in 1..n : calls[m][i].ctx \in Nat
      /\ Len(ctxs[m]) \in Nat
  BY <1>1, StackTypes
<1>3. Call(m) = calls[m][n]
  BY DEF Call, Last
<1> HIDE DEF n
<1>4. \A i, j \in 1..n : i <= j => calls[m][i].ctx <= calls[m][j].ctx
  BY <1>1 DEF StackOK, Stacked, n
<1>5. calls[m][1].ctx = 1 /\ Len(ctxs[m]) = Level(calls[m][n])
  BY <1>1 DEF StackOK, Stacked, n
<1>6. \A i \in 1..n : calls[m][i].ctx \in Nat /\ calls[m][i].ctx >= 1
  BY <1>2, <1>4, <1>5
<1>7. n > 1 => n - 1 \in 1..n /\ n - 1 \in 1..(n - 1) /\ (n - 1) + 1 = n
  BY <1>2
<1>8. n > 1 => calls[m][(n - 1) + 1].ctx = Level(calls[m][n - 1]) /\ calls[m][n - 1].nexts >= 1
  BY <1>1, <1>7 DEF StackOK, Stacked, n
<1>9. n \in 1..n
  BY <1>2
<1> QED
  BY <1>2, <1>3, <1>5, <1>6, <1>7, <1>8, <1>9 DEF n

(* The handler that Next has just started                                  *)
LEMMA PushedFresh ==
  ASSUME ChainInv, NEW m \in Msgs, NEW h \in Handlers,
         calls' = [calls EXCEPT ![m] = Append(@, [h |-> h, nexts |-> 0, ctx |-> Len(ctxs[m])])]
  PROVE  /\ Len(calls'[m]) = Len(calls[m]) + 1
         /\ \A i \in 1..Len(calls[m]) : calls'[m][i] = calls[m][i]
         /\ LET k == calls'[m][Len(calls'[m])] IN
              k.h = h /\ k.nexts = 0 /\ k.ctx = Len(ctxs[m])
<1>1. calls \in [Msgs -> Seq(CallType)] /\ Len(ctxs[m]) \in Nat
  BY StackTypes DEF ChainInv, BaseInv, TypeOK, CallType
<1> DEFINE k == [h |-> h, nexts |-> 0, ctx |-> Len(ctxs[m])]
<1>2. k \in CallType
  BY <1>1 DEF CallType
<1>3. k.h = h /\ k.nexts = 0 /\ k.ctx = Len(ctxs[m])
  OBVIOUS
<1>4. calls'[m] = Append(calls[m], k)
  BY <1>1
<1> HIDE DEF k
<1> QED
  BY <1>1, <1>2, <1>3, <1>4, Appended

(* Of course.                                                              *)
LEMMA MoreThanOne == ASSUME NEW l \in Nat, l >= 1, l # 1 PROVE l > 1
OBVIOUS

(* What a parent has after it was told                                     *)
LEMMA ParentTold ==
  ASSUME ChainInv, NEW m \in Msgs, NEW n \in 2..Len(ctxs[m]), NEW d \in Context,
         Relays(ctxs[m], ctxs'[m], n, d)
  PROVE  LET p == ctxs[m][n - 1] q == ctxs'[m][n - 1] IN
         /\ p \in Context /\ SamePlace(p, q) /\ q.error = d.error
         /\ \A k \in Keys : q.values[k] = IF d.values[k] = None THEN p.values[k] ELSE d.values[k]
<1>1. Len(ctxs[m]) \in Nat /\ \A i \in 1..Len(ctxs[m]) : ctxs[m][i] \in Context
  BY StackTypes DEF ChainInv, BaseInv
<1>2. n - 1 \in 1..Len(ctxs[m]) /\ n > 1
  BY <1>1
<1>3. ctxs'[m][n - 1] = Told(ctxs[m][n - 1], d)
  BY <1>2 DEF Relays
<1> QED
  BY <1>1, <1>2, <1>3, ToldFacts


(* The contexts below the one a step works on keep all but what they are   *)
(* told.                                                                   *)
LEMMA BelowSame ==
  ASSUME ChainInv, NEW m \in Msgs, NEW n \in 1..Len(ctxs[m]), NEW d \in Context,
         Replaces(ctxs[m], ctxs'[m], n, d) \/ Relays(ctxs[m], ctxs'[m], n, d)
  PROVE  /\ n \in Nat /\ Len(ctxs'[m]) = n /\ ctxs'[m][n] = d /\ Cur(m)' = d
         /\ \A i \in 1..(n - 1) : SamePlace(ctxs[m][i], ctxs'[m][i])
<1>1. Len(ctxs[m]) \in Nat /\ \A i \in 1..Len(ctxs[m]) : ctxs[m][i] \in Context
  BY StackTypes DEF ChainInv, BaseInv
<1>2. n \in Nat /\ Len(ctxs'[m]) = n /\ ctxs'[m][n] = d
  BY <1>1 DEF Replaces, Relays
<1>3. Cur(m)' = d
  BY <1>2 DEF Cur, Last
<1>4. ASSUME NEW i \in 1..(n - 1) PROVE SamePlace(ctxs[m][i], ctxs'[m][i])
  <2>1. i \in 1..Len(ctxs[m])
    BY <1>1
  <2>2. CASE ctxs'[m][i] = ctxs[m][i]
    BY <2>2, SamePlaceRefl
  <2>3. CASE i = n - 1 /\ Relays(ctxs[m], ctxs'[m], n, d)
    <3>1. ctxs'[m][i] = Told(ctxs[m][i], d)
      BY <1>2, <2>3 DEF Relays
    <3> QED
      BY <1>1, <2>1, <3>1, ToldFacts
  <2>4. i \in 1..(n - 2) \/ i = n - 1
    BY <1>2
  <2> QED
    BY <2>2, <2>3, <2>4 DEF Replaces, Relays
<1> QED
  BY <1>2, <1>3, <1>4

-----------------------------------------------------------------------------
(* An error of the innermost context is the one seen                       *)
ErrOK(m) ==
    /\ ctl[m] = "idle" => ~seen[m].err
    /\ ctl[m] # "idle" => Cur(m).error = seen[m].err
    /\ ctl[m] = "run" /\ Serving(calls[m][Len(calls[m])])
         => ctxs[m][Len(ctxs[m]) - 1].error = seen[m].err

(* Every step keeps this.                                                  *)
LEMMA ErrStep ==
  ASSUME ChainInv, NEW m \in Msgs, ErrOK(m), Steps(m)
  PROVE  ErrOK(m)'
<1>1. TypeOK
  BY DEF ChainInv, BaseInv
<1>2. Len(calls[m]) \in Nat /\ (calls[m] = <<>> <=> Len(calls[m]) = 0)
  BY <1>1, StackTypes
<1>3. CASE Start(m)
  <2>1. NewContext.error = FALSE
    BY DEF NewContext
  <2>2. /\ Cur(m)' = NewContext /\ seen' = seen /\ ctl[m] = "idle" /\ ctl'[m] = "next"
        /\ seen[m].err \in BOOLEAN
    BY <1>1, <1>3, StartFacts DEF TypeOK, History
  <2> QED
    BY <2>1, <2>2 DEF ErrOK
<1>4. CASE Quiet(m)
  <2>1. Cur(m)' = Cur(m) /\ seen' = seen /\ ctxs' = ctxs /\ ctl[m] # "idle" /\ ctl'[m] # "idle"
    BY <1>4, QuietFacts
  <2>2. CASE ctl'[m] # "run"
    BY <2>1, <2>2 DEF ErrOK
  <2>3. CASE ctl[m] = "asleep" /\ calls' = calls
    <3>1. calls[m][Len(calls[m])].h \in Funcs
      BY <2>3 DEF ChainInv, BaseInv, StackOK, Stacked
    <3> QED
      BY <2>1, <2>3, <3>1, NotServing DEF ErrOK
  <2> QED
    BY <1>4, <2>2, <2>3, QuietFacts
<1>5. CASE Works(m)
  <2>1. /\ seen'[m].err = Cur(m)'.error /\ ctl'[m] # "idle" /\ calls' = calls
        /\ Call(m).h \in Funcs /\ ctl[m] = "run"
    BY <1>1, <1>5, WorksFacts, ZenonT(60) DEF ErrOK, TypeOK
  <2>2. ~Serving(calls[m][Len(calls[m])])
    BY <2>1, NotServing DEF Call, Last
  <2> QED
    BY <2>1, <2>2 DEF ErrOK
<1>6. CASE Decoded(m)
  <2>1. /\ seen' = seen /\ Cur(m)'.error = Cur(m).error /\ ctl[m] = "run" /\ ctl'[m] \in {"next", "waiting"}
    BY <1>1, <1>6, DecodedFacts DEF SetMessageID, TypeOK
  <2> QED
    BY <2>1 DEF ErrOK
<1>7. CASE EnterRouter(m)
  <2>1. /\ seen' = seen /\ ctl[m] = "run" /\ ctl'[m] = "next"
        /\ Replaces(ctxs[m], ctxs'[m], Len(ctxs[m]) + 1, SubContext(Cur(m), Call(m).h))
        /\ SubContext(Cur(m), Call(m).h).error = Cur(m).error
    BY <1>1, <1>7, EnterFacts DEF TypeOK
  <2>2. Cur(m)'.error = Cur(m).error
    BY <2>1 DEF Replaces, Cur, Last
  <2> QED
    BY <2>1, <2>2 DEF ErrOK
<1>8. CASE NextRunsHandler(m)
  <2>1. PICK d \in Context :
           /\ Replaces(ctxs[m], ctxs'[m], Len(ctxs[m]), d)
           /\ Forward(Cur(m), d) /\ Nexting(m)
           /\ calls' = [calls EXCEPT ![m] =
                Append(@, [h |-> NodeOf(d).handlers[d.index], nexts |-> 0, ctx |-> Len(ctxs[m])])]
           /\ seen' = [seen EXCEPT ![m].ran = Append(@, d.at \o <<d.node, d.index>>)]
           /\ ctl' = [ctl EXCEPT ![m] = "run"]
           /\ NodeOf(d).handlers[d.index] \in Handlers
    BY <1>8, RunsFacts
  <2>2. Cur(m)' = d /\ d.error = Cur(m).error /\ seen'[m].err = seen[m].err
        /\ ctl[m] # "idle" /\ ctl'[m] = "run"
    BY <1>1, <2>1 DEF Replaces, Cur, Last, Forward, Nexting, TypeOK, History
  <2>3. ~Serving(calls'[m][Len(calls'[m])])
    <3> DEFINE h == NodeOf(d).handlers[d.index]
    <3> HIDE DEF h
    <3>1. h \in Handlers
      BY <2>1 DEF h
    <3>2. calls' = [calls EXCEPT ![m] = Append(@, [h |-> h, nexts |-> 0, ctx |-> Len(ctxs[m])])]
      BY <2>1 DEF h
    <3>3. calls'[m][Len(calls'[m])].nexts = 0
      BY <3>1, <3>2, PushedFresh
    <3> QED
      BY <3>3 DEF Serving
  <2> QED
    BY <2>2, <2>3 DEF ErrOK
<1>9. CASE Returning(m)
  <2>1. PICK d \in Context :
           /\ Relays(ctxs[m], ctxs'[m], Len(ctxs[m]), d)
           /\ Forward(Cur(m), d)
           /\ Nexting(m) /\ calls' = calls /\ seen' = seen
           /\ ctl' = [ctl EXCEPT ![m] = IF calls[m] = <<>> THEN "finish" ELSE "run"]
    BY <1>9, ReturningFacts
  <2>2. Cur(m)' = d /\ d.error = Cur(m).error /\ ctl[m] # "idle"
        /\ ctl'[m] = IF calls[m] = <<>> THEN "finish" ELSE "run"
    BY <1>1, <2>1 DEF Relays, Cur, Last, Forward, Nexting, TypeOK
  <2>3. ASSUME ctl'[m] = "run", Serving(calls[m][Len(calls[m])])
        PROVE  ctxs'[m][Len(ctxs'[m]) - 1].error = seen[m].err
    <3>1. Len(ctxs[m]) \in 2..Len(ctxs[m])
      BY <2>2, <2>3, Depth DEF Level
    <3>2. Len(ctxs'[m]) = Len(ctxs[m])
      BY <2>1 DEF Relays
    <3> QED
      BY <2>1, <2>2, <3>1, <3>2, ParentTold DEF ErrOK
  <2> QED
    BY <2>1, <2>2, <2>3 DEF ErrOK
<1>10. ASSUME NEW n, NEW c \in Context, NEW d \in Context, Left(m, n, c, d), ctl[m] = "run",
              n = Call(m).ctx, c.error = seen'[m].err
       PROVE  ErrOK(m)'
  <2>0. calls[m] # <<>>
    BY <1>10, RunFacts DEF ChainInv
  <2>1. Cur(m)' = d /\ d.error = c.error /\ Len(ctxs'[m]) = n /\ ctl'[m] # "idle"
    BY <1>1, <1>10 DEF Left, Replaces, Relays, Cur, Last, Forward, TypeOK
  <2>2. ASSUME ctl'[m] = "run", Serving(calls'[m][Len(calls'[m])])
        PROVE  ctxs'[m][n - 1].error = d.error
    <3>1. Relays(ctxs[m], ctxs'[m], n, d) /\ Len(calls[m]) # 1 /\ Len(calls'[m]) = Len(calls[m]) - 1
          /\ \A i \in 1..(Len(calls[m]) - 1) : calls'[m][i] = calls[m][i]
      BY <1>1, <1>10, <2>2 DEF Left, TypeOK
    <3>2. Serving(calls[m][Len(calls[m]) - 1]) /\ Len(calls[m]) > 1
      <4>0. Len(calls[m]) # 1
        BY <3>1
      <4>1. Len(calls[m]) > 1
        BY <2>0, <4>0, Depth, MoreThanOne
      <4>2. Len(calls[m]) - 1 \in 1..(Len(calls[m]) - 1)
        BY <1>2, <4>1
      <4> QED
        BY <2>2, <3>1, <4>1, <4>2
    <3>3. n \in 2..Len(ctxs[m])
      BY <1>10, <2>0, <3>2, Depth DEF Level
    <3> QED
      BY <3>1, <3>3, ParentTold
  <2> QED
    BY <1>10, <2>1, <2>2 DEF ErrOK
<1>11. CASE Returned(m)
  <2>1. PICK c \in Context, d \in Context :
           /\ Left(m, Len(ctxs[m]), c, d)
           /\ \/ (RouterReturns(m) \/ CodecReturns(m) \/ FuncReturns(m)) /\ c = Cur(m)
              \/ (DecodeRefused(m) \/ NothingLeft(m)) /\ c.error
           /\ ctl[m] = "run" /\ Call(m).ctx = Len(ctxs[m])
    BY <1>11, ReturnedFacts
  <2>2. CASE (RouterReturns(m) \/ CodecReturns(m) \/ FuncReturns(m)) /\ c = Cur(m)
    <3>1. seen'[m].err = seen[m].err
      BY <1>1, <2>2 DEF RouterReturns, CodecReturns, FuncReturns, TypeOK, History
    <3> QED
      BY <1>10, <2>1, <2>2, <3>1 DEF ErrOK
  <2>3. CASE (DecodeRefused(m) \/ NothingLeft(m)) /\ c.error
    <3>1. seen'[m].err = TRUE
      BY <1>1, <2>3, ZenonT(60) DEF DecodeRefused, NothingLeft, TypeOK, History
    <3>2. c.error = TRUE
      BY <2>3 DEF Context
    <3> QED
      BY <1>10, <2>1, <3>1, <3>2
  <2> QED
    BY <2>1, <2>2, <2>3
<1>12. CASE LeaveRouter(m)
  <2> DEFINE n == Len(ctxs[m])
             p == ctxs[m][n - 1]
  <2>1. /\ n \in Nat /\ n >= 2 /\ Call(m).ctx = n - 1 /\ Serving(Call(m)) /\ ctl[m] = "run"
        /\ p \in Context /\ seen' = seen
        /\ \/ /\ Replaces(ctxs[m], ctxs'[m], n - 1, p)
              /\ ctl' = [ctl EXCEPT ![m] = "next"]
           \/ \E d \in Context : Left(m, n - 1, p, d)
    BY <1>12, LeavingFacts
  <2>2. p.error = seen[m].err
    BY <2>1 DEF ErrOK, Call, Last
  <2> HIDE DEF n, p
  <2>3. CASE Replaces(ctxs[m], ctxs'[m], n - 1, p) /\ ctl' = [ctl EXCEPT ![m] = "next"]
    BY <1>1, <2>1, <2>2, <2>3 DEF Replaces, Cur, Last, ErrOK, TypeOK
  <2>4. CASE \E d \in Context : Left(m, n - 1, p, d)
    BY <1>10, <2>1, <2>2, <2>4
  <2> QED
    BY <2>1, <2>3, <2>4
<1> QED
  BY <1>3, <1>4, <1>5, <1>6, <1>7, <1>8, <1>9, <1>11, <1>12
     DEF Steps, Quiet, Works, Returning, Returned

(* For all messages                                                        *)
ErrInv == \A m \in Msgs : ErrOK(m)

(* The history has the error of the innermost context, for ever.           *)
LEMMA ErrInvHolds == Spec => []ErrInv
<1>1. Init => ErrInv
  BY DEF Init, ErrInv, ErrOK
<1>2. ASSUME ChainInv, ErrInv, [Next]_vars PROVE ErrInv'
  <2> SUFFICES ASSUME NEW m \in Msgs PROVE ErrOK(m)'
    BY DEF ErrInv
  <2>1. TypeOK /\ ErrOK(m)
    BY <1>2 DEF ChainInv, BaseInv, ErrInv
  <2>2. CASE Steps(m)
    BY <1>2, <2>1, <2>2, ErrStep
  <2>3. CASE Untouched(m)
    BY <2>1, <2>3 DEF Untouched, ErrOK, Cur
  <2> QED
    BY <1>2, <2>1, <2>2, <2>3, StepCases
<1> QED
  BY <1>1, <1>2, ChainInvHolds, PTL DEF Spec

(* In every application, no handler starts behind an error that no handler *)
(* has dealt with, in whichever router it was set.                         *)
THEOREM ErrorsEndChains == Spec => ErrorEndsChain
<1>1. ASSUME ChainInv, ErrInv, [Next]_vars
      PROVE  \A m \in Msgs : Starts(m) /\ app.kind # "close" => ~seen[m].err
  <2> SUFFICES ASSUME NEW m \in Msgs, Starts(m), app.kind # "close" PROVE ~seen[m].err
    OBVIOUS
  <2>1. TypeOK /\ ErrOK(m)
    BY <1>1 DEF ChainInv, BaseInv, ErrInv
  <2>2. Steps(m) \/ Untouched(m)
    BY <1>1, <2>1, StepCases
  <2>3. ~Untouched(m)
    BY <2>1, StackTypes DEF Untouched, Starts
  <2>4. NextRunsHandler(m)
    BY <1>1, <2>2, <2>3, OneStarts
  <2>5. ~Refused(Cur(m)) /\ ctl[m] # "idle"
    BY <1>1, <2>4, RunsFacts DEF Nexting
  <2> QED
    BY <2>1, <2>5 DEF Refused, ErrOK
<1> QED
  BY <1>1, ChainInvHolds, ErrInvHolds, PTL DEF Spec, ErrorEndsChain

-----------------------------------------------------------------------------
(* No function of a mounted router deletes a value, since tryUpdateParent  *)
(* does not write that back (context.go:864).                              *)
NoDelete(a) ==
    \A r \in Mounts(a) : \A x \in HandlersOf(a.chain[r]) \cap Funcs : "delete" \notin a.able[x]

(* A value missing in a context is missing in the ones it is in            *)
Nested(S) ==
    \A i \in 1..(Len(S) - 1) : \A k \in Keys :
        S[i + 1].values[k] = None => S[i].values[k] = None

(* A parent that is told has the values of the context below it.           *)
LEMMA NestedRelays ==
  ASSUME ChainInv, NEW m \in Msgs, NEW n \in 1..Len(ctxs[m]), NEW d \in Context,
         Relays(ctxs[m], ctxs'[m], n, d), Nested(ctxs[m]), d.values = ctxs[m][n].values
  PROVE  /\ Nested(ctxs'[m])
         /\ n > 1 => ctxs'[m][n - 1].values = d.values
<1> DEFINE S == ctxs[m]
           T == ctxs'[m]
<1>1. /\ Len(S) \in Nat /\ \A i \in 1..Len(S) : S[i] \in Context
  BY StackTypes DEF ChainInv, BaseInv
<1>2. CASE n = 1
  <2>1. Len(T) = 1
    BY <1>2 DEF Relays
  <2> QED
    BY <1>2, <2>1 DEF Nested
<1>3. CASE n > 1
  <2>1. n \in 2..Len(S) /\ n \in Nat
    BY <1>1, <1>3
  <2> DEFINE p == S[n - 1]
             q == T[n - 1]
  <2>2. /\ p \in Context /\ q.values = [k \in Keys |-> IF d.values[k] = None THEN p.values[k] ELSE d.values[k]]
    <3>1. /\ n - 1 \in 1..Len(S)
          /\ T[n - 1] = Told(S[n - 1], d)
      BY <1>1, <1>3, <2>1 DEF Relays
    <3> QED
      BY <1>1, <3>1 DEF Told, Context
  <2>3. n - 1 \in 1..(Len(S) - 1) /\ (n - 1) + 1 = n
    BY <1>1, <2>1
  <2>4. \A k \in Keys : d.values[k] = None => p.values[k] = None
    BY <2>3 DEF Nested
  <2>5. q.values = d.values
    <3>1. d.values \in [Keys -> Vals \cup {None}]
      BY DEF Context
    <3>2. \A k \in Keys : (IF d.values[k] = None THEN p.values[k] ELSE d.values[k]) = d.values[k]
      BY <2>4
    <3> HIDE DEF p, q
    <3> QED
      BY <2>2, <3>1, <3>2
  <2> HIDE DEF S
  <2>6. Nested(T)
    <3> SUFFICES ASSUME NEW i \in 1..(n - 1), NEW k \in Keys, T[i + 1].values[k] = None
                 PROVE  T[i].values[k] = None
      BY DEF Nested, Relays
    <3>1. CASE i = n - 1
      <4>1. T[i + 1] = d
        BY <2>1, <2>3, <3>1 DEF Relays
      <4> QED
        BY <2>5, <3>1, <4>1
    <3>2. CASE i = n - 2
      <4>1. i + 1 = n - 1 /\ i \in 1..(n - 2) /\ i \in 1..(Len(S) - 1)
        BY <1>1, <2>1, <3>2
      <4>2. p.values[k] = None
        BY <2>4, <2>5, <4>1
      <4>3. S[i].values[k] = None
        BY <4>1, <4>2 DEF Nested, S
      <4> QED
        BY <4>1, <4>3 DEF Relays, S
    <3>3. CASE i \in 1..(n - 3)
      <4>1. i \in 1..(n - 2) /\ i + 1 \in 1..(n - 2) /\ i \in 1..(Len(S) - 1)
        BY <1>1, <2>1, <3>3
      <4>2. T[i] = S[i] /\ T[i + 1] = S[i + 1]
        BY <4>1 DEF Relays, S
      <4> QED
        BY <4>1, <4>2 DEF Nested, S
    <3>4. i = n - 1 \/ i = n - 2 \/ i \in 1..(n - 3)
      BY <2>1
    <3> QED
      BY <3>1, <3>2, <3>3, <3>4
  <2> QED
    BY <2>5, <2>6
<1> QED
  BY <1>1, <1>2, <1>3

(* A context that loses no value stays nested.                             *)
LEMMA NestedReplaces ==
  ASSUME ChainInv, NEW m \in Msgs, NEW n \in 1..Len(ctxs[m]), NEW d,
         Replaces(ctxs[m], ctxs'[m], n, d), Nested(ctxs[m]),
         n > 1 => \A k \in Keys : d.values[k] = None => ctxs[m][n].values[k] = None
  PROVE  Nested(ctxs'[m])
<1> DEFINE S == ctxs[m]
           T == ctxs'[m]
<1>1. Len(S) \in Nat
  BY StackTypes DEF ChainInv, BaseInv
<1>2. n \in Nat /\ n >= 1 /\ n <= Len(S)
  BY <1>1
<1> SUFFICES ASSUME NEW i \in 1..(n - 1), NEW k \in Keys, T[i + 1].values[k] = None
             PROVE  T[i].values[k] = None
  BY DEF Nested, Replaces
<1>3. i \in 1..(Len(S) - 1) /\ n > 1
  BY <1>1, <1>2
<1>4. T[i] = S[i]
  BY DEF Replaces
<1>5. CASE i = n - 1
  <2>1. i + 1 = n
    BY <1>2, <1>5
  <2>2. T[i + 1] = d
    BY <2>1 DEF Replaces
  <2>3. S[i + 1].values[k] = None
    BY <1>3, <2>1, <2>2
  <2> QED
    BY <1>3, <1>4, <2>3 DEF Nested
<1>6. CASE i \in 1..(n - 2)
  <2>1. i + 1 \in 1..(n - 1)
    BY <1>2, <1>6
  <2>2. T[i + 1] = S[i + 1]
    BY <2>1 DEF Replaces
  <2> QED
    BY <1>3, <1>4, <2>2 DEF Nested
<1>7. i = n - 1 \/ i \in 1..(n - 2)
  BY <1>2
<1> QED
  BY <1>5, <1>6, <1>7

(* A handler in control is one of the router of the innermost context      *)
LEMMA RunsIn ==
  ASSUME ChainInv, NEW m \in Msgs, ctl[m] \in {"run", "asleep", "waiting", "stuck"}, ~Serving(Call(m))
  PROVE  /\ Call(m).h \in HandlersOf(app.chain[Cur(m).router])
         /\ Len(ctxs[m]) > 1 => Cur(m).router \in Mounts(app)
         /\ Len(ctxs[m]) = 1 => Cur(m).router = Root
<1>1. /\ TypeOK /\ StackOK(m) /\ ContextsOK(m) /\ calls[m] # <<>> /\ ctl[m] # "idle"
  BY DEF ChainInv, BaseInv, StackOK, Stacked
<1>2. /\ ctxs[m] # <<>> /\ Len(ctxs[m]) \in Nat /\ Len(ctxs[m]) >= 1
      /\ Cur(m) = ctxs[m][Len(ctxs[m])]
  BY <1>1, CurFacts DEF ChainInv
<1>3. /\ Len(calls[m]) \in Nat /\ Len(calls[m]) >= 1 /\ Call(m) = calls[m][Len(calls[m])]
      /\ Len(ctxs[m]) = Level(Call(m))
  BY <1>1, Depth
<1>4. Call(m).ctx = Len(ctxs[m])
  BY <1>3 DEF Level
<1>5. Len(calls[m]) \in 1..Len(calls[m])
  BY <1>3
<1>6. Call(m).h \in HandlersOf(app.chain[Cur(m).router])
  BY <1>1, <1>2, <1>3, <1>4, <1>5 DEF ContextsOK, CallsOK
<1>7. Len(ctxs[m]) > 1 => Len(ctxs[m]) \in 2..Len(ctxs[m])
  BY <1>2
<1> QED
  BY <1>1, <1>2, <1>6, <1>7 DEF ContextsOK, RoutersOK

(* The values of the innermost context are the ones set last, and so are   *)
(* those of the context below it when a router is about to be left.        *)
ValOK(m) ==
    /\ ctl[m] = "idle" => seen[m].latest = [k \in Keys |-> None]
    /\ ctl[m] # "idle" => Cur(m).values = seen[m].latest
    /\ Nested(ctxs[m])
    /\ ctl[m] = "run" /\ Serving(calls[m][Len(calls[m])])
         => ctxs[m][Len(ctxs[m]) - 1].values = seen[m].latest

(* Every step keeps this, if mounted routers delete nothing.               *)
LEMMA ValStep ==
  ASSUME ChainInv, NoDelete(app), NEW m \in Msgs, ValOK(m), Steps(m)
  PROVE  ValOK(m)'
<1>1. TypeOK
  BY DEF ChainInv, BaseInv
<1>2. /\ Len(calls[m]) \in Nat /\ (calls[m] = <<>> <=> Len(calls[m]) = 0)
      /\ Len(ctxs[m]) \in Nat /\ \A i \in 1..Len(ctxs[m]) : ctxs[m][i] \in Context
  BY <1>1, StackTypes
<1>0. ctl[m] # "idle" => /\ Len(ctxs[m]) >= 1 /\ Len(ctxs[m]) \in 1..Len(ctxs[m])
                         /\ Cur(m) = ctxs[m][Len(ctxs[m])]
  BY CurFacts DEF ChainInv
<1>3. CASE Start(m)
  <2>1. NewContext.values = [k \in Keys |-> None]
    BY DEF NewContext
  <2>2. /\ Cur(m)' = NewContext /\ seen' = seen /\ ctl[m] = "idle" /\ ctl'[m] = "next"
        /\ Len(ctxs'[m]) = 1
    BY <1>1, <1>3, StartFacts DEF TypeOK
  <2>3. Nested(ctxs'[m])
    BY <2>2 DEF Nested
  <2> QED
    BY <2>1, <2>2, <2>3 DEF ValOK
<1>4. CASE Quiet(m)
  <2>1. Cur(m)' = Cur(m) /\ seen' = seen /\ ctxs' = ctxs /\ ctl[m] # "idle" /\ ctl'[m] # "idle"
    BY <1>4, QuietFacts
  <2>2. CASE ctl'[m] # "run"
    BY <2>1, <2>2 DEF ValOK
  <2>3. CASE ctl[m] = "asleep" /\ calls' = calls
    <3>1. calls[m][Len(calls[m])].h \in Funcs
      BY <2>3 DEF ChainInv, BaseInv, StackOK, Stacked
    <3> QED
      BY <2>1, <2>3, <3>1, NotServing DEF ValOK
  <2> QED
    BY <1>4, <2>2, <2>3, QuietFacts
<1>5. CASE Works(m)
  <2> DEFINE n == Len(ctxs[m])
             d == Cur(m)'
  <2>1. /\ ctl'[m] # "idle" /\ calls' = calls /\ Call(m).h \in Funcs /\ ctl[m] = "run"
        /\ Replaces(ctxs[m], ctxs'[m], n, d)
    BY <1>1, <1>5, WorksFacts DEF TypeOK
  <2>2. ~Serving(calls[m][Len(calls[m])]) /\ ~Serving(Call(m))
    BY <2>1, NotServing DEF Call, Last
  <2>3. n \in 1..n /\ Cur(m) = ctxs[m][n] /\ Cur(m).values = seen[m].latest /\ Nested(ctxs[m])
        /\ Cur(m).values \in [Keys -> Vals \cup {None}]
    BY <1>0, <1>2, <2>1 DEF ValOK, Context
  <2>4. d.values = seen'[m].latest
    <3>1. \/ d.values = Cur(m).values /\ seen'[m].latest = seen[m].latest
          \/ \E k \in Keys, v \in Vals \cup {None} :
               /\ d.values = [Cur(m).values EXCEPT ![k] = v]
               /\ seen'[m].latest = [seen[m].latest EXCEPT ![k] = v]
      BY <1>5, WorksFacts
    <3> HIDE DEF d, n
    <3> QED
      BY <2>3, <3>1
  <2>5. n > 1 => \A k \in Keys : d.values[k] = None => ctxs[m][n].values[k] = None
    <3>1. CASE d.values = Cur(m).values
      BY <2>3, <3>1
    <3>2. CASE Delete(m)
      <4>1. "delete" \in app.able[Call(m).h]
        BY <3>2 DEF Delete, Doing
      <4>2. /\ Call(m).h \in HandlersOf(app.chain[Cur(m).router])
            /\ Len(ctxs[m]) > 1 => Cur(m).router \in Mounts(app)
        BY <2>1, <2>2, RunsIn
      <4> QED
        BY <2>1, <4>1, <4>2 DEF NoDelete
    <3>3. ASSUME NEW k \in Keys, NEW v \in Vals, d.values = [Cur(m).values EXCEPT ![k] = v]
          PROVE  \A x \in Keys : d.values[x] = None => ctxs[m][n].values[x] = None
      BY <2>3, <3>3, HandlerChainAssumption
    <3>4. \/ d.values = Cur(m).values
          \/ \E k \in Keys, v \in Vals \cup {None} :
               /\ d.values = [Cur(m).values EXCEPT ![k] = v]
               /\ v = None => Delete(m)
      BY <1>5, WorksFacts
    <3> HIDE DEF d, n
    <3> QED
      BY <3>1, <3>2, <3>3, <3>4
  <2>6. Nested(ctxs'[m])
    BY <2>1, <2>3, <2>5, NestedReplaces
  <2> QED
    BY <2>1, <2>2, <2>4, <2>6 DEF ValOK
<1>6. CASE Decoded(m)
  <2>1. /\ seen' = seen /\ Cur(m)'.values = Cur(m).values /\ ctl[m] = "run" /\ ctl'[m] \in {"next", "waiting"}
        /\ Replaces(ctxs[m], ctxs'[m], Len(ctxs[m]), Cur(m)')
    BY <1>1, <1>6, DecodedFacts DEF SetMessageID, TypeOK
  <2>2. Nested(ctxs'[m])
    BY <1>0, <2>1, NestedReplaces DEF ValOK
  <2> QED
    BY <2>1, <2>2 DEF ValOK
<1>7. CASE EnterRouter(m)
  <2> DEFINE n == Len(ctxs[m])
             d == SubContext(Cur(m), Call(m).h)
  <2>1. /\ seen' = seen /\ ctl[m] = "run" /\ ctl'[m] = "next"
        /\ Replaces(ctxs[m], ctxs'[m], n + 1, d)
        /\ d.values = Cur(m).values
    BY <1>1, <1>7, EnterFacts DEF TypeOK
  <2> HIDE DEF d
  <2>2. Cur(m)' = d
    BY <2>1 DEF Replaces, Cur, Last
  <2>3. n \in Nat /\ n >= 1 /\ Cur(m) = ctxs[m][n]
    BY <1>0, <1>2, <2>1
  <2>4. Nested(ctxs'[m])
    <3> SUFFICES ASSUME NEW i \in 1..n, NEW k \in Keys, ctxs'[m][i + 1].values[k] = None
                 PROVE  ctxs'[m][i].values[k] = None
      BY <2>1, <2>3 DEF Nested, Replaces
    <3>0. ctxs'[m][i] = ctxs[m][i]
      BY <2>1, <2>3 DEF Replaces
    <3>1. CASE i = n
      BY <2>1, <2>3, <3>0, <3>1 DEF Replaces
    <3>2. CASE i \in 1..(n - 1)
      <4>1. i + 1 \in 1..((n + 1) - 1)
        BY <2>3, <3>2
      <4>2. ctxs'[m][i + 1] = ctxs[m][i + 1]
        BY <2>1, <4>1 DEF Replaces
      <4> QED
        BY <3>0, <3>2, <4>2 DEF ValOK, Nested
    <3> QED
      BY <2>3, <3>1, <3>2
  <2> QED
    BY <2>1, <2>2, <2>4 DEF ValOK
<1>8. CASE NextRunsHandler(m)
  <2>1. PICK d \in Context :
           /\ Replaces(ctxs[m], ctxs'[m], Len(ctxs[m]), d)
           /\ Forward(Cur(m), d) /\ Nexting(m)
           /\ calls' = [calls EXCEPT ![m] =
                Append(@, [h |-> NodeOf(d).handlers[d.index], nexts |-> 0, ctx |-> Len(ctxs[m])])]
           /\ seen' = [seen EXCEPT ![m].ran = Append(@, d.at \o <<d.node, d.index>>)]
           /\ ctl' = [ctl EXCEPT ![m] = "run"]
           /\ NodeOf(d).handlers[d.index] \in Handlers
    BY <1>8, RunsFacts
  <2>2. Cur(m)' = d /\ d.values = Cur(m).values /\ seen'[m].latest = seen[m].latest
        /\ ctl[m] # "idle" /\ ctl'[m] = "run"
    BY <1>1, <2>1, ZenonT(60) DEF Replaces, Cur, Last, Forward, Nexting, TypeOK, History
  <2>3. ~Serving(calls'[m][Len(calls'[m])])
    <3> DEFINE h == NodeOf(d).handlers[d.index]
    <3> HIDE DEF h
    <3>1. h \in Handlers
      BY <2>1 DEF h
    <3>2. calls' = [calls EXCEPT ![m] = Append(@, [h |-> h, nexts |-> 0, ctx |-> Len(ctxs[m])])]
      BY <2>1 DEF h
    <3>3. calls'[m][Len(calls'[m])].nexts = 0
      BY <3>1, <3>2, PushedFresh
    <3> QED
      BY <3>3 DEF Serving
  <2>4. Nested(ctxs'[m])
    BY <1>0, <2>1, <2>2, NestedReplaces DEF ValOK
  <2> QED
    BY <2>2, <2>3, <2>4 DEF ValOK
<1>9. CASE Returning(m)
  <2>1. PICK d \in Context :
           /\ Relays(ctxs[m], ctxs'[m], Len(ctxs[m]), d)
           /\ Forward(Cur(m), d)
           /\ Nexting(m) /\ calls' = calls /\ seen' = seen
           /\ ctl' = [ctl EXCEPT ![m] = IF calls[m] = <<>> THEN "finish" ELSE "run"]
    BY <1>9, ReturningFacts
  <2>2. Cur(m)' = d /\ d.values = Cur(m).values /\ ctl[m] # "idle" /\ Len(ctxs'[m]) = Len(ctxs[m])
        /\ ctl'[m] = IF calls[m] = <<>> THEN "finish" ELSE "run"
    BY <1>1, <2>1 DEF Relays, Cur, Last, Forward, Nexting, TypeOK
  <2>3. /\ Nested(ctxs'[m])
        /\ Len(ctxs[m]) > 1 => ctxs'[m][Len(ctxs[m]) - 1].values = d.values
    BY <1>0, <2>1, <2>2, NestedRelays DEF ValOK
  <2>4. ctl'[m] = "run" /\ Serving(calls[m][Len(calls[m])]) => Len(ctxs[m]) > 1
    BY <2>2, Depth DEF Level
  <2> QED
    BY <2>1, <2>2, <2>3, <2>4 DEF ValOK
<1>10. ASSUME NEW n \in 1..Len(ctxs[m]), NEW c \in Context, NEW d \in Context, Left(m, n, c, d), ctl[m] = "run",
              n = Call(m).ctx, c.values = seen'[m].latest, c.values = ctxs[m][n].values
       PROVE  ValOK(m)'
  <2>0. calls[m] # <<>>
    BY <1>10, RunFacts DEF ChainInv
  <2>1. Cur(m)' = d /\ d.values = c.values /\ Len(ctxs'[m]) = n /\ ctl'[m] # "idle"
    BY <1>1, <1>10 DEF Left, Replaces, Relays, Cur, Last, Forward, TypeOK
  <2>2. ASSUME ctl'[m] = "run", Serving(calls'[m][Len(calls'[m])])
        PROVE  n > 1 /\ ~GoesOn
    <3>1. ~GoesOn /\ Len(calls[m]) # 1 /\ Len(calls'[m]) = Len(calls[m]) - 1
          /\ \A i \in 1..(Len(calls[m]) - 1) : calls'[m][i] = calls[m][i]
      BY <1>1, <1>10, <2>2 DEF Left, TypeOK
    <3>2. Serving(calls[m][Len(calls[m]) - 1]) /\ Len(calls[m]) > 1
      <4>0. Len(calls[m]) # 1
        BY <3>1
      <4>1. Len(calls[m]) > 1
        BY <2>0, <4>0, Depth, MoreThanOne
      <4>2. Len(calls[m]) - 1 \in 1..(Len(calls[m]) - 1)
        BY <1>2, <4>1
      <4> QED
        BY <2>2, <3>1, <4>1, <4>2
    <3>3. n > 1
      BY <1>10, <2>0, <3>2, Depth DEF Level
    <3> QED
      BY <3>1, <3>3
  <2>3. CASE GoesOn
    <3>1. Replaces(ctxs[m], ctxs'[m], n, d)
      BY <1>10, <2>3 DEF Left
    <3>2. Nested(ctxs'[m])
      BY <1>10, <2>1, <3>1, NestedReplaces DEF ValOK
    <3> QED
      BY <1>10, <2>1, <2>2, <2>3, <3>2 DEF ValOK
  <2>4. CASE ~GoesOn
    <3>1. Relays(ctxs[m], ctxs'[m], n, d)
      BY <1>10, <2>4 DEF Left
    <3>2. Nested(ctxs'[m]) /\ (n > 1 => ctxs'[m][n - 1].values = d.values)
      BY <1>10, <2>1, <3>1, NestedRelays DEF ValOK
    <3> QED
      BY <1>10, <2>1, <2>2, <3>2 DEF ValOK
  <2> QED
    BY <2>3, <2>4
<1>11. CASE Returned(m)
  <2>1. PICK c \in Context, d \in Context :
           /\ Left(m, Len(ctxs[m]), c, d)
           /\ c.values = Cur(m).values
           /\ ctl[m] = "run" /\ Call(m).ctx = Len(ctxs[m])
    BY <1>11, ReturnedFacts
  <2>2. seen'[m].latest = seen[m].latest
    <3>1. CASE RouterReturns(m) \/ CodecReturns(m)
      BY <3>1 DEF RouterReturns, CodecReturns
    <3>2. CASE FuncReturns(m)
      BY <1>1, <3>2 DEF FuncReturns, TypeOK, History
    <3>3. CASE DecodeRefused(m) \/ NothingLeft(m)
      BY <1>1, <3>3, ZenonT(60) DEF DecodeRefused, NothingLeft, TypeOK, History
    <3> QED
      BY <1>11, <3>1, <3>2, <3>3 DEF Returned
  <2>3. Len(ctxs[m]) \in 1..Len(ctxs[m]) /\ c.values = ctxs[m][Len(ctxs[m])].values
        /\ c.values = seen'[m].latest
    BY <1>0, <2>1, <2>2 DEF ValOK
  <2> QED
    BY <1>10, <2>1, <2>3
<1>12. CASE LeaveRouter(m)
  <2> DEFINE n == Len(ctxs[m])
             p == ctxs[m][n - 1]
  <2>1. /\ n \in Nat /\ n >= 2 /\ Call(m).ctx = n - 1 /\ Serving(Call(m)) /\ ctl[m] = "run"
        /\ p \in Context /\ seen' = seen
        /\ \/ /\ Replaces(ctxs[m], ctxs'[m], n - 1, p)
              /\ ctl' = [ctl EXCEPT ![m] = "next"]
           \/ \E d \in Context : Left(m, n - 1, p, d)
    BY <1>12, LeavingFacts
  <2>2. p.values = seen[m].latest /\ n - 1 \in 1..n
    BY <2>1 DEF ValOK, Call, Last
  <2>3. CASE Replaces(ctxs[m], ctxs'[m], n - 1, p) /\ ctl' = [ctl EXCEPT ![m] = "next"]
    <3>1. Nested(ctxs'[m])
      BY <2>2, <2>3, NestedReplaces DEF ValOK
    <3> QED
      BY <1>1, <2>1, <2>2, <2>3, <3>1 DEF Replaces, Cur, Last, ValOK, TypeOK
  <2>4. CASE \E d \in Context : Left(m, n - 1, p, d)
    BY <1>10, <2>1, <2>2, <2>4
  <2> QED
    BY <2>1, <2>3, <2>4
<1> QED
  BY <1>3, <1>4, <1>5, <1>6, <1>7, <1>8, <1>9, <1>11, <1>12
     DEF Steps, Quiet, Works, Returning, Returned

(* For all messages                                                        *)
ValInv == NoDelete(app) => \A m \in Msgs : ValOK(m)

(* The innermost context has the latest values, for ever.                  *)
LEMMA ValInvHolds == Spec => []ValInv
<1>1. Init => ValInv
  <2> SUFFICES ASSUME Init, NEW m \in Msgs PROVE ValOK(m)
    BY DEF ValInv
  <2>1. ctxs[m] = <<>> /\ Len(ctxs[m]) = 0 /\ ctl[m] = "idle" /\ seen[m].latest = [k \in Keys |-> None]
    BY DEF Init
  <2> QED
    BY <2>1 DEF ValOK, Nested
<1>2. ASSUME ChainInv, ValInv, [Next]_vars PROVE ValInv'
  <2> SUFFICES ASSUME NoDelete(app), NEW m \in Msgs PROVE ValOK(m)'
    BY <1>2, AppFixed DEF ValInv
  <2>1. TypeOK /\ ValOK(m)
    BY <1>2 DEF ChainInv, BaseInv, ValInv
  <2>2. CASE Steps(m)
    BY <1>2, <2>1, <2>2, ValStep
  <2>3. CASE Untouched(m)
    BY <2>1, <2>3 DEF Untouched, ValOK, Cur
  <2> QED
    BY <1>2, <2>1, <2>2, <2>3, StepCases
<1> QED
  BY <1>1, <1>2, ChainInvHolds, PTL DEF Spec

(* In applications whose mounted routers delete nothing, every handler     *)
(* sees the values that were set last, across routers in both directions.  *)
THEOREM ValuesAreSeen ==
  ASSUME \A s \in Setups : NoDelete(s)
  PROVE  Spec => []LatestValueSeen
<1>1. ChainInv /\ ValInv => LatestValueSeen
  <2> SUFFICES ASSUME ChainInv, ValInv, NEW m \in Msgs, ctl[m] = "run"
               PROVE  Cur(m).values = seen[m].latest
    BY DEF LatestValueSeen
  <2>1. app \in Setups
    BY DEF ChainInv, BaseInv, TypeOK
  <2> QED
    BY <2>1 DEF ValInv, ValOK
<1> QED
  BY <1>1, ChainInvHolds, ValInvHolds, PTL

-----------------------------------------------------------------------------
(* Next is not called again by functions of mounted routers                *)
NoAgain(a) ==
    \A r \in Mounts(a) : \A x \in HandlersOf(a.chain[r]) \cap Funcs : "again" \notin a.able[x]

(* Once a handler has stopped the chain, every handler that is running has *)
(* called Next, no mounted router has come to its end, and what may go on  *)
(* is at the end of its chain.                                             *)
StopOK(m) ==
    seen[m].stopped =>
        /\ ctl[m] \notin {"idle", "waiting", "auto"}
        /\ \A i \in 1..Len(calls[m]) : calls[m][i].nexts >= 1
        /\ \A i \in 2..Len(ctxs[m]) : ~ctxs[m][i].beyond
        /\ ctl[m] = "next" => Len(ctxs[m]) = 1
        /\ Len(ctxs[m]) = 1 /\ (Len(calls[m]) = 0 \/ Call(m).h \notin Routers \/ ctl[m] = "next")
             => ctxs[m][1].node > Len(app.chain[ctxs[m][1].router])

(* Every step keeps this.                                                  *)
LEMMA StopStep ==
  ASSUME ChainInv, NoAgain(app), app.kind = "normal", NEW m \in Msgs, StopOK(m), Steps(m), app' = app
  PROVE  StopOK(m)'
<1>1. TypeOK /\ ~GoesOn
  BY DEF ChainInv, BaseInv, GoesOn
<1>2. /\ Len(calls[m]) \in Nat /\ (calls[m] = <<>> <=> Len(calls[m]) = 0)
      /\ Len(ctxs[m]) \in Nat /\ \A i \in 1..Len(ctxs[m]) : ctxs[m][i] \in Context
      /\ \A i \in 1..Len(calls[m]) : calls[m][i].nexts \in 0..2
  BY <1>1, StackTypes
<1>0. ctl[m] # "idle" => /\ Len(ctxs[m]) >= 1 /\ Len(ctxs[m]) \in 1..Len(ctxs[m])
                         /\ Cur(m) = ctxs[m][Len(ctxs[m])]
  BY CurFacts DEF ChainInv
<1>20. ASSUME seen[m].stopped, ctl[m] = "run" PROVE Call(m).nexts # 0
  <2>1. Len(calls[m]) \in 1..Len(calls[m]) /\ Call(m) = calls[m][Len(calls[m])]
    BY <1>20, RunFacts DEF ChainInv
  <2>2. calls[m][Len(calls[m])].nexts >= 1
    BY <1>20, <2>1 DEF StopOK
  <2> QED
    BY <1>2, <2>1, <2>2
<1>3. CASE Start(m)
  BY <1>3, StartFacts DEF StopOK
<1>4. CASE Quiet(m)
  <2>0. ctxs' = ctxs /\ seen' = seen
    BY <1>4, QuietFacts
  <2> SUFFICES ASSUME seen[m].stopped PROVE StopOK(m)'
    BY <2>0 DEF StopOK
  <2>1. CASE calls' = calls /\ (ctl'[m] = "ended" \/ (ctl[m] # "next" /\ ctl'[m] \in {"stuck", "run"}))
    <3>1. CASE ctl[m] = "finish" \/ (ctl[m] \in {"run", "asleep"} /\ ctl'[m] # "next")
      BY <2>0, <2>1, <3>1 DEF StopOK, Call
    <3>2. ctl[m] = "finish" \/ ctl[m] \in {"run", "asleep"}
      BY <1>4, <2>1, QuietFacts DEF Finish
    <3> QED
      BY <2>1, <3>1, <3>2
  <2>2. CASE CallNext(m)
    <3>1. /\ ctl[m] = "run" /\ ctl'[m] = "next" /\ Call(m).h \in Funcs
          /\ Nexts(m, Call(m).nexts + 1) /\ Call(m).nexts + 1 \in {1, 2}
      <4>1. ctl[m] = "run" /\ Call(m).h \in Funcs
        BY <2>2 DEF CallNext, Doing, Running
      <4>2. ~DecodeSkipped(m)
        BY <4>1, HandlerChainAssumption DEF DecodeSkipped, Running
      <4>3. ~LockedOut(m) \/ ctl'[m] = "next"
        BY <1>1, <2>2 DEF CallNext, TypeOK
      <4>4. ~(Finish(m) \/ LockTaken(m) \/ LockGivenUp(m) \/ TakeMessage(m) \/ ReceiveCancelled(m))
        BY <4>1 DEF Finish, LockTaken, LockGivenUp, TakeMessage, ReceiveCancelled
      <4> QED
        BY <1>4, <2>2, <4>2, <4>3, <4>4, QuietFacts
    <3>2. Call(m).nexts # 0
      BY <1>20, <3>1
    <3>3. "again" \in app.able[Call(m).h]
      BY <2>2, <3>2 DEF CallNext, Doing
    <3>4. Len(ctxs[m]) = 1
      <4>1. ~Serving(Call(m))
        BY <3>1, NotServing
      <4>2. /\ Call(m).h \in HandlersOf(app.chain[Cur(m).router])
            /\ Len(ctxs[m]) > 1 => Cur(m).router \in Mounts(app)
        BY <3>1, <4>1, RunsIn
      <4>3. ~(Len(ctxs[m]) > 1)
        BY <3>1, <3>3, <4>2 DEF NoAgain
      <4>4. Len(ctxs[m]) >= 1
        BY <1>0, <3>1
      <4> QED
        BY <1>2, <4>3, <4>4, MoreThanOne
    <3>5. ctxs[m][1].node > Len(app.chain[ctxs[m][1].router])
      BY <3>1, <3>4, HandlerChainAssumption DEF StopOK
    <3>6. /\ Len(calls'[m]) = Len(calls[m]) /\ Len(calls[m]) >= 1
          /\ \A i \in 1..(Len(calls[m]) - 1) : calls'[m][i] = calls[m][i]
          /\ calls'[m][Len(calls[m])].nexts = Call(m).nexts + 1
      <4>1. calls \in [Msgs -> Seq(CallType)] /\ calls[m] # <<>> /\ Len(calls[m]) >= 1
        BY <3>1, RunFacts DEF ChainInv
      <4> DEFINE k == Call(m).nexts + 1
      <4>2. k \in 0..2 /\ Nexts(m, k)
        BY <3>1
      <4> HIDE DEF k
      <4>3. /\ Len(calls'[m]) = Len(calls[m])
            /\ \A i \in 1..(Len(calls[m]) - 1) : calls'[m][i] = calls[m][i]
            /\ calls'[m][Len(calls[m])].nexts = k
        BY <4>1, <4>2, NextsMove
      <4> QED
        BY <4>1, <4>3 DEF k
    <3>7. ASSUME NEW i \in 1..Len(calls'[m]) PROVE calls'[m][i].nexts >= 1
      <4>1. i \in 1..(Len(calls[m]) - 1) \/ i = Len(calls[m])
        BY <1>2, <3>6
      <4>2. calls'[m][Len(calls[m])].nexts >= 1
        BY <3>1, <3>6
      <4>3. CASE i \in 1..(Len(calls[m]) - 1)
        <5>1. i \in 1..Len(calls[m])
          BY <1>2, <4>3
        <5> QED
          BY <3>6, <4>3, <5>1 DEF StopOK
      <4> QED
        BY <4>1, <4>2, <4>3
    <3> QED
      BY <2>0, <3>1, <3>4, <3>5, <3>7 DEF StopOK
  <2>3. ~DecodeSkipped(m) /\ ctl[m] # "waiting"
    BY <1>20 DEF DecodeSkipped, Running, StopOK
  <2> QED
    BY <1>4, <2>1, <2>2, <2>3, QuietFacts
<1>5. CASE Works(m)
  <2> DEFINE n == Len(ctxs[m])
             d == Cur(m)'
  <2>1. /\ calls' = calls /\ Call(m).h \in Funcs /\ ctl[m] = "run" /\ ctl'[m] \in {"run", "asleep"}
        /\ Replaces(ctxs[m], ctxs'[m], n, d) /\ d.router = Cur(m).router /\ d.node = Cur(m).node
        /\ d.beyond = Cur(m).beyond /\ seen'[m].stopped = seen[m].stopped /\ d \in Context
    BY <1>1, <1>5, WorksFacts DEF TypeOK
  <2> HIDE DEF d
  <2> SUFFICES ASSUME seen[m].stopped PROVE StopOK(m)'
    BY <2>1 DEF StopOK
  <2>2. n \in 1..n /\ n \in Nat /\ Cur(m) = ctxs[m][n] /\ Len(ctxs'[m]) = n /\ ctxs'[m][n] = d
    BY <1>0, <1>2, <2>1 DEF Replaces
  <2>3. ASSUME NEW i \in 2..Len(ctxs'[m]) PROVE ~ctxs'[m][i].beyond
    <3>1. i = n \/ (i \in 1..(n - 1))
      BY <2>2
    <3> QED
      BY <2>1, <2>2, <3>1 DEF Replaces, StopOK
  <2>4. Call(m).h \notin Routers
    BY <2>1, HandlerChainAssumption
  <2>5. n = 1 => ctxs'[m][1].node > Len(app.chain[ctxs'[m][1].router])
    <3>1. n = 1 => ctxs[m][1].node > Len(app.chain[ctxs[m][1].router])
      BY <2>4 DEF StopOK
    <3> QED
      BY <2>1, <2>2, <3>1
  <2> HIDE DEF n
  <2> QED
    BY <2>1, <2>2, <2>3, <2>5 DEF StopOK, Call
<1>6. CASE Decoded(m)
  BY <1>6, <1>20, DecodedFacts DEF StopOK
<1>7. CASE EnterRouter(m)
  BY <1>7, <1>20, EnterFacts DEF StopOK
<1>8. CASE NextRunsHandler(m)
  <2>1. ~AtEnd(Cur(m)) /\ Nexting(m)
    BY <1>8, RunsFacts
  <2>2. seen'[m].stopped = seen[m].stopped
    BY <1>1, <1>8 DEF NextRunsHandler, TypeOK, History
  <2>3. ~seen[m].stopped
    <3> SUFFICES ASSUME seen[m].stopped PROVE FALSE
      OBVIOUS
    <3>1. ctl[m] = "next" /\ Len(ctxs[m]) = 1
      BY <2>1 DEF Nexting, StopOK
    <3>2. ctxs[m][1].node > Len(app.chain[ctxs[m][1].router]) /\ Cur(m) = ctxs[m][1]
      BY <1>0, <3>1 DEF StopOK
    <3> QED
      BY <2>1, <3>2 DEF AtEnd, Chain
  <2> QED
    BY <2>2, <2>3 DEF StopOK
<1>9. CASE Returning(m)
  <2>1. PICK d \in Context :
           /\ Relays(ctxs[m], ctxs'[m], Len(ctxs[m]), d)
           /\ Forward(Cur(m), d)
           /\ Nexting(m) /\ calls' = calls /\ seen' = seen
           /\ ctl' = [ctl EXCEPT ![m] = IF calls[m] = <<>> THEN "finish" ELSE "run"]
    BY <1>9, ReturningFacts
  <2> SUFFICES ASSUME seen[m].stopped PROVE StopOK(m)'
    BY <2>1 DEF StopOK
  <2>2. ctl[m] = "next" /\ Len(ctxs[m]) = 1
    BY <2>1 DEF Nexting, StopOK
  <2>3. ctxs[m][1].node > Len(app.chain[ctxs[m][1].router]) /\ Cur(m) = ctxs[m][1]
    BY <1>0, <2>2 DEF StopOK
  <2>4. AtEnd(d) /\ d.router = Cur(m).router
    BY <2>1, <2>3 DEF AtEnd, Chain, Forward
  <2>5. Len(ctxs'[m]) = 1 /\ ctxs'[m][1] = d
    BY <2>1, <2>2 DEF Relays
  <2>6. ctl'[m] \in {"finish", "run"}
    BY <1>1, <2>1 DEF TypeOK
  <2>7. d.node > Len(app.chain[d.router])
    BY <2>4 DEF AtEnd, Chain
  <2>8. \A i \in 2..1 : FALSE
    OBVIOUS
  <2> QED
    BY <2>1, <2>5, <2>6, <2>7, <2>8 DEF StopOK, Call
<1>10. ASSUME NEW n \in 1..Len(ctxs[m]), NEW c \in Context, NEW d \in Context, Left(m, n, c, d), ctl[m] = "run",
              c.beyond = ctxs[m][n].beyond,
              \A i \in 1..(Len(calls[m]) - 1) : calls[m][i].nexts >= 1,
              \A i \in 2..Len(ctxs[m]) : ~ctxs[m][i].beyond
       PROVE  StopOK(m)'
  <2>1. /\ Relays(ctxs[m], ctxs'[m], n, d) /\ AtEnd(d) /\ d.beyond = c.beyond
        /\ ctl'[m] \in {"finish", "run"}
        /\ Len(calls'[m]) = Len(calls[m]) - 1
        /\ \A i \in 1..(Len(calls[m]) - 1) : calls'[m][i] = calls[m][i]
    BY <1>1, <1>10 DEF Left, TypeOK
  <2>2. /\ n \in Nat /\ Len(ctxs'[m]) = n /\ ctxs'[m][n] = d
        /\ \A i \in 1..(n - 1) : SamePlace(ctxs[m][i], ctxs'[m][i])
    BY <1>10, <2>1, BelowSame
  <2>3. ASSUME NEW i \in 2..Len(ctxs'[m]) PROVE ~ctxs'[m][i].beyond
    <3>1. i \in 2..Len(ctxs[m]) /\ (i = n \/ i \in 1..(n - 1))
      BY <1>2, <1>10, <2>2
    <3> QED
      BY <1>10, <2>1, <2>2, <3>1 DEF SamePlace
  <2>4. n = 1 => d.node > Len(app.chain[d.router])
    BY <2>1 DEF AtEnd, Chain
  <2>5. \A i \in 1..Len(calls'[m]) : calls'[m][i].nexts >= 1
    BY <1>10, <2>1
  <2> QED
    BY <2>1, <2>2, <2>3, <2>4, <2>5 DEF StopOK
<1>11. CASE Returned(m)
  <2>1. PICK c \in Context, d \in Context :
           /\ Left(m, Len(ctxs[m]), c, d)
           /\ c.beyond = Cur(m).beyond
           /\ ctl[m] = "run"
    BY <1>11, ReturnedFacts
  <2> SUFFICES ASSUME seen'[m].stopped PROVE StopOK(m)'
    BY DEF StopOK
  <2>2. Len(ctxs[m]) \in 1..Len(ctxs[m]) /\ c.beyond = ctxs[m][Len(ctxs[m])].beyond
    BY <1>0, <2>1
  <2>3. \A i \in 1..(Len(calls[m]) - 1) : calls[m][i].nexts >= 1
    BY DEF ChainInv, BaseInv, StackOK, Stacked
  <2>4. ASSUME NEW i \in 2..Len(ctxs[m]) PROVE ~ctxs[m][i].beyond
    <3>1. CASE seen[m].stopped
      BY <3>1 DEF StopOK
    <3>2. CASE FuncReturns(m) /\ Call(m).nexts = 0
      <4>1. PlacesOK(m) /\ FreshOK(m)
        BY DEF ChainInv, BaseInv, ContextsOK
      <4>2. calls[m][Len(calls[m])].nexts = 0
        BY <3>2 DEF Call, Last
      <4>3. /\ ctxs[m][Len(ctxs[m])].matches
            /\ CtxOK(app, ctxs[m][Len(ctxs[m])])
        <5>1. AtHandler(app, ctxs[m][Len(ctxs[m])], calls[m][Len(calls[m])].h)
          BY <2>1, <4>1, <4>2 DEF FreshOK
        <5> QED
          BY <2>2, <4>1, <5>1 DEF AtHandler, PlacesOK
      <4>4. i \in 1..Len(ctxs[m]) /\ (i = Len(ctxs[m]) \/ i \in 1..(Len(ctxs[m]) - 1))
        BY <1>2
      <4>5. app.chain[ctxs[m][i].router] \in Seq(Node) /\ Len(app.chain[ctxs[m][i].router]) \in Nat
            /\ ctxs[m][i].node \in Nat
        <5>1. ctxs[m][i] \in Context /\ app \in Setups
          BY <1>1, <1>2, <4>4 DEF TypeOK
        <5>2. ctxs[m][i].router \in Routers /\ ctxs[m][i].node \in Nat
          BY <5>1 DEF Context
        <5> QED
          BY <5>1, <5>2, AppOK, EmptyOrNot
      <4>6. ctxs[m][i].node <= Len(app.chain[ctxs[m][i].router])
        BY <4>1, <4>3, <4>4 DEF PlacesOK, InChain, CtxOK
      <4>7. CtxOK(app, ctxs[m][i])
        BY <4>1, <4>4 DEF PlacesOK
      <4>8. ctxs[m][i].beyond => ctxs[m][i].node > Len(app.chain[ctxs[m][i].router])
        BY <4>7 DEF CtxOK
      <4> QED
        BY <4>5, <4>6, <4>8
    <3>3. seen[m].stopped \/ (FuncReturns(m) /\ Call(m).nexts = 0)
      <4>1. CASE RouterReturns(m) \/ CodecReturns(m)
        BY <4>1 DEF RouterReturns, CodecReturns
      <4>2. CASE FuncReturns(m)
        BY <1>1, <4>2 DEF FuncReturns, TypeOK, History
      <4>3. CASE DecodeRefused(m) \/ NothingLeft(m)
        BY <1>1, <4>3, ZenonT(60) DEF DecodeRefused, NothingLeft, TypeOK, History
      <4> QED
        BY <1>11, <4>1, <4>2, <4>3 DEF Returned
    <3> QED
      BY <3>1, <3>2, <3>3
  <2> QED
    BY <1>10, <2>1, <2>2, <2>3, <2>4
<1>12. CASE LeaveRouter(m)
  <2> DEFINE n == Len(ctxs[m])
             p == ctxs[m][n - 1]
  <2>1. /\ n \in Nat /\ n >= 2 /\ ctl[m] = "run"
        /\ p \in Context /\ seen' = seen
        /\ Cur(m).beyond \/ \E d \in Context : Left(m, n - 1, p, d)
    BY <1>12, LeavingFacts
  <2> SUFFICES ASSUME seen[m].stopped PROVE StopOK(m)'
    BY <2>1 DEF StopOK
  <2>2. n - 1 \in 1..n /\ n \in 2..n /\ Cur(m) = ctxs[m][n]
    BY <1>0, <2>1
  <2>3. \A i \in 2..n : ~ctxs[m][i].beyond
    BY DEF StopOK
  <2>4. \A i \in 1..(Len(calls[m]) - 1) : calls[m][i].nexts >= 1
    BY DEF ChainInv, BaseInv, StackOK, Stacked
  <2>5. PICK d \in Context : Left(m, n - 1, p, d)
    BY <2>1, <2>2, <2>3
  <2> QED
    BY <1>10, <2>1, <2>2, <2>3, <2>4, <2>5
<1> QED
  BY <1>3, <1>4, <1>5, <1>6, <1>7, <1>8, <1>9, <1>11, <1>12
     DEF Steps, Quiet, Works, Returning, Returned

(* For all messages                                                        *)
StopInv == NoAgain(app) /\ app.kind = "normal" => \A m \in Msgs : StopOK(m)

(* A stopped chain is at its end in all routers, for ever.                 *)
LEMMA StopInvHolds == Spec => []StopInv
<1>1. Init => StopInv
  BY DEF Init, StopInv, StopOK
<1>2. ASSUME ChainInv, StopInv, [Next]_vars PROVE StopInv'
  <2>0. app' = app
    BY <1>2, AppFixed
  <2> SUFFICES ASSUME NoAgain(app), app.kind = "normal", NEW m \in Msgs PROVE StopOK(m)'
    BY <2>0 DEF StopInv
  <2>1. TypeOK /\ StopOK(m)
    BY <1>2 DEF ChainInv, BaseInv, StopInv
  <2>2. CASE Steps(m)
    BY <1>2, <2>0, <2>1, <2>2, StopStep
  <2>3. CASE Untouched(m)
    BY <2>0, <2>1, <2>3 DEF Untouched, StopOK, Call
  <2> QED
    BY <1>2, <2>1, <2>2, <2>3, StepCases
<1> QED
  BY <1>1, <1>2, ChainInvHolds, PTL DEF Spec

(* In applications whose mounted routers do not call Next again, no        *)
(* handler starts behind one that returned without calling Next, in        *)
(* whichever router it was.                                                *)
THEOREM StopsEndChains ==
  ASSUME \A s \in Setups : s.kind = "normal" => NoAgain(s)
  PROVE  Spec => StopEndsChain
<1>1. ASSUME ChainInv, StopInv, [Next]_vars
      PROVE  \A m \in Msgs : Starts(m) /\ app.kind = "normal" => ~seen[m].stopped
  <2> SUFFICES ASSUME NEW m \in Msgs, Starts(m), app.kind = "normal", seen[m].stopped PROVE FALSE
    OBVIOUS
  <2>1. TypeOK /\ StopOK(m) /\ app \in Setups
    BY <1>1 DEF ChainInv, BaseInv, StopInv, TypeOK
  <2>2. Steps(m) \/ Untouched(m)
    BY <1>1, <2>1, StepCases
  <2>3. ~Untouched(m)
    BY <2>1, StackTypes DEF Untouched, Starts
  <2>4. NextRunsHandler(m)
    BY <1>1, <2>2, <2>3, OneStarts
  <2>5. ~AtEnd(Cur(m)) /\ Nexting(m)
    BY <1>1, <2>4, RunsFacts
  <2>6. ctl[m] = "next" /\ Len(ctxs[m]) = 1
    BY <2>1, <2>5 DEF Nexting, StopOK
  <2>7. ctxs[m][1].node > Len(app.chain[ctxs[m][1].router]) /\ Cur(m) = ctxs[m][1]
    BY <1>1, <2>1, <2>6, CurFacts DEF StopOK, ChainInv
  <2> QED
    BY <2>5, <2>7 DEF AtEnd, Chain
<1> QED
  BY <1>1, ChainInvHolds, StopInvHolds, PTL DEF Spec, StopEndsChain

-----------------------------------------------------------------------------
(* A context whose handlers up to r, the place that ran last, have had     *)
(* their turn                                                              *)
Reached(c, r) ==
    LET l == Len(c.at) IN
    /\ l <= Len(r) /\ \A j \in 1..l : r[j] = c.at[j]
    /\ l < Len(r) => l + 2 <= Len(r) /\ ~Before(<<c.node, c.index>>, <<r[l + 1], r[l + 2]>>)

(* q follows p, as InOrder asks                                            *)
Follows(p, q) ==
    \/ IsStrictPrefix(p, q)
    \/ \E k \in 1..Min({Len(p), Len(q)}) : p[k] < q[k] /\ \A j \in 1..(k - 1) : p[j] = q[j]

(* The place of a context, as the history names it                         *)
Here(c) == c.at \o <<c.node, c.index>>

(* It is the way to the router, then the node and the handler.             *)
LEMMA HereFacts ==
  ASSUME NEW c \in Context
  PROVE  /\ Here(c) \in Seq(Nat) /\ Len(c.at) \in Nat /\ c.at \in Seq(Nat)
         /\ Len(Here(c)) = Len(c.at) + 2
         /\ \A j \in 1..Len(c.at) : Here(c)[j] = c.at[j]
         /\ Here(c)[Len(c.at) + 1] = c.node /\ Here(c)[Len(c.at) + 2] = c.index
         /\ c.node \in Nat /\ c.index \in Nat
<1>1. c.at \in Seq(Nat) /\ c.node \in Nat /\ c.index \in Nat
  BY DEF Context
<1> DEFINE a == c.at
           e == <<c.node, c.index>>
<1>2. e \in Seq(Nat) /\ Len(e) = 2 /\ e[1] = c.node /\ e[2] = c.index
  BY <1>1
<1>3. Len(a) \in Nat
  BY <1>1, EmptyOrNot
<1> HIDE DEF a, e
<1>4. a \in Seq(Nat)
  BY <1>1 DEF a
<1>5. /\ a \o e \in Seq(Nat) /\ Len(a \o e) = Len(a) + 2
      /\ \A i \in 1..(Len(a) + 2) : (a \o e)[i] = IF i <= Len(a) THEN a[i] ELSE e[i - Len(a)]
  <2>1. /\ a \o e \in Seq(Nat) /\ Len(a \o e) = Len(a) + Len(e)
        /\ \A i \in 1..Len(a) + Len(e) : (a \o e)[i] = IF i <= Len(a) THEN a[i] ELSE e[i - Len(a)]
    BY <1>2, <1>4, ConcatProperties
  <2>2. Len(a) + Len(e) = Len(a) + 2
    BY <1>2
  <2> QED
    BY <2>1, <2>2
<1>6. \A j \in 1..Len(a) : (a \o e)[j] = a[j]
  BY <1>3, <1>5
<1>7. (a \o e)[Len(a) + 1] = c.node
  <2>1. Len(a) + 1 \in 1..(Len(a) + 2) /\ ~(Len(a) + 1 <= Len(a)) /\ (Len(a) + 1) - Len(a) = 1
    BY <1>3
  <2> QED
    BY <1>2, <1>5, <2>1
<1>8. (a \o e)[Len(a) + 2] = c.index
  <2>1. Len(a) + 2 \in 1..(Len(a) + 2) /\ ~(Len(a) + 2 <= Len(a)) /\ (Len(a) + 2) - Len(a) = 2
    BY <1>3
  <2> QED
    BY <1>2, <1>5, <2>1
<1> QED
  BY <1>1, <1>3, <1>4, <1>5, <1>6, <1>7, <1>8 DEF Here, a, e

(* Before goes through.                                                    *)
LEMMA BeforeTrans ==
  ASSUME NEW a1 \in Nat, NEW a2 \in Nat, NEW b1 \in Nat, NEW b2 \in Nat, NEW c1 \in Nat, NEW c2 \in Nat,
         ~Before(<<a1, a2>>, <<b1, b2>>)
  PROVE  /\ ~Before(<<b1, b2>>, <<c1, c2>>) => ~Before(<<a1, a2>>, <<c1, c2>>)
         /\ Before(<<c1, c2>>, <<b1, b2>>) => Before(<<c1, c2>>, <<a1, a2>>)
BY DEF Before

(* A context that goes on stays behind what ran last.                      *)
LEMMA ReachedOn ==
  ASSUME NEW c \in Context, NEW d \in Context, NEW r \in Seq(Nat), Reached(c, r), d.at = c.at,
         ~Before(<<d.node, d.index>>, <<c.node, c.index>>)
  PROVE  Reached(d, r)
<1> DEFINE l == Len(c.at)
<1>1. l \in Nat /\ Len(r) \in Nat /\ c.node \in Nat /\ c.index \in Nat /\ d.node \in Nat /\ d.index \in Nat
  BY EmptyOrNot DEF Context
<1> HIDE DEF l
<1>2. CASE l < Len(r)
  <2>0. l + 2 <= Len(r)
    BY <1>2 DEF Reached, l
  <2>1. l + 1 \in 1..Len(r) /\ l + 2 \in 1..Len(r)
    BY <1>1, <2>0
  <2>2. r[l + 1] \in Nat /\ r[l + 2] \in Nat
    BY <2>1
  <2> DEFINE a == r[l + 1]
             b == r[l + 2]
  <2>3. ~Before(<<c.node, c.index>>, <<a, b>>)
    BY <1>2 DEF Reached, l
  <2> HIDE DEF a, b
  <2>4. a \in Nat /\ b \in Nat
    BY <2>2 DEF a, b
  <2>5. ~Before(<<d.node, d.index>>, <<a, b>>)
    BY <1>1, <2>3, <2>4, BeforeTrans
  <2> QED
    BY <1>2, <2>5 DEF Reached, a, b, l
<1>3. CASE ~(l < Len(r))
  BY <1>3 DEF Reached, l
<1> QED
  BY <1>2, <1>3

(* A context has reached its own place,                                    *)
LEMMA ReachedHere ==
  ASSUME NEW c \in Context
  PROVE  Reached(c, Here(c))
<1>1. /\ Len(c.at) \in Nat /\ Len(Here(c)) = Len(c.at) + 2 /\ c.node \in Nat /\ c.index \in Nat
      /\ \A j \in 1..Len(c.at) : Here(c)[j] = c.at[j]
      /\ Here(c)[Len(c.at) + 1] = c.node /\ Here(c)[Len(c.at) + 2] = c.index
  BY HereFacts
<1>2. ~Before(<<c.node, c.index>>, <<c.node, c.index>>)
  BY <1>1, BeforeTotal
<1>3. Len(c.at) <= Len(Here(c)) /\ Len(c.at) + 2 <= Len(Here(c))
  BY <1>1
<1> QED
  BY <1>1, <1>2, <1>3 DEF Reached

(* and a new one the place where it is mounted.                            *)
LEMMA ReachedIn ==
  ASSUME NEW d \in Context
  PROVE  Reached(d, d.at)
BY EmptyOrNot DEF Reached, Context

(* A router is left behind what ran in it.                                 *)
LEMMA ReachedOut ==
  ASSUME NEW p \in Context, NEW c \in Context, NEW r \in Seq(Nat), Reached(c, r), c.at = Here(p)
  PROVE  Reached(p, r)
<1> DEFINE l == Len(p.at)
<1>1. /\ l \in Nat /\ Len(c.at) = l + 2 /\ p.node \in Nat /\ p.index \in Nat
      /\ \A j \in 1..l : c.at[j] = p.at[j]
      /\ c.at[l + 1] = p.node /\ c.at[l + 2] = p.index
  BY HereFacts
<1>2. Len(r) \in Nat
  BY EmptyOrNot
<1>3. l + 2 <= Len(r) /\ \A j \in 1..(l + 2) : r[j] = c.at[j]
  BY <1>1 DEF Reached
<1>4. r[l + 1] = p.node /\ r[l + 2] = p.index
  <2>1. l + 1 \in 1..(l + 2) /\ l + 2 \in 1..(l + 2)
    BY <1>1
  <2> QED
    BY <1>1, <1>3, <2>1
<1>5. ~Before(<<p.node, p.index>>, <<p.node, p.index>>)
  BY <1>1, BeforeTotal
<1>6. \A j \in 1..l : r[j] = p.at[j]
  <2>1. \A j \in 1..l : j \in 1..(l + 2)
    BY <1>1
  <2> QED
    BY <1>1, <1>3, <2>1
<1>7. l <= Len(r)
  BY <1>1, <1>2, <1>3
<1> QED
  BY <1>3, <1>4, <1>5, <1>6, <1>7 DEF Reached

(* Prefixes by their elements                                              *)
LEMMA PrefixOf ==
  ASSUME NEW p \in Seq(Nat), NEW q \in Seq(Nat), Len(p) < Len(q), \A j \in 1..Len(p) : p[j] = q[j]
  PROVE  IsStrictPrefix(p, q)
<1>1. Len(p) \in Nat /\ Len(q) \in Nat
  BY EmptyOrNot
<1>2. SubSeq(p, 1, Len(p)) = p
  BY SubSeqFull
<1>3. SubSeq(q, 1, Len(p)) = p
  <2>1. \A i \in 1..Len(p) : q[i] \in Nat
    BY <1>1
  <2>2. 1 \in Int /\ Len(p) \in Int
    BY <1>1
  <2> DEFINE n == Len(p)
             s == SubSeq(q, 1, n)
  <2>3. /\ s \in Seq(Nat) /\ Len(s) = IF 1 <= n THEN n - 1 + 1 ELSE 0
        /\ \A i \in 1..(n - 1 + 1) : s[i] = q[1 + i - 1]
    BY <2>1, <2>2, SubSeqProperties
  <2>4. n \in Nat /\ n = Len(p)
    BY <1>1
  <2> HIDE DEF n, s
  <2>5. Len(s) = n /\ \A i \in 1..n : s[i] = q[i]
    BY <2>3, <2>4
  <2>6. s = p
    <3>1. s \in Seq(Nat) /\ Len(s) = Len(p) /\ \A i \in 1..Len(s) : s[i] = p[i]
      BY <2>3, <2>4, <2>5
    <3> QED
      BY <3>1, SeqEqual
  <2> QED
    BY <2>6 DEF s, n
<1> QED
  BY <1>1, <1>2, <1>3 DEF IsStrictPrefix, IsPrefix

(* A handler that is ahead of the context follows what ran last.           *)
LEMMA NextFollows ==
  ASSUME NEW c \in Context, NEW d \in Context, NEW r \in Seq(Nat), Reached(c, r), d.at = c.at,
         Before(<<c.node, c.index>>, <<d.node, d.index>>)
  PROVE  Follows(r, Here(d))
<1> DEFINE l == Len(c.at)
           q == Here(d)
<1>1. /\ l \in Nat /\ Len(r) \in Nat /\ c.node \in Nat /\ c.index \in Nat /\ d.node \in Nat
      /\ d.index \in Nat /\ q \in Seq(Nat)
      /\ Len(q) = l + 2 /\ \A j \in 1..l : q[j] = c.at[j]
      /\ q[l + 1] = d.node /\ q[l + 2] = d.index
  BY EmptyOrNot, HereFacts
<1> HIDE DEF l, q
<1>2. l <= Len(r) /\ \A j \in 1..l : r[j] = q[j]
  BY <1>1 DEF Reached, l
<1>3. CASE l = Len(r)
  <2>1. IsStrictPrefix(r, q)
    BY <1>1, <1>2, <1>3, PrefixOf, SMTT(40)
  <2> QED
    BY <2>1 DEF Follows, q
<1>4. CASE l < Len(r)
  <2> DEFINE a == r[l + 1]
             b == r[l + 2]
  <2>1. l + 2 <= Len(r) /\ ~Before(<<c.node, c.index>>, <<a, b>>)
    BY <1>4 DEF Reached, l
  <2>2. l + 1 \in 1..Len(r) /\ l + 2 \in 1..Len(r)
    BY <1>1, <2>1
  <2>3. a \in Nat /\ b \in Nat
    BY <2>2
  <2> HIDE DEF a, b
  <2>4. a < d.node \/ (a = d.node /\ b < d.index)
    BY <1>1, <2>1, <2>3, SMTT(40) DEF Before
  <2>5. Min({Len(r), Len(q)}) \in {Len(r), Len(q)}
    <3>1. {Len(r), Len(q)} \in SUBSET Nat /\ {Len(r), Len(q)} # {}
      BY <1>1
    <3> QED
      BY <3>1, MinOf
  <2>6. l + 1 \in 1..Min({Len(r), Len(q)}) /\ l + 2 \in 1..Min({Len(r), Len(q)})
    BY <1>1, <2>1, <2>5, SMTT(40)
  <2>7. CASE a < d.node
    <3>1. r[l + 1] < q[l + 1] /\ \A j \in 1..((l + 1) - 1) : r[j] = q[j]
      BY <1>1, <1>2, <2>7 DEF a
    <3> QED
      BY <2>6, <3>1 DEF Follows, q
  <2>8. CASE a = d.node /\ b < d.index
    <3>1. r[l + 2] < q[l + 2]
      BY <1>1, <2>8 DEF b
    <3>2. ASSUME NEW j \in 1..((l + 2) - 1) PROVE r[j] = q[j]
      <4>1. j \in 1..l \/ j = l + 1
        BY <1>1
      <4> QED
        BY <1>1, <1>2, <2>8, <4>1 DEF a
    <3> QED
      BY <2>6, <3>1, <3>2 DEF Follows, q
  <2> QED
    BY <2>4, <2>7, <2>8
<1> QED
  BY <1>1, <1>2, <1>3, <1>4

-----------------------------------------------------------------------------
(* Where the contexts are mounted                                          *)
AtsOK(S) ==
    /\ Len(S) >= 1 => S[1].at = <<>>
    /\ \A i \in 1..(Len(S) - 1) : S[i + 1].at = Here(S[i])

(* Contexts stay mounted where they are.                                   *)
LEMMA AtsKept ==
  ASSUME ChainInv, NEW m \in Msgs, AtsOK(ctxs[m]), NEW n \in 1..Len(ctxs[m]), NEW d \in Context,
         Replaces(ctxs[m], ctxs'[m], n, d) \/ Relays(ctxs[m], ctxs'[m], n, d),
         d.at = ctxs[m][n].at
  PROVE  AtsOK(ctxs'[m])
<1> DEFINE S == ctxs[m]
           T == ctxs'[m]
<1>1. /\ n \in Nat /\ Len(T) = n /\ T[n] = d /\ Len(S) \in Nat
      /\ \A i \in 1..(n - 1) : SamePlace(S[i], T[i])
  BY BelowSame, StackTypes DEF ChainInv, BaseInv
<1>2. Len(S) >= 1 /\ S[1].at = <<>> /\ \A i \in 1..(Len(S) - 1) : S[i + 1].at = Here(S[i])
  BY <1>1 DEF AtsOK
<1> HIDE DEF S, T
<1>3. n \in 1..Len(S) /\ d.at = S[n].at
  BY DEF S
<1>4. \A i \in 1..n : T[i].at = S[i].at
  <2> SUFFICES ASSUME NEW i \in 1..n PROVE T[i].at = S[i].at
    OBVIOUS
  <2>1. i = n \/ i \in 1..(n - 1)
    BY <1>1
  <2> QED
    BY <1>1, <1>3, <2>1 DEF SamePlace
<1>5. ASSUME NEW i \in 1..(n - 1) PROVE T[i + 1].at = Here(T[i])
  <2>1. i \in 1..(Len(S) - 1) /\ i + 1 \in 1..n /\ i \in 1..n
    BY <1>1, <1>3
  <2>2. Here(T[i]) = Here(S[i])
    BY <1>1 DEF SamePlace, Here
  <2> QED
    BY <1>2, <1>4, <2>1, <2>2
<1>6. 1 \in 1..n
  BY <1>1, <1>3
<1> QED
  BY <1>1, <1>2, <1>4, <1>5, <1>6 DEF AtsOK, T

(* What ran last is where the innermost context is or behind it, and       *)
(* exactly there while a handler has not called Next.                      *)
OrderOK(m) ==
    LET ran == seen[m].ran IN
    /\ AtsOK(ctxs[m])
    /\ ctl[m] = "idle" => Len(ran) = 0
    /\ Len(ran) = 0 => Len(ctxs[m]) <= 1
    /\ Len(ran) > 0 => Reached(ctxs[m][Len(ctxs[m])], ran[Len(ran)])
    /\ ctl[m] \in {"run", "asleep"} /\ calls[m][Len(calls[m])].nexts = 0
         => Len(ran) > 0 /\ ran[Len(ran)] = Here(ctxs[m][Len(ctxs[m])])
    /\ \A i \in 2..Len(ran) : Follows(ran[i - 1], ran[i])

(* Every step keeps this.                                                  *)
LEMMA OrderStep ==
  ASSUME ChainInv, NEW m \in Msgs, OrderOK(m), Steps(m)
  PROVE  OrderOK(m)'
<1> DEFINE ran == seen[m].ran
<1>1. TypeOK
  BY DEF ChainInv, BaseInv
<1>2. /\ Len(calls[m]) \in Nat /\ (calls[m] = <<>> <=> Len(calls[m]) = 0)
      /\ Len(ctxs[m]) \in Nat /\ \A i \in 1..Len(ctxs[m]) : ctxs[m][i] \in Context
      /\ ran \in Seq(Seq(Nat)) /\ Len(ran) \in Nat /\ \A i \in 1..Len(ran) : ran[i] \in Seq(Nat)
  <2>1. ran \in Seq(Seq(Nat))
    BY <1>1 DEF TypeOK, History
  <2> QED
    BY <1>1, <2>1, StackTypes, EmptyOrNot, ElementOfSeq
<1>0. ctl[m] # "idle" => /\ Len(ctxs[m]) >= 1 /\ Len(ctxs[m]) \in 1..Len(ctxs[m])
                         /\ Cur(m) = ctxs[m][Len(ctxs[m])] /\ Cur(m) \in Context
  BY CurFacts DEF ChainInv
<1>3. CASE Start(m)
  <2>1. NewContext.at = <<>>
    BY DEF NewContext
  <2>2. /\ ctxs'[m] = <<NewContext>> /\ Len(ctxs'[m]) = 1 /\ seen' = seen /\ ctl[m] = "idle"
        /\ ctl'[m] = "next"
    BY <1>1, <1>3, StartFacts DEF TypeOK
  <2>3. Len(ran) = 0
    BY <2>2 DEF OrderOK
  <2>4. AtsOK(ctxs'[m])
    BY <2>1, <2>2 DEF AtsOK
  <2> QED
    BY <2>2, <2>3, <2>4 DEF OrderOK
<1>4. CASE Quiet(m)
  <2>1. /\ ctxs' = ctxs /\ seen' = seen /\ ctl'[m] # "idle"
        /\ ctl'[m] \in {"run", "asleep"} => ctl[m] = "asleep" /\ calls' = calls
    BY <1>4, QuietFacts
  <2> QED
    BY <2>1 DEF OrderOK
<1>21. ASSUME seen'[m].ran = ran, NEW n \in 1..Len(ctxs[m]), NEW c \in Context, NEW d \in Context,
              Replaces(ctxs[m], ctxs'[m], n, d) \/ Relays(ctxs[m], ctxs'[m], n, d),
              c.at = ctxs[m][n].at, d.at = c.at, ~Before(<<d.node, d.index>>, <<c.node, c.index>>),
              Len(ran) > 0 => Reached(c, ran[Len(ran)]), ctl'[m] # "idle",
              ~(ctl'[m] \in {"run", "asleep"} /\ calls'[m][Len(calls'[m])].nexts = 0)
       PROVE  OrderOK(m)'
  <2>1. n \in Nat /\ Len(ctxs'[m]) = n /\ ctxs'[m][n] = d
    BY <1>21, BelowSame
  <2>2. AtsOK(ctxs'[m])
    BY <1>21, AtsKept DEF OrderOK
  <2>3. Len(ran) > 0 => Reached(d, ran[Len(ran)])
    <3>1. Len(ran) > 0 => ran[Len(ran)] \in Seq(Nat)
      BY <1>2
    <3> HIDE DEF ran
    <3> QED
      BY <1>21, <3>1, ReachedOn
  <2>4. Len(ran) = 0 => n <= 1
    BY <1>2, <2>1 DEF OrderOK
  <2> QED
    BY <1>21, <2>1, <2>2, <2>3, <2>4 DEF OrderOK
<1>5. CASE Works(m)
  <2> DEFINE n == Len(ctxs[m])
             c == Cur(m)
             d == Cur(m)'
  <2>1. /\ calls' = calls /\ ctl[m] = "run" /\ ctl'[m] \in {"run", "asleep"} /\ d \in Context
        /\ Replaces(ctxs[m], ctxs'[m], n, d) /\ d.at = c.at /\ d.node = c.node /\ d.index = c.index
        /\ seen'[m].ran = ran
    BY <1>1, <1>5, WorksFacts DEF TypeOK
  <2>2. n \in 1..Len(ctxs[m]) /\ c \in Context /\ c = ctxs[m][n]
    BY <1>0, <2>1
  <2> HIDE DEF c, d
  <2>3. n \in Nat /\ Len(ctxs'[m]) = n /\ ctxs'[m][n] = d
    BY <2>1, <2>2, BelowSame
  <2>4. AtsOK(ctxs'[m])
    BY <2>1, <2>2, AtsKept DEF OrderOK
  <2>5. Here(d) = Here(c)
    BY <2>1 DEF Here
  <2>6. c.node \in Nat /\ c.index \in Nat
    BY <2>2 DEF Context
  <2>7. ~Before(<<d.node, d.index>>, <<c.node, c.index>>)
    BY <2>1, <2>6, BeforeTotal
  <2>8. Len(ran) > 0 => Reached(d, ran[Len(ran)])
    <3>1. Len(ran) > 0 => ran[Len(ran)] \in Seq(Nat) /\ Reached(c, ran[Len(ran)])
      BY <1>2, <2>2 DEF OrderOK
    <3> HIDE DEF ran
    <3> QED
      BY <2>1, <2>2, <2>7, <3>1, ReachedOn
  <2> QED
    BY <2>1, <2>2, <2>3, <2>4, <2>5, <2>8 DEF OrderOK
<1>6. CASE Decoded(m)
  <2> DEFINE n == Len(ctxs[m])
             c == Cur(m)
             d == Cur(m)'
  <2>1. /\ seen' = seen /\ ctl[m] = "run" /\ ctl'[m] \in {"next", "waiting"} /\ d \in Context
        /\ Replaces(ctxs[m], ctxs'[m], n, d) /\ d.at = c.at /\ d.node = c.node /\ d.index = c.index
    BY <1>1, <1>6, DecodedFacts DEF SetMessageID, TypeOK
  <2>2. n \in 1..Len(ctxs[m]) /\ c \in Context /\ c = ctxs[m][n] /\ c.node \in Nat /\ c.index \in Nat
    BY <1>0, <2>1 DEF Context
  <2> HIDE DEF c, d
  <2>3. ~Before(<<d.node, d.index>>, <<c.node, c.index>>)
    BY <2>1, <2>2, BeforeTotal
  <2>4. Len(ran) > 0 => Reached(c, ran[Len(ran)])
    BY <2>2 DEF OrderOK
  <2> HIDE DEF n
  <2> QED
    BY <1>21, <2>1, <2>2, <2>3, <2>4
<1>7. CASE EnterRouter(m)
  <2> DEFINE n == Len(ctxs[m])
             d == SubContext(Cur(m), Call(m).h)
  <2>1. /\ seen' = seen /\ ctl[m] = "run" /\ ctl'[m] = "next" /\ d \in Context
        /\ Replaces(ctxs[m], ctxs'[m], n + 1, d)
        /\ d.at = Here(Cur(m)) /\ Call(m).nexts = 0
    BY <1>1, <1>7, EnterFacts DEF TypeOK, Here
  <2> HIDE DEF d
  <2>2. n \in Nat /\ n >= 1 /\ Cur(m) = ctxs[m][n] /\ Len(ctxs'[m]) = n + 1 /\ ctxs'[m][n + 1] = d
        /\ \A i \in 1..n : ctxs'[m][i] = ctxs[m][i]
    BY <1>0, <1>2, <2>1 DEF Replaces
  <2>3. AtsOK(ctxs'[m])
    <3>1. ctxs'[m][1].at = <<>>
      BY <2>2 DEF OrderOK, AtsOK
    <3>2. ASSUME NEW i \in 1..n PROVE ctxs'[m][i + 1].at = Here(ctxs'[m][i])
      <4>1. CASE i = n
        BY <2>1, <2>2, <4>1
      <4>2. CASE i \in 1..(n - 1)
        <5>1. i + 1 \in 1..n
          BY <2>2, <4>2
        <5>2. ctxs'[m][i + 1] = ctxs[m][i + 1] /\ ctxs'[m][i] = ctxs[m][i]
          BY <2>2, <5>1
        <5>3. ctxs[m][i + 1].at = Here(ctxs[m][i])
          BY <4>2 DEF OrderOK, AtsOK
        <5> QED
          BY <5>2, <5>3
      <4> QED
        BY <2>2, <4>1, <4>2
    <3>3. (n + 1) - 1 = n /\ n + 1 >= 1
      BY <2>2
    <3> QED
      BY <2>2, <3>1, <3>2, <3>3 DEF AtsOK
  <2>4. Len(ran) > 0 /\ ran[Len(ran)] = d.at
    <3>1. calls[m][Len(calls[m])].nexts = 0
      BY <2>1 DEF Call, Last
    <3>2. Len(ran) > 0 /\ ran[Len(ran)] = Here(ctxs[m][n])
      BY <2>1, <3>1 DEF OrderOK
    <3> QED
      BY <2>1, <2>2, <3>2
  <2>5. Reached(d, ran[Len(ran)])
    BY <2>1, <2>4, ReachedIn
  <2>6. \A i \in 2..Len(ran) : Follows(ran[i - 1], ran[i])
    BY DEF OrderOK
  <2>7. /\ seen'[m].ran = ran /\ Len(ran) # 0 /\ ctxs'[m][Len(ctxs'[m])] = d
        /\ ctl'[m] \notin {"idle", "run", "asleep"}
    BY <2>1, <2>2, <2>4
  <2> HIDE DEF n, ran
  <2> QED
    BY <2>3, <2>4, <2>5, <2>6, <2>7 DEF OrderOK
<1>8. CASE NextRunsHandler(m)
  <2> DEFINE n == Len(ctxs[m])
             c == Cur(m)
  <2>1. PICK d \in Context :
           /\ Replaces(ctxs[m], ctxs'[m], n, d)
           /\ Forward(c, d) /\ Nexting(m)
           /\ Before(<<c.node, c.index>>, <<d.node, d.index>>)
           /\ seen' = [seen EXCEPT ![m].ran = Append(@, d.at \o <<d.node, d.index>>)]
           /\ ctl' = [ctl EXCEPT ![m] = "run"]
    BY <1>8, RunsFacts
  <2>2. n \in 1..Len(ctxs[m]) /\ c \in Context /\ c = ctxs[m][n] /\ d.at = c.at /\ n \in Nat
    BY <1>0, <1>2, <2>1 DEF Nexting, Forward
  <2> HIDE DEF c
  <2>3. n \in Nat /\ Len(ctxs'[m]) = n /\ ctxs'[m][n] = d
    BY <2>1, <2>2, BelowSame
  <2>4. AtsOK(ctxs'[m])
    BY <2>1, <2>2, AtsKept DEF OrderOK
  <2> DEFINE q == Here(d)
             ran2 == seen'[m].ran
             k == Len(ran)
  <2>5. q \in Seq(Nat)
    BY HereFacts
  <2>6. ran2 = Append(ran, q)
    BY <1>1, <2>1 DEF TypeOK, History, Here
  <2>7. /\ Len(ran2) = k + 1 /\ ran2[k + 1] = q /\ k \in Nat
        /\ \A i \in 1..k : ran2[i] = ran[i]
    <3> HIDE DEF q, ran, ran2
    <3> QED
      BY <1>2, <2>5, <2>6, Appended
  <2>8. k > 0 => Follows(ran[k], q)
    <3>1. k > 0 => ran[k] \in Seq(Nat) /\ Reached(c, ran[k])
      BY <1>2, <2>2 DEF OrderOK
    <3> HIDE DEF ran, k
    <3> QED
      BY <2>1, <2>2, <3>1, NextFollows
  <2>9. \A i \in 2..k : Follows(ran[i - 1], ran[i])
    BY DEF OrderOK
  <2> HIDE DEF ran, ran2, k, q
  <2>10. ASSUME NEW i \in 2..Len(ran2) PROVE Follows(ran2[i - 1], ran2[i])
    <3>1. CASE i = k + 1
      <4>1. i - 1 = k /\ k > 0 /\ k \in 1..k
        BY <2>7, <3>1
      <4> QED
        BY <2>7, <2>8, <3>1, <4>1
    <3>2. CASE i \in 2..k
      <4>1. i \in 1..k /\ i - 1 \in 1..k
        BY <2>7, <3>2
      <4> QED
        BY <2>7, <2>9, <3>2, <4>1
    <3>3. i = k + 1 \/ i \in 2..k
      BY <2>7
    <3> QED
      BY <3>1, <3>2, <3>3
  <2>11. Reached(d, q) /\ Len(ran2) > 0 /\ Len(ran2) # 0 /\ ran2[Len(ran2)] = q
    BY <2>7, ReachedHere DEF q
  <2>12. ctl'[m] = "run"
    BY <1>1, <2>1 DEF TypeOK
  <2>13. Len(ran2) = 0 => Len(ctxs'[m]) <= 1
    BY <2>11
  <2> HIDE DEF n
  <2> QED
    BY <2>3, <2>4, <2>10, <2>11, <2>12, <2>13 DEF OrderOK, ran2, q
<1>9. CASE Returning(m)
  <2> DEFINE n == Len(ctxs[m])
             c == Cur(m)
  <2>1. PICK d \in Context :
           /\ Relays(ctxs[m], ctxs'[m], n, d)
           /\ Forward(c, d)
           /\ Nexting(m) /\ calls' = calls /\ seen' = seen
           /\ ctl' = [ctl EXCEPT ![m] = IF calls[m] = <<>> THEN "finish" ELSE "run"]
    BY <1>9, ReturningFacts
  <2>2. /\ n \in 1..Len(ctxs[m]) /\ c \in Context /\ c = ctxs[m][n] /\ d.at = c.at
        /\ ~Before(<<d.node, d.index>>, <<c.node, c.index>>)
        /\ ctl[m] \in {"next", "auto"}
    BY <1>0, <2>1 DEF Nexting, Forward
  <2> HIDE DEF c
  <2>3. Len(ran) > 0 => Reached(c, ran[Len(ran)])
    BY <2>2 DEF OrderOK
  <2>4. ctl'[m] = IF calls[m] = <<>> THEN "finish" ELSE "run"
    BY <1>1, <2>1 DEF TypeOK
  <2>5. calls[m] # <<>> => calls[m][Len(calls[m])].nexts >= 1
    BY <2>2 DEF ChainInv, BaseInv, StackOK, Stacked
  <2>6. ctl'[m] = "run" => calls[m][Len(calls[m])].nexts # 0
    BY <2>4, <2>5
  <2> HIDE DEF n
  <2> QED
    BY <1>21, <2>1, <2>2, <2>3, <2>4, <2>6
<1>10. ASSUME NEW n \in 1..Len(ctxs[m]), NEW c \in Context, NEW d \in Context, Left(m, n, c, d), ctl[m] = "run",
              c.at = ctxs[m][n].at, Len(ran) > 0 => Reached(c, ran[Len(ran)]), seen'[m].ran = ran
       PROVE  OrderOK(m)'
  <2>0. calls[m] # <<>>
    BY <1>10, RunFacts DEF ChainInv
  <2>1. /\ Replaces(ctxs[m], ctxs'[m], n, d) \/ Relays(ctxs[m], ctxs'[m], n, d)
        /\ d.at = c.at /\ ~Before(<<d.node, d.index>>, <<c.node, c.index>>)
        /\ ctl'[m] \in {"auto", "finish", "run"}
        /\ ctl'[m] = "run" => Len(calls[m]) # 1
        /\ Len(calls'[m]) = Len(calls[m]) - 1
        /\ \A i \in 1..(Len(calls[m]) - 1) : calls'[m][i] = calls[m][i]
    BY <1>1, <1>10 DEF Left, TypeOK, Forward
  <2>2. ctl'[m] = "run" => calls'[m][Len(calls'[m])].nexts # 0
    <3> SUFFICES ASSUME ctl'[m] = "run" PROVE calls'[m][Len(calls[m]) - 1].nexts # 0
      BY <2>1
    <3>1. Len(calls[m]) > 1
      BY <2>0, <2>1, Depth, MoreThanOne
    <3>2. Len(calls[m]) - 1 \in 1..(Len(calls[m]) - 1)
      BY <1>2, <3>1
    <3>3. calls[m][Len(calls[m]) - 1].nexts >= 1
      BY <2>0, <3>1, Depth
    <3> QED
      BY <2>1, <3>2, <3>3
  <2>3. ctl'[m] # "idle" /\ ~(ctl'[m] \in {"run", "asleep"} /\ calls'[m][Len(calls'[m])].nexts = 0)
    BY <2>1, <2>2
  <2> HIDE DEF ran
  <2> QED
    BY <1>10, <1>21, <2>1, <2>3
<1>11. CASE Returned(m)
  <2>1. PICK c \in Context, d \in Context :
           /\ Left(m, Len(ctxs[m]), c, d)
           /\ c.at = Cur(m).at /\ c.node = Cur(m).node /\ c.index = Cur(m).index
           /\ ctl[m] = "run"
    BY <1>11, ReturnedFacts
  <2>2. seen'[m].ran = ran
    <3>1. CASE RouterReturns(m) \/ CodecReturns(m)
      BY <3>1 DEF RouterReturns, CodecReturns
    <3>2. CASE FuncReturns(m)
      BY <1>1, <3>2 DEF FuncReturns, TypeOK, History
    <3>3. CASE DecodeRefused(m) \/ NothingLeft(m)
      <4>1. seen' = [seen EXCEPT ![m].failed = TRUE, ![m].err = TRUE]
        BY <3>3 DEF DecodeRefused, NothingLeft
      <4> QED
        BY <1>1, <4>1 DEF TypeOK, History
    <3> QED
      BY <1>11, <3>1, <3>2, <3>3 DEF Returned
  <2>3. Len(ctxs[m]) \in 1..Len(ctxs[m]) /\ c.at = ctxs[m][Len(ctxs[m])].at
        /\ c.node = ctxs[m][Len(ctxs[m])].node /\ c.index = ctxs[m][Len(ctxs[m])].index
    BY <1>0, <2>1
  <2>4. Len(ran) > 0 => Reached(c, ran[Len(ran)])
    <3>1. Len(ran) > 0 => Reached(ctxs[m][Len(ctxs[m])], ran[Len(ran)])
      BY DEF OrderOK
    <3> QED
      BY <2>3, <3>1 DEF Reached
  <2> QED
    BY <1>10, <2>1, <2>2, <2>3, <2>4
<1>12. CASE LeaveRouter(m)
  <2> DEFINE n == Len(ctxs[m])
             p == ctxs[m][n - 1]
  <2>1. /\ n \in Nat /\ n >= 2 /\ Serving(Call(m)) /\ ctl[m] = "run"
        /\ p \in Context /\ seen' = seen
        /\ \/ /\ Replaces(ctxs[m], ctxs'[m], n - 1, p)
              /\ ctl' = [ctl EXCEPT ![m] = "next"]
           \/ \E d \in Context : Left(m, n - 1, p, d)
    BY <1>12, LeavingFacts
  <2>2. n - 1 \in 1..n /\ n \in 1..n /\ n - 1 \in 1..(n - 1) /\ (n - 1) + 1 = n
    BY <2>1
  <2>3. Len(ran) > 0 => Reached(p, ran[Len(ran)])
    <3>1. ctxs[m][n].at = Here(p) /\ ctxs[m][n] \in Context
      <4>1. ctxs[m][(n - 1) + 1].at = Here(ctxs[m][n - 1])
        BY <2>2 DEF OrderOK, AtsOK
      <4> QED
        BY <1>2, <2>2, <4>1
    <3>2. Len(ran) > 0 => ran[Len(ran)] \in Seq(Nat) /\ Reached(ctxs[m][n], ran[Len(ran)])
      BY <1>2 DEF OrderOK
    <3> HIDE DEF ran, p
    <3> QED
      BY <2>1, <3>1, <3>2, ReachedOut
  <2>4. CASE Replaces(ctxs[m], ctxs'[m], n - 1, p) /\ ctl' = [ctl EXCEPT ![m] = "next"]
    <3>1. p.node \in Nat /\ p.index \in Nat
      BY <2>1 DEF Context
    <3>2. ~Before(<<p.node, p.index>>, <<p.node, p.index>>)
      BY <3>1, BeforeTotal
    <3>3. ctl'[m] = "next"
      BY <1>1, <2>4 DEF TypeOK
    <3>4. p.at = ctxs[m][n - 1].at
      OBVIOUS
    <3> HIDE DEF p
    <3> QED
      BY <1>21, <2>1, <2>2, <2>3, <2>4, <3>2, <3>3, <3>4
  <2>5. CASE \E d \in Context : Left(m, n - 1, p, d)
    BY <1>10, <2>1, <2>2, <2>3, <2>5
  <2> QED
    BY <2>1, <2>4, <2>5
<1> QED
  BY <1>3, <1>4, <1>5, <1>6, <1>7, <1>8, <1>9, <1>11, <1>12
     DEF Steps, Quiet, Works, Returning, Returned

(* For all messages                                                        *)
OrderInv == \A m \in Msgs : OrderOK(m)

(* What has run is in order, and the contexts have reached the last of it, *)
(* for ever.                                                               *)
LEMMA OrderInvHolds == Spec => []OrderInv
<1>1. Init => OrderInv
  <2> SUFFICES ASSUME Init, NEW m \in Msgs PROVE OrderOK(m)
    BY DEF OrderInv
  <2>1. Len(ctxs[m]) = 0 /\ ctl[m] = "idle" /\ Len(seen[m].ran) = 0
    BY DEF Init
  <2> QED
    BY <2>1 DEF OrderOK, AtsOK
<1>2. ASSUME ChainInv, OrderInv, [Next]_vars PROVE OrderInv'
  <2> SUFFICES ASSUME NEW m \in Msgs PROVE OrderOK(m)'
    BY DEF OrderInv
  <2>1. TypeOK /\ OrderOK(m)
    BY <1>2 DEF ChainInv, BaseInv, OrderInv
  <2>2. CASE Steps(m)
    BY <1>2, <2>1, <2>2, OrderStep
  <2>3. CASE Untouched(m)
    BY <2>1, <2>3 DEF Untouched, OrderOK
  <2> QED
    BY <1>2, <2>1, <2>2, <2>3, StepCases
<1> QED
  BY <1>1, <1>2, ChainInvHolds, PTL DEF Spec

(* In every application, handlers run in the order in which they and their *)
(* routers were registered, each at most once.                             *)
THEOREM RunsInOrder == Spec => []InOrder
<1>1. OrderInv => InOrder
  BY DEF OrderInv, OrderOK, Follows, InOrder
<1> QED
  BY <1>1, OrderInvHolds, PTL

-----------------------------------------------------------------------------
(* The chain begins with a codec when there is a subprotocol               *)
CodecFirst(a) ==
    a.protocol # None =>
        /\ a.kind = "normal" /\ a.chain[Root] # <<>>
        /\ NoPath \in a.chain[Root][1].on /\ a.chain[Root][1].handlers[1] \in Codecs

(* What is not decoded yet has come no further than the codec              *)
NegOK(m) ==
    \/ ctl[m] \in {"idle", "finish", "ended"}
    \/ /\ frame[m].format = app.protocol
       /\ \A i \in 1..Len(ctxs[m]) : ctxs[m][i].codec = app.protocol
    \/ ctl[m] = "next" /\ Len(calls[m]) = 0 /\ Len(ctxs[m]) = 1 /\ ctxs[m][1] = NewContext
    \/ ctl[m] = "run" /\ Len(calls[m]) = 1 /\ calls[m][1].nexts = 0 /\ calls[m][1].h \in Codecs

(* The first handler to run is then this codec.                            *)
LEMMA FirstRuns ==
  ASSUME ChainInv, NEW m \in Msgs, CodecFirst(app), app.protocol # None,
         Cur(m) = NewContext, NEW n \in Nat, NEW i \in Nat,
         <<n, i>> \in Ahead(Cur(m)), \A p \in Ahead(Cur(m)) : ~Before(p, <<n, i>>)
  PROVE  n = 1 /\ i = 1
<1>1. NewContext.router = Root /\ NewContext.path = NoPath /\ NewContext.node = 1 /\ NewContext.index = 0
      /\ NewContext \in Context
  BY NewContextType DEF NewContext
<1>2. app \in Setups /\ Root \in Routers
  BY HandlerChainAssumption DEF ChainInv, BaseInv, TypeOK
<1>3. Chain(NewContext) = app.chain[Root]
  BY <1>1 DEF Chain
<1>4. Len(app.chain[Root]) >= 1 /\ Len(app.chain[Root]) \in Nat
  BY <1>2, AppOK, EmptyOrNot DEF CodecFirst
<1>5. 1 \in 1..Len(app.chain[Root])
  BY <1>4
<1>6. Len(app.chain[Root][1].handlers) >= 1 /\ Len(app.chain[Root][1].handlers) \in Nat
  BY <1>1, <1>2, <1>3, <1>5, ChainOf
<1>7. 1 \in 1..Len(app.chain[Root][1].handlers)
  BY <1>6
<1>8. Before(<<1, 0>>, <<1, 1>>)
  BY DEF Before
<1>9. <<1, 1>> \in Ahead(NewContext)
  <2>1. NewContext.path \in Chain(NewContext)[1].on
    BY <1>1, <1>3 DEF CodecFirst
  <2> QED
    BY <1>1, <1>2, <1>3, <1>5, <1>7, <1>8, <2>1, AheadOf
<1>10. ~Before(<<1, 1>>, <<n, i>>)
  <2>1. \A p \in Ahead(NewContext) : ~Before(p, <<n, i>>)
    OBVIOUS
  <2> QED
    BY <1>9, <2>1
<1>11. PICK k \in 1..Len(app.chain[Root]) : \E j \in 1..Len(app.chain[Root][k].handlers) : <<n, i>> = <<k, j>>
  <2>1. <<n, i>> \in Ahead(NewContext)
    OBVIOUS
  <2>2. \E k \in 1..Len(Chain(NewContext)) : \E j \in 1..Len(Chain(NewContext)[k].handlers) :
          /\ NewContext.path \in Chain(NewContext)[k].on
          /\ <<n, i>> = <<k, j>>
    BY <1>1, <1>2, <2>1, AheadOf
  <2> QED
    BY <1>3, <2>2
<1>12. n >= 1 /\ i >= 1
  <2>1. Len(app.chain[Root][k].handlers) \in Nat
    BY <1>1, <1>2, <1>3, ChainOf
  <2> QED
    BY <1>4, <1>11, <2>1
<1> QED
  BY <1>10, <1>12 DEF Before

(* Every step keeps this.                                                  *)
LEMMA NegStep ==
  ASSUME ChainInv, CodecFirst(app), app.protocol # None, NEW m \in Msgs, NegOK(m), Steps(m), app' = app
  PROVE  NegOK(m)'
<1> DEFINE Read == /\ frame[m].format = app.protocol
                   /\ \A i \in 1..Len(ctxs[m]) : ctxs[m][i].codec = app.protocol
<1>1. TypeOK /\ app.kind = "normal" /\ ~GoesOn
  BY DEF ChainInv, BaseInv, CodecFirst, GoesOn
<1>2. /\ Len(calls[m]) \in Nat /\ (calls[m] = <<>> <=> Len(calls[m]) = 0)
      /\ Len(ctxs[m]) \in Nat /\ \A i \in 1..Len(ctxs[m]) : ctxs[m][i] \in Context
  BY <1>1, StackTypes
<1>0. ctl[m] # "idle" => /\ Len(ctxs[m]) >= 1 /\ Len(ctxs[m]) \in 1..Len(ctxs[m])
                         /\ Cur(m) = ctxs[m][Len(ctxs[m])]
  BY CurFacts DEF ChainInv
<1>3. CASE Start(m)
  BY <1>1, <1>2, <1>3, StartFacts DEF NegOK, TypeOK
<1>4. CASE Quiet(m)
  <2>1. ctxs' = ctxs /\ frame' = frame /\ ctl[m] # "next"
    BY <1>4, QuietFacts
  <2>2. CASE Read
    BY <2>1, <2>2 DEF NegOK
  <2>3. CASE ctl[m] = "finish"
    BY <1>4, <2>3, QuietFacts DEF NegOK
  <2>4. CASE ctl[m] = "run" /\ Len(calls[m]) = 1 /\ calls[m][1].nexts = 0 /\ calls[m][1].h \in Codecs
    <3>1. Call(m).h \in Codecs /\ Call(m).h \notin Funcs
      BY <2>4, HandlerChainAssumption DEF Call, Last
    <3>2. ~DecodeSkipped(m) /\ ~LockedOut(m)
      <4>1. DecodeSkipped(m) => app.protocol = None
        BY DEF DecodeSkipped
      <4>2. LockedOut(m) => Call(m).h \in Funcs
        BY DEF LockedOut, Doing, Running
      <4> QED
        BY <3>1, <4>1, <4>2
    <3> QED
      BY <1>4, <2>4, <3>1, <3>2, QuietFacts DEF NegOK
  <2> QED
    BY <1>4, <2>1, <2>2, <2>3, <2>4, QuietFacts DEF NegOK
<1>20. (ctl[m] = "run" /\ Call(m).h \notin Codecs) \/ (ctl[m] = "run" /\ Call(m).nexts # 0) => Read
  BY DEF NegOK, Call, Last
<1>21. ASSUME Read, ctl[m] # "idle", frame' = frame, NEW n \in 1..Len(ctxs[m]), NEW d \in Context,
              Replaces(ctxs[m], ctxs'[m], n, d) \/ Relays(ctxs[m], ctxs'[m], n, d),
              d.codec = app.protocol
       PROVE  NegOK(m)'
  <2>1. /\ n \in Nat /\ Len(ctxs'[m]) = n /\ ctxs'[m][n] = d
        /\ \A i \in 1..(n - 1) : SamePlace(ctxs[m][i], ctxs'[m][i])
    BY <1>21, BelowSame
  <2>2. ASSUME NEW i \in 1..Len(ctxs'[m]) PROVE ctxs'[m][i].codec = app.protocol
    <3>1. i = n \/ (i \in 1..(n - 1) /\ i \in 1..Len(ctxs[m]))
      BY <1>2, <2>1
    <3> QED
      BY <1>21, <2>1, <3>1 DEF SamePlace
  <2> QED
    BY <1>21, <2>2 DEF NegOK
<1>5. CASE Works(m)
  <2> DEFINE d == Cur(m)'
  <2>1. /\ ctl[m] = "run" /\ Call(m).h \in Funcs /\ frame' = frame /\ d \in Context
        /\ Replaces(ctxs[m], ctxs'[m], Len(ctxs[m]), d) /\ d.codec = Cur(m).codec
    BY <1>5, WorksFacts
  <2>2. Read
    BY <1>20, <2>1, HandlerChainAssumption
  <2>3. d.codec = app.protocol
    BY <1>0, <2>1, <2>2
  <2> HIDE DEF d, Read
  <2> QED
    BY <1>0, <1>21, <2>1, <2>2, <2>3
<1>6. CASE Decoded(m)
  <2> DEFINE d == Cur(m)'
  <2>1. /\ ctl[m] = "run" /\ frame' = frame /\ d \in Context
        /\ Replaces(ctxs[m], ctxs'[m], Len(ctxs[m]), d) /\ d.codec = Call(m).h
        /\ frame[m].format = Call(m).h /\ Speaks(Call(m).h) /\ Call(m).h \in Codecs
    BY <1>6, DecodedFacts
  <2>2. Call(m).h = app.protocol
    BY <2>1 DEF Speaks
  <2>3. CASE Read
    <3> HIDE DEF d, Read
    <3> QED
      BY <1>0, <1>21, <2>1, <2>2, <2>3
  <2>4. CASE Len(calls[m]) = 1 /\ calls[m][1].nexts = 0 /\ calls[m][1].h \in Codecs
    <3>1. Len(ctxs[m]) = 1
      <4>1. calls[m] # <<>> /\ Call(m) = calls[m][1] /\ Call(m).h \notin Routers
        BY <1>2, <2>1, <2>4, HandlerChainAssumption DEF Call, Last
      <4>2. Len(ctxs[m]) = Call(m).ctx /\ calls[m][1].ctx = 1
        <5>1. StackOK(m)
          BY DEF ChainInv, BaseInv
        <5> QED
          BY <4>1, <5>1, Depth DEF Level, Serving, StackOK, Stacked
      <4> QED
        BY <4>1, <4>2
    <3>2. Len(ctxs'[m]) = 1 /\ ctxs'[m][1] = d
      BY <2>1, <3>1 DEF Replaces
    <3>3. \A i \in 1..Len(ctxs'[m]) : ctxs'[m][i].codec = app.protocol
      <4> HIDE DEF d
      <4>1. \A i \in 1..1 : i = 1
        OBVIOUS
      <4> QED
        BY <2>1, <2>2, <3>2, <4>1
    <3> QED
      BY <2>1, <2>2, <3>3 DEF NegOK
  <2> QED
    BY <2>1, <2>3, <2>4 DEF NegOK
<1>7. CASE EnterRouter(m)
  <2> DEFINE n == Len(ctxs[m])
             d == SubContext(Cur(m), Call(m).h)
  <2>1. /\ frame' = frame /\ ctl[m] = "run" /\ Call(m).h \in Routers
        /\ Replaces(ctxs[m], ctxs'[m], n + 1, d)
        /\ d.codec = Cur(m).codec
    BY <1>7, EnterFacts
  <2>2. Read
    BY <1>20, <2>1, HandlerChainAssumption
  <2> HIDE DEF d
  <2>3. d.codec = app.protocol
    BY <1>0, <2>1, <2>2
  <2>4. ASSUME NEW i \in 1..Len(ctxs'[m]) PROVE ctxs'[m][i].codec = app.protocol
    <3>0. n \in Nat
      BY <1>2
    <3>1. Len(ctxs'[m]) = n + 1
      BY <2>1 DEF Replaces
    <3>2. i = n + 1 \/ (i \in 1..n /\ i \in 1..((n + 1) - 1))
      BY <3>0, <3>1
    <3> QED
      BY <2>1, <2>2, <2>3, <3>2 DEF Replaces
  <2> QED
    BY <2>1, <2>2, <2>4 DEF NegOK
<1>8. CASE NextRunsHandler(m)
  <2>1. PICK d \in Context :
           /\ Replaces(ctxs[m], ctxs'[m], Len(ctxs[m]), d)
           /\ Forward(Cur(m), d) /\ Nexting(m)
           /\ <<d.node, d.index>> \in Ahead(Cur(m))
           /\ \A p \in Ahead(Cur(m)) : ~Before(p, <<d.node, d.index>>)
           /\ calls' = [calls EXCEPT ![m] =
                Append(@, [h |-> NodeOf(d).handlers[d.index], nexts |-> 0, ctx |-> Len(ctxs[m])])]
           /\ ctl' = [ctl EXCEPT ![m] = "run"] /\ frame' = frame
           /\ NodeOf(d).handlers[d.index] \in Handlers
    BY <1>8, RunsFacts
  <2>2. ctl[m] \in {"next", "auto"} /\ ctl'[m] = "run"
    BY <1>1, <2>1 DEF Nexting, TypeOK
  <2>3. CASE Read
    <3>1. d.codec = app.protocol
      BY <1>0, <2>1, <2>2, <2>3 DEF Forward
    <3> HIDE DEF Read
    <3> QED
      BY <1>0, <1>21, <2>1, <2>2, <2>3, <3>1
  <2>4. CASE Len(calls[m]) = 0 /\ Len(ctxs[m]) = 1 /\ ctxs[m][1] = NewContext
    <3>1. Cur(m) = NewContext
      BY <2>4 DEF Cur, Last
    <3>2. d.node \in Nat /\ d.index \in Nat
      BY DEF Context
    <3>3. d.node = 1 /\ d.index = 1
      BY <2>1, <3>1, <3>2, FirstRuns
    <3> DEFINE h == NodeOf(d).handlers[d.index]
    <3>4. d.router = Root
      BY <2>1, <3>1 DEF Forward, NewContext
    <3>5. h \in Codecs
      BY <3>3, <3>4 DEF NodeOf, Chain, CodecFirst
    <3>6. calls' = [calls EXCEPT ![m] = Append(@, [h |-> h, nexts |-> 0, ctx |-> Len(ctxs[m])])]
      BY <2>1
    <3> HIDE DEF h
    <3>7. h \in Handlers
      BY <3>5 DEF Handlers
    <3>8. Len(calls'[m]) = Len(calls[m]) + 1 /\ calls'[m][Len(calls'[m])].h = h
          /\ calls'[m][Len(calls'[m])].nexts = 0
      BY <3>6, <3>7, PushedFresh
    <3> QED
      BY <2>2, <2>4, <3>5, <3>8 DEF NegOK
  <2> QED
    BY <2>2, <2>3, <2>4 DEF NegOK
<1>9. CASE Returning(m)
  <2>1. PICK d \in Context :
           /\ Relays(ctxs[m], ctxs'[m], Len(ctxs[m]), d)
           /\ Forward(Cur(m), d) /\ frame' = frame
           /\ Nexting(m)
           /\ ctl' = [ctl EXCEPT ![m] = IF calls[m] = <<>> THEN "finish" ELSE "run"]
    BY <1>9, ReturningFacts
  <2>2. ctl[m] \in {"next", "auto"} /\ ctl'[m] = IF calls[m] = <<>> THEN "finish" ELSE "run"
    BY <1>1, <2>1 DEF Nexting, TypeOK
  <2>3. CASE Read
    <3>1. d.codec = app.protocol
      BY <1>0, <2>1, <2>2, <2>3 DEF Forward
    <3> HIDE DEF Read
    <3> QED
      BY <1>0, <1>21, <2>1, <2>2, <2>3, <3>1
  <2>4. CASE Len(calls[m]) = 0
    BY <1>2, <2>2, <2>4 DEF NegOK
  <2> QED
    BY <2>2, <2>3, <2>4 DEF NegOK
<1>10. ASSUME NEW n \in 1..Len(ctxs[m]), NEW c \in Context, NEW d \in Context, Left(m, n, c, d), ctl[m] = "run",
              c.codec = ctxs[m][n].codec, frame' = frame
       PROVE  NegOK(m)'
  <2>1. Relays(ctxs[m], ctxs'[m], n, d) /\ d.codec = c.codec
        /\ ctl'[m] = IF Len(calls[m]) = 1 THEN "finish" ELSE "run"
    BY <1>1, <1>10 DEF Left, Forward, TypeOK
  <2>2. CASE Read
    <3>1. d.codec = app.protocol
      BY <1>10, <2>1, <2>2
    <3> HIDE DEF Read
    <3> QED
      BY <1>10, <1>21, <2>1, <2>2, <3>1
  <2>3. CASE Len(calls[m]) = 1
    BY <2>1, <2>3 DEF NegOK
  <2> QED
    BY <1>10, <2>2, <2>3 DEF NegOK
<1>11. CASE Returned(m)
  <2>1. PICK c \in Context, d \in Context :
           /\ Left(m, Len(ctxs[m]), c, d)
           /\ c.codec = Cur(m).codec
           /\ ctl[m] = "run" /\ frame' = frame
    BY <1>11, ReturnedFacts
  <2> QED
    BY <1>0, <1>10, <2>1
<1>12. CASE LeaveRouter(m)
  <2> DEFINE n == Len(ctxs[m])
             p == ctxs[m][n - 1]
  <2>1. /\ n \in Nat /\ n >= 2 /\ Serving(Call(m)) /\ ctl[m] = "run"
        /\ p \in Context /\ frame' = frame
        /\ \/ /\ Replaces(ctxs[m], ctxs'[m], n - 1, p)
              /\ ctl' = [ctl EXCEPT ![m] = "next"]
           \/ \E d \in Context : Left(m, n - 1, p, d)
    BY <1>12, LeavingFacts
  <2>2. n - 1 \in 1..Len(ctxs[m]) /\ Read
    BY <1>20, <2>1 DEF Serving
  <2>3. CASE Replaces(ctxs[m], ctxs'[m], n - 1, p)
    <3>1. p.codec = app.protocol
      BY <2>2
    <3> HIDE DEF n, p, Read
    <3> QED
      BY <1>21, <2>1, <2>2, <2>3, <3>1
  <2>4. CASE \E d \in Context : Left(m, n - 1, p, d)
    BY <1>10, <2>1, <2>2, <2>4
  <2> QED
    BY <2>1, <2>3, <2>4
<1> QED
  BY <1>3, <1>4, <1>5, <1>6, <1>7, <1>8, <1>9, <1>11, <1>12
     DEF Steps, Quiet, Works, Returning, Returned

(* For all messages                                                        *)
NegInv == CodecFirst(app) /\ app.protocol # None => \A m \in Msgs : NegOK(m)

(* What is not decoded has come no further than the codec, for ever.       *)
LEMMA NegInvHolds == Spec => []NegInv
<1>1. Init => NegInv
  BY DEF Init, NegInv, NegOK
<1>2. ASSUME ChainInv, NegInv, [Next]_vars PROVE NegInv'
  <2>0. app' = app
    BY <1>2, AppFixed
  <2> SUFFICES ASSUME CodecFirst(app), app.protocol # None, NEW m \in Msgs PROVE NegOK(m)'
    BY <2>0 DEF NegInv
  <2>1. TypeOK /\ NegOK(m)
    BY <1>2 DEF ChainInv, BaseInv, NegInv
  <2>2. CASE Steps(m)
    BY <1>2, <2>0, <2>1, <2>2, NegStep
  <2>3. CASE Untouched(m)
    BY <2>0, <2>1, <2>3 DEF Untouched, NegOK
  <2> QED
    BY <1>2, <2>1, <2>2, <2>3, StepCases
<1> QED
  BY <1>1, <1>2, ChainInvHolds, PTL DEF Spec

(* In applications that begin with a codec wherever there is a             *)
(* subprotocol, no function sees a message that is not in it, however many *)
(* codecs follow.                                                          *)
THEOREM NegotiatedOnly ==
  ASSUME \A s \in Setups : CodecFirst(s)
  PROVE  Spec => []OnlyNegotiated
<1>1. ChainInv /\ NegInv => OnlyNegotiated
  <2> SUFFICES ASSUME ChainInv, NegInv, NEW m \in Msgs, ctl[m] = "run", Call(m).h \in Funcs, app.protocol # None
               PROVE  Cur(m).codec = app.protocol /\ frame[m].format = app.protocol
    BY DEF OnlyNegotiated
  <2>1. app \in Setups
    BY DEF ChainInv, BaseInv, TypeOK
  <2>2. NegOK(m)
    BY <2>1 DEF NegInv
  <2>3. Len(ctxs[m]) \in 1..Len(ctxs[m]) /\ Cur(m) = ctxs[m][Len(ctxs[m])]
    BY CurFacts DEF ChainInv
  <2>4. ~(Len(calls[m]) = 1 /\ calls[m][1].h \in Codecs)
    BY HandlerChainAssumption DEF Call, Last
  <2> QED
    BY <2>2, <2>3, <2>4 DEF NegOK
<1> QED
  BY <1>1, ChainInvHolds, NegInvHolds, PTL
=============================================================================
