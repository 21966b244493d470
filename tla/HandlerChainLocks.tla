------------------------- MODULE HandlerChainLocks --------------------------
(***************************************************************************)
(* Conversations in HandlerChain: the messages of one ID take turns in the *)
(* chain, through all routers, and one that waits for its turn waits for   *)
(* another that is going to release the lock.                              *)
(***************************************************************************)
EXTENDS HandlerChainTheorems

(* Applications that hold conversations: there is one codec of each kind,  *)
(* in the root router, and only handlers of the root router receive.       *)
Conversational(a) ==
    /\ a.kind = "normal"
    /\ Root \notin Mounts(a)
    /\ \A r \in Mounts(a) :
        /\ HandlersOf(a.chain[r]) \cap Codecs = {}
        /\ \A x \in HandlersOf(a.chain[r]) \cap Funcs : "receive" \notin a.able[x]
    /\ \A n, k \in 1..Len(a.chain[Root]) :
        \A i \in 1..Len(a.chain[Root][n].handlers), j \in 1..Len(a.chain[Root][k].handlers) :
            LET h == a.chain[Root][n].handlers[i] IN
            h \in Codecs /\ h = a.chain[Root][k].handlers[j] => n = k /\ i = j

(* Contexts of mounted routers have the ID, keep the message, and have     *)
(* made no receiver.                                                       *)
Below(S) ==
    \A i \in 2..Len(S) : ~S[i].gone /\ ~S[i].owns /\ S[i].id = S[1].id /\ ~S[1].gone

(* A context with an ID is behind the codec that set it.                   *)
Passed(a, f, c) ==
    c.id # NoId =>
        \A n \in 1..Len(a.chain[Root]) : \A i \in 1..Len(a.chain[Root][n].handlers) :
            a.chain[Root][n].handlers[i] = f.format => ~Before(<<c.node, c.index>>, <<n, i>>)

(* What control says of the message: who waits or sleeps is in the root    *)
(* router and has it, who is stuck has none, a chain goes on without one   *)
(* only to be refused, and a codec that has just started sees no ID.       *)
Turn(m) ==
    ctl[m] # "idle" =>
        /\ ctl[m] # "auto"
        /\ Below(ctxs[m])
        /\ ctl[m] \in {"waiting", "asleep"} =>
             Len(ctxs[m]) = 1 /\ ctxs[m][1].id # NoId /\ ~ctxs[m][1].gone
        /\ ctl[m] = "stuck" => ctxs[m][1].gone
        /\ ctl[m] = "next" /\ ctxs[m][1].gone => ctxs[m][1].error \/ closed
        /\ calls[m] # <<>> /\ calls[m][Len(calls[m])].nexts = 0 =>
             /\ ~ctxs[m][1].gone
             /\ calls[m][Len(calls[m])].h = frame[m].format => ctxs[m][1].id = NoId
        /\ Passed(app, frame[m], ctxs[m][1])

(* What is not before is not before what follows.                          *)
LEMMA NotBeforeOn ==
  ASSUME NEW a \in Nat, NEW b \in Nat, NEW c \in Nat, NEW d \in Nat, NEW x \in Nat, NEW y \in Nat,
         ~Before(<<a, b>>, <<x, y>>), ~Before(<<c, d>>, <<a, b>>)
  PROVE  ~Before(<<c, d>>, <<x, y>>)
BY DEF Before

(* A context that has passed the codec has passed it when it goes on.      *)
LEMMA PassedOn ==
  ASSUME app \in Setups, NEW f, NEW c \in Context, NEW d \in Context, Passed(app, f, c), d.id = c.id,
         ~Before(<<d.node, d.index>>, <<c.node, c.index>>)
  PROVE  Passed(app, f, d)
<1> SUFFICES ASSUME c.id # NoId, NEW n \in 1..Len(app.chain[Root]),
                    NEW i \in 1..Len(app.chain[Root][n].handlers),
                    app.chain[Root][n].handlers[i] = f.format
             PROVE  ~Before(<<d.node, d.index>>, <<n, i>>)
  BY DEF Passed
<1>1. ~Before(<<c.node, c.index>>, <<n, i>>)
  BY DEF Passed
<1>2. c.node \in Nat /\ c.index \in Nat /\ d.node \in Nat /\ d.index \in Nat
  BY DEF Context
<1>3. Root \in Routers
  BY HandlerChainAssumption
<1>4. n \in Nat
  OBVIOUS
<1>5. i \in Nat
  OBVIOUS
<1> QED
  BY <1>1, <1>2, <1>4, <1>5, NotBeforeOn

(* What becomes of the contexts when one of them moves and those above it  *)
(* are gone                                                                *)
LEMMA RootKept ==
  ASSUME ChainInv, NEW m \in Msgs, ctl[m] # "idle", Below(ctxs[m]), Passed(app, frame[m], ctxs[m][1]),
         NEW n \in 1..Len(ctxs[m]), NEW d \in Context,
         Replaces(ctxs[m], ctxs'[m], n, d) \/ Relays(ctxs[m], ctxs'[m], n, d),
         d.id = ctxs[m][n].id,
         n = 1 \/ (d.gone = ctxs[m][n].gone /\ d.owns = ctxs[m][n].owns),
         ~Before(<<d.node, d.index>>, <<ctxs[m][n].node, ctxs[m][n].index>>)
  PROVE  LET c1 == ctxs[m][1] d1 == ctxs'[m][1] IN
         /\ Below(ctxs'[m]) /\ Passed(app, frame[m], d1) /\ d1.id = c1.id
         /\ n = 1 => d1 = d
         /\ n # 1 => ~c1.gone /\ ~d1.gone
         /\ Len(ctxs'[m]) = n
<1> DEFINE S == ctxs[m]
           T == ctxs'[m]
<1>1. /\ n \in Nat /\ n >= 1 /\ Len(T) = n /\ T[n] = d
      /\ \A i \in 1..(n - 1) : SamePlace(S[i], T[i])
  BY BelowSame
<1>2. /\ app \in Setups /\ Len(S) \in Nat /\ \A i \in 1..Len(S) : S[i] \in Context
      /\ 1 \in 1..Len(S)
  BY StackTypes DEF ChainInv, BaseInv, TypeOK
<1> HIDE DEF S, T
<1>3. CASE n = 1
  <2>1. Below(T)
    BY <1>1, <1>3 DEF Below
  <2>2. Passed(app, frame[m], d)
    BY <1>2, <1>3, PassedOn DEF S
  <2> QED
    BY <1>1, <1>3, <2>1, <2>2 DEF S, T
<1>4. CASE n # 1
  <2>1. n > 1 /\ 1 \in 1..(n - 1) /\ n \in 2..Len(S)
    BY <1>1, <1>2, <1>4 DEF S
  <2>2. ~S[1].gone /\ SamePlace(S[1], T[1]) /\ T[1].id = S[1].id /\ ~T[1].gone
    BY <1>1, <2>1 DEF SamePlace, Below, S
  <2>3. ASSUME NEW i \in 2..Len(T)
        PROVE  ~T[i].gone /\ ~T[i].owns /\ T[i].id = T[1].id
    <3>1. CASE i = n
      <4>1. ~S[n].gone /\ ~S[n].owns /\ S[n].id = S[1].id
        BY <2>1 DEF Below, S
      <4> QED
        BY <1>1, <1>4, <2>2, <3>1, <4>1 DEF S
    <3>2. CASE i # n
      <4>1. i \in 1..(n - 1) /\ i \in 2..Len(S)
        BY <1>1, <1>2, <2>1, <3>2
      <4>2. SamePlace(S[i], T[i]) /\ ~S[i].gone /\ ~S[i].owns /\ S[i].id = S[1].id
        BY <1>1, <4>1 DEF Below, S
      <4> QED
        BY <2>2, <4>2 DEF SamePlace
    <3> QED
      BY <3>1, <3>2
  <2>4. Below(T)
    BY <2>2, <2>3 DEF Below
  <2>5. Passed(app, frame[m], T[1])
    <3>1. T[1].id = S[1].id /\ T[1].node = S[1].node /\ T[1].index = S[1].index
      BY <2>2 DEF SamePlace
    <3> QED
      BY <3>1 DEF Passed, S
  <2> QED
    BY <1>1, <1>4, <2>2, <2>4, <2>5 DEF S, T
<1> QED
  BY <1>3, <1>4

(* Of course.                                                              *)
LEMMA FirstBelow == ASSUME NEW l \in Nat, l \in 1..l, l # 1 PROVE 1 \in 1..(l - 1)
OBVIOUS

(* Of course.                                                              *)
LEMMA OneLess == ASSUME NEW l \in Nat, l >= 2 PROVE l # 1 /\ l - 1 \in 1..l
OBVIOUS

(* Of course.                                                              *)
LEMMA TwoUp == ASSUME NEW l \in Nat, l \in 1..l, l # 1 PROVE l \in 2..l
OBVIOUS

(* Handlers that only the root router has are given the root context.      *)
LEMMA OnlyInRoot ==
  ASSUME Conversational(app), NEW control, NEW S \in Seq(Context), NEW K \in Seq(CallType),
         Stacked(control, S, K), K # <<>>, ~Serving(K[Len(K)]),
         \A i \in 2..Len(S) : S[i].router \in Mounts(app),
         \A i \in 1..Len(K) : K[i].h \in HandlersOf(app.chain[S[K[i].ctx].router]),
         LET h == K[Len(K)].h IN h \in Codecs \/ (h \in Funcs /\ "receive" \in app.able[h])
  PROVE  Len(S) = 1
<1>1. Len(K) \in Nat /\ Len(K) \in 1..Len(K) /\ Len(S) \in Nat
  BY EmptyOrNot
<1>2. Len(S) = K[Len(K)].ctx
  BY <1>1 DEF Stacked, Level
<1>3. Len(S) \in 1..Len(S)
  BY <1>1, <1>2, CallLevels
<1>4. K[Len(K)].h \in HandlersOf(app.chain[S[Len(S)].router])
  BY <1>1, <1>2
<1>5. CASE Len(S) # 1
  <2>1. Len(S) \in 2..Len(S)
    BY <1>1, <1>3, <1>5, TwoUp
  <2>2. S[Len(S)].router \in Mounts(app)
    BY <2>1
  <2> QED
    BY <1>4, <2>2 DEF Conversational
<1> QED
  BY <1>5

(* That is so for codecs and handlers that receive.                        *)
LEMMA InRoot ==
  ASSUME ChainInv, Conversational(app), NEW m \in Msgs, ctl[m] = "run",
         Call(m).h \in Codecs \/ (Call(m).h \in Funcs /\ "receive" \in app.able[Call(m).h])
  PROVE  Len(ctxs[m]) = 1 /\ Cur(m) = ctxs[m][1]
<1>1. /\ StackOK(m) /\ ContextsOK(m)
      /\ Cur(m) = ctxs[m][Len(ctxs[m])]
      /\ ctxs[m] \in Seq(Context) /\ calls[m] # <<>>
      /\ calls[m] \in Seq(CallType)
      /\ Call(m) = calls[m][Len(calls[m])]
  BY RunFacts DEF ChainInv
<1>2. ~Serving(Call(m))
  BY HandlerChainAssumption DEF Serving
<1>3. Len(ctxs[m]) = 1
  BY <1>1, <1>2, OnlyInRoot DEF StackOK, ContextsOK, RoutersOK, CallsOK
<1> QED
  BY <1>1, <1>3

(* The place of a handler of the root router                               *)
LEMMA HandlerAt ==
  ASSUME app \in Setups, NEW c \in Context, c.router = Root, CtxOK(app, c), NEW h, AtHandler(app, c, h)
  PROVE  /\ c.node \in 1..Len(app.chain[Root])
         /\ c.index \in 1..Len(app.chain[Root][c.node].handlers)
         /\ h = app.chain[Root][c.node].handlers[c.index]
<1>1. c.node \in Nat /\ c.index \in Nat /\ c.matches /\ c.index >= 1
  BY DEF Context, AtHandler
<1>2. app.chain[Root] \in Seq(Node)
  BY AppOK, HandlerChainAssumption
<1>3. /\ c.node \in 1..(Len(app.chain[Root]) + 1) /\ c.node <= Len(app.chain[Root])
      /\ c.index <= Len(app.chain[Root][c.node].handlers)
      /\ h = app.chain[Root][c.node].handlers[c.index]
  BY <1>1 DEF CtxOK, AtHandler
<1>4. c.node \in 1..Len(app.chain[Root])
  BY <1>1, <1>2, <1>3
<1>5. Len(app.chain[Root][c.node].handlers) \in Nat
  <2>1. app.chain[Root][c.node].handlers \in Seq(Handlers)
    BY <1>4, AppOK, HandlerChainAssumption
  <2> QED
    BY <2>1, EmptyOrNot
<1>6. c.index \in 1..Len(app.chain[Root][c.node].handlers)
  BY <1>1, <1>3, <1>5
<1> QED
  BY <1>3, <1>4, <1>6

(* A codec that is started has not set an ID before.                       *)
LEMMA CodecFresh ==
  ASSUME ChainInv, ChainInv', Conversational(app), app' = app, NEW m \in Msgs, NextRunsHandler(m),
         Passed(app, frame[m], ctxs[m][1]),
         calls'[m][Len(calls'[m])].h = frame[m].format
  PROVE  ctxs[m][1].id = NoId
<1> DEFINE c == Cur(m)
           S == ctxs'[m]
           K == calls'[m]
<1>1. PICK d \in Context :
           /\ Replaces(ctxs[m], S, Len(ctxs[m]), d) /\ Nexting(m)
           /\ Before(<<c.node, c.index>>, <<d.node, d.index>>)
           /\ calls' = [calls EXCEPT ![m] =
                Append(@, [h |-> NodeOf(d).handlers[d.index], nexts |-> 0, ctx |-> Len(ctxs[m])])]
           /\ ctl' = [ctl EXCEPT ![m] = "run"] /\ frame' = frame
           /\ NodeOf(d).handlers[d.index] \in Handlers
  BY RunsFacts
<1>2. /\ Len(ctxs[m]) \in 1..Len(ctxs[m]) /\ Len(ctxs[m]) \in Nat /\ c = ctxs[m][Len(ctxs[m])]
  BY <1>1, CurFacts DEF ChainInv, Nexting
<1>3. Len(S) = Len(ctxs[m]) /\ S[Len(S)] = d
  BY <1>1, <1>2, BelowSame
<1>4. /\ Len(K) = Len(calls[m]) + 1 /\ K[Len(K)].nexts = 0
  BY <1>1, PushedFresh
<1>5. ctl'[m] = "run" /\ frame[m] \in Frame /\ app \in Setups
  BY <1>1 DEF ChainInv, BaseInv, TypeOK, FramesRead, Nexting
<1>6. frame[m].format \in Codecs
  BY <1>5 DEF Frame
<1>7. /\ Stacked("run", S, K) /\ S \in Seq(Context) /\ K \in Seq(CallType)
      /\ (S # <<>> => S[1].router = Root)
      /\ \A i \in 2..Len(S) : S[i].router \in Mounts(app)
      /\ \A i \in 1..Len(K) : K[i].h \in HandlersOf(app.chain[S[K[i].ctx].router])
      /\ \A i \in 1..Len(S) : CtxOK(app, S[i])
      /\ K[Len(K)].nexts = 0 => AtHandler(app, S[Len(S)], K[Len(K)].h)
  <2>1. StackOK(m)' /\ ContextsOK(m)' /\ TypeOK'
    BY DEF ChainInv, BaseInv
  <2> QED
    BY <1>5, <2>1 DEF StackOK, ContextsOK, RoutersOK, CallsOK, PlacesOK, FreshOK, TypeOK, CallType
<1> HIDE DEF S, K, c
<1>8. Len(S) = 1
  <2>1. K # <<>> /\ ~Serving(K[Len(K)])
    <3>1. Len(calls[m]) \in Nat
      BY StackTypes DEF ChainInv, BaseInv
    <3>2. Len(K) # 0
      BY <1>4, <3>1
    <3> QED
      BY <1>4, <1>7, <3>2, EmptyOrNot DEF Serving
  <2> QED
    BY <1>6, <1>7, <2>1, OnlyInRoot DEF K
<1>9. c = ctxs[m][1] /\ d = S[1] /\ S # <<>>
  <2>1. Len(ctxs[m]) = 1
    BY <1>3, <1>8
  <2>2. S # <<>>
    BY <1>7 DEF Stacked
  <2>3. S[Len(S)] = S[1]
    BY <1>8
  <2>4. d = S[1]
    BY <1>3, <2>3
  <2> QED
    BY <1>2, <2>1, <2>2, <2>4
<1>10. d.router = Root /\ CtxOK(app, d) /\ AtHandler(app, d, frame[m].format)
  <2>1. 1 \in 1..Len(S)
    BY <1>8
  <2> QED
    BY <1>3, <1>4, <1>7, <1>9, <2>1 DEF K
<1>11. /\ d.node \in 1..Len(app.chain[Root])
       /\ d.index \in 1..Len(app.chain[Root][d.node].handlers)
       /\ frame[m].format = app.chain[Root][d.node].handlers[d.index]
  BY <1>5, <1>10, HandlerAt
<1>12. Before(<<c.node, c.index>>, <<d.node, d.index>>)
  BY <1>1
<1> QED
  BY <1>9, <1>11, <1>12 DEF Passed

(* There is one codec of each kind.                                        *)
LEMMA OneCodec ==
  ASSUME Conversational(app), NEW n \in 1..Len(app.chain[Root]), NEW k \in 1..Len(app.chain[Root]),
         NEW i \in 1..Len(app.chain[Root][n].handlers), NEW j \in 1..Len(app.chain[Root][k].handlers),
         app.chain[Root][n].handlers[i] \in Codecs,
         app.chain[Root][n].handlers[i] = app.chain[Root][k].handlers[j]
  PROVE  n = k /\ i = j
BY ZenonT(30) DEF Conversational

(* What has passed a codec has passed the only one of this kind.           *)
LEMMA CodecOnce ==
  ASSUME ChainInv, Conversational(app), NEW m \in Msgs, ctl[m] = "run",
         Call(m).h \in Codecs, Call(m).nexts = 0, Call(m).h = frame[m].format, NEW c \in Context,
         c.node = Cur(m).node, c.index = Cur(m).index
  PROVE  Passed(app, frame[m], c)
<1> DEFINE d == Cur(m)
<1>1. /\ ContextsOK(m) /\ d \in Context /\ d = ctxs[m][Len(ctxs[m])] /\ CtxOK(app, d)
      /\ Call(m) = calls[m][Len(calls[m])] /\ ctxs[m] # <<>> /\ app \in Setups
  BY RunFacts DEF ChainInv
<1>2. AtHandler(app, d, Call(m).h)
  BY <1>1 DEF ContextsOK, FreshOK
<1>3. d.router = Root
  BY <1>1, InRoot DEF ContextsOK, RoutersOK
<1> HIDE DEF d
<1>4. /\ d.node \in 1..Len(app.chain[Root])
      /\ d.index \in 1..Len(app.chain[Root][d.node].handlers)
      /\ Call(m).h = app.chain[Root][d.node].handlers[d.index]
  BY <1>1, <1>2, <1>3, HandlerAt
<1> SUFFICES ASSUME NEW n \in 1..Len(app.chain[Root]), NEW i \in 1..Len(app.chain[Root][n].handlers),
                    app.chain[Root][n].handlers[i] = frame[m].format
             PROVE  ~Before(<<c.node, c.index>>, <<n, i>>)
  BY DEF Passed
<1>5. n = d.node /\ i = d.index
  <2>1. PICK k \in 1..Len(app.chain[Root]) : k = d.node
    BY <1>4
  <2>5. PICK j \in 1..Len(app.chain[Root][k].handlers) :
            j = d.index /\ Call(m).h = app.chain[Root][k].handlers[j]
    BY <1>4, <2>1
  <2>2. app.chain[Root][n].handlers[i] \in Codecs
    OBVIOUS
  <2>3. app.chain[Root][n].handlers[i] = app.chain[Root][k].handlers[j]
    BY <2>5
  <2>4. n = k /\ i = j
    BY <2>2, <2>3, OneCodec
  <2> QED
    BY <2>1, <2>4, <2>5
<1>6. n \in Nat
  OBVIOUS
<1>7. i \in Nat
  OBVIOUS
<1> QED
  BY <1>5, <1>6, <1>7, BeforeTotal DEF d

-----------------------------------------------------------------------------
(* One goroutine.  Its steps keep Turn, group by group.                    *)
LEMMA ClosedKept == ASSUME NEW m \in Msgs, Steps(m) PROVE closed' = closed
BY DEF Steps, Start, Finish, NextRefused, NextBeyondEnd, NextHandsOver, NextRunsHandler,
       EnterRouter, LeaveRouter, RouterReturns, DecodeRefused, DecodeSkipped, Decoded, CodecReturns,
       LockTaken, LockGivenUp, CallNext, NothingLeft, LockedOut, FuncReturns,
       SetError, ClearError, SetMessagePath, Set, Delete, Receive, TakeMessage, ReceiveCancelled,
       shared

(* What the invariants say of a message that is in the chain               *)
LEMMA TurnParts ==
  ASSUME ChainInv, Conversational(app), NEW m \in Msgs, Turn(m), ctl[m] # "idle"
  PROVE  /\ app.kind = "normal" /\ ~GoesOn /\ app \in Setups
         /\ Len(ctxs[m]) \in Nat /\ 1 \in 1..Len(ctxs[m]) /\ Len(ctxs[m]) \in 1..Len(ctxs[m])
         /\ Len(ctxs[m]) >= 1
         /\ \A i \in 1..Len(ctxs[m]) : ctxs[m][i] \in Context
         /\ Cur(m) = ctxs[m][Len(ctxs[m])] /\ Cur(m) \in Context
         /\ Below(ctxs[m]) /\ Passed(app, frame[m], ctxs[m][1]) /\ ctl[m] # "auto"
         /\ Cur(m).id = ctxs[m][1].id /\ Cur(m).gone = ctxs[m][1].gone
         /\ Len(ctxs[m]) # 1 => ~ctxs[m][1].gone /\ ~Cur(m).gone /\ ~Cur(m).owns
         /\ ctl[m] = "next" /\ calls[m] # <<>> => calls[m][Len(calls[m])].nexts # 0
         /\ frame[m] \in Frame
<1>1. /\ app.kind = "normal" /\ app \in Setups /\ frame[m] \in Frame
      /\ Below(ctxs[m]) /\ Passed(app, frame[m], ctxs[m][1]) /\ ctl[m] # "auto"
  BY DEF Conversational, Turn, ChainInv, BaseInv, TypeOK, FramesRead
<1>2. /\ Len(ctxs[m]) \in Nat /\ Len(ctxs[m]) >= 1 /\ Cur(m) \in Context /\ Cur(m) = ctxs[m][Len(ctxs[m])]
      /\ StackOK(m)
  BY CurFacts DEF ChainInv
<1>3. /\ Len(ctxs[m]) \in Nat /\ 1 \in 1..Len(ctxs[m]) /\ Len(ctxs[m]) \in 1..Len(ctxs[m])
  BY <1>2
<1>4. \A i \in 1..Len(ctxs[m]) : ctxs[m][i] \in Context
  BY StackTypes DEF ChainInv, BaseInv
<1>5. Len(ctxs[m]) # 1 => Len(ctxs[m]) \in 2..Len(ctxs[m])
  BY <1>3, TwoUp
<1>6. Len(ctxs[m]) # 1 => /\ ~ctxs[m][1].gone /\ ~Cur(m).gone /\ ~Cur(m).owns
                          /\ Cur(m).id = ctxs[m][1].id
  BY <1>1, <1>2, <1>5 DEF Below
<1>7. Cur(m).id = ctxs[m][1].id /\ Cur(m).gone = ctxs[m][1].gone
  <2>1. CASE Len(ctxs[m]) = 1
    BY <1>2, <2>1
  <2>2. CASE Len(ctxs[m]) # 1
    <3>1. Cur(m).gone \in BOOLEAN /\ ctxs[m][1].gone \in BOOLEAN
      BY <1>2, <1>3, <1>4 DEF Context
    <3> QED
      BY <1>6, <2>2, <3>1
  <2> QED
    BY <2>1, <2>2
<1>8. ctl[m] = "next" /\ calls[m] # <<>> => calls[m][Len(calls[m])].nexts # 0
  <2> SUFFICES ASSUME ctl[m] = "next", calls[m] # <<>> PROVE calls[m][Len(calls[m])].nexts # 0
    OBVIOUS
  <2>1. calls[m][Len(calls[m])].nexts >= 1
    BY <1>2 DEF StackOK, Stacked
  <2>2. calls[m][Len(calls[m])].nexts \in 0..2
    BY CallFacts DEF ChainInv, BaseInv, TypeOK, CallType, Call, Last
  <2> QED
    BY <2>1, <2>2
<1> QED
  BY <1>1, <1>2, <1>3, <1>4, <1>6, <1>7, <1>8 DEF GoesOn

(* A message that starts has no ID.                                        *)
LEMMA TurnStart ==
  ASSUME ChainInv, NEW m \in Msgs, Start(m) PROVE Turn(m)'
<1>1. /\ ctxs'[m] = <<NewContext>> /\ Len(ctxs'[m]) = 1 /\ calls'[m] = <<>> /\ ctl'[m] = "next"
  BY StartFacts DEF ChainInv, BaseInv, TypeOK
<1>2. ctxs'[m][1].id = NoId /\ ~ctxs'[m][1].gone
  BY <1>1 DEF NewContext
<1>3. Below(ctxs'[m])
  BY <1>1 DEF Below
<1> QED
  BY <1>1, <1>2, <1>3 DEF Turn, Passed

(* Steps that leave the contexts alone                                     *)
LEMMA TurnQuiet ==
  ASSUME ChainInv, Conversational(app), NEW m \in Msgs, Turn(m), Quiet(m), app' = app, closed' = closed
  PROVE  Turn(m)'
<1>1. /\ ctxs' = ctxs /\ frame' = frame /\ ctl[m] # "idle" /\ Cur(m)' = Cur(m)
      /\ \/ Finish(m) /\ ctl'[m] = "ended" /\ calls' = calls
         \/ CallNext(m) /\ ctl[m] = "run" /\ ctl'[m] = "next"
            /\ Call(m).h \in Funcs /\ Nexts(m, Call(m).nexts + 1) /\ Call(m).nexts + 1 \in {1, 2}
         \/ DecodeSkipped(m) /\ ctl[m] = "run" /\ ctl'[m] = "next"
            /\ Call(m).h \in Codecs /\ Nexts(m, 1)
         \/ LockedOut(m) /\ ctl[m] = "run" /\ ctl'[m] = "stuck" /\ calls' = calls
         \/ (LockTaken(m) \/ LockGivenUp(m)) /\ ctl[m] = "waiting" /\ ctl'[m] = "next"
            /\ calls' = calls
         \/ (TakeMessage(m) \/ ReceiveCancelled(m)) /\ ctl[m] = "asleep" /\ ctl'[m] = "run"
            /\ calls' = calls
  BY QuietFacts
<1>2. /\ app.kind = "normal" /\ Below(ctxs[m]) /\ Passed(app, frame[m], ctxs[m][1])
      /\ Cur(m).gone = ctxs[m][1].gone
      /\ ctxs[m][1].gone => Cur(m) = ctxs[m][1]
  BY <1>1, TurnParts
<1>3. CASE Finish(m) /\ ctl'[m] = "ended" /\ calls' = calls
  BY <1>1, <1>2, <1>3 DEF Turn
<1>4. CASE CallNext(m) \/ DecodeSkipped(m)
  <2>1. /\ ctl[m] = "run" /\ ctl'[m] = "next"
    BY <1>4 DEF CallNext, DecodeSkipped, Doing, Running, ChainInv, BaseInv, TypeOK
  <2>2. calls'[m] # <<>> /\ calls'[m][Len(calls'[m])].nexts # 0
    <3>1. PICK k \in {1, 2} : Nexts(m, k)
      <4>1. CASE CallNext(m)
        BY <4>1 DEF CallNext, Doing
      <4>2. CASE DecodeSkipped(m)
        BY <4>2 DEF DecodeSkipped
      <4> QED
        BY <1>4, <4>1, <4>2
    <3>2. calls[m] # <<>> /\ calls \in [Msgs -> Seq(CallType)]
      BY <2>1, RunFacts DEF ChainInv
    <3>3. k \in 0..2 /\ k # 0
      OBVIOUS
    <3> QED
      BY <3>1, <3>2, <3>3, NextsMove
  <2>3. ctxs[m][1].gone => ctxs[m][1].error \/ closed
    <3>1. CASE CallNext(m)
      <4>1. Cur(m).gone => Cur(m).error \/ closed
        BY <3>1 DEF CallNext, Refused
      <4> QED
        BY <1>2, <4>1
    <3>2. CASE DecodeSkipped(m)
      <4>1. Call(m).nexts = 0 /\ calls[m] # <<>>
        BY <2>1, <3>2, RunFacts DEF DecodeSkipped, Running, ChainInv
      <4> QED
        BY <1>1, <4>1 DEF Turn, Call, Last
    <3> QED
      BY <1>4, <3>1, <3>2
  <2> QED
    BY <1>1, <1>2, <2>1, <2>2, <2>3 DEF Turn
<1>5. CASE LockedOut(m) /\ ctl[m] = "run" /\ ctl'[m] = "stuck" /\ calls' = calls
  <2>1. Cur(m).mu # "free"
    BY <1>5 DEF LockedOut
  <2>2. Cur(m).gone
    BY <1>1, <2>1, CurFacts DEF CtxOK, ChainInv
  <2> QED
    BY <1>1, <1>2, <1>5, <2>2 DEF Turn
<1>6. CASE (LockTaken(m) \/ LockGivenUp(m)) /\ ctl[m] = "waiting" /\ ctl'[m] = "next" /\ calls' = calls
  BY <1>1, <1>2, <1>6 DEF Turn
<1>7. CASE (TakeMessage(m) \/ ReceiveCancelled(m)) /\ ctl[m] = "asleep" /\ ctl'[m] = "run" /\ calls' = calls
  BY <1>1, <1>2, <1>7 DEF Turn
<1> QED
  BY <1>1, <1>3, <1>4, <1>5, <1>6, <1>7

(* Receivers are of handlers of the root router.                           *)
RootReceives ==
    closed \/ \A id \in Ids : receivers[id] # None => receivers[id].at[1] = Root

(* Messages are handed over in the root router, by contexts that have      *)
(* them.                                                                   *)
LEMMA HandsOverInRoot ==
  ASSUME ChainInv, Conversational(app), NEW m \in Msgs, Turn(m), RootReceives, NextHandsOver(m)
  PROVE  Len(ctxs[m]) = 1 /\ ~closed /\ ~ctxs[m][1].gone
<1> DEFINE c == Walk(Cur(m))
<1>1. ctl[m] # "idle" /\ ~Refused(Cur(m)) /\ Meets(c) /\ Nexting(m)
  BY DEF NextHandsOver, Nexting
<1>2. /\ app.kind = "normal" /\ Cur(m).gone = ctxs[m][1].gone /\ ctl[m] # "auto"
      /\ Len(ctxs[m]) \in Nat /\ Len(ctxs[m]) \in 1..Len(ctxs[m])
      /\ ctxs[m][1].gone => Cur(m) = ctxs[m][1]
      /\ Cur(m) \in Context /\ Cur(m) = ctxs[m][Len(ctxs[m])]
  BY <1>1, TurnParts
<1>3. ~closed /\ ~Cur(m).error
  BY <1>1, <1>2 DEF Refused
<1>4. ~ctxs[m][1].gone
  BY <1>1, <1>2, <1>3 DEF Turn, Nexting
<1>5. c \in Context /\ c.router = Cur(m).router
  <2>1. app \in Setups /\ CtxOK(app, Cur(m))
    BY <1>1, CurFacts DEF ChainInv
  <2> QED
    BY <1>2, <2>1, WalkFacts DEF Kept
<1>6. c.router = Root
  <2>1. c.id \in Ids /\ receivers[c.id] # None /\ receivers[c.id].at = Place(c)
    BY <1>1, <1>5 DEF Meets, Context
  <2> QED
    BY <1>3, <2>1 DEF RootReceives, Place
<1>7. CASE Len(ctxs[m]) # 1
  <2>1. Len(ctxs[m]) \in 2..Len(ctxs[m])
    BY <1>2, <1>7, TwoUp
  <2>2. Cur(m).router \in Mounts(app)
    BY <1>1, <1>2, <2>1, CurFacts DEF ChainInv, ContextsOK, RoutersOK
  <2> QED
    BY <1>5, <1>6, <2>2 DEF Conversational
<1> QED
  BY <1>3, <1>4, <1>7

(* Next returns without having called a handler. The root context loses    *)
(* its message if it is handed over, and not otherwise.                    *)
LEMMA TurnReturning ==
  ASSUME ChainInv, Conversational(app), NEW m \in Msgs, Turn(m), RootReceives, Returning(m),
         app' = app, closed' = closed
  PROVE  /\ Turn(m)' /\ ctxs'[m][1].id = ctxs[m][1].id
         /\ ~NextHandsOver(m) => ctxs'[m][1].gone = ctxs[m][1].gone
         /\ NextHandsOver(m) => ctxs'[m][1].gone
<1>1. ctl[m] \in {"next", "auto"} /\ ctl[m] # "idle"
  BY DEF Returning, NextRefused, NextBeyondEnd, NextHandsOver, Nexting
<1>2. /\ app.kind = "normal" /\ Below(ctxs[m]) /\ Passed(app, frame[m], ctxs[m][1])
      /\ ctl[m] = "next" /\ app \in Setups
      /\ Len(ctxs[m]) \in Nat /\ Len(ctxs[m]) \in 1..Len(ctxs[m]) /\ 1 \in 1..Len(ctxs[m])
      /\ Cur(m) = ctxs[m][Len(ctxs[m])] /\ Cur(m) \in Context /\ ctxs[m][1] \in Context
      /\ calls[m] # <<>> => calls[m][Len(calls[m])].nexts # 0
  BY <1>1, TurnParts
<1>3. PICK d \in Context :
        /\ Relays(ctxs[m], ctxs'[m], Len(ctxs[m]), d)
        /\ Forward(Cur(m), d)
        /\ \/ NextRefused(m) /\ d.gone = Cur(m).gone
           \/ NextBeyondEnd(m) /\ d.gone = Cur(m).gone
           \/ NextHandsOver(m) /\ d.gone
        /\ calls' = calls /\ frame' = frame
        /\ ctl' = [ctl EXCEPT ![m] = IF calls[m] = <<>> THEN "finish" ELSE "run"]
  BY ReturningFacts
<1>4. ~NextHandsOver(m) => d.gone = Cur(m).gone
  BY <1>3
<1>5. Len(ctxs[m]) = 1 \/ (d.gone = Cur(m).gone /\ d.owns = Cur(m).owns)
  BY <1>3, <1>4, HandsOverInRoot DEF Forward
<1>6. /\ Below(ctxs'[m]) /\ Passed(app, frame[m], ctxs'[m][1]) /\ ctxs'[m][1].id = ctxs[m][1].id
      /\ Len(ctxs[m]) = 1 => ctxs'[m][1] = d
      /\ Len(ctxs[m]) # 1 => ~ctxs[m][1].gone /\ ~ctxs'[m][1].gone
  <2>1. d.id = Cur(m).id /\ ~Before(<<d.node, d.index>>, <<Cur(m).node, Cur(m).index>>)
    BY <1>3 DEF Forward
  <2> DEFINE n == Len(ctxs[m])
  <2>2. /\ n \in 1..Len(ctxs[m]) /\ d.id = ctxs[m][n].id
        /\ n = 1 \/ (d.gone = ctxs[m][n].gone /\ d.owns = ctxs[m][n].owns)
        /\ ~Before(<<d.node, d.index>>, <<ctxs[m][n].node, ctxs[m][n].index>>)
        /\ Replaces(ctxs[m], ctxs'[m], n, d) \/ Relays(ctxs[m], ctxs'[m], n, d)
    BY <1>2, <1>3, <1>5, <2>1
  <2> HIDE DEF n
  <2>3. /\ Below(ctxs'[m]) /\ Passed(app, frame[m], ctxs'[m][1]) /\ ctxs'[m][1].id = ctxs[m][1].id
        /\ n = 1 => ctxs'[m][1] = d
        /\ n # 1 => ~ctxs[m][1].gone /\ ~ctxs'[m][1].gone
    BY <1>1, <1>2, <2>2, RootKept
  <2> QED
    BY <2>3 DEF n
<1>7. ctl'[m] \in {"finish", "run"}
  BY <1>3 DEF ChainInv, BaseInv, TypeOK
<1>8. Turn(m)'
  BY <1>2, <1>3, <1>6, <1>7 DEF Turn
<1>9. NextHandsOver(m) => d.gone /\ Len(ctxs[m]) = 1
  <2>1. NextHandsOver(m) => ~NextRefused(m)
    BY DEF NextHandsOver, NextRefused
  <2>2. NextHandsOver(m) => ~NextBeyondEnd(m)
    BY DEF NextHandsOver, NextBeyondEnd, Meets
  <2> QED
    BY <1>3, <2>1, <2>2, HandsOverInRoot
<1>10. ~NextHandsOver(m) => ctxs'[m][1].gone = ctxs[m][1].gone
  <2>1. ctxs'[m][1].gone \in BOOLEAN /\ ctxs[m][1].gone \in BOOLEAN
    <3>1. CASE Len(ctxs[m]) = 1
      BY <1>2, <1>6, <3>1 DEF Context
    <3>2. CASE Len(ctxs[m]) # 1
      <4>1. SamePlace(ctxs[m][1], ctxs'[m][1])
        <5>1. 1 \in 1..(Len(ctxs[m]) - 1)
          BY <1>2, <3>2, FirstBelow
        <5> QED
          BY <1>2, <1>3, <5>1, BelowSame
      <4> QED
        BY <1>2, <4>1 DEF SamePlace, Context
    <3> QED
      BY <3>1, <3>2
  <2>2. CASE Len(ctxs[m]) = 1
    BY <1>2, <1>4, <1>6, <2>2
  <2>3. CASE Len(ctxs[m]) # 1
    BY <1>6, <2>1, <2>3
  <2> QED
    BY <2>2, <2>3
<1> QED
  BY <1>6, <1>8, <1>9, <1>10

(* Next calls a handler, only of a message that is still there.            *)
LEMMA TurnRuns ==
  ASSUME ChainInv, ChainInv', Conversational(app), NEW m \in Msgs, Turn(m), NextRunsHandler(m),
         app' = app, closed' = closed
  PROVE  /\ Turn(m)' /\ ctl'[m] = "run" /\ ctl[m] = "next"
         /\ ctxs'[m][1].id = ctxs[m][1].id /\ ~ctxs'[m][1].gone /\ ~ctxs[m][1].gone
<1>1. PICK d \in Context :
           /\ Replaces(ctxs[m], ctxs'[m], Len(ctxs[m]), d)
           /\ Forward(Cur(m), d) /\ d.gone = Cur(m).gone
           /\ ~Refused(Cur(m)) /\ Nexting(m)
           /\ calls' = [calls EXCEPT ![m] =
                Append(@, [h |-> NodeOf(d).handlers[d.index], nexts |-> 0, ctx |-> Len(ctxs[m])])]
           /\ ctl' = [ctl EXCEPT ![m] = "run"] /\ frame' = frame
           /\ NodeOf(d).handlers[d.index] \in Handlers
  BY RunsFacts
<1>2. ctl[m] # "idle"
  BY <1>1 DEF Nexting
<1>3. /\ app.kind = "normal" /\ Below(ctxs[m]) /\ Passed(app, frame[m], ctxs[m][1])
      /\ ctl[m] = "next" /\ app \in Setups
      /\ Len(ctxs[m]) \in 1..Len(ctxs[m])
      /\ Cur(m) = ctxs[m][Len(ctxs[m])] /\ Cur(m).gone = ctxs[m][1].gone
      /\ ctxs[m][1].gone => Cur(m) = ctxs[m][1]
  BY <1>1, <1>2, TurnParts DEF Nexting
<1>4. ~ctxs[m][1].gone
  <2>1. ~closed /\ ~Cur(m).error
    BY <1>1, <1>3 DEF Refused
  <2> QED
    BY <1>2, <1>3, <2>1 DEF Turn
<1>5. /\ Below(ctxs'[m]) /\ Passed(app, frame[m], ctxs'[m][1]) /\ ctxs'[m][1].id = ctxs[m][1].id
      /\ Len(ctxs[m]) = 1 => ctxs'[m][1] = d
      /\ Len(ctxs[m]) # 1 => ~ctxs'[m][1].gone
  <2>1. /\ d.id = Cur(m).id /\ d.owns = Cur(m).owns
        /\ ~Before(<<d.node, d.index>>, <<Cur(m).node, Cur(m).index>>)
    BY <1>1 DEF Forward
  <2>2. PICK n \in 1..Len(ctxs[m]) : n = Len(ctxs[m])
    BY <1>3
  <2>3. /\ d.id = ctxs[m][n].id /\ d.gone = ctxs[m][n].gone /\ d.owns = ctxs[m][n].owns
        /\ ~Before(<<d.node, d.index>>, <<ctxs[m][n].node, ctxs[m][n].index>>)
        /\ Replaces(ctxs[m], ctxs'[m], n, d)
    BY <1>1, <1>3, <2>1, <2>2
  <2>4. /\ Below(ctxs'[m]) /\ Passed(app, frame[m], ctxs'[m][1]) /\ ctxs'[m][1].id = ctxs[m][1].id
        /\ n = 1 => ctxs'[m][1] = d
        /\ n # 1 => ~ctxs'[m][1].gone
    BY <1>2, <1>3, <2>3, RootKept
  <2> QED
    BY <2>2, <2>4
<1>6. ~ctxs'[m][1].gone
  BY <1>1, <1>3, <1>4, <1>5
<1>7. calls'[m][Len(calls'[m])].h = frame[m].format => ctxs[m][1].id = NoId
  BY <1>3, CodecFresh
<1>8. ctl'[m] = "run"
  BY <1>1 DEF ChainInv, BaseInv, TypeOK
<1> QED
  BY <1>1, <1>3, <1>4, <1>5, <1>6, <1>7, <1>8 DEF Turn

(* The root context has the ID and the message that it had.                *)
RootSame(m) == ctxs'[m][1].id = ctxs[m][1].id /\ ctxs'[m][1].gone = ctxs[m][1].gone

(* RootKept, for a context that keeps its message                          *)
LEMMA RootStays ==
  ASSUME ChainInv, NEW m \in Msgs, ctl[m] # "idle", Below(ctxs[m]), Passed(app, frame[m], ctxs[m][1]),
         NEW n \in 1..Len(ctxs[m]), NEW d \in Context,
         Replaces(ctxs[m], ctxs'[m], n, d) \/ Relays(ctxs[m], ctxs'[m], n, d),
         d.id = ctxs[m][n].id, d.gone = ctxs[m][n].gone,
         n = 1 \/ d.owns = ctxs[m][n].owns,
         ~Before(<<d.node, d.index>>, <<ctxs[m][n].node, ctxs[m][n].index>>)
  PROVE  Below(ctxs'[m]) /\ Passed(app, frame[m], ctxs'[m][1]) /\ RootSame(m)
<1>1. /\ Below(ctxs'[m]) /\ Passed(app, frame[m], ctxs'[m][1]) /\ ctxs'[m][1].id = ctxs[m][1].id
      /\ n = 1 => ctxs'[m][1] = d
  BY RootKept
<1>2. ctxs'[m][1].gone = ctxs[m][1].gone
  <2>1. CASE n = 1
    BY <1>1, <2>1
  <2>2. CASE n # 1
    <3>1. n \in Nat /\ \A i \in 1..(n - 1) : SamePlace(ctxs[m][i], ctxs'[m][i])
      BY BelowSame
    <3>2. n \in 1..n
      BY <3>1
    <3>3. 1 \in 1..(n - 1)
      BY <2>2, <3>1, <3>2, FirstBelow
    <3> QED
      BY <3>1, <3>3 DEF SamePlace
  <2> QED
    BY <2>1, <2>2
<1> QED
  BY <1>1, <1>2 DEF RootSame

(* A mounted router makes its context.                                     *)
LEMMA TurnEnter ==
  ASSUME ChainInv, Conversational(app), NEW m \in Msgs, Turn(m), EnterRouter(m),
         app' = app, closed' = closed
  PROVE  Turn(m)' /\ RootSame(m) /\ ctl[m] = "run" /\ ctl'[m] = "next"
<1> DEFINE n == Len(ctxs[m])
           d == SubContext(Cur(m), Call(m).h)
<1>1. /\ Replaces(ctxs[m], ctxs'[m], n + 1, d) /\ d.owns = FALSE
      /\ d.id = Cur(m).id /\ d.gone = Cur(m).gone
      /\ ctl[m] = "run" /\ ctl' = [ctl EXCEPT ![m] = "next"] /\ frame' = frame
      /\ Call(m).nexts = 0 /\ Nexts(m, 1)
  BY EnterFacts
<1>2. /\ Below(ctxs[m]) /\ Passed(app, frame[m], ctxs[m][1])
      /\ n \in Nat /\ n >= 1 /\ 1 \in 1..n
      /\ Cur(m).id = ctxs[m][1].id /\ Cur(m).gone = ctxs[m][1].gone
  BY <1>1, TurnParts
<1>3. calls[m] # <<>> /\ calls \in [Msgs -> Seq(CallType)] /\ Call(m) = calls[m][Len(calls[m])]
  BY <1>1, RunFacts DEF ChainInv
<1>4. ~ctxs[m][1].gone
  BY <1>1, <1>3 DEF Turn
<1>5. calls'[m] # <<>> /\ calls'[m][Len(calls'[m])].nexts = 1
  <2>1. 1 \in 0..2
    OBVIOUS
  <2> QED
    BY <1>1, <1>3, <2>1, NextsMove
<1> HIDE DEF d, n
<1>6. /\ Len(ctxs'[m]) = n + 1 /\ ctxs'[m][n + 1] = d /\ ctxs'[m][1] = ctxs[m][1]
      /\ \A i \in 1..n : ctxs'[m][i] = ctxs[m][i]
  <2>1. (n + 1) - 1 = n
    BY <1>2
  <2> QED
    BY <1>1, <1>2, <2>1 DEF Replaces
<1>7. Below(ctxs'[m])
  <2> SUFFICES ASSUME NEW i \in 2..(n + 1)
               PROVE  LET c == ctxs'[m][i] IN
                      ~c.gone /\ ~c.owns /\ c.id = ctxs'[m][1].id /\ ~ctxs'[m][1].gone
    BY <1>6 DEF Below
  <2>1. i \in 2..n \/ i = n + 1
    BY <1>2
  <2>2. CASE i \in 2..n
    <3>1. i \in 1..n
      BY <1>2, <2>2
    <3> QED
      BY <1>2, <1>6, <2>2, <3>1 DEF Below, n
  <2>3. CASE i = n + 1
    BY <1>1, <1>2, <1>4, <1>6, <2>3
  <2> QED
    BY <2>1, <2>2, <2>3
<1>8. ctl'[m] = "next"
  BY <1>1 DEF ChainInv, BaseInv, TypeOK
<1>9. Turn(m)'
  BY <1>1, <1>2, <1>4, <1>5, <1>6, <1>7, <1>8 DEF Turn
<1> QED
  BY <1>1, <1>6, <1>8, <1>9 DEF RootSame

(* Below a handler that returns are only handlers that have called Next.   *)
LEMMA BelowHaveNexts ==
  ASSUME ChainInv, NEW m \in Msgs, calls[m] # <<>>,
         Len(calls'[m]) = Len(calls[m]) - 1,
         \A i \in 1..(Len(calls[m]) - 1) : calls'[m][i] = calls[m][i],
         calls'[m] \in Seq(CallType)
  PROVE  calls'[m] # <<>> => calls'[m][Len(calls'[m])].nexts # 0
<1> DEFINE n == Len(calls[m])
<1>1. /\ n \in Nat /\ n >= 1
      /\ n > 1 => calls[m][n - 1].nexts >= 1
  BY Depth
<1> SUFFICES ASSUME calls'[m] # <<>> PROVE calls'[m][Len(calls'[m])].nexts # 0
  OBVIOUS
<1>2. Len(calls'[m]) # 0
  BY EmptyOrNot
<1>3. n # 1
  BY <1>2
<1> HIDE DEF n
<1>4. n > 1 /\ n - 1 \in 1..(n - 1)
  BY <1>1, <1>3
<1>5. calls'[m][n - 1] = calls[m][n - 1] /\ Len(calls'[m]) = n - 1
  BY <1>4 DEF n
<1>6. calls'[m][n - 1].nexts \in 0..2
  <2>1. n - 1 \in 1..Len(calls'[m])
    BY <1>4, <1>5
  <2>2. calls'[m][n - 1] \in CallType
    BY <2>1, ElementOfSeq
  <2> QED
    BY <2>2 DEF CallType
<1> QED
  BY <1>1, <1>4, <1>5, <1>6

(* A handler returns.                                                      *)
LEMMA TurnLeft ==
  ASSUME ChainInv, ChainInv', Conversational(app), NEW m \in Msgs, Turn(m), ctl[m] = "run",
         NEW n \in 1..Len(ctxs[m]), NEW c \in Context, NEW d \in Context, Left(m, n, c, d),
         c.id = ctxs[m][n].id, c.gone = ctxs[m][n].gone, c.owns = ctxs[m][n].owns,
         c.node = ctxs[m][n].node, c.index = ctxs[m][n].index,
         frame' = frame, app' = app, closed' = closed
  PROVE  Turn(m)' /\ RootSame(m) /\ ctl'[m] \in {"run", "finish"}
<1>1. /\ ~GoesOn /\ Below(ctxs[m]) /\ Passed(app, frame[m], ctxs[m][1])
  BY TurnParts
<1>2. /\ Relays(ctxs[m], ctxs'[m], n, d)
      /\ ctl' = [ctl EXCEPT ![m] = IF Len(calls[m]) = 1 THEN "finish" ELSE "run"]
      /\ Forward(c, d) /\ d.gone = c.gone
      /\ Len(calls'[m]) = Len(calls[m]) - 1
      /\ \A i \in 1..(Len(calls[m]) - 1) : calls'[m][i] = calls[m][i]
  BY <1>1 DEF Left
<1>3. /\ Below(ctxs'[m]) /\ Passed(app, frame[m], ctxs'[m][1]) /\ RootSame(m)
  <2>1. /\ d.id = ctxs[m][n].id /\ d.gone = ctxs[m][n].gone /\ d.owns = ctxs[m][n].owns
        /\ ~Before(<<d.node, d.index>>, <<ctxs[m][n].node, ctxs[m][n].index>>)
    BY <1>2 DEF Forward
  <2> QED
    BY <1>1, <1>2, <2>1, RootStays
<1>4. calls'[m] # <<>> => calls'[m][Len(calls'[m])].nexts # 0
  <2>1. calls'[m] \in Seq(CallType)
    BY DEF ChainInv, BaseInv, TypeOK, CallType
  <2>2. calls[m] # <<>>
    BY RunFacts DEF ChainInv
  <2> QED
    BY <1>2, <2>1, <2>2, BelowHaveNexts
<1>5. ctl'[m] \in {"finish", "run"}
  BY <1>2 DEF ChainInv, BaseInv, TypeOK
<1>6. Turn(m)'
  BY <1>1, <1>3, <1>4, <1>5 DEF Turn
<1> QED
  BY <1>3, <1>5, <1>6

(* That is so for all handlers but routers that made a context;            *)
LEMMA TurnReturned ==
  ASSUME ChainInv, ChainInv', Conversational(app), NEW m \in Msgs, Turn(m), Returned(m),
         app' = app, closed' = closed
  PROVE  Turn(m)' /\ RootSame(m) /\ ctl[m] = "run" /\ ctl'[m] \in {"run", "finish"}
<1>1. PICK c \in Context, d \in Context :
        /\ Left(m, Len(ctxs[m]), c, d)
        /\ c.node = Cur(m).node /\ c.index = Cur(m).index /\ c.id = Cur(m).id
        /\ c.gone = Cur(m).gone /\ c.owns = Cur(m).owns
        /\ ctl[m] = "run" /\ frame' = frame
  BY ReturnedFacts
<1>2. Len(ctxs[m]) \in 1..Len(ctxs[m]) /\ Cur(m) = ctxs[m][Len(ctxs[m])]
  BY <1>1, TurnParts
<1> QED
  BY <1>1, <1>2, TurnLeft

(* these drop it, and it has made no receiver.                             *)
LEMMA TurnLeave ==
  ASSUME ChainInv, ChainInv', Conversational(app), NEW m \in Msgs, Turn(m), LeaveRouter(m),
         app' = app, closed' = closed
  PROVE  Turn(m)' /\ RootSame(m) /\ ctl[m] = "run" /\ ctl'[m] \in {"run", "finish", "next"} /\ ~Cur(m).owns
<1> DEFINE n == Len(ctxs[m])
           p == ctxs[m][n - 1]
<1>1. /\ n \in Nat /\ n >= 2 /\ ctl[m] = "run" /\ p \in Context /\ frame' = frame
      /\ \/ /\ Cur(m).beyond /\ Replaces(ctxs[m], ctxs'[m], n - 1, p) /\ Nexts(m, 2)
            /\ ctl' = [ctl EXCEPT ![m] = "next"]
         \/ /\ ~Cur(m).beyond
            /\ \E d \in Context : Left(m, n - 1, p, d)
  BY LeavingFacts
<1>2. /\ Below(ctxs[m]) /\ Passed(app, frame[m], ctxs[m][1])
      /\ n # 1 => ~ctxs[m][1].gone /\ ~Cur(m).owns
  BY <1>1, TurnParts
<1>3. n # 1 /\ n - 1 \in 1..n
  BY <1>1, OneLess
<1>4. CASE Cur(m).beyond
  <2>1. /\ Replaces(ctxs[m], ctxs'[m], n - 1, p) /\ Nexts(m, 2)
        /\ ctl' = [ctl EXCEPT ![m] = "next"]
    BY <1>1, <1>4
  <2>2. Below(ctxs'[m]) /\ Passed(app, frame[m], ctxs'[m][1]) /\ RootSame(m)
    <3>1. ~Before(<<p.node, p.index>>, <<p.node, p.index>>)
      BY <1>1, BeforeTotal DEF Context
    <3> QED
      BY <1>1, <1>2, <1>3, <2>1, <3>1, RootStays
  <2>3. calls'[m] # <<>> /\ calls'[m][Len(calls'[m])].nexts = 2
    <3>1. 2 \in 0..2
      OBVIOUS
    <3>2. calls[m] # <<>> /\ calls \in [Msgs -> Seq(CallType)]
      BY <1>1, RunFacts DEF ChainInv
    <3> QED
      BY <2>1, <3>1, <3>2, NextsMove
  <2>4. ctl'[m] = "next"
    BY <2>1 DEF ChainInv, BaseInv, TypeOK
  <2>5. ~ctxs'[m][1].gone
    BY <1>2, <1>3, <2>2 DEF RootSame
  <2>6. Turn(m)'
    BY <1>1, <2>2, <2>3, <2>4, <2>5 DEF Turn
  <2> QED
    BY <1>1, <1>2, <1>3, <2>2, <2>4, <2>6
<1>5. CASE ~Cur(m).beyond
  <2>1. PICK d \in Context : Left(m, n - 1, p, d)
    BY <1>1, <1>5
  <2>2. Turn(m)' /\ RootSame(m) /\ ctl'[m] \in {"run", "finish"}
    BY <1>1, <1>3, <2>1, TurnLeft
  <2> QED
    BY <1>1, <1>2, <1>3, <2>2
<1> QED
  BY <1>4, <1>5

(* Steps of functions that change their context. Only a root context goes  *)
(* to sleep.                                                               *)
LEMMA TurnWorks ==
  ASSUME ChainInv, Conversational(app), NEW m \in Msgs, Turn(m), Works(m),
         app' = app, closed' = closed
  PROVE  /\ Turn(m)' /\ RootSame(m) /\ ctl[m] = "run"
         /\ Receive(m) => /\ ctl'[m] = "asleep" /\ Cur(m) = ctxs[m][1] /\ Cur(m).id \in Ids
                          /\ Len(ctxs[m]) = 1 /\ ~Cur(m).gone
         /\ ~Receive(m) => ctl'[m] = "run"
<1> DEFINE n == Len(ctxs[m])
           d == Cur(m)'
<1>1. /\ Replaces(ctxs[m], ctxs'[m], n, d) /\ d \in Context
      /\ d.node = Cur(m).node /\ d.index = Cur(m).index
      /\ d.id = Cur(m).id /\ d.gone = Cur(m).gone
      /\ calls' = calls /\ frame' = frame /\ ctl[m] = "run" /\ Call(m).h \in Funcs
      /\ \/ Receive(m) /\ ctl' = [ctl EXCEPT ![m] = "asleep"]
         \/ ~Receive(m) /\ ctl' = ctl /\ d.owns = Cur(m).owns
  BY WorksFacts
<1>2. /\ Below(ctxs[m]) /\ Passed(app, frame[m], ctxs[m][1])
      /\ n \in 1..n /\ Cur(m) = ctxs[m][n] /\ Cur(m) \in Context
  BY <1>1, TurnParts
<1>3. Receive(m) => /\ Cur(m) = ctxs[m][1] /\ n = 1 /\ ~Cur(m).gone /\ Cur(m).id \in Ids
  <2> SUFFICES ASSUME Receive(m)
               PROVE  /\ Cur(m) = ctxs[m][1] /\ n = 1 /\ ~Cur(m).gone /\ Cur(m).id \in Ids
    OBVIOUS
  <2>1. Call(m).h \in Funcs /\ "receive" \in app.able[Call(m).h] /\ ~Cur(m).gone /\ Cur(m).id # NoId
    BY DEF Receive, Doing, Running
  <2>2. n = 1 /\ Cur(m) = ctxs[m][1]
    BY <1>1, <2>1, InRoot
  <2> QED
    BY <1>2, <2>1, <2>2 DEF Context
<1>4. Below(ctxs'[m]) /\ Passed(app, frame[m], ctxs'[m][1]) /\ RootSame(m)
  <2>1. ~Before(<<d.node, d.index>>, <<ctxs[m][n].node, ctxs[m][n].index>>)
    BY <1>1, <1>2, BeforeTotal DEF Context
  <2>2. /\ d.id = ctxs[m][n].id /\ d.gone = ctxs[m][n].gone
        /\ n = 1 \/ d.owns = ctxs[m][n].owns
    BY <1>1, <1>2, <1>3
  <2> HIDE DEF d, n
  <2> QED
    BY <1>1, <1>2, <2>1, <2>2, RootStays DEF n
<1>5. /\ Receive(m) => ctl'[m] = "asleep"
      /\ ~Receive(m) => ctl'[m] = "run"
  BY <1>1 DEF ChainInv, BaseInv, TypeOK
<1>6. Turn(m)'
  <2>1. CASE Receive(m)
    <3>1. Len(ctxs'[m]) = n
      BY <1>1 DEF Replaces
    <3>2. ctxs[m][1].id # NoId
      BY <1>3, <2>1, HandlerChainAssumption
    <3> QED
      BY <1>1, <1>3, <1>4, <1>5, <2>1, <3>1, <3>2 DEF Turn, RootSame
  <2>2. CASE ~Receive(m)
    BY <1>1, <1>4, <1>5, <2>2 DEF Turn, RootSame
  <2> QED
    BY <2>1, <2>2
<1> QED
  BY <1>1, <1>3, <1>4, <1>5, <1>6

(* A codec gives the root context the ID, which had none.                  *)
LEMMA TurnDecoded ==
  ASSUME ChainInv, Conversational(app), NEW m \in Msgs, Turn(m), Decoded(m),
         app' = app, closed' = closed
  PROVE  /\ Turn(m)' /\ ctl[m] = "run" /\ ctl'[m] \in {"next", "waiting"}
         /\ ctxs[m][1].id = NoId /\ ~ctxs'[m][1].gone
         /\ ctxs'[m][1].id = frame[m].id
         /\ IF frame[m].id = NoId THEN ctl' = [ctl EXCEPT ![m] = "next"] /\ UNCHANGED lock
                                  ELSE SetMessageID(m, frame[m].id)
<1> DEFINE d == Cur(m)'
           c == Cur(m)
<1>1. /\ Replaces(ctxs[m], ctxs'[m], Len(ctxs[m]), d) /\ d \in Context
      /\ d.node = c.node /\ d.index = c.index /\ d.gone = c.gone
      /\ d.id = IF frame[m].id = NoId THEN c.id ELSE frame[m].id
      /\ frame[m].format = Call(m).h /\ Call(m).h \in Codecs
      /\ frame[m] \in Frame /\ frame' = frame
      /\ Nexts(m, 1) /\ Call(m).nexts = 0 /\ ctl[m] = "run"
      /\ IF frame[m].id = NoId THEN ctl' = [ctl EXCEPT ![m] = "next"] /\ UNCHANGED lock
                               ELSE SetMessageID(m, frame[m].id)
  BY DecodedFacts
<1>2. Len(ctxs[m]) = 1 /\ c = ctxs[m][1]
  BY <1>1, InRoot
<1>3. calls[m] # <<>> /\ calls \in [Msgs -> Seq(CallType)] /\ Call(m) = calls[m][Len(calls[m])]
  BY <1>1, RunFacts DEF ChainInv
<1>4. ~c.gone /\ c.id = NoId
  BY <1>1, <1>2, <1>3 DEF Turn
<1>5. Passed(app, frame[m], d)
  BY <1>1, CodecOnce
<1>6. Len(ctxs'[m]) = 1 /\ ctxs'[m][1] = d
  BY <1>1, <1>2 DEF Replaces
<1>7. calls'[m] # <<>> /\ calls'[m][Len(calls'[m])].nexts = 1
  <2>1. 1 \in 0..2
    OBVIOUS
  <2> QED
    BY <1>1, <1>3, <2>1, NextsMove
<1>8. Below(ctxs'[m])
  BY <1>6 DEF Below
<1>9. d.id = frame[m].id /\ ~d.gone
  BY <1>1, <1>4
<1>10. ctl'[m] = "next" \/ (ctl'[m] = "waiting" /\ frame[m].id # NoId)
  BY <1>1 DEF SetMessageID, ChainInv, BaseInv, TypeOK
<1> HIDE DEF d, c
<1>11. Turn(m)'
  BY <1>1, <1>5, <1>6, <1>7, <1>8, <1>9, <1>10 DEF Turn
<1> QED
  BY <1>1, <1>2, <1>4, <1>6, <1>9, <1>10, <1>11

-----------------------------------------------------------------------------
(* The locks.  A message has the turn of an ID if it is in the chain and   *)
(* will release the lock, when its goroutine ends or when it receives.     *)
HasTurn(m, id) ==
    /\ ctl[m] \notin {"idle", "waiting", "ended"}
    /\ ctxs[m][1].id = id /\ ~ctxs[m][1].gone
    /\ ctl[m] = "asleep" => inbox[m] # None

(* No two messages have the turn of an ID.                                 *)
OneTurn == \A id \in Ids : \A x, y \in Msgs : HasTurn(x, id) /\ HasTurn(y, id) => x = y

(* A lock is taken while some message has the turn, and only then.         *)
LockedInTurn == \A id \in Ids : lock[id] # None <=> \E m \in Msgs : HasTurn(m, id)

(* A receiver is of a handler that sleeps, with nothing to take.           *)
ReceiversSleep ==
    \A id \in Ids : receivers[id] # None =>
        LET m == receivers[id].by IN
        ctl[m] = "asleep" /\ inbox[m] = None /\ ctxs[m][1].id = id

(* What was handed over is awaited.                                        *)
BoxesAwaited == \A m \in Msgs : inbox[m] # None => ctl[m] = "asleep"

(* What is said of the locks, the receivers and what was handed over,      *)
(* while the socket is open                                                *)
LockOK == RootReceives /\ (~closed => OneTurn /\ LockedInTurn /\ ReceiversSleep /\ BoxesAwaited)

(* The other goroutines stay where they are.                               *)
OthersStay(m) == \A x \in Msgs \ {m} : ctl'[x] = ctl[x] /\ ctxs'[x] = ctxs[x]

(* A receiver is of a message.                                             *)
LEMMA ReceiverTypes ==
  ASSUME TypeOK, NEW id \in Ids, receivers[id] # None
  PROVE  receivers[id].by \in Msgs
BY DEF TypeOK, Entry

(* Who had turns has them, and nobody else does.                           *)
LEMMA TurnsKept ==
  ASSUME TypeOK, LockOK, ~closed, NEW m \in Msgs, OthersStay(m), closed' = closed,
         lock' = lock, inbox' = inbox, ctl[m] # "asleep",
         \A id \in Ids : receivers'[id] \in {receivers[id], None},
         \A id \in Ids : HasTurn(m, id)' <=> HasTurn(m, id)
  PROVE  LockOK'
<1>1. \A id \in Ids : \A x \in Msgs : HasTurn(x, id)' <=> HasTurn(x, id)
  <2> TAKE id \in Ids
  <2> TAKE x \in Msgs
  <2>1. CASE x = m
    BY <2>1
  <2>2. CASE x # m
    BY <2>2 DEF HasTurn, OthersStay
  <2> QED
    BY <2>1, <2>2
<1>2. OneTurn'
  BY <1>1 DEF LockOK, OneTurn
<1>3. LockedInTurn'
  BY <1>1 DEF LockOK, LockedInTurn
<1>4. ReceiversSleep'
  <2> SUFFICES ASSUME NEW id \in Ids, receivers'[id] # None
               PROVE  LET x == receivers'[id].by IN
                      ctl'[x] = "asleep" /\ inbox'[x] = None /\ ctxs'[x][1].id = id
    BY DEF ReceiversSleep
  <2>1. receivers'[id] = receivers[id] /\ receivers[id] # None
    OBVIOUS
  <2>2. receivers[id].by \in Msgs
    BY <2>1, ReceiverTypes
  <2>3. ctl[receivers[id].by] = "asleep" /\ inbox[receivers[id].by] = None /\ ctxs[receivers[id].by][1].id = id
    BY <2>1 DEF LockOK, ReceiversSleep
  <2>4. receivers[id].by # m
    BY <2>3
  <2> QED
    BY <2>1, <2>2, <2>3, <2>4 DEF OthersStay
<1>5. BoxesAwaited'
  <2> SUFFICES ASSUME NEW x \in Msgs, inbox'[x] # None PROVE ctl'[x] = "asleep"
    BY DEF BoxesAwaited
  <2>1. ctl[x] = "asleep"
    BY DEF LockOK, BoxesAwaited
  <2> QED
    BY <2>1 DEF OthersStay
<1>6. RootReceives'
  BY DEF LockOK, RootReceives
<1> QED
  BY <1>2, <1>3, <1>4, <1>5, <1>6 DEF LockOK

(* The lock is taken by a message that has no turn yet.                    *)
LEMMA TurnTaken ==
  ASSUME TypeOK, LockOK, ~closed, NEW m \in Msgs, OthersStay(m), closed' = closed,
         inbox' = inbox, receivers' = receivers, ctl[m] # "asleep", ctl'[m] = "next",
         NEW id \in Ids, lock[id] = None, lock' = [lock EXCEPT ![id] = m],
         ctxs'[m][1].id = id, ~ctxs'[m][1].gone,
         \A k \in Ids : ~HasTurn(m, k)
  PROVE  LockOK'
<1>1. \A k \in Ids : \A x \in Msgs \ {m} : HasTurn(x, k)' <=> HasTurn(x, k)
  BY DEF HasTurn, OthersStay
<1>2. \A k \in Ids : HasTurn(m, k)' <=> k = id
  BY DEF HasTurn
<1>3. \A x \in Msgs : ~HasTurn(x, id)
  BY DEF LockOK, LockedInTurn
<1>4. OneTurn'
  BY <1>1, <1>2, <1>3 DEF LockOK, OneTurn
<1>5. LockedInTurn'
  <2> SUFFICES ASSUME NEW k \in Ids PROVE lock'[k] # None <=> \E x \in Msgs : HasTurn(x, k)'
    BY DEF LockedInTurn
  <2>1. CASE k = id
    <3>1. lock'[k] # None
      BY <2>1, HandlerChainAssumption DEF TypeOK
    <3> QED
      BY <1>2, <2>1, <3>1
  <2>2. CASE k # id
    <3>1. lock'[k] = lock[k]
      BY <2>2 DEF TypeOK
    <3>2. lock[k] # None <=> \E x \in Msgs : HasTurn(x, k)
      BY DEF LockOK, LockedInTurn
    <3> QED
      BY <1>1, <1>2, <2>2, <3>1, <3>2
  <2> QED
    BY <2>1, <2>2
<1>6. ReceiversSleep'
  <2> SUFFICES ASSUME NEW k \in Ids, receivers[k] # None
               PROVE  LET x == receivers[k].by IN
                      ctl'[x] = "asleep" /\ inbox[x] = None /\ ctxs'[x][1].id = k
    BY DEF ReceiversSleep
  <2>1. receivers[k].by \in Msgs
    BY ReceiverTypes
  <2>2. ctl[receivers[k].by] = "asleep" /\ inbox[receivers[k].by] = None /\ ctxs[receivers[k].by][1].id = k
    BY DEF LockOK, ReceiversSleep
  <2>3. receivers[k].by # m
    BY <2>2
  <2> QED
    BY <2>1, <2>2, <2>3 DEF OthersStay
<1>7. BoxesAwaited'
  <2> SUFFICES ASSUME NEW x \in Msgs, inbox[x] # None PROVE ctl'[x] = "asleep"
    BY DEF BoxesAwaited
  <2>1. ctl[x] = "asleep"
    BY DEF LockOK, BoxesAwaited
  <2> QED
    BY <2>1 DEF OthersStay
<1>8. RootReceives'
  BY DEF LockOK, RootReceives
<1> QED
  BY <1>4, <1>5, <1>6, <1>7, <1>8 DEF LockOK

(* The lock is released by the message that has the turn, as it ends or    *)
(* goes to sleep.                                                          *)
LEMMA TurnReleased ==
  ASSUME TypeOK, LockOK, ~closed, NEW m \in Msgs, OthersStay(m), closed' = closed,
         inbox' = inbox, ctl[m] # "asleep",
         NEW id \in Ids, HasTurn(m, id), lock' = [lock EXCEPT ![id] = None],
         \A k \in Ids : ~HasTurn(m, k)',
         \A k \in Ids : \/ receivers'[k] \in {receivers[k], None}
                        \/ /\ k = id /\ receivers'[k].by = m /\ receivers'[k].at[1] = Root
                           /\ ctl'[m] = "asleep" /\ ctxs'[m][1].id = id
  PROVE  LockOK'
<1>1. \A k \in Ids : \A x \in Msgs \ {m} : HasTurn(x, k)' <=> HasTurn(x, k)
  BY DEF HasTurn, OthersStay
<1>2. \A x \in Msgs \ {m} : ~HasTurn(x, id)
  BY DEF LockOK, OneTurn
<1>3. \A k \in Ids : HasTurn(m, k) => k = id
  BY DEF HasTurn
<1>4. OneTurn'
  BY <1>1 DEF LockOK, OneTurn
<1>5. LockedInTurn'
  <2> SUFFICES ASSUME NEW k \in Ids PROVE lock'[k] # None <=> \E x \in Msgs : HasTurn(x, k)'
    BY DEF LockedInTurn
  <2>1. CASE k = id
    <3>1. lock'[k] = None
      BY <2>1 DEF TypeOK
    <3> QED
      BY <1>1, <1>2, <2>1, <3>1
  <2>2. CASE k # id
    <3>1. lock'[k] = lock[k]
      BY <2>2 DEF TypeOK
    <3>2. lock[k] # None <=> \E x \in Msgs : HasTurn(x, k)
      BY DEF LockOK, LockedInTurn
    <3> QED
      BY <1>1, <1>3, <2>2, <3>1, <3>2
  <2> QED
    BY <2>1, <2>2
<1>6. inbox[m] = None
  BY DEF LockOK, BoxesAwaited
<1>7. ReceiversSleep'
  <2> SUFFICES ASSUME NEW k \in Ids, receivers'[k] # None
               PROVE  LET x == receivers'[k].by IN
                      ctl'[x] = "asleep" /\ inbox'[x] = None /\ ctxs'[x][1].id = k
    BY DEF ReceiversSleep
  <2>1. CASE receivers'[k] = receivers[k]
    <3>1. receivers[k].by \in Msgs
      BY <2>1, ReceiverTypes
    <3>2. ctl[receivers[k].by] = "asleep" /\ inbox[receivers[k].by] = None /\ ctxs[receivers[k].by][1].id = k
      BY <2>1 DEF LockOK, ReceiversSleep
    <3>3. receivers[k].by # m
      BY <3>2
    <3> QED
      BY <2>1, <3>1, <3>2, <3>3 DEF OthersStay
  <2>2. CASE receivers'[k].by = m /\ k = id /\ ctl'[m] = "asleep" /\ ctxs'[m][1].id = id
    BY <1>6, <2>2
  <2> QED
    BY <2>1, <2>2
<1>8. BoxesAwaited'
  <2> SUFFICES ASSUME NEW x \in Msgs, inbox[x] # None PROVE ctl'[x] = "asleep"
    BY DEF BoxesAwaited
  <2>1. ctl[x] = "asleep"
    BY DEF LockOK, BoxesAwaited
  <2> QED
    BY <2>1 DEF OthersStay
<1>9. RootReceives'
  <2> SUFFICES ASSUME NEW k \in Ids, receivers'[k] # None PROVE receivers'[k].at[1] = Root
    BY DEF RootReceives
  <2> QED
    BY DEF LockOK, RootReceives
<1> QED
  BY <1>4, <1>5, <1>7, <1>8, <1>9 DEF LockOK

(* The turn is handed over to the handler that sleeps.                     *)
LEMMA TurnHandedOver ==
  ASSUME TypeOK, LockOK, ~closed, NEW m \in Msgs, OthersStay(m), closed' = closed,
         lock' = lock, ctl[m] # "asleep",
         NEW id \in Ids, HasTurn(m, id), receivers[id] # None,
         receivers' = [receivers EXCEPT ![id] = None],
         inbox' = [inbox EXCEPT ![receivers[id].by] = m],
         ~ctxs[receivers[id].by][1].gone,
         ctxs'[m][1].gone
  PROVE  LockOK'
<1>0. PICK r \in Msgs : r = receivers[id].by
  BY ReceiverTypes
<1>1. ctl[r] = "asleep" /\ inbox[r] = None /\ ctxs[r][1].id = id /\ r # m
  BY <1>0 DEF LockOK, ReceiversSleep
<1>2. /\ inbox'[r] = m /\ m # None /\ \A x \in Msgs \ {r} : inbox'[x] = inbox[x]
      /\ ctl'[r] = "asleep" /\ ctxs'[r] = ctxs[r]
  BY <1>0, <1>1, HandlerChainAssumption DEF TypeOK, OthersStay
<1>3. /\ receivers'[id] = None /\ \A k \in Ids \ {id} : receivers'[k] = receivers[k]
  BY DEF TypeOK
<1>4. ~ctxs[r][1].gone
  BY <1>0
<1>5. \A k \in Ids : \A x \in Msgs \ {m, r} : HasTurn(x, k)' <=> HasTurn(x, k)
  BY <1>2 DEF HasTurn, OthersStay
<1>6. \A k \in Ids : ~HasTurn(m, k)'
  BY DEF HasTurn
<1>7. \A k \in Ids : HasTurn(r, k)' <=> k = id
  BY <1>1, <1>2, <1>4 DEF HasTurn
<1>8. \A k \in Ids : ~HasTurn(r, k)
  BY <1>1 DEF HasTurn
<1>9. \A x \in Msgs \ {m} : ~HasTurn(x, id)
  BY DEF LockOK, OneTurn
<1>10. \A k \in Ids : HasTurn(m, k) => k = id
  BY DEF HasTurn
<1>11. OneTurn'
  BY <1>5, <1>6, <1>7, <1>9 DEF LockOK, OneTurn
<1>12. LockedInTurn'
  <2> SUFFICES ASSUME NEW k \in Ids PROVE lock[k] # None <=> \E x \in Msgs : HasTurn(x, k)'
    BY DEF LockedInTurn
  <2>1. lock[k] # None <=> \E x \in Msgs : HasTurn(x, k)
    BY DEF LockOK, LockedInTurn
  <2>2. CASE k = id
    BY <1>1, <1>7, <2>1, <2>2
  <2>3. CASE k # id
    BY <1>5, <1>6, <1>7, <1>8, <1>10, <2>1, <2>3
  <2> QED
    BY <2>2, <2>3
<1>13. ReceiversSleep'
  <2> SUFFICES ASSUME NEW k \in Ids, receivers'[k] # None
               PROVE  LET x == receivers'[k].by IN
                      ctl'[x] = "asleep" /\ inbox'[x] = None /\ ctxs'[x][1].id = k
    BY DEF ReceiversSleep
  <2>1. k # id /\ receivers'[k] = receivers[k]
    BY <1>3
  <2>2. receivers[k].by \in Msgs
    BY <2>1, ReceiverTypes
  <2>3. ctl[receivers[k].by] = "asleep" /\ inbox[receivers[k].by] = None /\ ctxs[receivers[k].by][1].id = k
    BY <2>1 DEF LockOK, ReceiversSleep
  <2>4. receivers[k].by # m /\ receivers[k].by # r
    BY <1>1, <2>1, <2>3
  <2> QED
    BY <1>2, <2>1, <2>2, <2>3, <2>4 DEF OthersStay
<1>14. BoxesAwaited'
  <2> SUFFICES ASSUME NEW x \in Msgs, inbox'[x] # None PROVE ctl'[x] = "asleep"
    BY DEF BoxesAwaited
  <2>1. ctl[x] = "asleep"
    BY <1>1, <1>2 DEF LockOK, BoxesAwaited
  <2> QED
    BY <2>1 DEF OthersStay
<1>15. RootReceives'
  <2> SUFFICES ASSUME NEW k \in Ids, receivers'[k] # None PROVE receivers'[k].at[1] = Root
    BY DEF RootReceives
  <2> QED
    BY <1>3 DEF LockOK, RootReceives
<1> QED
  BY <1>11, <1>12, <1>13, <1>14, <1>15 DEF LockOK

(* It goes on.                                                             *)
LEMMA TurnGoesOn ==
  ASSUME TypeOK, LockOK, ~closed, NEW m \in Msgs, OthersStay(m), closed' = closed,
         lock' = lock, receivers' = receivers, ctl[m] = "asleep", ctl'[m] = "run",
         inbox[m] # None, inbox' = [inbox EXCEPT ![m] = None], ctxs' = ctxs
  PROVE  LockOK'
<1>1. \A x \in Msgs \ {m} : inbox'[x] = inbox[x]
  BY DEF TypeOK
<1>2. \A k \in Ids : \A x \in Msgs : HasTurn(x, k)' <=> HasTurn(x, k)
  BY <1>1 DEF HasTurn, OthersStay
<1>3. OneTurn'
  BY <1>2 DEF LockOK, OneTurn
<1>4. LockedInTurn'
  BY <1>2 DEF LockOK, LockedInTurn
<1>5. ReceiversSleep'
  <2> SUFFICES ASSUME NEW k \in Ids, receivers[k] # None
               PROVE  LET x == receivers[k].by IN
                      ctl'[x] = "asleep" /\ inbox'[x] = None /\ ctxs'[x][1].id = k
    BY DEF ReceiversSleep
  <2>1. receivers[k].by \in Msgs
    BY ReceiverTypes
  <2>2. ctl[receivers[k].by] = "asleep" /\ inbox[receivers[k].by] = None /\ ctxs[receivers[k].by][1].id = k
    BY DEF LockOK, ReceiversSleep
  <2>3. receivers[k].by # m
    BY <2>2
  <2> QED
    BY <1>1, <2>1, <2>2, <2>3 DEF OthersStay
<1>6. BoxesAwaited'
  <2> SUFFICES ASSUME NEW x \in Msgs, inbox'[x] # None PROVE ctl'[x] = "asleep"
    BY DEF BoxesAwaited
  <2>1. x # m
    BY DEF TypeOK
  <2>2. ctl[x] = "asleep"
    BY <1>1, <2>1 DEF LockOK, BoxesAwaited
  <2> QED
    BY <2>1, <2>2 DEF OthersStay
<1>7. RootReceives'
  BY DEF LockOK, RootReceives
<1> QED
  BY <1>3, <1>4, <1>5, <1>6, <1>7 DEF LockOK

-----------------------------------------------------------------------------
(* All steps.  A socket that is closed has no locks.                       *)
LEMMA StaysOpenOrNot ==
  ASSUME closed' = closed, closed PROVE LockOK'
BY DEF LockOK, RootReceives

(* They do.                                                                *)
LEMMA OthersStayed ==
  ASSUME TypeOK, NEW m \in Msgs, Steps(m) PROVE OthersStay(m)
BY OthersUntouched DEF OthersStay, Untouched

(* A message that moves in the chain has the turn if it has the ID.        *)
LEMMA MovingTurn ==
  ASSUME NEW m \in Msgs, RootSame(m),
         ctl[m] \in {"next", "run", "stuck", "finish"}, ctl'[m] \in {"next", "run", "stuck", "finish"}
  PROVE  \A id \in Ids : HasTurn(m, id)' <=> HasTurn(m, id)
BY DEF HasTurn, RootSame

(* The locks, when Next returns without having called a handler,           *)
LEMMA LocksOfReturning ==
  ASSUME ChainInv, Conversational(app), NEW m \in Msgs, \A x \in Msgs : Turn(x), LockOK, Returning(m),
         app' = app, closed' = closed, ~closed, OthersStay(m)
  PROVE  LockOK'
<1>1. /\ Turn(m)' /\ ctxs'[m][1].id = ctxs[m][1].id
      /\ ~NextHandsOver(m) => ctxs'[m][1].gone = ctxs[m][1].gone
      /\ NextHandsOver(m) => ctxs'[m][1].gone
  BY TurnReturning DEF LockOK
<1>2. ctl[m] \in {"next", "auto"} /\ ctl[m] # "idle" /\ TypeOK
  BY DEF Returning, NextRefused, NextBeyondEnd, NextHandsOver, Nexting, ChainInv, BaseInv
<1>3. /\ app \in Setups /\ Cur(m) \in Context /\ CtxOK(app, Cur(m))
      /\ ctl[m] = "next" /\ Cur(m).id = ctxs[m][1].id /\ Cur(m).id \in Ids \cup {NoId}
  BY <1>2, TurnParts, CurFacts DEF ChainInv, Context
<1>4. ctl'[m] \in {"run", "finish"}
  <2>1. ctl' = [ctl EXCEPT ![m] = IF calls[m] = <<>> THEN "finish" ELSE "run"]
    BY ReturningFacts
  <2> QED
    BY <1>2, <2>1 DEF TypeOK
<1>5. CASE NextRefused(m) \/ NextBeyondEnd(m)
  <2>1. lock' = lock /\ inbox' = inbox
    BY <1>5 DEF NextRefused, NextBeyondEnd, shared
  <2>2. \A id \in Ids : receivers'[id] \in {receivers[id], None}
    BY <1>2, <1>5 DEF NextRefused, NextBeyondEnd, shared, TypeOK
  <2>3. RootSame(m)
    <3>1. ~NextHandsOver(m)
      BY <1>5 DEF NextRefused, NextBeyondEnd, NextHandsOver, Meets
    <3> QED
      BY <1>1, <3>1 DEF RootSame
  <2>4. \A id \in Ids : HasTurn(m, id)' <=> HasTurn(m, id)
    BY <1>3, <1>4, <2>3, MovingTurn
  <2> QED
    BY <1>2, <1>3, <2>1, <2>2, <2>4, TurnsKept
<1>6. CASE NextHandsOver(m)
  <2> DEFINE c == Walk(Cur(m))
  <2>1. c.id = Cur(m).id
    BY <1>3, WalkFacts DEF Kept
  <2>2. /\ Meets(c) /\ receivers' = [receivers EXCEPT ![c.id] = None]
        /\ inbox' = [inbox EXCEPT ![receivers[c.id].by] = m] /\ lock' = lock
    BY <1>6 DEF NextHandsOver
  <2>3. c.id \in Ids /\ receivers[c.id] # None
    BY <1>3, <2>1, <2>2 DEF Meets
  <2>4. PICK id \in Ids : id = c.id
    BY <2>3
  <2>5. ~ctxs[m][1].gone /\ ctxs[m][1].id = id
    BY <1>3, <1>6, <2>1, <2>4, HandsOverInRoot DEF LockOK
  <2> HIDE DEF c
  <2>6. HasTurn(m, id)
    BY <1>3, <2>5 DEF HasTurn
  <2>7. /\ receivers[id] # None /\ receivers' = [receivers EXCEPT ![id] = None]
        /\ inbox' = [inbox EXCEPT ![receivers[id].by] = m] /\ lock' = lock
    BY <2>2, <2>3, <2>4
  <2>8. ~ctxs[receivers[id].by][1].gone
    <3>1. receivers[id].by \in Msgs /\ ctl[receivers[id].by] = "asleep"
      BY <1>2, <2>7, ReceiverTypes DEF LockOK, ReceiversSleep
    <3>2. Turn(receivers[id].by)
      BY <3>1
    <3> QED
      BY <3>1, <3>2 DEF Turn
  <2> QED
    BY <1>1, <1>2, <1>3, <1>6, <2>6, <2>7, <2>8, TurnHandedOver
<1> QED
  BY <1>5, <1>6 DEF Returning

(* in steps that leave the contexts alone,                                 *)
LEMMA LocksOfQuiet ==
  ASSUME ChainInv, Conversational(app), NEW m \in Msgs, Turn(m), LockOK, Quiet(m),
         app' = app, closed' = closed, ~closed, OthersStay(m)
  PROVE  LockOK'
<1>1. ctxs' = ctxs /\ RootSame(m) /\ TypeOK
  BY QuietFacts DEF RootSame, ChainInv, BaseInv
<1>2. CASE CallNext(m) \/ DecodeSkipped(m) \/ LockedOut(m)
  <2>1. /\ lock' = lock /\ inbox' = inbox /\ receivers' = receivers /\ ctl[m] = "run"
    BY <1>2 DEF CallNext, DecodeSkipped, LockedOut, Doing, Running, shared
  <2>2. ctl'[m] \in {"next", "stuck"}
    BY <1>1, <1>2 DEF CallNext, DecodeSkipped, LockedOut, TypeOK
  <2>3. \A id \in Ids : HasTurn(m, id)' <=> HasTurn(m, id)
    BY <1>1, <2>1, <2>2, MovingTurn
  <2> QED
    BY <1>1, <2>1, <2>3, TurnsKept
<1>3. CASE LockTaken(m)
  <2>1. /\ ctl[m] = "waiting" /\ lock[Cur(m).id] = None
        /\ lock' = [lock EXCEPT ![Cur(m).id] = m]
        /\ inbox' = inbox /\ receivers' = receivers /\ ctl' = [ctl EXCEPT ![m] = "next"]
    BY <1>3 DEF LockTaken
  <2>2. ctl'[m] = "next"
    BY <1>1, <2>1 DEF TypeOK
  <2>3. /\ Cur(m) = ctxs[m][1] /\ ctxs[m][1].id \in Ids /\ ~ctxs[m][1].gone
    <3>1. Len(ctxs[m]) = 1 /\ ctxs[m][1].id # NoId /\ ~ctxs[m][1].gone
      BY <2>1 DEF Turn
    <3>2. Cur(m) = ctxs[m][Len(ctxs[m])] /\ Cur(m) \in Context
      BY <2>1, TurnParts
    <3> QED
      BY <3>1, <3>2 DEF Context
  <2>4. \A k \in Ids : ~HasTurn(m, k)
    BY <2>1 DEF HasTurn
  <2> QED
    BY <1>1, <2>1, <2>2, <2>3, <2>4, TurnTaken
<1>4. CASE TakeMessage(m)
  <2>1. ctl'[m] = "run"
    BY <1>1, <1>4 DEF TakeMessage, TypeOK
  <2> QED
    BY <1>1, <1>4, <2>1, TurnGoesOn DEF TakeMessage
<1>5. CASE LockGivenUp(m) \/ ReceiveCancelled(m)
  BY <1>5 DEF LockGivenUp, ReceiveCancelled
<1>6. CASE Finish(m)
  <2> DEFINE c == ctxs[m][1]
  <2>1. /\ ctl[m] = "finish" /\ Finalized(c) /\ inbox' = inbox
        /\ lock' = IF c.gone \/ c.id = NoId THEN lock ELSE [lock EXCEPT ![c.id] = None]
        /\ ctl' = [ctl EXCEPT ![m] = "ended"]
    BY <1>6 DEF Finish
  <2>2. ctl'[m] = "ended"
    BY <1>1, <2>1 DEF TypeOK
  <2>3. \A k \in Ids : receivers'[k] \in {receivers[k], None}
    BY <1>1, <2>1 DEF Finalized, TypeOK
  <2>4. \A k \in Ids : ~HasTurn(m, k)'
    BY <2>2 DEF HasTurn
  <2>5. c \in Context
    BY <2>1, TurnParts
  <2>6. CASE c.gone \/ c.id = NoId
    <3>1. lock' = lock
      BY <2>1, <2>6
    <3>2. \A k \in Ids : ~HasTurn(m, k)
      BY <2>6, HandlerChainAssumption DEF HasTurn
    <3> QED
      BY <1>1, <2>1, <2>3, <2>4, <3>1, <3>2, TurnsKept
  <2>7. CASE ~(c.gone \/ c.id = NoId)
    <3>1. c.id \in Ids /\ lock' = [lock EXCEPT ![c.id] = None]
      BY <2>1, <2>5, <2>7 DEF Context
    <3>2. PICK id \in Ids : id = c.id
      BY <3>1
    <3>3. HasTurn(m, id)
      BY <2>1, <2>7, <3>2 DEF HasTurn
    <3>4. lock' = [lock EXCEPT ![id] = None]
      BY <3>1, <3>2
    <3> QED
      BY <1>1, <2>1, <2>3, <2>4, <3>3, <3>4, TurnReleased
  <2> QED
    BY <2>6, <2>7
<1> QED
  BY <1>2, <1>3, <1>4, <1>5, <1>6 DEF Quiet

(* and in steps of functions that change their context.                    *)
LEMMA LocksOfWorks ==
  ASSUME ChainInv, Conversational(app), NEW m \in Msgs, Turn(m), LockOK, Works(m),
         app' = app, closed' = closed, ~closed, OthersStay(m)
  PROVE  LockOK'
<1>1. /\ RootSame(m) /\ ctl[m] = "run"
      /\ Receive(m) => /\ ctl'[m] = "asleep" /\ Cur(m) = ctxs[m][1] /\ Cur(m).id \in Ids
                       /\ ~Cur(m).gone
      /\ ~Receive(m) => ctl'[m] = "run"
  BY TurnWorks
<1>2. TypeOK
  BY DEF ChainInv, BaseInv
<1>3. CASE ~Receive(m)
  <2>1. lock' = lock /\ inbox' = inbox /\ receivers' = receivers
    BY <1>3 DEF Works, SetError, ClearError, SetMessagePath, Set, Delete, shared
  <2>2. \A id \in Ids : HasTurn(m, id)' <=> HasTurn(m, id)
    BY <1>1, <1>3, MovingTurn
  <2> QED
    BY <1>1, <1>2, <2>1, <2>2, TurnsKept
<1>4. CASE Receive(m)
  <2>1. PICK id \in Ids : id = Cur(m).id
    BY <1>1, <1>4
  <2>2. /\ receivers' = [receivers EXCEPT ![id] =
                            [at |-> <<Cur(m).router, Cur(m).node, Cur(m).index - 1>>, by |-> m]]
        /\ lock' = [lock EXCEPT ![id] = None] /\ inbox' = inbox
    BY <1>4, <2>1 DEF Receive
  <2>3. HasTurn(m, id)
    BY <1>1, <1>4, <2>1 DEF HasTurn
  <2>4. inbox[m] = None
    BY <1>1 DEF LockOK, BoxesAwaited
  <2>5. \A k \in Ids : ~HasTurn(m, k)'
    BY <1>1, <1>4, <2>2, <2>4 DEF HasTurn
  <2>6. Cur(m).router = Root
    <3>1. ContextsOK(m) /\ ctxs[m] # <<>>
      BY <1>1, RunFacts DEF ChainInv
    <3> QED
      BY <1>1, <1>4, <3>1 DEF ContextsOK, RoutersOK
  <2>7. ctxs'[m][1].id = id
    BY <1>1, <1>4, <2>1 DEF RootSame
  <2>8. ASSUME NEW k \in Ids
        PROVE  \/ receivers'[k] \in {receivers[k], None}
               \/ /\ k = id /\ receivers'[k].by = m /\ receivers'[k].at[1] = Root
                  /\ ctl'[m] = "asleep" /\ ctxs'[m][1].id = id
    <3>1. CASE k = id
      <4>1. receivers'[k] = [at |-> <<Cur(m).router, Cur(m).node, Cur(m).index - 1>>, by |-> m]
        BY <1>2, <2>2, <3>1 DEF TypeOK
      <4> QED
        BY <1>1, <1>4, <2>6, <2>7, <3>1, <4>1
    <3>2. CASE k # id
      BY <1>2, <2>2, <3>2 DEF TypeOK
    <3> QED
      BY <3>1, <3>2
  <2> QED
    BY <1>1, <1>2, <2>2, <2>3, <2>5, <2>8, TurnReleased
<1> QED
  BY <1>3, <1>4

(* A handler that starts leaves the root context what it had.              *)
LEMMA RunsKeepRoot ==
  ASSUME ChainInv, ChainInv', Conversational(app), NEW m \in Msgs, Turn(m), NextRunsHandler(m),
         app' = app, closed' = closed
  PROVE  RootSame(m) /\ ctl[m] = "next" /\ ctl'[m] = "run"
<1>1. /\ ctl'[m] = "run" /\ ctl[m] = "next"
      /\ ctxs'[m][1].id = ctxs[m][1].id /\ ~ctxs'[m][1].gone /\ ~ctxs[m][1].gone
  BY TurnRuns
<1>2. ctxs[m][1].gone \in BOOLEAN
  BY <1>1, TurnParts DEF Context
<1>3. ctxs'[m][1].gone \in BOOLEAN
  <2>1. ctxs'[m] \in Seq(Context) /\ ctxs'[m] # <<>>
    BY <1>1 DEF ChainInv, BaseInv, TypeOK, StackOK, Stacked
  <2>2. Len(ctxs'[m]) \in Nat /\ Len(ctxs'[m]) # 0
    BY <2>1, EmptyOrNot
  <2>3. 1 \in 1..Len(ctxs'[m])
    BY <2>2
  <2>4. ctxs'[m][1] \in Context
    BY <2>1, <2>3, ElementOfSeq
  <2> QED
    BY <2>4 DEF Context
<1> QED
  BY <1>1, <1>2, <1>3 DEF RootSame

(* A message that is read has no turn yet.                                 *)
LEMMA LocksOfStart ==
  ASSUME ChainInv, NEW m \in Msgs, LockOK, Start(m), closed' = closed, ~closed, OthersStay(m)
  PROVE  LockOK'
<1>1. /\ ctl[m] = "idle" /\ ctxs'[m] = <<NewContext>> /\ TypeOK
  BY StartFacts DEF Start, ChainInv, BaseInv
<1>2. lock' = lock /\ inbox' = inbox /\ receivers' = receivers
  BY DEF Start, shared
<1>3. ctxs'[m][1].id = NoId
  BY <1>1 DEF NewContext
<1>4. \A id \in Ids : ~HasTurn(m, id)' /\ ~HasTurn(m, id)
  BY <1>1, <1>3, HandlerChainAssumption DEF HasTurn
<1> QED
  BY <1>1, <1>2, <1>4, TurnsKept

(* Handlers that start or return, and routers, change no turn.             *)
LEMMA LocksOfHandlers ==
  ASSUME ChainInv, ChainInv', Conversational(app), NEW m \in Msgs, Turn(m), LockOK,
         NextRunsHandler(m) \/ EnterRouter(m) \/ LeaveRouter(m) \/ Returned(m),
         app' = app, closed' = closed, ~closed, OthersStay(m)
  PROVE  LockOK'
<1>1. TypeOK
  BY DEF ChainInv, BaseInv
<1>2. RootSame(m) /\ ctl[m] \in {"next", "run"} /\ ctl'[m] \in {"run", "finish", "next"}
  <2>1. CASE NextRunsHandler(m)
    BY <2>1, RunsKeepRoot
  <2>2. CASE EnterRouter(m)
    BY <2>2, TurnEnter
  <2>3. CASE LeaveRouter(m)
    BY <2>3, TurnLeave
  <2>4. CASE Returned(m)
    BY <2>4, TurnReturned
  <2> QED
    BY <2>1, <2>2, <2>3, <2>4
<1>3. lock' = lock /\ inbox' = inbox
  BY DEF NextRunsHandler, EnterRouter, LeaveRouter, Returned, RouterReturns, DecodeRefused,
         CodecReturns, FuncReturns, NothingLeft, shared
<1>4. receivers' = receivers
  <2>1. CASE LeaveRouter(m)
    <3>1. ~Cur(m).owns
      BY <2>1, TurnLeave
    <3> QED
      BY <2>1, <3>1 DEF LeaveRouter, Finalized
  <2>2. CASE ~LeaveRouter(m)
    BY <2>2 DEF NextRunsHandler, EnterRouter, Returned, RouterReturns, DecodeRefused,
         CodecReturns, FuncReturns, NothingLeft, shared
  <2> QED
    BY <2>1, <2>2
<1>5. \A id \in Ids : HasTurn(m, id)' <=> HasTurn(m, id)
  BY <1>2, MovingTurn
<1> QED
  BY <1>1, <1>2, <1>3, <1>4, <1>5, TurnsKept

(* A message that is decoded takes the lock of its ID, or waits for it.    *)
LEMMA LocksOfDecoded ==
  ASSUME ChainInv, Conversational(app), NEW m \in Msgs, Turn(m), LockOK, Decoded(m),
         app' = app, closed' = closed, ~closed, OthersStay(m)
  PROVE  LockOK'
<1>1. /\ TypeOK /\ frame[m] \in Frame /\ receivers' = receivers /\ inbox' = inbox
  BY TurnParts DEF ChainInv, BaseInv, Decoded, Running
<1>2. /\ ctl[m] = "run" /\ ctxs[m][1].id = NoId /\ ~ctxs'[m][1].gone
      /\ ctxs'[m][1].id = frame[m].id
      /\ IF frame[m].id = NoId THEN ctl' = [ctl EXCEPT ![m] = "next"] /\ UNCHANGED lock
                               ELSE SetMessageID(m, frame[m].id)
  BY TurnDecoded
<1>3. \A k \in Ids : ~HasTurn(m, k)
  BY <1>2, HandlerChainAssumption DEF HasTurn
<1>4. frame[m].id \in Ids \cup {NoId}
  BY <1>1 DEF Frame
<1>5. CASE frame[m].id = NoId
  <2>1. lock' = lock
    BY <1>2, <1>5
  <2>2. \A k \in Ids : ~HasTurn(m, k)'
    BY <1>2, <1>5, HandlerChainAssumption DEF HasTurn
  <2> QED
    BY <1>1, <1>2, <1>3, <2>1, <2>2, TurnsKept
<1>6. CASE frame[m].id # NoId
  <2>1. PICK id \in Ids : id = frame[m].id
    BY <1>4, <1>6
  <2>2. SetMessageID(m, id)
    BY <1>2, <1>6, <2>1
  <2>3. CASE lock[id] = None
    <3>1. lock' = [lock EXCEPT ![id] = m] /\ ctl'[m] = "next"
      BY <1>1, <2>2, <2>3 DEF SetMessageID, TypeOK
    <3> QED
      BY <1>1, <1>2, <1>3, <2>1, <2>3, <3>1, TurnTaken
  <2>4. CASE lock[id] # None
    <3>1. lock' = lock /\ ctl'[m] = "waiting"
      BY <1>1, <2>2, <2>4 DEF SetMessageID, TypeOK
    <3>2. \A k \in Ids : ~HasTurn(m, k)'
      BY <3>1 DEF HasTurn
    <3> QED
      BY <1>1, <1>2, <1>3, <3>1, <3>2, TurnsKept
  <2> QED
    BY <2>3, <2>4
<1> QED
  BY <1>5, <1>6

(* The groups are all steps.                                               *)
LEMMA StepGroups ==
  ASSUME NEW m \in Msgs, Steps(m)
  PROVE  \/ Start(m) \/ Returning(m) \/ NextRunsHandler(m)
         \/ EnterRouter(m) \/ LeaveRouter(m) \/ Returned(m)
         \/ Decoded(m) \/ Quiet(m) \/ Works(m)
BY DEF Steps, Returning, Returned, Quiet, Works

(* What is said of the turns, in applications that hold conversations      *)
LockInv == Conversational(app) => LockOK /\ \A m \in Msgs : Turn(m)

(* Every step of a goroutine keeps its Turn                                *)
LEMMA TurnStep ==
  ASSUME ChainInv, ChainInv', Conversational(app), NEW m \in Msgs, Turn(m), RootReceives, Steps(m), app' = app
  PROVE  Turn(m)'
<1>1. closed' = closed
  BY ClosedKept
<1>2. CASE Start(m)
  BY <1>2, TurnStart
<1>3. CASE Returning(m)
  BY <1>1, <1>3, TurnReturning
<1>4. CASE NextRunsHandler(m)
  BY <1>1, <1>4, TurnRuns
<1>5. CASE EnterRouter(m)
  BY <1>1, <1>5, TurnEnter
<1>6. CASE LeaveRouter(m)
  BY <1>1, <1>6, TurnLeave
<1>7. CASE Returned(m)
  BY <1>1, <1>7, TurnReturned
<1>8. CASE Decoded(m)
  BY <1>1, <1>8, TurnDecoded
<1>9. CASE Quiet(m)
  BY <1>1, <1>9, TurnQuiet
<1>10. CASE Works(m)
  BY <1>1, <1>10, TurnWorks
<1> QED
  BY <1>2, <1>3, <1>4, <1>5, <1>6, <1>7, <1>8, <1>9, <1>10, StepGroups

(* and the locks.                                                          *)
LEMMA LockStep ==
  ASSUME ChainInv, ChainInv', Conversational(app), NEW m \in Msgs, \A x \in Msgs : Turn(x), LockOK,
         Steps(m), app' = app
  PROVE  LockOK'
<1>1. closed' = closed /\ OthersStay(m)
  BY ClosedKept, OthersStayed DEF ChainInv, BaseInv
<1>2. CASE closed
  BY <1>1, <1>2, StaysOpenOrNot
<1>3. CASE ~closed
  <2>1. CASE Start(m)
    BY <1>1, <1>3, <2>1, LocksOfStart
  <2>2. CASE Returning(m)
    BY <1>1, <1>3, <2>2, LocksOfReturning
  <2>3. CASE NextRunsHandler(m) \/ EnterRouter(m) \/ LeaveRouter(m) \/ Returned(m)
    BY <1>1, <1>3, <2>3, LocksOfHandlers
  <2>4. CASE Decoded(m)
    BY <1>1, <1>3, <2>4, LocksOfDecoded
  <2>5. CASE Quiet(m)
    BY <1>1, <1>3, <2>5, LocksOfQuiet
  <2>6. CASE Works(m)
    BY <1>1, <1>3, <2>6, LocksOfWorks
  <2> QED
    BY <2>1, <2>2, <2>3, <2>4, <2>5, <2>6, StepGroups
<1> QED
  BY <1>2, <1>3

(* A message that does not step keeps its turn when nothing else changes   *)
(* but that the socket may close.                                          *)
LEMMA TurnUntouched ==
  ASSUME NEW m \in Msgs, Turn(m), Untouched(m), app' = app, closed => closed'
  PROVE  Turn(m)'
BY DEF Turn, Untouched

(* Locks and turns belong together, for ever.                              *)
LEMMA LockInvHolds == Spec => []LockInv
<1>1. Init => LockInv
  <2> SUFFICES ASSUME Init, Conversational(app) PROVE LockOK /\ \A m \in Msgs : Turn(m)
    BY DEF LockInv
  <2>1. /\ \A m \in Msgs : ctl[m] = "idle" /\ inbox[m] = None
        /\ \A id \in Ids : lock[id] = None /\ receivers[id] = None
    BY DEF Init
  <2> QED
    BY <2>1 DEF LockOK, Turn, RootReceives, OneTurn, LockedInTurn, ReceiversSleep, BoxesAwaited, HasTurn
<1>2. ASSUME ChainInv, ChainInv', LockInv, [Next]_vars PROVE LockInv'
  <2>1. app' = app /\ TypeOK
    BY <1>2, AppFixed DEF ChainInv, BaseInv
  <2> SUFFICES ASSUME Conversational(app) PROVE LockOK' /\ \A m \in Msgs : Turn(m)'
    BY <2>1 DEF LockInv
  <2>2. LockOK /\ \A m \in Msgs : Turn(m)
    BY <1>2 DEF LockInv
  <2>3. closed => closed'
    BY <1>2, ClosedKept, NextIsSteps DEF Close, vars
  <2>4. ASSUME NEW m \in Msgs PROVE Turn(m)'
    <3>1. CASE Steps(m)
      BY <1>2, <2>1, <2>2, <3>1, TurnStep DEF LockOK
    <3>2. CASE Untouched(m)
      BY <2>1, <2>2, <2>3, <3>2, TurnUntouched
    <3> QED
      BY <1>2, <2>1, <3>1, <3>2, StepCases
  <2>5. LockOK'
    <3>1. CASE UNCHANGED vars
      BY <2>2, <3>1 DEF vars, LockOK, RootReceives, OneTurn, LockedInTurn, ReceiversSleep,
                        BoxesAwaited, HasTurn
    <3>2. CASE Close
      BY <3>2 DEF Close, LockOK, RootReceives
    <3>3. ASSUME NEW m \in Msgs, Steps(m) PROVE LockOK'
      BY <1>2, <2>1, <2>2, <3>3, LockStep
    <3> QED
      BY <1>2, <3>1, <3>2, <3>3, NextIsSteps
  <2> QED
    BY <2>4, <2>5
<1> QED
  BY <1>1, <1>2, ChainInvHolds, PTL DEF Spec

-----------------------------------------------------------------------------
(* Applications without codecs, as those of open and close handlers are:   *)
(* no message has an ID.                                                   *)
Silent(a) == \A r \in {Root} \cup Mounts(a) : HandlersOf(a.chain[r]) \cap Codecs = {}

(* No context of the message has an ID, and it does not wait for one.      *)
Mute(m) == ctl[m] # "waiting" /\ \A i \in 1..Len(ctxs[m]) : ctxs[m][i].id = NoId

(* In such an application no handler is a codec.                           *)
LEMMA NoCodecs ==
  ASSUME ChainInv, Silent(app), NEW m \in Msgs, ctl[m] = "run" PROVE Call(m).h \notin Codecs
<1>1. /\ StackOK(m) /\ RoutersOK(m) /\ CallsOK(m) /\ ctxs[m] \in Seq(Context) /\ calls[m] \in Seq(CallType)
      /\ Len(calls[m]) \in Nat /\ Len(calls[m]) >= 1 /\ Call(m) = calls[m][Len(calls[m])]
      /\ ctxs[m] # <<>> /\ Len(ctxs[m]) \in Nat
  BY RunFacts DEF ChainInv, ContextsOK
<1>2. PICK i \in 1..Len(calls[m]) : i = Len(calls[m])
  BY <1>1
<1>3. PICK k \in 1..Len(ctxs[m]) : k = calls[m][i].ctx
  BY <1>1, CallLevels DEF StackOK
<1>4. Call(m).h \in HandlersOf(app.chain[ctxs[m][k].router])
  BY <1>1, <1>2, <1>3 DEF CallsOK
<1>5. ctxs[m][k].router \in {Root} \cup Mounts(app)
  <2>1. k = 1 \/ k \in 2..Len(ctxs[m])
    BY <1>1
  <2> QED
    BY <1>1, <2>1 DEF RoutersOK
<1> QED
  BY <1>4, <1>5 DEF Silent

(* Contexts have no ID when the one that takes the place of others has     *)
(* none.                                                                   *)
LEMMA IdsKept ==
  ASSUME ChainInv, NEW m \in Msgs, Mute(m), NEW n \in 1..Len(ctxs[m]), NEW d \in Context, d.id = NoId,
         Replaces(ctxs[m], ctxs'[m], n, d) \/ Relays(ctxs[m], ctxs'[m], n, d)
  PROVE  \A i \in 1..Len(ctxs'[m]) : ctxs'[m][i].id = NoId
<1>1. /\ n \in Nat /\ Len(ctxs'[m]) = n /\ ctxs'[m][n] = d /\ Len(ctxs[m]) \in Nat
      /\ \A i \in 1..(n - 1) : SamePlace(ctxs[m][i], ctxs'[m][i])
  BY BelowSame, StackTypes DEF ChainInv, BaseInv
<1> SUFFICES ASSUME NEW i \in 1..n PROVE ctxs'[m][i].id = NoId
  BY <1>1
<1>2. CASE i = n
  BY <1>1, <1>2
<1>3. CASE i # n
  <2>1. i \in 1..(n - 1) /\ i \in 1..Len(ctxs[m])
    BY <1>1, <1>3
  <2>2. SamePlace(ctxs[m][i], ctxs'[m][i])
    BY <1>1, <2>1
  <2> QED
    BY <2>1, <2>2 DEF SamePlace, Mute
<1> QED
  BY <1>2, <1>3

(* A handler returns.                                                      *)
LEMMA MuteLeft ==
  ASSUME ChainInv, NEW m \in Msgs, Mute(m), ctl[m] = "run", NEW n \in 1..Len(ctxs[m]),
         NEW c \in Context, NEW d \in Context, Left(m, n, c, d), c.id = NoId
  PROVE  Mute(m)'
<1>1. /\ Replaces(ctxs[m], ctxs'[m], n, d) \/ Relays(ctxs[m], ctxs'[m], n, d)
      /\ Forward(c, d)
      /\ \/ ctl' = [ctl EXCEPT ![m] = "auto"]
         \/ ctl' = [ctl EXCEPT ![m] = IF Len(calls[m]) = 1 THEN "finish" ELSE "run"]
  BY DEF Left
<1>2. ctl'[m] # "waiting"
  BY <1>1 DEF ChainInv, BaseInv, TypeOK
<1>3. d.id = NoId
  BY <1>1 DEF Forward
<1> QED
  BY <1>1, <1>2, <1>3, IdsKept DEF Mute

(* Every step keeps a message without ID.                                  *)
LEMMA MuteStep ==
  ASSUME ChainInv, Silent(app), NEW m \in Msgs, Mute(m), Steps(m)
  PROVE  Mute(m)'
<1>1. TypeOK
  BY DEF ChainInv, BaseInv
<1>2. ASSUME ctl[m] # "idle"
      PROVE  /\ Len(ctxs[m]) \in 1..Len(ctxs[m]) /\ Len(ctxs[m]) \in Nat
             /\ Cur(m) = ctxs[m][Len(ctxs[m])] /\ Cur(m).id = NoId
  <2>1. Len(ctxs[m]) \in Nat /\ Len(ctxs[m]) >= 1 /\ Cur(m) = ctxs[m][Len(ctxs[m])]
    BY <1>2, CurFacts DEF ChainInv
  <2>2. Len(ctxs[m]) \in 1..Len(ctxs[m])
    BY <2>1
  <2> QED
    BY <2>1, <2>2 DEF Mute
<1>3. CASE Start(m)
  <2>1. ctxs'[m] = <<NewContext>> /\ Len(ctxs'[m]) = 1 /\ ctl'[m] = "next"
    BY <1>3, StartFacts DEF ChainInv, BaseInv, TypeOK
  <2>2. ctxs'[m][1].id = NoId
    BY <2>1 DEF NewContext
  <2>3. \A i \in 1..Len(ctxs'[m]) : i = 1
    BY <2>1
  <2> QED
    BY <2>1, <2>2, <2>3 DEF Mute
<1>4. CASE Returning(m)
  <2>1. ctl[m] # "idle"
    BY <1>4 DEF Returning, NextRefused, NextBeyondEnd, NextHandsOver, Nexting
  <2>2. PICK d \in Context :
          /\ Relays(ctxs[m], ctxs'[m], Len(ctxs[m]), d) /\ Forward(Cur(m), d)
          /\ ctl' = [ctl EXCEPT ![m] = IF calls[m] = <<>> THEN "finish" ELSE "run"]
    BY <1>4, ReturningFacts
  <2>3. ctl'[m] # "waiting"
    BY <1>1, <2>2 DEF TypeOK
  <2>4. d.id = NoId
    BY <1>2, <2>1, <2>2 DEF Forward
  <2> QED
    BY <1>2, <2>1, <2>2, <2>3, <2>4, IdsKept DEF Mute
<1>5. CASE NextRunsHandler(m)
  <2>1. PICK d \in Context :
          /\ Replaces(ctxs[m], ctxs'[m], Len(ctxs[m]), d) /\ Forward(Cur(m), d)
          /\ ctl' = [ctl EXCEPT ![m] = "run"] /\ Nexting(m)
    BY <1>5, RunsFacts
  <2>2. ctl'[m] # "waiting" /\ ctl[m] # "idle"
    BY <1>1, <2>1 DEF TypeOK, Nexting
  <2>3. d.id = NoId
    BY <1>2, <2>1, <2>2 DEF Forward
  <2> QED
    BY <1>2, <2>1, <2>2, <2>3, IdsKept DEF Mute
<1>6. CASE EnterRouter(m)
  <2> DEFINE n == Len(ctxs[m])
             d == SubContext(Cur(m), Call(m).h)
  <2>1. /\ Replaces(ctxs[m], ctxs'[m], n + 1, d) /\ d.id = Cur(m).id
        /\ ctl[m] = "run" /\ ctl' = [ctl EXCEPT ![m] = "next"]
    BY <1>6, EnterFacts
  <2>2. n \in Nat /\ d.id = NoId /\ ctl'[m] # "waiting"
    BY <1>1, <1>2, <2>1 DEF TypeOK
  <2> HIDE DEF d
  <2>3. /\ Len(ctxs'[m]) = n + 1 /\ ctxs'[m][n + 1] = d
        /\ \A i \in 1..n : ctxs'[m][i] = ctxs[m][i]
    <3>1. (n + 1) - 1 = n
      BY <2>2
    <3> QED
      BY <2>1, <3>1 DEF Replaces
  <2>4. ASSUME NEW i \in 1..(n + 1) PROVE ctxs'[m][i].id = NoId
    <3>1. i \in 1..n \/ i = n + 1
      BY <2>2
    <3> QED
      BY <2>2, <2>3, <3>1 DEF Mute
  <2> QED
    BY <2>2, <2>3, <2>4 DEF Mute
<1>7. CASE LeaveRouter(m)
  <2> DEFINE n == Len(ctxs[m])
             p == ctxs[m][n - 1]
  <2>1. /\ n \in Nat /\ n >= 2 /\ p \in Context
        /\ \/ /\ Replaces(ctxs[m], ctxs'[m], n - 1, p) /\ ctl' = [ctl EXCEPT ![m] = "next"]
           \/ \E d \in Context : Left(m, n - 1, p, d)
    BY <1>7, LeavingFacts
  <2>2. n - 1 \in 1..n
    BY <2>1, OneLess
  <2>3. p.id = NoId
    BY <2>2 DEF Mute
  <2>4. CASE Replaces(ctxs[m], ctxs'[m], n - 1, p) /\ ctl' = [ctl EXCEPT ![m] = "next"]
    <3>1. ctl'[m] # "waiting"
      BY <1>1, <2>4 DEF TypeOK
    <3> QED
      BY <2>1, <2>2, <2>3, <2>4, <3>1, IdsKept DEF Mute
  <2>5. CASE \E d \in Context : Left(m, n - 1, p, d)
    <3>1. ctl[m] = "run"
      BY <1>7 DEF LeaveRouter, Running
    <3>2. PICK d \in Context : Left(m, n - 1, p, d)
      BY <2>5
    <3> QED
      BY <2>1, <2>2, <2>3, <3>1, <3>2, MuteLeft
  <2> QED
    BY <2>1, <2>4, <2>5
<1>8. CASE Returned(m)
  <2>1. PICK c \in Context, d \in Context :
          Left(m, Len(ctxs[m]), c, d) /\ c.id = Cur(m).id /\ ctl[m] = "run"
    BY <1>8, ReturnedFacts
  <2> QED
    BY <1>2, <2>1, MuteLeft
<1>9. CASE Decoded(m)
  BY <1>9, NoCodecs DEF Decoded, Running
<1>10. CASE Quiet(m)
  <2>1. ctxs' = ctxs /\ ctl'[m] # "waiting"
    BY <1>10, QuietFacts
  <2> QED
    BY <2>1 DEF Mute
<1>11. CASE Works(m)
  <2>1. /\ Replaces(ctxs[m], ctxs'[m], Len(ctxs[m]), Cur(m)') /\ Cur(m)' \in Context
        /\ Cur(m)'.id = Cur(m).id /\ ctl[m] = "run"
        /\ ctl' = [ctl EXCEPT ![m] = "asleep"] \/ ctl' = ctl
    BY <1>11, WorksFacts
  <2>2. PICK d \in Context : d = Cur(m)'
    BY <2>1
  <2>3. ctl'[m] # "waiting"
    BY <1>1, <2>1 DEF TypeOK
  <2>4. Replaces(ctxs[m], ctxs'[m], Len(ctxs[m]), d) /\ d.id = NoId
    BY <1>2, <2>1, <2>2
  <2>5. \A i \in 1..Len(ctxs'[m]) : ctxs'[m][i].id = NoId
    BY <1>2, <2>1, <2>4, IdsKept
  <2> QED
    BY <2>3, <2>5 DEF Mute
<1> QED
  BY <1>3, <1>4, <1>5, <1>6, <1>7, <1>8, <1>9, <1>10, <1>11, StepGroups

(* What is said of applications without codecs                             *)
SilentInv == Silent(app) => \A m \in Msgs : Mute(m)

(* Without codecs, no message ever has an ID.                              *)
LEMMA SilentInvHolds == Spec => []SilentInv
<1>1. Init => SilentInv
  BY DEF Init, SilentInv, Mute
<1>2. ASSUME ChainInv, SilentInv, [Next]_vars PROVE SilentInv'
  <2>1. app' = app /\ TypeOK
    BY <1>2, AppFixed DEF ChainInv, BaseInv
  <2> SUFFICES ASSUME Silent(app), NEW m \in Msgs PROVE Mute(m)'
    BY <2>1 DEF SilentInv
  <2>2. Mute(m)
    BY <1>2 DEF SilentInv
  <2>3. CASE Steps(m)
    BY <1>2, <2>2, <2>3, MuteStep
  <2>4. CASE Untouched(m)
    BY <2>2, <2>4 DEF Untouched, Mute
  <2> QED
    BY <1>2, <2>1, <2>3, <2>4, StepCases
<1> QED
  BY <1>1, <1>2, ChainInvHolds, PTL DEF Spec

-----------------------------------------------------------------------------
(* What has passed SetMessageID for an ID and has its message has the      *)
(* turn.                                                                   *)
LEMMA InsideHasTurn ==
  ASSUME ChainInv, Conversational(app), NEW m \in Msgs, Turn(m), NEW id \in Ids, Inside(m, id)
  PROVE  HasTurn(m, id)
<1>1. ctl[m] \in {"next", "auto", "run"} /\ \A i \in DOMAIN ctxs[m] : ~ctxs[m][i].gone
  BY DEF Inside
<1>2. /\ Len(ctxs[m]) \in Nat /\ 1 \in 1..Len(ctxs[m]) /\ Below(ctxs[m])
      /\ ctxs[m] \in Seq(Context)
  BY <1>1, TurnParts, StackTypes DEF ChainInv, BaseInv
<1>3. DOMAIN ctxs[m] = 1..Len(ctxs[m])
  BY <1>2, LenProperties
<1>4. PICK i \in 1..Len(ctxs[m]) : ctxs[m][i].id = id
  BY <1>3 DEF Inside
<1>5. ctxs[m][1].id = id
  <2>1. i = 1 \/ i \in 2..Len(ctxs[m])
    BY <1>2
  <2> QED
    BY <1>2, <1>4, <2>1 DEF Below
<1> QED
  BY <1>1, <1>2, <1>3, <1>5 DEF HasTurn

(* Whatever handlers do, in conversations of any number of messages        *)
(* through any number of routers: two messages of one ID are never in the  *)
(* chain at once.                                                          *)
THEOREM TakingTurns ==
  ASSUME \A s \in Setups : Conversational(s) \/ Silent(s)
  PROVE  Spec => []OneAtATime
<1>1. ASSUME ChainInv, LockInv, SilentInv PROVE OneAtATime
  <2>1. Conversational(app) \/ Silent(app)
    BY <1>1 DEF ChainInv, BaseInv, TypeOK
  <2>2. CASE Conversational(app)
    <3>1. LockOK /\ \A m \in Msgs : Turn(m)
      BY <1>1, <2>2 DEF LockInv
    <3>2. \A m \in Msgs, id \in Ids : Inside(m, id) => HasTurn(m, id)
      BY <1>1, <2>2, <3>1, InsideHasTurn
    <3> QED
      BY <3>1, <3>2 DEF OneAtATime, LockOK, OneTurn
  <2>3. CASE Silent(app)
    <3>1. ASSUME NEW m \in Msgs, NEW id \in Ids PROVE ~Inside(m, id)
      <4>1. Mute(m) /\ ctxs[m] \in Seq(Context)
        BY <1>1, <2>3, StackTypes DEF SilentInv, ChainInv, BaseInv
      <4>2. DOMAIN ctxs[m] = 1..Len(ctxs[m])
        BY <4>1, LenProperties
      <4> QED
        BY <4>1, <4>2, HandlerChainAssumption DEF Mute, Inside
    <3> QED
      BY <3>1 DEF OneAtATime
  <2> QED
    BY <2>1, <2>2, <2>3
<1> QED
  BY <1>1, ChainInvHolds, LockInvHolds, SilentInvHolds, PTL

(* A message that waits for its ID waits for another one that is in the    *)
(* chain and will release the lock, in any such application.               *)
THEOREM WaitingForAnother ==
  ASSUME \A s \in Setups : Conversational(s) \/ Silent(s)
  PROVE  Spec => []BlockedByAnother
<1>1. ASSUME ChainInv, LockInv, SilentInv PROVE BlockedByAnother
  <2> SUFFICES ASSUME NEW m \in Msgs, ctl[m] = "waiting", ~closed, lock[Cur(m).id] # None
               PROVE  \E other \in Msgs \ {m} :
                        /\ \/ ctl[other] \in {"next", "auto", "run", "finish"}
                           \/ ctl[other] = "asleep" /\ inbox[other] # None
                        /\ ctxs[other][1].id = Cur(m).id /\ ~ctxs[other][1].gone
    BY DEF BlockedByAnother
  <2>1. Conversational(app)
    <3>1. Conversational(app) \/ Silent(app)
      BY <1>1 DEF ChainInv, BaseInv, TypeOK
    <3>2. ~Silent(app)
      BY <1>1 DEF SilentInv, Mute
    <3> QED
      BY <3>1, <3>2
  <2>2. LockOK /\ \A x \in Msgs : Turn(x)
    BY <1>1, <2>1 DEF LockInv
  <2>3. Cur(m) = ctxs[m][1] /\ ctxs[m][1].id \in Ids
    <3>1. Len(ctxs[m]) = 1 /\ ctxs[m][1].id # NoId
      BY <2>2 DEF Turn
    <3>2. Cur(m) = ctxs[m][Len(ctxs[m])] /\ Cur(m) \in Context
      BY <1>1, <2>1, <2>2, TurnParts
    <3> QED
      BY <3>1, <3>2 DEF Context
  <2>4. PICK id \in Ids : id = Cur(m).id
    BY <2>3
  <2>5. PICK other \in Msgs : HasTurn(other, id)
    BY <2>2, <2>4 DEF LockOK, LockedInTurn
  <2>6. /\ ctl[other] \notin {"idle", "waiting", "ended"}
        /\ ctxs[other][1].id = id /\ ~ctxs[other][1].gone
        /\ ctl[other] = "asleep" => inbox[other] # None
    BY <2>5 DEF HasTurn
  <2>7. ctl[other] # "stuck"
    BY <2>2, <2>6 DEF Turn
  <2>8. ctl[other] \in Controls
    BY <1>1 DEF ChainInv, BaseInv, TypeOK
  <2>9. other # m
    BY <2>6
  <2> QED
    BY <2>4, <2>6, <2>7, <2>8, <2>9 DEF Controls
<1> QED
  BY <1>1, ChainInvHolds, LockInvHolds, SilentInvHolds, PTL
=============================================================================
