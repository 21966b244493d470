----------------------------- MODULE HandlerChain -----------------------------
(***************************************************************************)
(* The handler chain of Velaros as one message sees it: Context.Next, the  *)
(* contexts of mounted routers, the codec middleware, and what handlers do *)
(* with their context.                                                     *)
(*                                                                         *)
(* A goroutine's call stack alternates between handlers and Next.  calls[m]*)
(* holds the handlers on it, ctxs[m] the contexts: the first is made for   *)
(* the message, one more for every mounted router whose Handle is running. *)
(* Whoever is in control works on the innermost context, so ctl[m] says    *)
(* all the rest: "next" and "auto" are a call of Next, by a handler or by  *)
(* Next itself behind an open or close handler, "run" is the last handler  *)
(* of calls[m] in control.                                                 *)
(*                                                                         *)
(* What goroutines share is kept as coarse as the chain allows: an ID lock *)
(* is free or taken, registering a receiver, releasing the lock and going  *)
(* to sleep is one step, and so are finding a receiver and handing over.   *)
(* Module Conversation takes these steps apart, over a flat chain.         *)
(***************************************************************************)
EXTENDS Integers, Sequences, SequencesExt, FiniteSetsExt

CONSTANTS
    Msgs,       \* the messages, and so the goroutines
    Ids, NoId,  \* message IDs; NoId: hasSetID is false
    Paths,      \* message paths
    NoPath,     \* the path of a message that is not decoded
    Funcs,      \* handlers that are functions
    Codecs,     \* the json, msgpack and protobuf middleware, and their formats
    Routers,    \* routers, mounted in each other
    Root,       \* the router that serves the connection
    Keys, Vals, \* of Context.Set and Get
    Setups,     \* the applications to look at, see Setup
    None

Handlers == Funcs \cup Codecs \cup Routers
Kinds    == {"normal", "open", "close"}     \* BindType

(* What the code of a handler does with its context; "again" lets it call    *)
(* Next more than once, "look" is MessageID, Path, Data, RawData or Send.      *)
Acts == {"next", "again", "path", "look", "fail", "clear", "set", "delete", "receive"}

(* HandlerNode: the paths its pattern matches; open and close handlers have  *)
(* no pattern and match any.                                                 *)
Node == [on : SUBSET (Paths \cup {NoPath}), handlers : Seq(Handlers)]

(* What a client sends                                                       *)
Frame == [id : Ids \cup {NoId}, path : Paths \cup {NoPath}, format : Codecs]

(* An application: which of its chains is run, the chains, what its functions*)
(* do, the Sec-WebSocket-Protocol of the connection, and what is sent on it, *)
(* and how many times.                                                       *)
IsSetup(s) ==
    /\ s.kind \in Kinds
    /\ DOMAIN s.chain = Routers
    /\ \A r \in Routers : s.chain[r] \in Seq(Node)
    /\ \A r \in Routers : \A n \in DOMAIN s.chain[r] : s.chain[r][n].handlers # <<>>
    /\ s.able \in [Funcs -> SUBSET Acts]
    /\ s.protocol \in Codecs \cup {None}
    /\ s.sent \subseteq Frame
    /\ s.load \in Nat

ASSUME HandlerChainAssumption ==
    /\ Root \in Routers
    /\ Funcs \cap Codecs = {} /\ Funcs \cap Routers = {} /\ Codecs \cap Routers = {}
    /\ NoId \notin Ids /\ NoPath \notin Paths
    /\ None \notin Msgs \cup Codecs \cup Vals \cup Frame
    /\ \A s \in Setups : IsSetup(s)

VARIABLES
    app,        \* the application, one of Setups
    frame,      \* what each message is, once it is read
    ctl,        \* who is in control of each goroutine
    ctxs,       \* the contexts of each goroutine, innermost last
    calls,      \* the handlers on its stack: how often each has called Next, and
                \* which of the contexts, counted from the first, it was given
    closed,     \* Socket.closed
    lock,       \* messageIDLocks: the message that took it
    receivers,  \* receivers: the place in the chain, and who sleeps there
    inbox,      \* the receiver channel of each goroutine
    seen        \* history, for the properties only

vars == <<app, frame, ctl, ctxs, calls, closed, lock, receivers, inbox, seen>>
shared == <<closed, lock, receivers, inbox>>
fixed == <<app, frame>>                     \* fixed once the message is read

Controls == {"idle", "next", "auto", "run", "waiting", "asleep", "stuck", "finish", "ended"}
Mutex == {"free", "read", "write"}          \* Context.mu, between calls of its methods

-----------------------------------------------------------------------------
(* Contexts *)

Chain(c) == app.chain[c.router]
AtEnd(c) == c.node > Len(Chain(c))          \* currentHandlerNode == nil
NodeOf(c) == Chain(c)[c.node]
Cur(m)  == Last(ctxs[m])                    \* the innermost context
Call(m) == Last(calls[m])                   \* the handler in control

(* Contexts are changed by the goroutine that made them, at the inner end.   *)
Put(m, c) == ctxs' = [ctxs EXCEPT ![m] = Append(Front(@), c)]

(* NewContextWithNodeAndMessageType.  at names the mounts on the way here.   *)
NewContext ==
    [router |-> Root, at |-> <<>>, node |-> 1, index |-> 0, matches |-> FALSE,
     params |-> <<>>, path |-> NoPath, setPath |-> FALSE, id |-> NoId, gone |-> FALSE,
     chan |-> FALSE, owns |-> FALSE, beyond |-> FALSE, error |-> FALSE,
     codec |-> None, values |-> [k \in Keys |-> None], mu |-> "free"]

(* NewSubContextWithNode: a copy of message, params, error, codec, values and*)
(* receiver fields, at the head of the mounted router's chain.               *)
SubContext(c, r) ==
    [c EXCEPT !.router = r, !.at = @ \o <<c.node, c.index>>, !.node = 1, !.index = 0,
              !.matches = FALSE, !.owns = FALSE, !.beyond = FALSE, !.mu = "free"]

(* mutant: tryUpdateParent forgets the error                                 *)
UpdateParentValuesOnly(stack, c) ==
    IF stack = <<>> THEN <<>>
    ELSE Append(Front(stack),
                [Last(stack) EXCEPT !.values = [k \in Keys |->
                    IF c.values[k] = None THEN @[k] ELSE c.values[k]]])

(* mutant: tryUpdateParent forgets the values                                *)
UpdateParentErrorOnly(stack, c) ==
    IF stack = <<>> THEN <<>>
    ELSE Append(Front(stack), [Last(stack) EXCEPT !.error = c.error])

(* tryUpdateParent *)
UpdateParent(stack, c) ==
    IF stack = <<>> THEN <<>>
    ELSE Append(Front(stack),
                [Last(stack) EXCEPT
                    !.error = c.error,
                    !.values = [k \in Keys |->
                        IF c.values[k] = None THEN @[k] ELSE c.values[k]]])

(* The end of Next: "prevent handlers from calling Next twice"               *)
Cleared(c) ==
    [c EXCEPT !.node = Len(Chain(c)) + 1, !.matches = FALSE, !.index = 0]

(* finalize: the receiver of the ID goes if this context ever made one.      *)
Finalized(c) ==
    IF c.owns /\ ~c.gone
    THEN receivers' = [receivers EXCEPT ![c.id] = None]
    ELSE UNCHANGED receivers

-----------------------------------------------------------------------------
(* The walk of Context.Next *)

(* tryMatch: a pattern that matches leaves its parameters.                   *)
Matched(c, n) == IF app.kind = "normal" THEN <<c.router, n, c.path>> ELSE c.params

(* mutant: SetMessagePath does not make the current node match again         *)
KeepsNode(c) == [c EXCEPT !.setPath = FALSE]

(* mutant: a node that still matches is begun again                          *)
RestartsNode(c) ==
    IF ~(c.setPath /\ c.matches) THEN [c EXCEPT !.setPath = FALSE]
    ELSE IF c.path \in NodeOf(c).on
    THEN [c EXCEPT !.setPath = FALSE, !.index = 0, !.params = Matched(c, c.node)]
    ELSE [c EXCEPT !.setPath = FALSE, !.node = @ + 1, !.matches = FALSE, !.index = 0]

(* The path was set: does the node that was matched still match?             *)
Recheck(c) ==
    LET on == c.path \in NodeOf(c).on IN
    IF ~(c.setPath /\ c.matches) THEN [c EXCEPT !.setPath = FALSE]
    ELSE IF on THEN [c EXCEPT !.setPath = FALSE, !.params = Matched(c, c.node)]
    ELSE [c EXCEPT !.setPath = FALSE, !.node = @ + 1, !.matches = FALSE, !.index = 0]

(* mutant: a node is left when its first handler has run                     *)
OneHandlerPerNode(c) == c.matches /\ c.index = 0

(* Handlers of the matching node are left to run.                            *)
MoreHandlers(c) == c.matches /\ c.index < Len(NodeOf(c).handlers)

(* Where the walk stops: at the next handler of the node, at the first handler*)
(* of the next node that matches, or at the end.                             *)
Walk(c0) ==
    LET c     == Recheck(c0)
        first == IF c.matches THEN c.node + 1 ELSE c.node
        ahead == {n \in first..Len(Chain(c)) : c.path \in Chain(c)[n].on}
    IN  IF MoreHandlers(c) THEN c
        ELSE IF ahead = {} THEN Cleared(c)
        ELSE [c EXCEPT !.node = Min(ahead), !.index = 0, !.matches = TRUE,
                       !.params = Matched(c, Min(ahead))]

(* A receiver is found by node and handler; a router mounted twice has its   *)
(* nodes once.                                                               *)
Place(c) == <<c.router, c.node, c.index>>

(* Next is refused after an error and on a closed socket, except in the      *)
(* close chain: that is, while the context is at a close handler.            *)
Refused(c) == (app.kind # "close" \/ AtEnd(c)) /\ (c.error \/ closed)

(* Next returns, to the handler that called it or to the goroutine.  A call  *)
(* by Next itself returns to Next, which clears its place.                   *)
NextReturns(m, c, rest) ==
    LET c1 == IF ctl[m] = "auto" THEN Cleared(c) ELSE c IN
    /\ ctxs' = [ctxs EXCEPT ![m] = Append(UpdateParent(Front(@), c1), c1)]
    /\ ctl' = [ctl EXCEPT ![m] = IF rest = <<>> THEN "finish" ELSE "run"]

(* A handler returns: open and close chains go on by themselves.             *)
GoesOn == app.kind = "close" \/ (app.kind = "open" /\ ~closed)

HandlerReturns(m, stack, c) ==
    LET rest == Front(calls[m]) IN
    /\ calls' = [calls EXCEPT ![m] = rest]
    /\ IF GoesOn
       THEN /\ ctl' = [ctl EXCEPT ![m] = "auto"]
            /\ ctxs' = [ctxs EXCEPT ![m] = Append(stack, c)]
       ELSE /\ ctl' = [ctl EXCEPT ![m] = IF rest = <<>> THEN "finish" ELSE "run"]
            /\ ctxs' = [ctxs EXCEPT ![m] =
                           Append(UpdateParent(stack, Cleared(c)), Cleared(c))]

-----------------------------------------------------------------------------
(* The goroutine of a message, or HandleOpen or HandleClose *)

Start(m) ==
    /\ ctl[m] = "idle"
    /\ Cardinality({x \in Msgs : ctl[x] # "idle"}) < app.load
    /\ \E sent \in app.sent : frame' = [frame EXCEPT ![m] = sent]
    /\ ctl' = [ctl EXCEPT ![m] = "next"]
    /\ ctxs' = [ctxs EXCEPT ![m] = <<NewContext>>]
    /\ UNCHANGED <<app, calls, shared, seen>>

Nexting(m) == ctl[m] \in {"next", "auto"}

NextRefused(m) ==
    /\ Nexting(m)
    /\ Refused(Cur(m))
    /\ NextReturns(m, Cur(m), calls[m])
    /\ UNCHANGED <<fixed, calls, shared, seen>>

(* The end of the chain: a receiver this message did not meet is removed.    *)
NextBeyondEnd(m) ==
    LET c == Walk(Cur(m)) IN
    /\ Nexting(m) /\ ~Refused(Cur(m))
    /\ AtEnd(c)
    /\ receivers' = IF c.id = NoId \/ c.chan THEN receivers
                    ELSE [receivers EXCEPT ![c.id] = None]
    /\ NextReturns(m, [c EXCEPT !.beyond = TRUE], calls[m])
    /\ UNCHANGED <<fixed, calls, closed, lock, inbox, seen>>

(* GetReceiverForNode, asked by a context that has no channel                *)
Meets(c) ==
    /\ ~AtEnd(c) /\ c.id # NoId /\ ~c.chan
    /\ receivers[c.id] # None /\ receivers[c.id].at = Place(c)

(* mutant: what is sent is the content of the message                        *)
HandsOverContent(m) ==
    LET c == Walk(Cur(m)) IN
    /\ Nexting(m) /\ ~Refused(Cur(m))
    /\ Meets(c)
    /\ receivers' = [receivers EXCEPT ![c.id] = None]
    /\ inbox' = [inbox EXCEPT ![receivers[c.id].by] = frame[m]]
    /\ NextReturns(m, [c EXCEPT !.gone = TRUE], calls[m])
    /\ UNCHANGED <<fixed, calls, closed, lock, seen>>

(* The message hands itself over to the handler that waits for it, and its   *)
(* context forgets it.                                                       *)
NextHandsOver(m) ==
    LET c == Walk(Cur(m)) IN
    /\ Nexting(m) /\ ~Refused(Cur(m))
    /\ Meets(c)
    /\ receivers' = [receivers EXCEPT ![c.id] = None]
    /\ inbox' = [inbox EXCEPT ![receivers[c.id].by] = m]
    /\ NextReturns(m, [c EXCEPT !.gone = TRUE], calls[m])
    /\ UNCHANGED <<fixed, calls, closed, lock, seen>>

NextRunsHandler(m) ==
    LET c == Walk(Cur(m)) IN
    /\ Nexting(m) /\ ~Refused(Cur(m))
    /\ ~AtEnd(c) /\ ~Meets(c)
    /\ Put(m, [c EXCEPT !.index = @ + 1])
    /\ calls' = [calls EXCEPT ![m] =
                    Append(@, [h |-> NodeOf(c).handlers[c.index + 1], nexts |-> 0,
                               ctx |-> Len(ctxs[m])])]
    /\ ctl' = [ctl EXCEPT ![m] = "run"]
    /\ seen' = [seen EXCEPT ![m].ran = Append(@, c.at \o <<c.node, c.index + 1>>)]
    /\ UNCHANGED <<fixed, shared>>

(* HandleNextMessageWithNode after Next: the lock of the ID is released if   *)
(* the root context still has its message and set an ID, and finalize.       *)
Finish(m) ==
    LET c == ctxs[m][1] IN
    /\ ctl[m] = "finish"
    /\ lock' = IF c.gone \/ c.id = NoId THEN lock ELSE [lock EXCEPT ![c.id] = None]
    /\ Finalized(c)
    /\ ctl' = [ctl EXCEPT ![m] = "ended"]
    /\ UNCHANGED <<fixed, ctxs, calls, closed, inbox, seen>>

-----------------------------------------------------------------------------
(* Mounted routers: Router.Handle, HandleOpen, HandleClose *)

Running(m, hs, n) == ctl[m] = "run" /\ Call(m).h \in hs /\ Call(m).nexts \in n

Nexts(m, n) == calls' = [calls EXCEPT ![m] = Append(Front(@), [Last(@) EXCEPT !.nexts = n])]

EnterRouter(m) ==
    /\ Running(m, Routers, {0})
    /\ ctxs' = [ctxs EXCEPT ![m] = Append(@, SubContext(Cur(m), Call(m).h))]
    /\ Nexts(m, 1)
    /\ ctl' = [ctl EXCEPT ![m] = "next"]
    /\ UNCHANGED <<fixed, shared, seen>>

(* mutant: the parent's Next is called whatever happened in the router       *)
LeaveRouterAlwaysOn(m) ==
    LET inner == Cur(m) stack == Front(ctxs[m]) IN
    /\ Running(m, Routers, {1})
    /\ Finalized(inner)
    /\ ctxs' = [ctxs EXCEPT ![m] = stack]
    /\ Nexts(m, 2)
    /\ ctl' = [ctl EXCEPT ![m] = "next"]
    /\ UNCHANGED <<fixed, closed, lock, inbox, seen>>

(* The sub-context is finalized; the parent's chain goes on if the router's  *)
(* came to its end.                                                          *)
LeaveRouter(m) ==
    LET inner == Cur(m)
        stack == Front(ctxs[m])
    IN  /\ Running(m, Routers, {1})
        /\ Finalized(inner)
        /\ IF inner.beyond
           THEN /\ ctxs' = [ctxs EXCEPT ![m] = stack]
                /\ Nexts(m, 2)
                /\ ctl' = [ctl EXCEPT ![m] = "next"]
           ELSE HandlerReturns(m, Front(stack), Last(stack))
        /\ UNCHANGED <<fixed, closed, lock, inbox, seen>>

RouterReturns(m) ==
    /\ Running(m, Routers, {2})
    /\ HandlerReturns(m, Front(ctxs[m]), Cur(m))
    /\ UNCHANGED <<fixed, shared, seen>>

-----------------------------------------------------------------------------
(* Codecs.  The three have the same control.                                 *)

Readable(m, codec) == frame[m].format = codec
Speaks(codec) == app.protocol \in {None, codec}    \* the subprotocol is its own

(* mutant: an unreadable message goes on undecoded, as it does without a     *)
(* subprotocol                                                               *)
DecodeRefusedGoesOn(m) ==
    /\ Running(m, Codecs, {0})
    /\ \/ ~Speaks(Call(m).h)
       \/ ~Readable(m, Call(m).h) /\ app.protocol # None
    /\ Nexts(m, 1)
    /\ ctl' = [ctl EXCEPT ![m] = "next"]
    /\ UNCHANGED <<fixed, ctxs, shared, seen>>

(* Another codec's subprotocol, or a message that this codec's cannot be     *)
DecodeRefused(m) ==
    /\ Running(m, Codecs, {0})
    /\ \/ ~Speaks(Call(m).h)
       \/ ~Readable(m, Call(m).h) /\ app.protocol # None
    /\ seen' = [seen EXCEPT ![m].failed = TRUE, ![m].err = TRUE]
    /\ HandlerReturns(m, Front(ctxs[m]), [Cur(m) EXCEPT !.error = TRUE])
    /\ UNCHANGED <<fixed, shared>>

(* Without a subprotocol a message that cannot be read is left to others.    *)
DecodeSkipped(m) ==
    /\ Running(m, Codecs, {0})
    /\ app.protocol = None /\ ~Readable(m, Call(m).h)
    /\ Nexts(m, 1)
    /\ ctl' = [ctl EXCEPT ![m] = "next"]
    /\ UNCHANGED <<fixed, ctxs, shared, seen>>

(* mutant: the lock of an ID is not asked for                                *)
SetMessageIDUnlocked(m, id) ==
    /\ ctl' = [ctl EXCEPT ![m] = "next"]
    /\ UNCHANGED lock

(* SetMessageID: takes the lock of the ID, or waits for it                   *)
SetMessageID(m, id) ==
    IF lock[id] = None
    THEN /\ lock' = [lock EXCEPT ![id] = m]
         /\ ctl' = [ctl EXCEPT ![m] = "next"]
    ELSE /\ ctl' = [ctl EXCEPT ![m] = "waiting"]
         /\ UNCHANGED lock

(* A message that is decoded gets its ID, path and codec, and goes on.       *)
Decoded(m) ==
    LET id == frame[m].id codec == Call(m).h IN
    /\ Running(m, Codecs, {0})
    /\ Speaks(codec) /\ Readable(m, codec)
    /\ IF id = NoId THEN ctl' = [ctl EXCEPT ![m] = "next"] /\ UNCHANGED lock
                    ELSE SetMessageID(m, id)
    /\ Put(m, [Cur(m) EXCEPT !.codec = codec,
                             !.id = IF id = NoId THEN @ ELSE id,
                             !.path = IF frame[m].path = NoPath THEN @ ELSE frame[m].path,
                             !.setPath = @ \/ frame[m].path # NoPath])
    /\ Nexts(m, 1)
    /\ UNCHANGED <<fixed, closed, receivers, inbox, seen>>

(* The loop of SetMessageID ends with the lock, or without it after Close.   *)
LockTaken(m) ==
    /\ ctl[m] = "waiting" /\ lock[Cur(m).id] = None
    /\ lock' = [lock EXCEPT ![Cur(m).id] = m]
    /\ ctl' = [ctl EXCEPT ![m] = "next"]
    /\ UNCHANGED <<fixed, ctxs, calls, closed, receivers, inbox, seen>>

LockGivenUp(m) ==
    /\ ctl[m] = "waiting" /\ closed
    /\ ctl' = [ctl EXCEPT ![m] = "next"]
    /\ UNCHANGED <<fixed, ctxs, calls, shared, seen>>

CodecReturns(m) ==
    /\ Running(m, Codecs, {1})
    /\ HandlerReturns(m, Front(ctxs[m]), Cur(m))
    /\ UNCHANGED <<fixed, shared, seen>>

-----------------------------------------------------------------------------
(* Functions: each does what it is able to do, in any order, then returns.   *)

Doing(m, act) ==
    /\ Running(m, Funcs, {0, 1, 2})
    /\ act \in app.able[Call(m).h]

CallNext(m) ==
    /\ \/ Doing(m, "next") /\ Call(m).nexts = 0
       \/ Doing(m, "again") /\ Call(m).nexts = 1
    /\ Cur(m).gone => Refused(Cur(m))
    /\ Nexts(m, Call(m).nexts + 1)
    /\ ctl' = [ctl EXCEPT ![m] = "next"]
    /\ UNCHANGED <<fixed, ctxs, shared, seen>>

(* A context that has handed its message over has none (message == nil).     *)
(* What reads it panics: Next and Receive without the mutex, SetMessagePath  *)
(* and the getters between its Lock and Unlock, so that it stays locked.  The*)
(* panic ends the handler with an error.                                     *)
NothingLeft(m) ==
    LET c == Cur(m) IN
    /\ ctl[m] = "run" /\ c.gone
    /\ \E mu \in Mutex :
        /\ \/ Doing(m, "again") /\ Call(m).nexts = 1 /\ ~Refused(c) /\ mu = c.mu
           \/ Doing(m, "receive") /\ c.mu = "free" /\ mu = "free"
           \/ Doing(m, "path") /\ c.mu = "free" /\ mu = "write"
           \/ Doing(m, "look") /\ c.mu # "write" /\ mu = "read"
        /\ HandlerReturns(m, Front(ctxs[m]), [c EXCEPT !.error = TRUE, !.mu = mu])
    /\ seen' = [seen EXCEPT ![m].failed = TRUE, ![m].err = TRUE]
    /\ UNCHANGED <<fixed, shared>>

(* Nobody unlocks a mutex that a panic left locked.                          *)
LockedOut(m) ==
    /\ \/ \E act \in {"path", "set", "delete", "receive"} : Doing(m, act) /\ Cur(m).mu # "free"
       \/ Doing(m, "look") /\ Cur(m).mu = "write"
    /\ ctl' = [ctl EXCEPT ![m] = "stuck"]
    /\ UNCHANGED <<fixed, ctxs, calls, shared, seen>>

(* A handler that returned without calling Next has ended the chain.         *)
FuncReturns(m) ==
    /\ Running(m, Funcs, {0, 1, 2})
    /\ seen' = [seen EXCEPT ![m].stopped = @ \/ Call(m).nexts = 0]
    /\ HandlerReturns(m, Front(ctxs[m]), Cur(m))
    /\ UNCHANGED <<fixed, shared>>

(* Error is set, or a panic sets it as the handler returns (execWithCtxRecovery)*)
SetError(m) ==
    /\ Doing(m, "fail") /\ ~Cur(m).error
    /\ Put(m, [Cur(m) EXCEPT !.error = TRUE])
    /\ seen' = [seen EXCEPT ![m].failed = TRUE, ![m].err = TRUE]
    /\ UNCHANGED <<fixed, ctl, calls, shared>>

(* Error-handling middleware: the error is dealt with.                       *)
ClearError(m) ==
    /\ Doing(m, "clear") /\ Cur(m).error
    /\ Put(m, [Cur(m) EXCEPT !.error = FALSE])
    /\ seen' = [seen EXCEPT ![m].err = FALSE]
    /\ UNCHANGED <<fixed, ctl, calls, shared>>

SetMessagePath(m) ==
    /\ Doing(m, "path") /\ ~Cur(m).gone
    /\ \E p \in Paths \ {Cur(m).path} :
         Put(m, [Cur(m) EXCEPT !.path = p, !.setPath = TRUE])
    /\ seen' = [seen EXCEPT ![m].moved = TRUE]
    /\ UNCHANGED <<fixed, ctl, calls, shared>>

Set(m) ==
    /\ Doing(m, "set") /\ Cur(m).mu = "free"
    /\ \E k \in Keys, v \in Vals :
         /\ Put(m, [Cur(m) EXCEPT !.values[k] = v])
         /\ seen' = [seen EXCEPT ![m].latest[k] = v]
    /\ UNCHANGED <<fixed, ctl, calls, shared>>

Delete(m) ==
    /\ Doing(m, "delete") /\ Cur(m).mu = "free"
    /\ \E k \in Keys :
         /\ Put(m, [Cur(m) EXCEPT !.values[k] = None])
         /\ seen' = [seen EXCEPT ![m].latest[k] = None]
    /\ UNCHANGED <<fixed, ctl, calls, shared>>

(* mutant: Receive sleeps with the lock in its hands                         *)
ReceiveHoldingLock(m) ==
    LET c == Cur(m) IN
    /\ Doing(m, "receive") /\ ~c.gone /\ c.id # NoId
    /\ receivers' = [receivers EXCEPT ![c.id] =
                        [at |-> <<c.router, c.node, c.index - 1>>, by |-> m]]
    /\ Put(m, [c EXCEPT !.chan = TRUE, !.owns = TRUE])
    /\ ctl' = [ctl EXCEPT ![m] = "asleep"]
    /\ UNCHANGED <<fixed, calls, closed, lock, inbox, seen>>

(* receiveNextMessage: a fresh channel is registered under the handler that  *)
(* runs, and the lock of the ID is released.  A first Receive answered by    *)
(* the handler's own message, and one without an ID, change nothing modelled.*)
Receive(m) ==
    LET c == Cur(m) IN
    /\ Doing(m, "receive") /\ ~c.gone /\ c.id # NoId
    /\ receivers' = [receivers EXCEPT ![c.id] =
                        [at |-> <<c.router, c.node, c.index - 1>>, by |-> m]]
    /\ lock' = [lock EXCEPT ![c.id] = None]
    /\ Put(m, [c EXCEPT !.chan = TRUE, !.owns = TRUE])
    /\ ctl' = [ctl EXCEPT ![m] = "asleep"]
    /\ UNCHANGED <<fixed, calls, closed, inbox, seen>>

TakeMessage(m) ==
    /\ ctl[m] = "asleep" /\ inbox[m] # None
    /\ inbox' = [inbox EXCEPT ![m] = None]
    /\ ctl' = [ctl EXCEPT ![m] = "run"]
    /\ UNCHANGED <<fixed, ctxs, calls, closed, lock, receivers, seen>>

ReceiveCancelled(m) ==
    /\ ctl[m] = "asleep" /\ closed
    /\ ctl' = [ctl EXCEPT ![m] = "run"]
    /\ UNCHANGED <<fixed, ctxs, calls, shared, seen>>

-----------------------------------------------------------------------------
(* Socket.Close, by anybody *)
Close ==
    /\ ~closed
    /\ closed' = TRUE
    /\ lock' = [id \in Ids |-> None]
    /\ receivers' = [id \in Ids |-> None]
    /\ UNCHANGED <<fixed, ctl, ctxs, calls, inbox, seen>>

Init ==
    /\ app \in Setups
    /\ frame = [m \in Msgs |-> None]
    /\ ctl = [m \in Msgs |-> "idle"]
    /\ ctxs = [m \in Msgs |-> <<>>]
    /\ calls = [m \in Msgs |-> <<>>]
    /\ closed = (app.kind = "close")
    /\ lock = [id \in Ids |-> None]
    /\ receivers = [id \in Ids |-> None]
    /\ inbox = [m \in Msgs |-> None]
    /\ seen = [m \in Msgs |-> [ran |-> <<>>, stopped |-> FALSE, failed |-> FALSE,
                               err |-> FALSE, moved |-> FALSE,
                               latest |-> [k \in Keys |-> None]]]

Next ==
    \/ \E m \in Msgs :
        \/ Start(m) \/ Finish(m)
        \/ NextRefused(m) \/ NextBeyondEnd(m) \/ NextHandsOver(m) \/ NextRunsHandler(m)
        \/ EnterRouter(m) \/ LeaveRouter(m) \/ RouterReturns(m)
        \/ DecodeRefused(m) \/ DecodeSkipped(m) \/ Decoded(m) \/ CodecReturns(m)
        \/ LockTaken(m) \/ LockGivenUp(m)
        \/ CallNext(m) \/ NothingLeft(m) \/ LockedOut(m) \/ FuncReturns(m)
        \/ SetError(m) \/ ClearError(m) \/ SetMessagePath(m) \/ Set(m) \/ Delete(m)
        \/ Receive(m) \/ TakeMessage(m) \/ ReceiveCancelled(m)
    \/ Close

Spec == Init /\ [][Next]_vars

-----------------------------------------------------------------------------
(* Properties *)

Context ==
    [router : Routers, at : Seq(Nat), node : Nat, index : Nat, matches : BOOLEAN,
     params : {<<>>} \cup (Routers \X Nat \X (Paths \cup {NoPath})),
     path : Paths \cup {NoPath}, setPath : BOOLEAN, id : Ids \cup {NoId}, gone : BOOLEAN,
     chan : BOOLEAN, owns : BOOLEAN, beyond : BOOLEAN, error : BOOLEAN,
     codec : Codecs \cup {None}, values : [Keys -> Vals \cup {None}], mu : Mutex]

History ==
    [ran : Seq(Seq(Nat)), stopped : BOOLEAN, failed : BOOLEAN, err : BOOLEAN,
     moved : BOOLEAN, latest : [Keys -> Vals \cup {None}]]

Entry == [at : Routers \X Int \X Int, by : Msgs]

TypeOK ==
    /\ app \in Setups
    /\ frame \in [Msgs -> Frame \cup {None}]
    /\ ctl \in [Msgs -> Controls]
    /\ ctxs \in [Msgs -> Seq(Context)]
    /\ calls \in [Msgs -> Seq([h : Handlers, nexts : 0..2, ctx : Nat])]
    /\ closed \in BOOLEAN
    /\ lock \in [Ids -> Msgs \cup {None}]
    /\ receivers \in [Ids -> Entry \cup {None}]
    /\ inbox \in [Msgs -> Msgs \cup {None}]
    /\ seen \in [Msgs -> History]

(* A handler starts in this step.                                            *)
Starts(m) == Len(calls'[m]) > Len(calls[m])

Before(p, q) == p[1] < q[1] \/ (p[1] = q[1] /\ p[2] < q[2])

(* The handlers of a router that a path leads to                             *)
Places(r, path) ==
    UNION {{n} \X DOMAIN app.chain[r][n].handlers :
              n \in {k \in DOMAIN app.chain[r] : path \in app.chain[r][k].on}}

Ahead(c) == {p \in Places(c.router, c.path) : Before(<<c.node, c.index>>, p)}

(* Whatever handlers do to the path, and wherever in a node they do it, Next *)
(* runs the first handler ahead whose pattern matches the path of that       *)
(* moment, with that pattern's parameters, and comes to the end only when    *)
(* there is none (context_next.go:32-91).                                    *)
NextByPath ==
    [][\A m \in Msgs :
        LET c == Cur(m) d == Cur(m)' IN
        /\ Starts(m) =>
            /\ <<d.node, d.index>> \in Ahead(c)
            /\ \A p \in Ahead(c) : ~Before(p, <<d.node, d.index>>)
            /\ app.kind = "normal" => d.params = <<c.router, d.node, c.path>>
        /\ (Nexting(m) /\ Len(ctxs[m]) = Len(ctxs'[m]) /\ d.beyond /\ ~c.beyond)
              => Ahead(c) = {}]_vars

(* An error ends the chain: until a handler deals with it, no handler of this*)
(* router or of the ones it is mounted in is started; only close handlers    *)
(* are (context_next.go:21-28, context.go:856).                              *)
ErrorEndsChain ==
    [][\A m \in Msgs : Starts(m) /\ app.kind # "close" => ~seen[m].err]_vars

(* A handler that returned without calling Next has ended the chain, also for*)
(* handlers whose Next is yet to be called again, and for the routers around *)
(* its own (context_next.go:145, router.go:190).                             *)
StopEndsChain ==
    [][\A m \in Msgs : Starts(m) /\ app.kind = "normal" => ~seen[m].stopped]_vars

(* Handlers run in the order in which they and their routers were registered,*)
(* each at most once.                                                        *)
InOrder ==
    \A m \in Msgs : \A i \in 2..Len(seen[m].ran) :
        LET p == seen[m].ran[i - 1]
            q == seen[m].ran[i]
        IN  \/ IsStrictPrefix(p, q)
            \/ \E k \in 1..Min({Len(p), Len(q)}) :
                 p[k] < q[k] /\ \A j \in 1..(k - 1) : p[j] = q[j]

(* The ways that a path leads to a handler: by a place in the chain of the   *)
(* root, and as long as that is of a router, by one in its chain.            *)
Stops(path) == UNION {{r} \X Places(r, path) : r \in Routers}
StopHandler(s) == app.chain[s[1]][s[2][1]].handlers[s[2][2]]
Ways(path) ==
    {w \in SeqOf(Stops(path), Cardinality(Routers)) :
        /\ w # <<>> /\ w[1][1] = Root
        /\ \A k \in 2..Len(w) : w[k][1] = StopHandler(w[k - 1])}

(* The handler that ran as p was come to this way.                           *)
Along(p, w) ==
    /\ Len(p) = 2 * Len(w)
    /\ \A k \in 1..Len(w) : p[2 * k - 1] = w[k][2][1] /\ p[2 * k] = w[k][2][2]

(* A chain that nobody stopped has run every handler that the path leads to: *)
(* a message's when each handler called Next, at least once, and none failed;*)
(* the open chain when no handler failed; the close chain in any case, also  *)
(* when handlers fail, call Next themselves, or belong to mounted routers.   *)
NoneMissed ==
    \A m \in Msgs :
        /\ ctl[m] = "ended"
        /\ \/ app.kind = "close"
           \/ app.kind = "open" /\ ~seen[m].failed /\ ~closed
           \/ /\ app.kind = "normal" /\ ~closed
              /\ ~seen[m].failed /\ ~seen[m].stopped /\ ~seen[m].moved
              /\ ~ctxs[m][1].gone
        => LET ways == Ways(ctxs[m][1].path) IN
           /\ \A w \in ways : \E i \in 1..Len(seen[m].ran) : Along(seen[m].ran[i], w)
           /\ \A i \in 1..Len(seen[m].ran) : \E w \in ways : Along(seen[m].ran[i], w)

(* A handler sees the value that was last set under a key, be it by a handler*)
(* of a router mounted here or of the one this router is mounted in, before  *)
(* or after their Next (context.go:150, 864).                                *)
LatestValueSeen ==
    \A m \in Msgs : ctl[m] = "run" /\ Call(m).h \in Funcs
                        => Cur(m).values = seen[m].latest

(* With a subprotocol, no function behind the codec sees a message that is   *)
(* not in it: the codec refuses messages and connections it cannot read.     *)
OnlyNegotiated ==
    \A m \in Msgs : ctl[m] = "run" /\ Call(m).h \in Funcs /\ app.protocol # None
                        => Cur(m).codec = app.protocol /\ frame[m].format = app.protocol

(* A goroutine that has passed SetMessageID for an ID and has its message    *)
Inside(m, id) ==
    /\ ctl[m] \in {"next", "auto", "run"}
    /\ \E i \in DOMAIN ctxs[m] : ctxs[m][i].id = id
    /\ \A i \in DOMAIN ctxs[m] : ~ctxs[m][i].gone

(* Messages of one ID take turns in the chain, through all routers, until the*)
(* socket closes (socket.go:69).                                             *)
OneAtATime ==
    ~closed => \A id \in Ids, m1, m2 \in Msgs : Inside(m1, id) /\ Inside(m2, id) => m1 = m2

(* A message that waits for its ID waits for another one, which is in the    *)
(* chain and will release the lock when its goroutine ends, or when it calls *)
(* Receive (context.go:388-391, socket.go:257); never for one that is stuck  *)
(* on a mutex it left locked itself (context.go:278).                        *)
BlockedByAnother ==
    \A m \in Msgs : ctl[m] = "waiting" /\ ~closed /\ lock[Cur(m).id] # None =>
        \E other \in Msgs \ {m} :
            /\ \/ ctl[other] \in {"next", "auto", "run", "finish"}
               \/ ctl[other] = "asleep" /\ inbox[other] # None
            /\ ctxs[other][1].id = Cur(m).id /\ ~ctxs[other][1].gone

(* "All messages using the same ID are automatically routed to that handler" *)
(* (README.md:167) that waits for them, and do not start it anew.            *)
RoutedToTheReceiver ==
    [][~closed =>
        \A m, o \in Msgs :
            LET c == Cur(m)'
                d == Cur(o)
            IN  (Starts(m) /\ ctl[o] = "asleep" /\ inbox[o] = None /\ c.id = d.id)
                  => <<c.router, c.node, c.index>> # <<d.router, d.node, d.index>>]_vars
=============================================================================
