# Velaros in TLA+

Velaros is a Go framework for WebSocket applications: a router with middleware and
patterns, a handler chain, message IDs that tie messages together into conversations, and
open and close handlers around each connection. This directory holds TLA+ models of it,
TLC configurations that check them, and proofs for TLAPS. Line numbers refer to the
repository's files under `src/`.

    tlc -workers 2 -config serial.cfg MCConversation.tla     one run (PROJECT.json lists them)
    tlapm ConversationProofs.tla                             the proofs of one module

## 1. Inventory

| Component | State | Operations |
|---|---|---|
| **Conversations**: message-ID locks and receivers (`socket.go:75-390`, `context.go:388-420, 540-860`, `context_next.go`) | `messageIDLocks` (ID -> channel closed on release), `receivers` (ID -> handler node, index, channel of capacity 1), per context `receiverChan`, `currentHandlerNode/Index`, `message` | `SetMessageID` (takes the lock), `Next` (walk, hand-over to a receiver, end of chain), `Receive*`/`Request*` (register, release, sleep), `finalize`, `Socket.Close` |
| **Connection lifecycle** (`router.go:109-200`, `socket.go:130-330`) | `closed`, `closeStatus`, `closeReason`, `closeStatusSource` under `closeMu`; `stop` channel of the ping loop; the goroutines | `HandleConnection`, `HandleOpen`, `HandleNextMessageWithNode`, `HandleClose`, `runPingLoop`, `Close` |
| **Router registration, Lookup, descriptors** (`router.go:200-540`, `handler_node.go`, `route_descriptor.go`) | linked lists of handler nodes (message, open, close), `routeDescriptors` and their map | `Use`, `Bind`, `PublicBind`, `UseOpen`, `UseClose`, mounting a router, `Lookup`, `RouteDescriptors` |
| **Handler chain** (`context_next.go`, `context.go:100-200`) | per context: node, index, `Error`, `currentHandler`; the parent's message and receiver fields copied into sub-contexts | `Next`, `execWithCtxRecovery`, `SetMessagePath`, sub-contexts of mounted routers |
| **Patterns** (`pattern.go`) | none after parsing | `NewPattern`, `MatchInto`, `Path` |
| **Values** (`socket.go`, `context.go`, `middleware/set*`, `middleware/socketset*`) | two maps behind mutexes | `Set`, `Get`, `MustGet`; middleware that reads and then writes |
| **Message middleware** (`middleware/json`, `msgpack`, `protobuf`) | none | decode ID, path and data; encode; choose a codec |
| **WebSocket connection** (`socket_connection.go`, `router.go:70-108`) | the library's connection | `Read`, `Write`, `Ping`, `Close`, HTTP upgrade |

How they interact. `HandleConnection` runs on the goroutine of the HTTP request. It starts
a ping loop, walks the open handlers, then reads messages until the socket is closed; for
every message it starts a goroutine, and it waits for none of them. These goroutines meet
in four places: the ID locks, the receiver table, the receiver channels, and `closeMu`.
Nothing is persisted; a restart starts from nothing.

What is hard, and what makes each component correct:

* *Conversations.* A lock changes hands with a message: the goroutine that hands a message
  over ends without releasing the lock, and the handler it wakes releases it. Registering a
  receiver, releasing the lock and sleeping are three steps; so are finding a receiver,
  unregistering it and sending; so are deleting the lock and closing its channel as seen by
  a waiter. `Close` runs through the same tables under another mutex. Correct means: messages
  of one ID take turns, a hand-over reaches a handler that listens, every blocked goroutine
  is blocked by a live one, no wake-up is lost, and everything ends after `Close`.
* *Lifecycle.* Handlers, the read loop and the ping loop close the socket at the same time;
  `connection.Close` runs with `closeMu` held; a read may panic. Correct means: close handlers
  run exactly once, after the open handlers, knowing the first reason; the peer is told that
  reason; no goroutine stays behind.
* *Registration.* Sequential, but its bookkeeping is in four lists which a panic half-way may
  leave in disagreement. Correct means: what gateways are shown was published and stays,
  hooks follow handlers, and reverse routing knows what messages can reach.
* *Handler chain.* `Next` is called by handlers, by itself and by routers, before or after a
  handler changed the path, set an error or stopped the chain; a mounted router works on copies
  of the message, the values, the error and the receiver fields, and what it does is partly
  written back. Correct means: the handlers that run are those the path leads to at that moment,
  in order, each once; an error or a handler that does not call `Next` ends the chain, through
  all routers; every handler sees the values set before it; messages of one ID take turns in
  all routers.
* *Patterns.* The meaning of a rune depends on its neighbours, and chunks become text in a larger
  regular expression. Correct means: a pattern is understood as the documentation says, it
  matches what it describes, and a path built from it is matched by it.

`PROJECT.json` lists the hazards one by one, each at its line.

## 2. Modules

| Module | Models or says |
|---|---|
| `Conversation` | One socket and the goroutines of its messages |
| `Floor` | What locks and receivers promise together: in each conversation one message has the floor; it is taken, parked, passed or left. `Conversation!Abstract` is the refinement mapping |
| `MCConversation` | Instances for TLC |
| `ConversationProofs` | The inductive invariant and the theorems; the refinement |
| `Lifecycle`, `MCLifecycle`, `LifecycleProofs` | One `HandleConnection` with ping loop and message goroutines; instances; theorems |
| `HandlerChain`, `MCHandlerChain` | `Next`, contexts of mounted routers, codecs, what handlers do to their context; applications |
| `HandlerChainProofs`, `HandlerChainTheorems`, `HandlerChainLocks`, `HandlerChainComplete` | Its invariant of stacks and contexts; what groups of actions do to contexts, and what handlers are promised; turns of messages; that no handler is missed. Each extends the one before |
| `PatternParser`, `PatternParserProofs` | `NewPattern`: the text of a pattern becomes chunks; theorems |
| `Patterns`, `MCPatterns` | `PatternParser`, and matching and building paths; instances |
| `Routing`, `MCRouting`, `RoutingProofs` | Registration, descriptors, hooks, Lookup; instances; theorems |

They are views of one system. `Conversation` has every step of locks and receivers, over a
list of handlers; `HandlerChain` has the chain itself, with nodes and routers, over locks and
receivers in coarser steps; `Lifecycle` has the connection around both. `Routing` makes the
nodes that `HandlerChain` walks, and `Patterns` says what `tryMatch` answers there.

Definitions whose comment begins with "mutant:" are wrong on purpose. They stand before the
definition they distort, and no specification uses them: putting one in the place of its
original must break the property it is listed with in `PROJECT.json`. This shows that each
property depends on the code it is about.

### Conversation

`pc[m]` names the next *shared* step of the goroutine of message `m`; steps that touch only
the goroutine's own data are merged with it.

| Code | Action |
|---|---|
| `HandleNextMessageWithNode`, first `IsClosed` in `Next` | `HandleNextMessage` |
| `SetMessageID`: first attempt, `<-ch` and retry, `<-Done()` | `SetMessageID`, `RetryMessageID`, `GiveUpMessageID` |
| `Next`: `IsClosed`; walk to the next matching handler; end of chain | `NextCheck`; `FindReceiver` or `RunHandler`; `BeyondEnd` |
| hand-over: `removeReceiver`; send; send on a closed channel; `Done` | `TakeReceiver`; `Deliver`; `DeliverPanics`; `DeliverAbandoned` |
| what a handler does | `CallNext`, `BeginReceive`, `HandlerReturn` |
| `receiveNextMessage`: register; release; the three cases of its select | `Register`; `ReleaseAndWait`; `TakeMessage`, `TakeNil`, `ReceiveCancelled` |
| release at the goroutine's end; `finalize` | `Finish`; `Finalize` |
| `Socket.Close` | `CloseMark`, `CloseReceivers`, `CloseLocks`, `CloseCancel` |

A lock channel and a receiver channel are named by who made them (a goroutine holds at most
one lock at a time and numbers its receiver channels in `round`), so "the channel a sleeper
waits on" and "the channel now in the table" can differ, as in the code.

Abstractions:

* Deleting the lock's entry and closing its channel are one step. The code closes after it has
  left the mutex, but a closed lock channel is noticed only by those asleep on it, so a late
  `close` is the same as a sleeper that is scheduled late. Waking and trying
  again are one step, since the waiter does nothing in between. `finalize`'s removal and
  drain are one step: nobody else may send on that channel once it is out of the table except
  a goroutine that had found it, and that order is covered by `TakeReceiver` / `Deliver`.
* The handler list is flattened into positions `1..N`; the decode middleware is the implicit
  outermost handler (`depth = 0`). A handler that panics or sets an error is one that returns
  without calling `Next`.
* Of the data of a message only its being empty matters, because `Receive` skips those.
* A first `Receive` answered by the message the handler was started for returns at once and
  changes nothing that is modelled.
* `Timeouts` says whether handlers use `ReceiveWithTimeout` or a context of their own.

### HandlerChain

A goroutine's stack alternates between handlers and calls of `Next`. `calls[m]` has the handlers
on it, and for each how often it has called `Next`; `ctxs[m]` has the contexts, the message's own
and one for each mounted router that is running. `ctl[m]` says who is in control: `Next`, called
by a handler or by itself behind an open or close handler (`"auto"`), or the innermost handler.

| Code | Definition |
|---|---|
| `NewContextWithNodeAndMessageType`, `NewSubContextWithNode` | `NewContext`, `SubContext` |
| `Next`: refusal after an error or `Close` | `Refused`, `NextRefused` |
| `Next`: path set; node, next handler of it, next node | `Recheck`, `MoreHandlers`, `Walk` |
| `Next`: receiver found; handler called; end of chain | `NextHandsOver`; `NextRunsHandler`; `NextBeyondEnd` |
| `Next`: on from open and close handlers, clearing of the place, deferred `tryUpdateParent` | `GoesOn`, `HandlerReturns`, `Cleared`, `NextReturns`, `UpdateParent` |
| `Router.Handle`, `HandleOpen`, `HandleClose` | `EnterRouter`, `LeaveRouter`, `RouterReturns` |
| json, msgpack and protobuf middleware | `DecodeRefused`, `DecodeSkipped`, `Decoded`, `CodecReturns` |
| `SetMessageID` | `SetMessageID`, `LockTaken`, `LockGivenUp` |
| functions: `Next`, `SetMessagePath`, `Set`, `Delete`, `Error`, panics, `Receive`, `Request`; a context without a message | `CallNext`, `SetMessagePath`, `Set`, `Delete`, `SetError`, `ClearError`, `Receive`, `TakeMessage`, `ReceiveCancelled`, `FuncReturns`; `NothingLeft`, `LockedOut` |
| the goroutine, or `HandleOpen`, `HandleClose` of the socket | `Start`, `Finish` |

The application is a variable that never changes: which chain is run, the nodes of each router,
what each function is able to do, the subprotocol, and what clients send. A function does what it
is able to do, in any order and as often as it likes, and then returns.

Abstractions: an ID lock is free or taken, and registering a receiver, releasing the lock and
going to sleep are one step, as are finding a receiver and the hand-over, and `Close`; module
`Conversation` has them apart. A panic is an error set as the handler returns. Receives do not
time out, messages are not empty, and a first `Receive` answered by the handler's own message
changes nothing modelled (all three are in `Conversation`). The three codecs have the same
control; which frames a codec can read is the frame's `format`. A handler calls `Next` at most
twice. A value of a message is one of `Vals`; `Set` and `Delete` stand for the `set`, `setfn`
and `setvalue` middleware too, which are a `Set` and a `Next`.

### Patterns

In `PatternParser`, the loop of `parsePatternChunks` is one action per kind of rune: `Slash`,
`BeginChunk`, `Subpattern`, `Modifier`, `Character`, and the refusals. `doc` is what the program
means by the text, and no action reads it. `Patterns` adds what is done with the pattern: each of
its steps is a step of the parser or leaves the parser's variables alone. `regExpFromChunks` becomes `RegExp`: a
sequence of alternatives, each a sequence of elements, and `Then` puts one text behind another, so
that a "|" that the code writes without parentheses divides the expression where it does in
the text. `After` is the matcher of package regexp: it gives the ways to go on in that package's
order of preference, and `MatchOf` takes the first of the leftmost. `Path` builds a path.
Properties compare this with patterns as README.md:806-833 describes them: a sequence of chunks,
how it is written (`Written`) and which can be (`Writable`), and the ways to divide a path's segments among the chunks
(`Divisions`). Sub-expressions are letters, "|" and escaped runes; letters stand for words.

`regexp.Compile` (`pattern.go:291`) refuses a group without a name, or with one of other runes than
those of names, and text that is no regular expression. The first two are in `Compiles`. Which text
is none, such as `/:k(*)` or `/a)`, is given by `Malformed`: any set of sequences of chunks, of which
`MCPatterns` has those with a chunk of either kind, next to chunks of all others. A name may be used
again: every chunk has a group of its own, and the last group of a name overwrites in the map what
those before it have put there (`Decisive`; `pattern.go:123-133`), with "" if it was absent. So
`/:k/:k?` matches "/a" with "" for `k`.

### Lifecycle

`main` is where `HandleConnection` is; `at` and `depth` walk the open chain and then the
close chain, with handlers that call `Next` themselves staying on the stack. `reason` stands
for the three close fields. `closeMu` is held for long in one place, `connection.Close`
(`main = "hangup"`); elsewhere it is part of one step. A message goroutine is reduced to
running, blocked in `Receive`, ended; `Conversation` says what it does in between. Once an open
handler has failed, `Error` stays set.

### Routing

Registration runs before the program serves, on one goroutine, so the interest lies in the
sequences of calls: each action is one call, and `PublicBindPanics` is the call that panics
after half its work, from which a program may recover (`Recovers`). Argument checks that
panic before anything is changed are left out.

Handlers are functions (`Funcs`), objects with an open hook (`Openers`), with a close hook (`Closers`)
or, in both sets, with both, and routers, which have both. `UseOpen` and `UseClose` take an object with
their interface as well as a function (`router.go:278`, `324`); what a program passes them is recorded
in the history `given`. `Lists` are the handlers that are bound together, of any number. Two panics are
left out. That of `router.go:483`, on a mount path and a sub-router's pattern that are none together,
needs a mount path with a "(" that nothing closes there, and paths here are made of segments.
`Lookup` compares the addresses of handlers, which panics on a handler that is a struct and no pointer
(`router.go:397`, `402`), and closures of one function literal have the same address: here each handler
is a pointer or a function of its own, and they are compared as such.

Patterns are sequences of segments with an
optional trailing wildcard. A router is mounted only in routers of a smaller number, which is
no restriction for programs whose routers do not contain themselves.

## 3. What the runs show

| Run | Instance | Result |
|---|---|---|
| `serial` | 3 messages, 2 IDs or none, with data or without, 2 paths, 2 handler positions (one reached by both paths), 2 receives each | `SerialChain`, `HandedOverIsAwaited`, `BlockedByLiveMessage`, `DeliveryNeverBlocks` hold until the socket closes, which it may do at every step; `ImplementsFloor` |
| `lock_progress` | 3 messages of 2 IDs, 2 receives each, no `Close` | `LockProgress`: whoever waits for an ID gets it |
| `shutdown` | 2 messages, with the ID or without, 2 paths, receives may time out, `Close` to its end | what survives timeouts: `TypeOK`, `NoLostWakeup`, `NoDanglingReceiver`; `ShutdownDrains`: after `Close` every goroutine ends |
| `chain` | 11 applications: a router mounted in another, 3 nodes and 2, up to 4 handlers on a node, one message or a conversation of 3 | see below |
| `patterns` | all patterns of 2 chunks (21 kinds, 2 names, which may be the same, and 2 more that `regexp.Compile` refuses), some of 3, README.md's of 4; 41 paths, of up to 4 segments or malformed; 9 texts that are no patterns | `ParsedAsDocumented`, `MistakesRefused`, `MatchedAsDocumented`, `PathIsMatched`, `TypeOK` |
| `lifecycle` | 2 open and 2 close handlers, 2 messages, pings, reads that may panic | `CleanupBeforeStop`, `FirstReasonSent`, `CloseHandlersKnowWhy`, `OpenedBeforeMessages`, `TypeOK`; `PingFailureCleansUp`, `PingLoopStops`, `EverythingDrains` |
| `routing` | 2 routers, 3 registrations of 1 to 3 handlers (a function, objects with an open hook, a close hook and both, a router), 2 patterns, 2 metadata values | `AdvertisedWasPublished`, `HooksFollowHandlers`, `ServedIsFound`, `ServedIsHooked`, `GatewayViewGrows`, `TypeOK` |

`chain` shows that

* `NextByPath`: `Next` runs the first handler ahead that matches the path of that moment, wherever
  in a node the path was changed, with that pattern's parameters; `InOrder`: in order of
  registration, through routers, each at most once; `NoneMissed`: if nobody stopped the chain,
  all of them;
* `ErrorEndsChain`: behind an error nothing starts, in the routers around either, until a handler
  on the way back clears it; `StopEndsChain`: nor behind a handler that did not call `Next`;
* `LatestValueSeen`: handlers see the values set before, across routers in both directions;
* `OnlyNegotiated`: with a subprotocol no function sees a message that is not in it. Functions run
  where a codec decodes messages of its own subprotocol; of two codecs, one refuses;
* `OneAtATime`, `BlockedByAnother`: messages of one ID take turns through all routers, and
  whoever waits for an ID waits for another message that can still release it.

`routing` shows that what is bound gets the hooks it has, as often as it is bound
(`HooksFollowHandlers`), and a handler with both gets one for one unless the program adds one itself:
`UseOpen` of an object adds an open hook and no close hook. `ServedIsHooked` says it of connections:
whoever can get a message is told of the opening and the closing, through every router in between.

A handler may find, when its `Next` returns, that its context has no message any more, because it
was handed over. `Next` panics then, although it is "safe to call multiple times"
(`context_next.go:15`), and so do the getters, `Send` and `SetMessagePath`, which leave `ctx.mu`
locked (`context.go:278`): a handler further out that calls `Set` or `Delete` is stuck for ever,
also after `Close` (`LockedOut`). `BlockedByAnother` shows that it keeps no other message waiting.
`ShutdownDrains` is about handlers that leave such a context alone.

These properties hold for the applications in `MCHandlerChain`, which keep to some limits. The code does not
enforce these, and reading it together with the model shows what lies beyond:

* A handler of a mounted router that calls `Next` twice lets the parent's later handlers run
  even if its own chain was stopped: the second call comes to the end and sets `nextBeyondEnd`
  (`context_next.go:102`, `router.go:192`).
* A handler of a mounted router that hands its message over sets the message of the
  sub-context to nil, not that of the root: the goroutine still releases the lock at its end
  (`socket.go:257`), which the woken handler now relies on, and two messages of the ID run at
  once. So does a `Receive` in a mounted router.
* A codec that is only in a mounted router sets the ID on the copy: the lock is never released.
  A codec in both makes a message wait for the lock it has taken itself (`context.go:405`),
  until `Close`; router_test.go:1017-1024 is such an application, with messages that have no ID.
  A second `SetMessageID` with another ID loses the first lock.
* Two different codecs in one chain refuse each other's subprotocol, so they work together
  only on connections without one.
* `Delete` in a mounted router is not written back (`context.go:864`).

In `patterns`, `MatchedAsDocumented` and `PathIsMatched` leave out sub-expressions with a "|"
that the code does not enclose (`Enclosed`). `ChunkRegExp` shows what becomes of those: in
`/a/:b(\\d+)/*?/(d|e)+`, the example of README.md:831, the "|" divides the whole expression, and
the second half, `e(?:\/d|e)*\/?$`, is not anchored: any path that ends in "e" matches. The same
text is behind the example's match of `/a/2/c/d/e/f/g`, which does not end in d or e. Also seen
there: a "(" without an end is skipped (`NewPattern` accepts `/(d`); a backslash before the last
rune of a chunk does not keep it from being a modifier (`pattern.go:225`), against README.md:823;
`Path` writes the backslash of an escaped rune into the path; and parameters of a match that were
"" because an optional chunk was absent, given to `Path`, make an empty segment, which the
pattern does not match (`/api/:version?/users`).

Each of the following runs checks one sentence of the documentation or of a comment, and
TLC finds a behaviour of the code that contradicts it:

| Run | Sentence | Behaviour |
|---|---|---|
| `receiver_lost_in_router` | README.md:167: messages of an ID go to the handler that waits | A message of the ID passes a mounted router, comes to the end of that router's chain and removes the receiver (`context_next.go:107`); the handler behind the router is started anew, and the one that sleeps is never reached |
| `lock_leaked` | context.go:388-391: blocked means another message is in the chain | A message handed to a receiver left behind by a timeout never releases its lock |
| `receiver_stolen` | context.go:844-846: finalize's removal is a no-op if not needed | The lock is released before `finalize`, which may remove its successor's receiver |
| `cleanup_skipped` | README.md:1446: close handlers always execute | A read error that is not listed panics past them (`socket.go:246`); `CleanupBeforeStop` is about connections that return |
| `advertised_unserved` | router.go:384-387: descriptors describe what the router can handle | A sub-router's routes are advertised under the mount path and matched without it |

`serial` assumes handlers without timeouts, because `lock_leaked` shows its properties to fail
with them; `shutdown` keeps what still holds. More consequences that have no run of their own: a
`Receive` that is cancelled returns without the lock (`context.go:834`), so its handler and the
next message of the ID run side by side, against socket.go:69; the message handed over after a
timeout lies in a channel nobody reads, against context_next.go:71-73 (the first half of
`lock_leaked`); a message of the ID on another path removes the receiver at the end of its
chain, without any mounted router; and an open handler that panics or sets `Error` ends the open
chain while the socket stays open (`OpenChainEnds`, against README.md:1446).

### Bounds

Three messages are the smallest number with a handler asleep, a message handed to it, and
another waiting for the lock; the wrong behaviours above need two or three. `MaxReceives`
(1 or 2) bounds the receives of one handler chain; the second is needed for progress, because a woken
handler may sleep again with the lock back in the table. Two paths and two positions give a message that
misses the receiver. Two handlers in a chain are enough for one that calls `Next` and one
that does not, or that fails before another. Three registrations are enough to publish in a
router, mount it, and publish or bind again; two routers for one level of mounting. The lists of handlers
have each kind alone, hooks of different kinds together, one handler twice, and a router with hooks before
and behind it, where `PublicBind` panics. Model
values for messages are symmetric, and symmetry is not used with liveness. `serial` does not
go on behind the first step of `Close` (`WhileOpen`): what it checks is promised of an open
socket, and `Close` is never undone. `shutdown` does go on.

In `chain`, one level of mounting has a context to copy from and to write back to, and every
router is entered from a chain that goes on behind it. A node of two handlers, a change of path
between them and another node of the same path are the least that tells a node that is kept from
one that is begun again. Three messages as above. Each application makes its functions able to do
what its question needs, and `Start` bounds the messages by its `load`. In `patterns`, two chunks
are the least in which one may take what is meant for the other, three of them for one between
two, and four segments leave something to repeat in each.

### Fairness

* Go schedules every goroutine: weak fairness of `Framework(m)`, of the main goroutine, and of
  the steps of a `Close` that began.
* A user handler returns in the end: strong fairness of `HandlerReturn` and its counterparts,
  since a handler that keeps calling `Next` disables and enables it again.
* `PingStops` is strongly fair: a `select` with two ready cases chooses at random.
* A `Read` whose context is cancelled returns (`ReadCanceled`).
* Nobody has to send, call `Receive` or close.

`lock_progress` needs no fairness among waiters: messages are finite in number, so no barging
goes on for ever. With clients that send for ever the code has no queue, and a waiter may be
overtaken without end; the run does not claim otherwise.

## 4. Proofs

All theorems hold for every value of the constants allowed by `ConversationAssumption`,
`LifecycleAssumption`, `HandlerChainAssumption`, `RoutingAssumption` and `ParserAssumption`: for
every number of messages, IDs, paths, handlers, receives, nodes, mounted routers, registrations and
chunks, and every depth of mounting. These assumptions say that model values differ, that patterns
and applications are well formed, and that the routers that register are finite in number. Where a theorem
needs more of an application it says so in its own hypotheses, listed below.

`ConversationProofs`:

* `GInv` holds with timeouts too: `TypeOK`; `StageInv` (what each `pc` implies of `depth`,
  `target`, `round`, the ID); `LockInv` (who is named in the table is past `SetMessageID`);
  `NoLostWakeup`; `ReceiverInv` (an entry is its maker's last channel, and its maker has not
  ended). It gives `TypeCorrect`, `WakeupNeverLost`, `ReceiversAlive`.
* `SInv` holds without timeouts while the socket is open. `SerialChain` alone is not
  inductive: a goroutine that takes the free lock must know that nobody runs without one
  (`LockedWhileRunning`), a release must know that the lock released is the runner's
  (`Serial`, `RunningWhileLocked`), and a hand-over, which moves the right to release to
  another goroutine, needs that the receiver found is of a sleeper (`ReceiverWaits`,
  `TargetWaits`), that it is found only once (`TargetTaken`), and that what is in a channel is
  awaited and alone (`BufferAwaited`, `OneInBuffer`). It gives `OneAtATime`,
  `HandoverAwaited`, `BlockedByLive`, `DeliveryFree`.

Each of these conjuncts has a lemma of its own with one step per action.

`CodeImplementsFloor` is the refinement of `Floor`. Lemma `StageMoves` says for each action which stages
it moves; every such move is a step of `Floor` or a stutter. `TypeOK`, `GInv` and `SInv` supply
the guards of `Floor`.

`LifecycleProofs`: `LInv` is `TypeOK`, `at > 0` and four parts: how often open handlers have run
while they are running (`OpeningInv`) and after (`ReadingInv`), how often close handlers have
run (`CleaningInv`), and how `reason`, `first` and `sent` agree (`ReasonInv`). It gives
`LifecycleTypes`, `CleanupGuaranteed` (of a `HandleConnection` that returns), `PeerToldFirst`, `CleanupKnowsWhy`, `OpensFirst`.

`HandlerChainProofs`, `HandlerChainTheorems`, `HandlerChainLocks`, `HandlerChainComplete`. All rest
on `ChainInv`, which holds in every application:

* `StackOK`: calls and contexts belong together; there is one context more than routers that are
  being served, and each of these contexts is of the router in whose call it was made.
* `ContextsOK`: the first context is of the root, the others of mounted routers; each is at a place
  of its chain, or just behind, and in it while it waits for a mounted router; each call is of a
  handler of its context's chain, and a handler that has not called `Next` is the one its context
  is at. `FramesRead`: a message is read before anything is done with it.

`HandlerChainTheorems` first puts the actions into groups by what they do to the contexts: replace the
innermost one (`Replaces`), remove it and tell the one below (`Relays`), add one. Proofs about
one part of the contexts then have a case for each group instead of each action.

| Theorem | Property | Applications | The invariant, and why it is needed |
|---|---|---|---|
| `TypeCorrect` | `TypeOK` | every | `ChainInv`: a type of `Cur(m)` needs a context, which `StackOK` gives |
| `ByPath` | `NextByPath` | every | `ChainInv`, and lemmas about `Walk`: it comes to the first place of `Ahead`, and to the end only if `Ahead` is empty |
| `ErrorsEndChains` | `ErrorEndsChain` | every | `ErrInv`: the error of the innermost context is the one in the history `seen`, so that an error goes out with `Relays` and no router on the way loses it |
| `RunsInOrder` | `InOrder` | every | `OrderInv`: what ran last is where the innermost context is or behind it, the path of mounts of each context (`at`) is that of the context below with its place; without this, nothing is known of the handlers behind a router that returns |
| `StopsEndChains` | `StopEndsChain` | messages, `NoAgain` | `StopInv`: once a handler has returned without `Next`, every handler that is running has called it, no mounted router has come to its end, and what may go on is at its end |
| `ValuesAreSeen` | `LatestValueSeen` | `NoDelete` | `ValInv`: the innermost context has the latest values; a value missing in it is missing around it (`Nested`), or the one around it would come back |
| `NegotiatedOnly` | `OnlyNegotiated` | `CodecFirst` | `NegInv`: a message that is not decoded has come no further than the codec |
| `TakingTurns` | `OneAtATime` | `Conversational` or `Silent` | `LockInv`, below |
| `WaitingForAnother` | `BlockedByAnother` | `Conversational` or `Silent` | the same |
| `NoneAreMissed` | `NoneMissed` | `Straight` | `MissInv`, below, on top of `ErrInv`, `OrderInv` and `LockInv` |

`NoAgain`: functions of mounted routers do not call `Next` twice. `NoDelete`: they do not
`Delete`. `CodecFirst`: wherever there is a subprotocol, the root chain begins with a codec.
`Conversational`: there is at most one codec of each kind, in the root; only handlers of the root
receive. `Silent`: there is no codec, hence no ID. `Straight`: routers are finite in number and
mounted in layers, none in itself by way of others (`Layers`). In a chain of messages codecs
come before everything that has a path or is a router, since they set the path (`DecodesFirst`),
and the application is `Conversational` or `Silent`. In a chain of hooks, which have no patterns,
every path leads to every handler (`AnyPath`), and there is no codec. Section 3 says what becomes of applications
beyond these limits: there the properties fail, so the hypotheses are not for the prover's sake.
The applications that `chain` checks each property on satisfy them.

`LockInv` has two parts. `Turn(m)` is of one goroutine: contexts of mounted routers have the ID
and the message of the root's (`Below`); who waits or sleeps is in the root, alone, and has its
message; a context with an ID is behind the codec that set it (`Passed`), so no codec asks for a
second lock; a message that is gone is behind a `Next` that handed it over. `LockOK` is of all: the
root's receivers are of handlers of the root (`RootReceives`), and while the socket is open no two
messages have the turn of one ID (`OneTurn`), an ID is locked while some message has the turn and
only then (`LockedInTurn`), receivers are of sleepers with nothing to take (`ReceiversSleep`), and
what was handed over is awaited (`BoxesAwaited`). A hand-over moves the turn from one goroutine
to another without touching the lock; that is why turns are counted and not locks.

`MissInv` compares what ran with the *ways* of a path: a way is a place in the root's chain, then
one in the chain of the router mounted there, and so on. `NoneMissed` says of every way, when
the goroutine is done, that a handler ran there, and of every handler that ran, that it was on a
way; on the way to this, a handler that has not run is *pending*: the contexts of the stack lie
along its way up to one that has its next stop still before it (`Covers`). Contexts of routers lie
along ways (`Laid`), and with a level each below the one before there is an end to ways. What
makes it inductive is who is in control: while a handler has not called `Next`, its own way, or
all ways into the router it is, are neither gone nor before a context (`CoversFresh`); and when `Next`
has returned to a handler, all that was before its context must be done, so the context is at its
end (`Spent`) — which fails if somebody stopped, failed or moved to another path, or the socket
closed, and these are the conditions of `NoneMissed`. The steps are proved for stacks `S` and `T`
in general (the lemmas about `Covers`), and actions are put into groups by what they do to a stack.

`RoutingProofs`. Routers are numbered and mounted in routers of smaller numbers, so `Lookup`,
`Reached` and `MayAdvertise` are recursive functions over routers, of which the proofs first show
that they exist (`RouterRecursion`, by induction down from the last router); registering
descriptors and collecting hooks are folds, used through their stages (`FoldSteps`).

* `RoutingTypes` (`TypeOK`) is of `Shapes`: nodes, hooks and descriptors are of their router.
* `ViewGrows` (`GatewayViewGrows`): `Effects` says what a registration does to the descriptors of
  each router; they are only added to (`Begins`, `Grown`), from stage to stage of the fold.
* `PublishedOnly` (`AdvertisedWasPublished`): each descriptor that a step adds is published in it
  or one of a router mounted in this step (`Justified`), and `MayAdvertise` only grows with
  nodes and publications, at every depth (`MayGrows`).
* `HooksFollow` (`HooksFollowHandlers`) needs the sequences themselves: a handler is counted in
  the chain of its hook at least as often as in nodes, since a registration that panics has added hooks
  but no node, and as often in one chain as in the other as long as the program has not given it
  to `UseOpen` or `UseClose`. Lists of handlers are of any length.
* `ServedAreHooked` (`ServedIsHooked`) follows from `HooksFollow` by induction over routers: a
  handler in a node, or the router that leads to it, is in the chains of hooks too.
* `ServedFound` (`ServedIsFound`) follows from `Shapes`, by induction over routers: what `Reached`
  has of a router, its `Lookup` finds, which goes by the same nodes and takes the first.

`PatternParserProofs`. `ParserTypes` is of every text. `ParsedAsMeant` is of every document: any
number of chunks of any length that can be written (`Writable`), so that any rune of a text may be
preceded and followed by any other that the syntax allows. It is refused only if
`regexp.Compile` refuses it, whatever texts that may be (`Malformed` is any set). The text is a flattened sequence, and
`TextLaidOut` shows that there are offsets at which the chunks lie in it one behind the other
(`LaidOut`), by induction over the stages of the fold. `ParseInv` says that the chunks read so far
are those of the document, and that the one in hand is what the runes up to `pos` make of the
chunk being read (`InHand`): nothing but its slash, part of a static chunk or of a name, all but
the sub-expression, all but the modifier, or all. For each of these places a lemma says which runes
can come next (`BegunReads`, `StaticReads`, `NameReads`, `OpeningReads`, `SignReads`), so that
only the action that leads to the next place is enabled; `RuneAt` carries this over from the chunk to
the text, where the end of a chunk is seen by the slash of the next. `ParsedAsDocumented` holds
of `Patterns` as it does of `PatternParser`, since `Patterns` steps as the parser does.

Checked by TLC only:

* everything under fairness: `LockProgress`, `ShutdownDrains`, `PingFailureCleansUp`,
  `EverythingDrains`, `PingLoopStops`. Liveness is beyond the prover;
* `MatchedAsDocumented` and `PathIsMatched` of `Patterns`. The matcher and the reader of
  sub-expressions are recursive over expression and path, and what they compute for every path
  needs induction over data;
* `MistakesRefused`: it is about the texts listed in `MCPatterns`, not about all that are no
  patterns;
* the violations of section 3.

## 5. Not modelled, and why

* Generated protobuf code, the WebSocket library, HTTP upgrade: not this program's logic. Their
  effects on it (a read that ends, fails or is cancelled, a ping that fails, a slow
  `connection.Close`) are steps of `Lifecycle`.
* Encoding of messages and of descriptors: data.
* Order between messages of one ID: every message has its goroutine, so the code promises
  turns and not their order, and the model lets them overtake.
* Argument checks at registration that panic with nothing changed.
* Values of the socket: a map behind a mutex, one operation at a time, with nothing to relate it
  to. `socketsetfn` calls its function for each message, not once for a connection.
* Contexts used by other goroutines than their own: `ErrContextFreed` (`context.go:499`) is
  never returned, because `socket` is never reset. `ctx.mu` matters to the goroutine itself only
  where a panic leaves it locked, and there `HandlerChain` has it.
* Regular expressions other than letters, alternatives and escapes; `MessageParams.Get`, which
  ignores case: of two parameters that differ in case only it returns either.

## 6. Plan

What is left, in order of importance:

1. A theorem that says which texts `NewPattern` refuses: a set of all texts that are no patterns
   would take the place of `Mistakes`.
2. `NoneMissed` for applications that change the path at a place other than the codec: what the path
   leads to is then what each path in turn leads to from where it was set (`NextByPath` says so of
   each step).
3. Two hazards have no property: the order of messages of one ID, which the code does not promise,
   and contexts used behind their handler's end (section 5).
