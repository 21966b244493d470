---------------------------- MODULE Conversation ----------------------------
(***************************************************************************)
(* One socket of Velaros and the goroutines of the messages read from it.  *)
(*                                                                         *)
(* Every inbound message gets a goroutine (Socket.HandleNextMessageWithNode*)
(* in socket.go).  The decode middleware calls SetMessageID, which takes   *)
(* the lock of the message's ID; the message then walks the handler chain  *)
(* (Context.Next in context_next.go).  A handler may call Receive or       *)
(* Request: it registers a receiver channel under its ID, releases the ID  *)
(* lock and sleeps.  The next message with that ID takes the lock, and if  *)
(* its walk arrives at the handler position of the receiver it hands itself*)
(* over on the channel and ends WITHOUT releasing the lock: the woken      *)
(* handler now holds it.  Socket.Close may strike at any moment.           *)
(*                                                                         *)
(* The names of the actions are those of the functions they model.  One    *)
(* goroutine is one element of Msgs; pc says which shared step is next.    *)
(***************************************************************************)
EXTENDS Naturals

CONSTANTS
    Msgs,         \* the inbound messages, and so the goroutines
    Ids,          \* message IDs a client sends
    NoId,         \* a message without an "id" field
    Paths,        \* message paths
    Frames,       \* the kinds of message clients send
    N,            \* number of handler functions behind the decode middleware
    Matching,     \* path -> positions in 1..N whose pattern matches it
    MaxReceives,  \* bound on the receives one handler chain starts
    Timeouts,     \* TRUE: handlers use ReceiveWithTimeout or a context of theirs
    None

Frame == [id : Ids \cup {NoId}, path : Paths, empty : BOOLEAN]
Chan  == Msgs \X Nat              \* a receiver channel: its maker, and a count
Entry == [pos : Nat, ch : Chan]   \* receiverEntry

ASSUME ConversationAssumption ==
    /\ NoId \notin Ids
    /\ None \notin Msgs \cup Chan \cup Entry
    /\ Frames \subseteq Frame
    /\ N \in Nat
    /\ Matching \in [Paths -> SUBSET (1..N)]
    /\ MaxReceives \in Nat
    /\ Timeouts \in BOOLEAN

VARIABLES
    frame,       \* what the client sends, chosen once
    pc,          \* the next shared step of each goroutine
    pos,         \* currentHandlerNode and currentHandlerIndex, flattened
    depth,       \* user handlers on the goroutine's stack
    round,       \* receiver channels made so far; the last one is receiverChan
    target,      \* the channel found by GetReceiverForNode
    waitOn,      \* the lock channel SetMessageID sleeps on
    locks,       \* messageIDLocks: a lock channel is named by its maker
    lockClosed,  \* lock channels that have been closed
    receivers,   \* receivers: at most one entry per ID
    buf,         \* messages sitting in receiver channels
    chClosed,    \* receiver channels that have been closed
    closeStep    \* progress of Socket.Close

vars == <<frame, pc, pos, depth, round, target, waitOn, locks, lockClosed,
          receivers, buf, chClosed, closeStep>>

lockVars  == <<waitOn, locks, lockClosed>>
chainVars == <<pos, depth>>
recvVars  == <<round, target, receivers, buf, chClosed>>

Pcs == {"idle", "setId", "waiting", "next", "walk", "found", "deliver",
        "handler", "register", "release", "receive", "finish", "finalize", "ended"}

CloseSteps == {"open", "marked", "receivers", "locks", "done"}

-----------------------------------------------------------------------------
(* Vocabulary *)

Id(m)       == frame[m].id
HasID(m)    == Id(m) # NoId                  \* InboundMessage.hasSetID
Matches(m)  == Matching[frame[m].path]
Ch(m)       == <<m, round[m]>>               \* Context.receiverChan
NoChan(m)   == round[m] = 0                  \* Context.receiverChan == nil
Buffered(ch) == \E b \in buf : b[1] = ch
IsClosed    == closeStep = "done"            \* what Socket.IsClosed answers,
CanAsk      == closeStep \in {"open", "done"} \* once closeMu is free
Done        == closeStep = "done"
Open        == closeStep = "open"

Goto(m, from, to) == pc[m] = from /\ pc' = [pc EXCEPT ![m] = to]

(* Control returns to the innermost user handler on the stack, or, when     *)
(* there is none, through the decode middleware to the goroutine's end.     *)
Back(m) == IF depth[m] = 0 THEN "finish" ELSE "handler"

(* The innermost user handler returns or panics (execWithCtxRecovery), and  *)
(* Next forgets its place in the chain.                                     *)
PopHandler(m) ==
    /\ depth' = [depth EXCEPT ![m] = @ - 1]
    /\ pos' = [pos EXCEPT ![m] = N + 1]
    /\ pc' = [pc EXCEPT ![m] = IF depth[m] = 1 THEN "finish" ELSE "handler"]

RemoveReceiver(id) == receivers' = [receivers EXCEPT ![id] = None]

AddReceiver(id, p, ch) ==
    receivers' = [receivers EXCEPT ![id] = [pos |-> p, ch |-> ch]]

(* mutant: the table is not consulted, every message believes it is first    *)
AcquireWithoutLooking(m) ==
    /\ locks' = [locks EXCEPT ![Id(m)] = m]
    /\ pc' = [pc EXCEPT ![m] = "next"]
    /\ UNCHANGED waitOn

(* acquireMessageIDLock, with what SetMessageID does with its answer *)
AcquireMessageIDLock(m) ==
    IF locks[Id(m)] = None
    THEN /\ locks' = [locks EXCEPT ![Id(m)] = m]
         /\ pc' = [pc EXCEPT ![m] = "next"]
         /\ waitOn' = [waitOn EXCEPT ![m] = None]
    ELSE /\ waitOn' = [waitOn EXCEPT ![m] = locks[Id(m)]]
         /\ pc' = [pc EXCEPT ![m] = "waiting"]
         /\ UNCHANGED locks

(* mutant: the entry is deleted and close(ch) forgotten                      *)
ReleaseWithoutWaking(id) ==
    /\ locks' = [locks EXCEPT ![id] = None]
    /\ UNCHANGED lockClosed

(* releaseMessageIDLock: no owner is checked; whatever lock the ID has goes *)
ReleaseMessageIDLock(id) ==
    /\ lockClosed' = lockClosed \cup ({locks[id]} \ {None})
    /\ locks' = [locks EXCEPT ![id] = None]

-----------------------------------------------------------------------------
(* The goroutine of a message up to the handler chain *)

(* HandleNextMessageWithNode: a message is read, its goroutine starts and    *)
(* calls Next, which runs the decode middleware unless the socket is closed. *)
HandleNextMessage(m) ==
    /\ CanAsk
    /\ Goto(m, "idle", IF IsClosed THEN "ended" ELSE IF HasID(m) THEN "setId" ELSE "next")
    /\ UNCHANGED <<frame, chainVars, lockVars, recvVars, closeStep>>

SetMessageID(m) ==
    /\ pc[m] = "setId"
    /\ AcquireMessageIDLock(m)
    /\ UNCHANGED <<frame, chainVars, lockClosed, recvVars, closeStep>>

(* case <-ch of SetMessageID: woken, and racing for the lock again *)
RetryMessageID(m) ==
    /\ pc[m] = "waiting"
    /\ waitOn[m] \in lockClosed
    /\ AcquireMessageIDLock(m)
    /\ UNCHANGED <<frame, chainVars, lockClosed, recvVars, closeStep>>

(* mutant: the select has no Done case; only a closed lock wakes the sleeper  *)
GiveUpNever(m) ==
    /\ waitOn[m] \in lockClosed
    /\ Goto(m, "waiting", "next")
    /\ waitOn' = [waitOn EXCEPT ![m] = None]
    /\ UNCHANGED <<frame, chainVars, locks, lockClosed, recvVars, closeStep>>

(* case <-c.socket.Done() of SetMessageID: it returns without the lock *)
GiveUpMessageID(m) ==
    /\ Done
    /\ Goto(m, "waiting", "next")
    /\ waitOn' = [waitOn EXCEPT ![m] = None]
    /\ UNCHANGED <<frame, chainVars, locks, lockClosed, recvVars, closeStep>>

-----------------------------------------------------------------------------
(* Context.Next *)

NextCheck(m) ==
    /\ CanAsk
    /\ Goto(m, "next", IF IsClosed THEN Back(m) ELSE "walk")
    /\ UNCHANGED <<frame, chainVars, lockVars, recvVars, closeStep>>

Ahead(m) == {p \in Matches(m) : p > pos[m]}

(* GetReceiverForNode, asked only by a context that never made a receiver *)
ReceiverAt(m, p) ==
    /\ HasID(m)
    /\ NoChan(m)
    /\ receivers[Id(m)] # None
    /\ receivers[Id(m)].pos = p

(* The walk stops at the next handler whose pattern matches ...              *)
Arrives(m, p) == p \in Ahead(m) /\ \A q \in Ahead(m) : p <= q

(* ... where a receiver may be registered, which is to get the message ...   *)
FindReceiver(m) ==
    /\ Goto(m, "walk", "found")
    /\ \E p \in 1..N : Arrives(m, p) /\ ReceiverAt(m, p)
    /\ target' = [target EXCEPT ![m] = receivers[Id(m)].ch]
    /\ UNCHANGED <<frame, chainVars, lockVars, round, receivers, buf, chClosed, closeStep>>

(* ... and where the handler is run otherwise.                               *)
RunHandler(m) ==
    /\ Goto(m, "walk", "handler")
    /\ \E p \in 1..N :
        /\ Arrives(m, p) /\ ~ReceiverAt(m, p)
        /\ pos' = [pos EXCEPT ![m] = p]
    /\ depth' = [depth EXCEPT ![m] = @ + 1]
    /\ UNCHANGED <<frame, lockVars, recvVars, closeStep>>

(* The end of the chain: a receiver this message did not meet is removed.   *)
BeyondEnd(m) ==
    /\ Ahead(m) = {}
    /\ Goto(m, "walk", Back(m))
    /\ pos' = [pos EXCEPT ![m] = N + 1]
    /\ IF HasID(m) /\ NoChan(m) THEN RemoveReceiver(Id(m)) ELSE UNCHANGED receivers
    /\ UNCHANGED <<frame, depth, lockVars, round, target, buf, chClosed, closeStep>>

(* mutant: the receiver is delivered to but not consumed                     *)
TakeReceiverKeepingIt(m) ==
    /\ Goto(m, "found", "deliver")
    /\ UNCHANGED <<frame, chainVars, lockVars, recvVars, closeStep>>

(* A walk that found a receiver first unregisters it ...                    *)
TakeReceiver(m) ==
    /\ Goto(m, "found", "deliver")
    /\ RemoveReceiver(Id(m))
    /\ UNCHANGED <<frame, chainVars, lockVars, round, target, buf, chClosed, closeStep>>

(* mutant: c.message = nil forgotten, so the goroutine releases the lock too  *)
DeliverKeepingMessage(m) ==
    /\ target[m] \notin chClosed
    /\ ~Buffered(target[m])
    /\ Goto(m, "deliver", "finish")
    /\ buf' = buf \cup {<<target[m], m>>}
    /\ UNCHANGED <<frame, chainVars, lockVars, round, target, receivers, chClosed, closeStep>>

(* ... then sends itself on the channel, whose capacity is one.  Its context *)
(* forgets the message, so its goroutine unwinds without touching anything.  *)
Deliver(m) ==
    /\ target[m] \notin chClosed
    /\ ~Buffered(target[m])
    /\ Goto(m, "deliver", "ended")
    /\ buf' = buf \cup {<<target[m], m>>}
    /\ UNCHANGED <<frame, chainVars, lockVars, round, target, receivers, chClosed, closeStep>>

(* mutant: the panic unwinds a handler that is not on the stack              *)
DeliverPanicsDeeper(m) ==
    /\ target[m] \in chClosed
    /\ pc[m] = "deliver"
    /\ PopHandler(m)
    /\ UNCHANGED <<frame, lockVars, recvVars, closeStep>>

(* A send on a channel that Close has closed panics; the panic is recovered  *)
(* around the enclosing handler, which is thereby aborted.                   *)
DeliverPanics(m) ==
    /\ target[m] \in chClosed
    /\ pc[m] = "deliver"
    /\ IF depth[m] = 0
       THEN pc' = [pc EXCEPT ![m] = "finish"] /\ UNCHANGED chainVars
       ELSE PopHandler(m)
    /\ UNCHANGED <<frame, lockVars, recvVars, closeStep>>

DeliverAbandoned(m) ==
    /\ Done
    /\ Goto(m, "deliver", "ended")
    /\ UNCHANGED <<frame, chainVars, lockVars, recvVars, closeStep>>

-----------------------------------------------------------------------------
(* User handlers: each may call Next or Receive any number of times.        *)

CallNext(m) ==
    /\ Goto(m, "handler", "next")
    /\ UNCHANGED <<frame, chainVars, lockVars, recvVars, closeStep>>

HandlerReturn(m) ==
    /\ pc[m] = "handler"
    /\ PopHandler(m)
    /\ UNCHANGED <<frame, lockVars, recvVars, closeStep>>

(* receiveNextMessage.  A first Receive that is answered by the message the  *)
(* handler runs for, and any Receive without an ID, return at once and change*)
(* nothing that is modelled.                                                 *)
BeginReceive(m) ==
    /\ HasID(m)
    /\ round[m] < MaxReceives
    /\ Goto(m, "handler", "register")
    /\ UNCHANGED <<frame, chainVars, lockVars, recvVars, closeStep>>

Register(m) ==
    /\ Goto(m, "register", "release")
    /\ round' = [round EXCEPT ![m] = @ + 1]
    /\ AddReceiver(Id(m), pos[m], <<m, round[m] + 1>>)
    /\ UNCHANGED <<frame, chainVars, lockVars, target, buf, chClosed, closeStep>>

(* mutant: Receive sleeps with the lock in its hands                         *)
WaitHoldingLock(m) ==
    /\ Goto(m, "release", "receive")
    /\ UNCHANGED <<frame, chainVars, lockVars, recvVars, closeStep>>

ReleaseAndWait(m) ==
    /\ Goto(m, "release", "receive")
    /\ ReleaseMessageIDLock(Id(m))
    /\ UNCHANGED <<frame, chainVars, waitOn, recvVars, closeStep>>

(* A message with empty data is skipped: register, release and wait again.  *)
TakeMessage(m) ==
    /\ pc[m] = "receive"
    /\ \E b \in buf :
        /\ b[1] = Ch(m)
        /\ buf' = buf \ {b}
        /\ pc' = [pc EXCEPT ![m] = IF frame[b[2]].empty THEN "register" ELSE "handler"]
    /\ UNCHANGED <<frame, chainVars, lockVars, round, target, receivers, chClosed, closeStep>>

(* A closed channel yields nil, which is skipped like an empty message.      *)
TakeNil(m) ==
    /\ Ch(m) \in chClosed
    /\ ~Buffered(Ch(m))
    /\ Goto(m, "receive", "register")
    /\ UNCHANGED <<frame, chainVars, lockVars, recvVars, closeStep>>

(* case <-ctx.Done() of receiveNextMessage: the handler gets an error and    *)
(* goes on; neither the receiver nor the lock is restored.                   *)
ReceiveCancelled(m) ==
    /\ Done \/ Timeouts
    /\ Goto(m, "receive", "handler")
    /\ UNCHANGED <<frame, chainVars, lockVars, recvVars, closeStep>>

-----------------------------------------------------------------------------
(* The end of the goroutine *)

(* mutant: the goroutine forgets releaseMessageIDLock                        *)
FinishHoldingLock(m) ==
    /\ Goto(m, "finish", "finalize")
    /\ UNCHANGED <<frame, chainVars, lockVars, recvVars, closeStep>>

Finish(m) ==
    /\ Goto(m, "finish", "finalize")
    /\ IF HasID(m) THEN ReleaseMessageIDLock(Id(m)) ELSE UNCHANGED <<locks, lockClosed>>
    /\ UNCHANGED <<frame, chainVars, waitOn, recvVars, closeStep>>

(* mutant: the channel is drained and the receiver left in the table         *)
FinalizeKeepingReceiver(m) ==
    /\ Goto(m, "finalize", "ended")
    /\ buf' = {b \in buf : b[1] # Ch(m)}
    /\ UNCHANGED <<frame, chainVars, lockVars, round, target, receivers, chClosed, closeStep>>

(* Context.finalize: the receiver of the ID goes, whoever registered it, and *)
(* the context's own last channel is drained.                                *)
Finalize(m) ==
    /\ Goto(m, "finalize", "ended")
    /\ IF NoChan(m)
       THEN UNCHANGED <<receivers, buf>>
       ELSE /\ RemoveReceiver(Id(m))
            /\ buf' = {b \in buf : b[1] # Ch(m)}
    /\ UNCHANGED <<frame, chainVars, lockVars, round, target, chClosed, closeStep>>

-----------------------------------------------------------------------------
(* Socket.Close, by a handler, the read loop or the ping loop.  closeMu is   *)
(* held from the first step to the last; a second Close changes nothing.     *)

CloseMove(from, to) == closeStep = from /\ closeStep' = to

CloseMark ==
    /\ CloseMove("open", "marked")
    /\ UNCHANGED <<frame, pc, chainVars, lockVars, recvVars>>

CloseReceivers ==
    /\ CloseMove("marked", "receivers")
    /\ chClosed' = chClosed \cup {receivers[i].ch : i \in {j \in Ids : receivers[j] # None}}
    /\ receivers' = [i \in Ids |-> None]
    /\ UNCHANGED <<frame, pc, chainVars, lockVars, round, target, buf>>

(* The table is replaced; the channels in it are dropped, not closed.        *)
CloseLocks ==
    /\ CloseMove("receivers", "locks")
    /\ locks' = [i \in Ids |-> None]
    /\ UNCHANGED <<frame, pc, chainVars, waitOn, lockClosed, recvVars>>

CloseCancel ==
    /\ CloseMove("locks", "done")
    /\ UNCHANGED <<frame, pc, chainVars, lockVars, recvVars>>

Close == CloseMark \/ CloseReceivers \/ CloseLocks \/ CloseCancel

-----------------------------------------------------------------------------
Init ==
    /\ frame \in [Msgs -> Frames]
    /\ pc = [m \in Msgs |-> "idle"]
    /\ pos = [m \in Msgs |-> 0]
    /\ depth = [m \in Msgs |-> 0]
    /\ round = [m \in Msgs |-> 0]
    /\ target = [m \in Msgs |-> None]
    /\ waitOn = [m \in Msgs |-> None]
    /\ locks = [i \in Ids |-> None]
    /\ lockClosed = {}
    /\ receivers = [i \in Ids |-> None]
    /\ buf = {}
    /\ chClosed = {}
    /\ closeStep = "open"

(* What the framework does by itself ...                                     *)
Framework(m) ==
    \/ SetMessageID(m) \/ RetryMessageID(m) \/ GiveUpMessageID(m)
    \/ NextCheck(m) \/ FindReceiver(m) \/ RunHandler(m) \/ BeyondEnd(m)
    \/ TakeReceiver(m) \/ Deliver(m) \/ DeliverPanics(m) \/ DeliverAbandoned(m)
    \/ Register(m) \/ ReleaseAndWait(m) \/ TakeMessage(m) \/ TakeNil(m)
    \/ ReceiveCancelled(m) \/ Finish(m) \/ Finalize(m)

(* ... and what clients and user handlers decide.                            *)
Environment(m) == HandleNextMessage(m) \/ CallNext(m) \/ BeginReceive(m) \/ HandlerReturn(m)

(* Closed, and every goroutine at its end (or never started): the only way   *)
(* this system stops.                                                        *)
Terminated ==
    /\ Done
    /\ \A m \in Msgs : pc[m] = "ended"
    /\ UNCHANGED vars

Next == Close \/ Terminated \/ \E m \in Msgs : Framework(m) \/ Environment(m)

Spec == Init /\ [][Next]_vars

(* Goroutines are scheduled, a Close that began is carried through, and a    *)
(* user handler does not run for ever.  Nobody has to read, call or close.   *)
Fairness ==
    /\ \A m \in Msgs : WF_vars(Framework(m)) /\ SF_vars(HandlerReturn(m))
    /\ WF_vars(CloseReceivers \/ CloseLocks \/ CloseCancel)

FairSpec == Spec /\ Fairness

(* The same system on a socket that nobody closes, so that no progress owes   *)
(* anything to Close; there the client may also just stop sending.           *)
FairOpenSpec == Init /\ [][Next /\ Open']_vars /\ Fairness

-----------------------------------------------------------------------------
(* Properties *)

(* Every variable has the shape of the Go field it stands for.               *)
TypeOK ==
    /\ frame \in [Msgs -> Frame]
    /\ pc \in [Msgs -> Pcs]
    /\ pos \in [Msgs -> Nat]
    /\ depth \in [Msgs -> Nat]
    /\ round \in [Msgs -> Nat]
    /\ target \in [Msgs -> Chan \cup {None}]
    /\ waitOn \in [Msgs -> Msgs \cup {None}]
    /\ locks \in [Ids -> Msgs \cup {None}]
    /\ lockClosed \subseteq Msgs
    /\ receivers \in [Ids -> Entry \cup {None}]
    /\ buf \subseteq Chan \X Msgs
    /\ chClosed \subseteq Chan
    /\ closeStep \in CloseSteps

(* A goroutine between taking the lock of its ID and giving it up; a handler *)
(* whose next message has been handed to it already counts as running again. *)
Running(m) ==
    /\ HasID(m)
    /\ \/ pc[m] \in {"next", "walk", "found", "deliver", "handler", "register",
                     "release", "finish"}
       \/ pc[m] = "receive" /\ Buffered(Ch(m))

(* A handler asleep in Receive *)
Parked(m) == pc[m] = "receive" /\ ~Buffered(Ch(m))

(* The promise of socket.go:69, "Message-ID locking to serialize same-ID     *)
(* messages through the handler chain": while the socket is open no two      *)
(* messages with the same ID run in the chain at the same time.              *)
SerialChain ==
    Open => \A a, b \in Msgs : Running(a) /\ Running(b) /\ Id(a) = Id(b) => a = b

(* A message handed to a receiver (context_next.go:71-79) sits in the channel*)
(* of a handler of the same conversation that is asleep on that very channel;*)
(* it was not put where nobody will ever look.                               *)
HandedOverIsAwaited ==
    Open => \A b \in buf : LET o == b[1][1] IN
        pc[o] = "receive" /\ b[1] = Ch(o) /\ Id(o) = Id(b[2])

(* SetMessageID blocks "if another message with this ID is already being     *)
(* processed" (context.go:388-391): whoever sleeps on a lock that nobody has *)
(* released yet sleeps because of a message that really is in the chain.     *)
BlockedByLiveMessage ==
    Open => \A m \in Msgs :
        pc[m] = "waiting" /\ waitOn[m] \notin lockClosed
            => \E o \in Msgs : Running(o) /\ Id(o) = Id(m)

(* The send of context_next.go:77-79 never blocks on a full channel while the*)
(* socket is open: the lock is not held by a goroutine that cannot move.     *)
DeliveryNeverBlocks ==
    Open => \A m \in Msgs : pc[m] = "deliver" => ~Buffered(target[m])

(* No lost wake-up in SetMessageID: the lock channel a goroutine sleeps on is*)
(* closed already, or is still in the table where a release will find it, or *)
(* Close has begun and Done will wake the sleeper.                           *)
NoLostWakeup ==
    \A m \in Msgs : pc[m] = "waiting" =>
        \/ waitOn[m] \in lockClosed
        \/ waitOn[m] = locks[Id(m)]
        \/ ~Open

(* A registered receiver belongs to a goroutine that still exists and it is  *)
(* that goroutine's current channel; no message can be lost to the receiver  *)
(* of a handler that ended (finalize, context.go:844-854).                   *)
NoDanglingReceiver ==
    \A i \in Ids : receivers[i] # None =>
        LET e == receivers[i]  o == e.ch[1] IN
            pc[o] # "ended" /\ e.ch = Ch(o) /\ Id(o) = i

(* finalize's removal is "a no-op if the receiver already self-consumed on   *)
(* delivery" (context.go:844-846): it never removes another goroutine's.     *)
FinalizeRemovesOwn ==
    [][Open => \A m \in Msgs : Finalize(m) /\ HasID(m) /\ receivers[Id(m)] # None
          => receivers[Id(m)].ch = Ch(m) \/ receivers' = receivers]_vars

(* Whoever waits for an ID gets its turn: the lock is passed on by a handler  *)
(* that ends, that parks, or that was woken with the lock of its messenger.  *)
LockProgress ==
    \A m \in Msgs : pc[m] = "waiting" ~> pc[m] # "waiting"

(* After Close every goroutine that was started ends: none is left asleep on *)
(* a dropped lock channel, on a receiver nobody knows, or in a send.         *)
ShutdownDrains ==
    \A m \in Msgs : (Done /\ pc[m] # "idle") ~> pc[m] = "ended"

-----------------------------------------------------------------------------
(* The goroutines implement Floor, the promise without its mechanism.        *)

Stage(m) ==
    CASE ~Open -> "left"
      [] Open /\ Running(m) -> "speaking"
      [] Open /\ Parked(m) -> "parked"
      [] Open /\ (~HasID(m) \/ pc[m] \in {"idle", "setId", "waiting"}) -> "waiting"
      [] OTHER -> "left"

Abstract == INSTANCE Floor WITH
    topic <- [m \in Msgs |-> Id(m)],
    stage <- [m \in Msgs |-> Stage(m)],
    shut  <- ~Open

(* Every step of the code's protocol of locks, receivers and channels is a   *)
(* step of Floor: the floor is taken, parked, passed or left, never shared   *)
(* and never stolen from a parked handler (handlers without timeouts).       *)
ImplementsFloor == Abstract!Spec
=============================================================================
