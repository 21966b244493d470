------------------------------ MODULE Lifecycle ------------------------------
(* One call of Router.HandleConnection (router.go): open handlers, the loop  *)
(* that reads messages, close handlers, and connection.Close under closeMu.  *)
(* Beside it run the ping loop and one goroutine per message read, and any of*)
(* them may close the socket.  What a message goroutine does in the handler  *)
(* chain is Conversation's subject; here it runs, blocks in Receive, closes  *)
(* and ends.                                                                 *)
(*                                                                           *)
(* Open and close handlers are chained by Context.Next.  Next runs one       *)
(* handler and then calls itself; a handler may also call Next, and then     *)
(* stays on the stack while the rest of the chain runs.  A handler that calls*)
(* Next after the chain ran out gets control back at once.                   *)
EXTENDS Naturals

CONSTANTS
    Msgs,            \* messages the client may send
    NOpen,           \* number of open handlers
    NClose,          \* number of close handlers
    Pings,           \* TRUE: SetPingInterval, and the connection is a Pinger
    None

OpenHandlers  == 1..NOpen
CloseHandlers == 1..NClose

(* who closed: closeStatus, closeReason and closeStatusSource in one         *)
Reasons == {"handler", "ping timeout", "canceled", "close frame", "eof"}

ASSUME LifecycleAssumption ==
    /\ None \notin Reasons
    /\ NOpen \in Nat
    /\ NClose \in Nat
    /\ Pings \in BOOLEAN

VARIABLES
    main,     \* where HandleConnection is
    at,       \* currentHandlerNode of the running chain: the next handler
    depth,    \* handlers of that chain suspended in a Next of their own
    failed,   \* an open handler panicked or set Error
    opened,   \* how often each open handler ran
    cleaned,  \* how often each close handler ran
    reason,   \* closeStatus, closeReason and closeStatusSource; None while open
    first,    \* history: the reason of the first Close
    sent,     \* what connection.Close was called with
    ping,     \* where the ping loop is
    msgPc     \* where each message and its goroutine is

vars == <<main, at, depth, failed, opened, cleaned, reason, first, sent, ping, msgPc>>

chainVars == <<at, depth, failed, opened, cleaned>>
closeVars == <<reason, first, sent>>

Mains == {"openNext", "openHandler", "read", "closeNext", "closeHandler",
          "locking", "hangup", "returned", "panicked"}
PingStates == {"off", "select", "pinging", "failed"}
MsgStates  == {"unread", "spawned", "running", "blocked", "ended"}

Closed  == reason # None
MuFree  == main # "hangup"      \* closeMu is held for long by connection.Close only
Stopped == main \in {"returned", "panicked"}  \* defer close(stop)

At(from, to) == main = from /\ main' = to

(* mutant: the early return for a closed socket is missing                   *)
CloseAgain(r) ==
    /\ reason' = r
    /\ first' = IF Closed THEN first ELSE r

(* Socket.Close: only the first one counts *)
CloseWith(r) ==
    IF Closed THEN UNCHANGED <<reason, first>>
              ELSE reason' = r /\ first' = r

-----------------------------------------------------------------------------
(* Open handlers: HandleOpen and Next with nodes of OpenBindType *)

OpenMayRun == ~failed /\ ~Closed

RunOpenHandler ==
    /\ At("openNext", "openHandler")
    /\ OpenMayRun
    /\ at \in OpenHandlers
    /\ opened' = [opened EXCEPT ![at] = @ + 1]
    /\ at' = at + 1
    /\ UNCHANGED <<depth, failed, cleaned, closeVars, ping, msgPc>>

OpenChainEnds ==
    /\ ~OpenMayRun \/ at \notin OpenHandlers
    /\ IF depth = 0
       THEN At("openNext", "read") /\ at' = 1 /\ UNCHANGED depth
       ELSE At("openNext", "openHandler") /\ depth' = depth - 1 /\ UNCHANGED at
    /\ UNCHANGED <<failed, opened, cleaned, closeVars, ping, msgPc>>

OpenHandlerCallsNext ==
    /\ At("openHandler", "openNext")
    /\ depth' = depth + 1
    /\ UNCHANGED <<at, failed, opened, cleaned, closeVars, ping, msgPc>>

(* mutant: the call of Next after an open handler is missing                 *)
OpenHandlerReturnsOnly ==
    /\ IF depth = 0
       THEN At("openHandler", "read") /\ at' = 1 /\ UNCHANGED depth
       ELSE At("openHandler", "openHandler") /\ depth' = depth - 1 /\ UNCHANGED at
    /\ UNCHANGED <<failed, opened, cleaned, closeVars, ping, msgPc>>

(* mutant: returning takes a caller off the stack that is still there        *)
OpenHandlerReturnsTwice ==
    /\ At("openHandler", "openNext")
    /\ depth' = depth - 1
    /\ UNCHANGED <<at, failed, opened, cleaned, closeVars, ping, msgPc>>

(* Next is called for an open handler that returned.                         *)
OpenHandlerReturns ==
    /\ At("openHandler", "openNext")
    /\ UNCHANGED <<chainVars, closeVars, ping, msgPc>>

(* A panic is recovered into ctx.Error, which handlers may also set.         *)
OpenHandlerFails ==
    /\ At("openHandler", "openNext")
    /\ failed' = TRUE
    /\ UNCHANGED <<at, depth, opened, cleaned, closeVars, ping, msgPc>>

OpenHandlerCloses ==
    /\ main = "openHandler"
    /\ CloseWith("handler")
    /\ UNCHANGED <<main, chainVars, sent, ping, msgPc>>

-----------------------------------------------------------------------------
(* The message loop: HandleNextMessageWithNode *)

ReadMessage(m) ==
    /\ main = "read"
    /\ msgPc[m] = "unread"
    /\ msgPc' = [msgPc EXCEPT ![m] = "spawned"]
    /\ UNCHANGED <<main, chainVars, closeVars, ping>>

(* mutant: the loop ends on EOF without closing the socket                   *)
ReadEndsSilently ==
    /\ At("read", "closeNext")
    /\ UNCHANGED <<chainVars, closeVars, ping, msgPc>>

(* a close frame of the peer; EOF or a closed network connection             *)
ReadEnds ==
    /\ At("read", "closeNext")
    /\ \E r \in {"close frame", "eof"} : CloseWith(r)
    /\ UNCHANGED <<chainVars, sent, ping, msgPc>>

(* Read is given the socket as its context, which Close cancels.             *)
ReadCanceled ==
    /\ Closed
    /\ At("read", "closeNext")
    /\ CloseWith("canceled")
    /\ UNCHANGED <<chainVars, sent, ping, msgPc>>

(* Any other error, a reset connection for one: HandleConnection panics.     *)
ReadPanics ==
    /\ At("read", "panicked")
    /\ UNCHANGED <<chainVars, closeVars, ping, msgPc>>

-----------------------------------------------------------------------------
(* Close handlers: HandleClose and Next with nodes of CloseBindType.  Neither*)
(* the closed socket nor an error of an earlier handler stops the chain.     *)

RunCloseHandler ==
    /\ At("closeNext", "closeHandler")
    /\ at \in CloseHandlers
    /\ cleaned' = [cleaned EXCEPT ![at] = @ + 1]
    /\ at' = at + 1
    /\ UNCHANGED <<depth, failed, opened, closeVars, ping, msgPc>>

(* mutant: a closed socket stops the chain, as it stops every other chain    *)
CloseChainEndsWhenClosed ==
    /\ Closed \/ at \notin CloseHandlers
    /\ IF depth = 0
       THEN At("closeNext", "locking") /\ UNCHANGED depth
       ELSE At("closeNext", "closeHandler") /\ depth' = depth - 1
    /\ UNCHANGED <<at, failed, opened, cleaned, closeVars, ping, msgPc>>

CloseChainEnds ==
    /\ at \notin CloseHandlers
    /\ IF depth = 0
       THEN At("closeNext", "locking") /\ UNCHANGED depth
       ELSE At("closeNext", "closeHandler") /\ depth' = depth - 1
    /\ UNCHANGED <<at, failed, opened, cleaned, closeVars, ping, msgPc>>

CloseHandlerCallsNext ==
    /\ At("closeHandler", "closeNext")
    /\ depth' = depth + 1
    /\ UNCHANGED <<at, failed, opened, cleaned, closeVars, ping, msgPc>>

(* returns or panics: Next goes on all the same *)
CloseHandlerReturns ==
    /\ At("closeHandler", "closeNext")
    /\ UNCHANGED <<chainVars, closeVars, ping, msgPc>>

(* connection.Close, with closeMu held until it is done *)
HangUp ==
    /\ At("locking", "hangup")
    /\ sent' = reason
    /\ UNCHANGED <<chainVars, reason, first, ping, msgPc>>

Return ==
    /\ At("hangup", "returned")
    /\ UNCHANGED <<chainVars, closeVars, ping, msgPc>>

-----------------------------------------------------------------------------
(* runPingLoop *)

Tick ==
    /\ ping = "select" /\ ping' = "pinging"
    /\ UNCHANGED <<main, chainVars, closeVars, msgPc>>

Pong ==
    /\ ping = "pinging" /\ ping' = "select"
    /\ UNCHANGED <<main, chainVars, closeVars, msgPc>>

PingFails ==
    /\ ping = "pinging" /\ ping' = "failed"
    /\ UNCHANGED <<main, chainVars, closeVars, msgPc>>

(* mutant: the loop gives up without closing the socket                      *)
PingGivesUp ==
    /\ ping = "failed" /\ ping' = "off"
    /\ UNCHANGED <<main, chainVars, closeVars, msgPc>>

PingCloses ==
    /\ MuFree
    /\ ping = "failed" /\ ping' = "off"
    /\ CloseWith("ping timeout")
    /\ UNCHANGED <<main, chainVars, sent, msgPc>>

(* mutant: the loop is stopped when the read loop ends and not when          *)
(* HandleConnection returns or panics                                        *)
PingStopsEarly ==
    /\ main \in {"closeNext", "closeHandler"}
    /\ ping = "select" /\ ping' = "off"
    /\ UNCHANGED <<main, chainVars, closeVars, msgPc>>

PingStops ==
    /\ Stopped
    /\ ping = "select" /\ ping' = "off"
    /\ UNCHANGED <<main, chainVars, closeVars, msgPc>>

-----------------------------------------------------------------------------
(* The goroutine of a message *)

MsgGoes(m, from, to) == msgPc[m] = from /\ msgPc' = [msgPc EXCEPT ![m] = to]

MsgStart(m) ==
    /\ MuFree
    /\ MsgGoes(m, "spawned", IF Closed THEN "ended" ELSE "running")
    /\ UNCHANGED <<main, chainVars, closeVars, ping>>

MsgReceives(m) ==
    /\ MsgGoes(m, "running", "blocked")
    /\ UNCHANGED <<main, chainVars, closeVars, ping>>

(* woken by a message of its conversation, whose goroutine ends              *)
MsgHandsOver(o, m) ==
    /\ msgPc[o] = "running"
    /\ msgPc[m] = "blocked"
    /\ msgPc' = [msgPc EXCEPT ![o] = "ended", ![m] = "running"]
    /\ UNCHANGED <<main, chainVars, closeVars, ping>>

MsgCanceled(m) ==
    /\ Closed
    /\ MsgGoes(m, "blocked", "running")
    /\ UNCHANGED <<main, chainVars, closeVars, ping>>

MsgCloses(m) ==
    /\ MuFree
    /\ msgPc[m] = "running"
    /\ CloseWith("handler")
    /\ UNCHANGED <<main, chainVars, sent, ping, msgPc>>

MsgEnds(m) ==
    /\ MsgGoes(m, "running", "ended")
    /\ UNCHANGED <<main, chainVars, closeVars, ping>>

-----------------------------------------------------------------------------
Init ==
    /\ main = "openNext"
    /\ at = 1
    /\ depth = 0
    /\ failed = FALSE
    /\ opened = [h \in OpenHandlers |-> 0]
    /\ cleaned = [h \in CloseHandlers |-> 0]
    /\ reason = None
    /\ first = None
    /\ sent = None
    /\ ping = IF Pings THEN "select" ELSE "off"
    /\ msgPc = [m \in Msgs |-> "unread"]

Main ==
    \/ RunOpenHandler \/ OpenChainEnds \/ RunCloseHandler \/ CloseChainEnds
    \/ HangUp \/ Return

HandlerCalls ==
    \/ OpenHandlerCallsNext \/ OpenHandlerFails \/ OpenHandlerCloses
    \/ CloseHandlerCallsNext

Reads == ReadEnds \/ ReadPanics \/ \E m \in Msgs : ReadMessage(m)

PingLoop == Tick \/ Pong \/ PingFails \/ PingCloses \/ PingStops

Msg(m) ==
    \/ MsgStart(m) \/ MsgReceives(m) \/ MsgCanceled(m) \/ MsgCloses(m) \/ MsgEnds(m)
    \/ \E o \in Msgs : MsgHandsOver(o, m)

(* All is over; after a panic handlers blocked in Receive may be left behind.*)
Terminated ==
    /\ Stopped
    /\ ping = "off"
    /\ main = "returned" => \A m \in Msgs : msgPc[m] \in {"unread", "ended"}
    /\ UNCHANGED vars

Next ==
    \/ Main \/ HandlerCalls \/ OpenHandlerReturns \/ CloseHandlerReturns
    \/ Reads \/ ReadCanceled \/ PingLoop \/ Terminated
    \/ \E m \in Msgs : Msg(m)

Spec == Init /\ [][Next]_vars

(* HandleConnection runs on, connection.Close ends, a canceled Read returns. *)
(* Handlers return however often they call Next.  A ping ends, and a select  *)
(* that finds stop closed time and again takes it: Go's choice is random.    *)
(* Nobody has to read, fail, block or close.                                 *)
Fairness ==
    /\ WF_vars(Main)
    /\ WF_vars(ReadCanceled)
    /\ SF_vars(OpenHandlerReturns)
    /\ SF_vars(CloseHandlerReturns)
    /\ WF_vars(Pong \/ PingFails)
    /\ WF_vars(PingCloses)
    /\ SF_vars(PingStops)
    /\ \A m \in Msgs :
          WF_vars(MsgStart(m)) /\ WF_vars(MsgCanceled(m)) /\ SF_vars(MsgEnds(m))

FairSpec == Spec /\ Fairness

-----------------------------------------------------------------------------
(* Properties *)

(* Every variable has the shape of the Go field or control point it models.  *)
TypeOK ==
    /\ main \in Mains
    /\ at \in Nat
    /\ depth \in Nat
    /\ failed \in BOOLEAN
    /\ opened \in [OpenHandlers -> Nat]
    /\ cleaned \in [CloseHandlers -> Nat]
    /\ reason \in Reasons \cup {None}
    /\ first \in Reasons \cup {None}
    /\ sent \in Reasons \cup {None}
    /\ ping \in PingStates
    /\ msgPc \in [Msgs -> MsgStates]

AllOpened  == \A h \in OpenHandlers : opened[h] = 1
AllCleaned == \A h \in CloseHandlers : cleaned[h] = 1

(* router.go:304-317: when HandleConnection returns, every close handler has *)
(* run, exactly once, whatever handlers did with Next and panics and whoever *)
(* closed the socket; and the socket is closed, so that its goroutines wake. *)
CleanupBeforeStop == main = "returned" => AllCleaned /\ Closed

(* The peer is told the status of whoever closed first (socket.go:134-142,   *)
(* router.go:154), however many others close before the connection does.     *)
FirstReasonSent == sent # None => sent = first

(* README.md:1013: a close handler can ask why the connection closed: the    *)
(* answer is there before the first of them runs and stays the same.         *)
CloseHandlersKnowWhy ==
    main \in {"closeNext", "closeHandler", "locking", "hangup"} => Closed /\ reason = first

(* router.go:260-262: no message is handled before the open handlers are     *)
(* done; the ones that did not run were cut off by a failure or a Close.     *)
OpenedBeforeMessages ==
    (\E m \in Msgs : msgPc[m] # "unread") => AllOpened \/ failed \/ Closed

(* README.md:1446, "Close handlers always execute to completion", and        *)
(* router.go:316, "for both server-initiated and client-initiated closures": *)
(* HandleConnection never gives up with a close handler not run.             *)
CloseHandlersAlwaysRun == Stopped => AllCleaned

(* runPingLoop (router.go:157-160): a failed ping makes HandleConnection run *)
(* the close handlers and return, wherever it was, unless reading panics.    *)
PingFailureCleansUp == ping = "failed" ~> Stopped

(* The ping loop does not outlive the connection by more than a ping.        *)
PingLoopStops == Stopped ~> ping = "off"

(* HandleConnection waits for no message goroutine, and yet none is left     *)
(* when it has returned: Done ends every one that blocks.                    *)
EverythingDrains ==
    main = "returned" ~> \A m \in Msgs : msgPc[m] \in {"unread", "ended"}
=============================================================================
