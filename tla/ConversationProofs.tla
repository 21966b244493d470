------------------------- MODULE ConversationProofs -------------------------
(* Theorems about Conversation, for any number of messages, IDs, paths and   *)
(* handlers.  GInv holds with and without timeouts and while the socket      *)
(* closes; SInv adds what makes an open socket without timeouts serial, and  *)
(* then it implements Floor.                                                 *)
EXTENDS Conversation, TLAPS

(* Where a goroutine is tells what it has and has not done so far.           *)
BeforeLock == {"idle", "setId", "waiting"}

StageInv ==
    \A m \in Msgs :
        /\ pc[m] \in BeforeLock \cup {"found", "deliver"} => round[m] = 0
        /\ pc[m] \in {"setId", "waiting", "found", "deliver", "register", "release", "receive"}
               => HasID(m)
        /\ pc[m] \in {"found", "deliver"} => target[m] \in Chan
        /\ pc[m] \in {"handler", "register", "release", "receive"} => depth[m] > 0
        /\ pc[m] = "waiting" => waitOn[m] \in Msgs

(* A lock channel was made by a message that got through SetMessageID; once  *)
(* closed it is not in the table, and it is there under its maker's ID only. *)
LockInv ==
    /\ \A m \in lockClosed : pc[m] \notin BeforeLock
    /\ \A i \in Ids : locks[i] # None =>
           /\ pc[locks[i]] \notin BeforeLock
           /\ Id(locks[i]) = i
           /\ locks[i] \notin lockClosed

(* NoDanglingReceiver, and the owner really made a channel.                  *)
ReceiverInv ==
    \A i \in Ids : receivers[i] # None =>
        \E o \in Msgs : /\ receivers[i].ch = Ch(o)
                        /\ Id(o) = i
                        /\ round[o] > 0
                        /\ pc[o] # "ended"

GInv == TypeOK /\ StageInv /\ LockInv /\ NoLostWakeup /\ ReceiverInv

(* The lock of an ID is in the table exactly while somebody runs with it.    *)
LockedWhileRunning == \A m \in Msgs : Running(m) => locks[Id(m)] # None

RunningWhileLocked ==
    \A i \in Ids : locks[i] # None => \E m \in Msgs : Running(m) /\ Id(m) = i

Serial == \A a, b \in Msgs : Running(a) /\ Running(b) /\ Id(a) = Id(b) => a = b

(* A registered receiver waits, or is about to, on an empty channel.         *)
ReceiverWaits ==
    \A i \in Ids : \A o \in Msgs :
        receivers[i] # None /\ receivers[i].ch = Ch(o)
            => pc[o] \in {"release", "receive"} /\ ~Buffered(Ch(o))

(* Whoever found a receiver found a handler that sleeps on an empty channel  *)
(* and has been unregistered by the time of the send.                        *)
TargetWaits ==
    \A m \in Msgs : pc[m] \in {"found", "deliver"} =>
        \E o \in Msgs : /\ target[m] = Ch(o)
                        /\ Id(o) = Id(m)
                        /\ pc[o] = "receive"
                        /\ ~Buffered(Ch(o))

TargetTaken == \A m \in Msgs : pc[m] = "deliver" => receivers[Id(m)] = None

BufferAwaited ==
    \A b \in buf : \E o \in Msgs : b[1] = Ch(o) /\ pc[o] = "receive" /\ Id(o) = Id(b[2])

OneInBuffer == \A b, c \in buf : b[1] = c[1] => b = c

OpenInv ==
    /\ Serial
    /\ LockedWhileRunning
    /\ RunningWhileLocked
    /\ ReceiverWaits
    /\ TargetWaits
    /\ TargetTaken
    /\ BufferAwaited
    /\ OneInBuffer
    /\ chClosed = {}

SInv == Open => OpenInv


-----------------------------------------------------------------------------
USE DEF lockVars, chainVars, recvVars, Goto, HasID

(* A message that has an ID has one of Ids.                                  *)
LEMMA IdType == ASSUME TypeOK, NEW m \in Msgs, HasID(m) PROVE Id(m) \in Ids
  BY DEF TypeOK, Frame, Id

(* Every step keeps the types; StageInv says that a handler to be popped is  *)
(* on the stack.                                                             *)
LEMMA TypeStep == ASSUME TypeOK, StageInv, [Next]_vars PROVE TypeOK'
<1> USE ConversationAssumption DEF TypeOK, StageInv, Entry, Chan, Pcs, CloseSteps
<1>1. ASSUME NEW m \in Msgs, HandleNextMessage(m) PROVE TypeOK'
  BY <1>1, IdType DEF HandleNextMessage, CanAsk, IsClosed
<1>2. ASSUME NEW m \in Msgs, SetMessageID(m) PROVE TypeOK'
  <2>1. Id(m) \in Ids
    BY <1>2, IdType DEF SetMessageID
  <2>2. CASE locks[Id(m)] = None
    BY <1>2, <2>1, <2>2 DEF SetMessageID, AcquireMessageIDLock
  <2>3. CASE locks[Id(m)] # None
    BY <1>2, <2>1, <2>3 DEF SetMessageID, AcquireMessageIDLock
  <2> QED
    BY <2>2, <2>3
<1>3. ASSUME NEW m \in Msgs, RetryMessageID(m) PROVE TypeOK'
  <2>1. Id(m) \in Ids
    BY <1>3, IdType DEF RetryMessageID
  <2>2. CASE locks[Id(m)] = None
    BY <1>3, <2>1, <2>2 DEF RetryMessageID, AcquireMessageIDLock
  <2>3. CASE locks[Id(m)] # None
    BY <1>3, <2>1, <2>3 DEF RetryMessageID, AcquireMessageIDLock
  <2> QED
    BY <2>2, <2>3
<1>4. ASSUME NEW m \in Msgs, GiveUpMessageID(m) PROVE TypeOK'
  BY <1>4, IdType DEF GiveUpMessageID, Done
<1>5. ASSUME NEW m \in Msgs, NextCheck(m) PROVE TypeOK'
  BY <1>5, IdType DEF NextCheck, CanAsk, IsClosed, Back
<1>6. ASSUME NEW m \in Msgs, FindReceiver(m) PROVE TypeOK'
  BY <1>6, IdType DEF FindReceiver, Arrives, Ahead, ReceiverAt, NoChan
<1>7. ASSUME NEW m \in Msgs, RunHandler(m) PROVE TypeOK'
  BY <1>7, IdType DEF RunHandler, Arrives, Ahead, Matches
<1>8. ASSUME NEW m \in Msgs, BeyondEnd(m) PROVE TypeOK'
  BY <1>8, IdType DEF BeyondEnd, Ahead, Matches, Back, NoChan, RemoveReceiver
<1>9. ASSUME NEW m \in Msgs, TakeReceiver(m) PROVE TypeOK'
  BY <1>9, IdType DEF TakeReceiver, RemoveReceiver
<1>10. ASSUME NEW m \in Msgs, Deliver(m) PROVE TypeOK'
  BY <1>10, IdType DEF Deliver, Buffered
<1>11. ASSUME NEW m \in Msgs, DeliverPanics(m) PROVE TypeOK'
  BY <1>11, IdType DEF DeliverPanics, PopHandler
<1>12. ASSUME NEW m \in Msgs, DeliverAbandoned(m) PROVE TypeOK'
  BY <1>12, IdType DEF DeliverAbandoned, Done
<1>13. ASSUME NEW m \in Msgs, CallNext(m) PROVE TypeOK'
  BY <1>13, IdType DEF CallNext
<1>14. ASSUME NEW m \in Msgs, HandlerReturn(m) PROVE TypeOK'
  BY <1>14, IdType DEF HandlerReturn, PopHandler
<1>15. ASSUME NEW m \in Msgs, BeginReceive(m) PROVE TypeOK'
  BY <1>15, IdType DEF BeginReceive
<1>16. ASSUME NEW m \in Msgs, Register(m) PROVE TypeOK'
  BY <1>16, IdType DEF Register, AddReceiver
<1>17. ASSUME NEW m \in Msgs, ReleaseAndWait(m) PROVE TypeOK'
  BY <1>17, IdType DEF ReleaseAndWait, ReleaseMessageIDLock
<1>18. ASSUME NEW m \in Msgs, TakeMessage(m) PROVE TypeOK'
  BY <1>18, IdType DEF TakeMessage, Buffered, Ch
<1>19. ASSUME NEW m \in Msgs, TakeNil(m) PROVE TypeOK'
  BY <1>19, IdType DEF TakeNil, Buffered, Ch
<1>20. ASSUME NEW m \in Msgs, ReceiveCancelled(m) PROVE TypeOK'
  BY <1>20, IdType DEF ReceiveCancelled, Done
<1>21. ASSUME NEW m \in Msgs, Finish(m) PROVE TypeOK'
  BY <1>21, IdType DEF Finish, ReleaseMessageIDLock
<1>22. ASSUME NEW m \in Msgs, Finalize(m) PROVE TypeOK'
  BY <1>22, IdType DEF Finalize, RemoveReceiver, NoChan, Buffered, Ch
<1>23. ASSUME CloseMark PROVE TypeOK'
  BY <1>23 DEF CloseMark, CloseMove
<1>24. ASSUME CloseReceivers PROVE TypeOK'
  BY <1>24 DEF CloseReceivers, CloseMove
<1>25. ASSUME CloseLocks PROVE TypeOK'
  BY <1>25 DEF CloseLocks, CloseMove
<1>26. ASSUME CloseCancel PROVE TypeOK'
  BY <1>26 DEF CloseCancel, CloseMove
<1>27. ASSUME UNCHANGED vars PROVE TypeOK'
  BY <1>27 DEF vars
<1> QED
  BY <1>1, <1>2, <1>3, <1>4, <1>5, <1>6, <1>7, <1>8, <1>9, <1>10, <1>11, <1>12, <1>13,
     <1>14, <1>15, <1>16, <1>17, <1>18, <1>19, <1>20, <1>21, <1>22, <1>23, <1>24, <1>25,
     <1>26, <1>27
  DEF Next, Framework, Environment, Close, Terminated

(* Every step keeps what the program counters promise.                       *)
LEMMA StageStep == ASSUME TypeOK, StageInv, TypeOK', [Next]_vars PROVE StageInv'
<1> USE ConversationAssumption DEF TypeOK, StageInv, BeforeLock, Entry, Chan, Pcs, Id
<1>1. ASSUME NEW m \in Msgs, HandleNextMessage(m) PROVE StageInv'
  BY <1>1, IdType DEF HandleNextMessage, CanAsk, IsClosed
<1>2. ASSUME NEW m \in Msgs, SetMessageID(m) PROVE StageInv'
  <2>1. Id(m) \in Ids
    BY <1>2, IdType DEF SetMessageID
  <2>2. CASE locks[Id(m)] = None
    BY <1>2, <2>1, <2>2 DEF SetMessageID, AcquireMessageIDLock
  <2>3. CASE locks[Id(m)] # None
    BY <1>2, <2>1, <2>3 DEF SetMessageID, AcquireMessageIDLock
  <2> QED
    BY <2>2, <2>3
<1>3. ASSUME NEW m \in Msgs, RetryMessageID(m) PROVE StageInv'
  <2>1. Id(m) \in Ids
    BY <1>3, IdType DEF RetryMessageID
  <2>2. CASE locks[Id(m)] = None
    BY <1>3, <2>1, <2>2 DEF RetryMessageID, AcquireMessageIDLock
  <2>3. CASE locks[Id(m)] # None
    BY <1>3, <2>1, <2>3 DEF RetryMessageID, AcquireMessageIDLock
  <2> QED
    BY <2>2, <2>3
<1>4. ASSUME NEW m \in Msgs, GiveUpMessageID(m) PROVE StageInv'
  BY <1>4, IdType DEF GiveUpMessageID, Done
<1>5. ASSUME NEW m \in Msgs, NextCheck(m) PROVE StageInv'
  BY <1>5, IdType DEF NextCheck, CanAsk, IsClosed, Back
<1>6. ASSUME NEW m \in Msgs, FindReceiver(m) PROVE StageInv'
  BY <1>6, IdType DEF FindReceiver, Arrives, Ahead, ReceiverAt, NoChan
<1>7. ASSUME NEW m \in Msgs, RunHandler(m) PROVE StageInv'
  BY <1>7, IdType DEF RunHandler, Arrives, Ahead, Matches
<1>8. ASSUME NEW m \in Msgs, BeyondEnd(m) PROVE StageInv'
  BY <1>8, IdType DEF BeyondEnd, Ahead, Matches, Back, NoChan, RemoveReceiver
<1>9. ASSUME NEW m \in Msgs, TakeReceiver(m) PROVE StageInv'
  BY <1>9, IdType DEF TakeReceiver, RemoveReceiver
<1>10. ASSUME NEW m \in Msgs, Deliver(m) PROVE StageInv'
  BY <1>10, IdType DEF Deliver, Buffered
<1>11. ASSUME NEW m \in Msgs, DeliverPanics(m) PROVE StageInv'
  BY <1>11, IdType DEF DeliverPanics, PopHandler
<1>12. ASSUME NEW m \in Msgs, DeliverAbandoned(m) PROVE StageInv'
  BY <1>12, IdType DEF DeliverAbandoned, Done
<1>13. ASSUME NEW m \in Msgs, CallNext(m) PROVE StageInv'
  BY <1>13, IdType DEF CallNext
<1>14. ASSUME NEW m \in Msgs, HandlerReturn(m) PROVE StageInv'
  BY <1>14, IdType DEF HandlerReturn, PopHandler
<1>15. ASSUME NEW m \in Msgs, BeginReceive(m) PROVE StageInv'
  BY <1>15, IdType DEF BeginReceive
<1>16. ASSUME NEW m \in Msgs, Register(m) PROVE StageInv'
  BY <1>16, IdType DEF Register, AddReceiver
<1>17. ASSUME NEW m \in Msgs, ReleaseAndWait(m) PROVE StageInv'
  BY <1>17, IdType DEF ReleaseAndWait, ReleaseMessageIDLock
<1>18. ASSUME NEW m \in Msgs, TakeMessage(m) PROVE StageInv'
  BY <1>18, IdType DEF TakeMessage, Buffered, Ch
<1>19. ASSUME NEW m \in Msgs, TakeNil(m) PROVE StageInv'
  BY <1>19, IdType DEF TakeNil, Buffered, Ch
<1>20. ASSUME NEW m \in Msgs, ReceiveCancelled(m) PROVE StageInv'
  BY <1>20, IdType DEF ReceiveCancelled, Done
<1>21. ASSUME NEW m \in Msgs, Finish(m) PROVE StageInv'
  BY <1>21, IdType DEF Finish, ReleaseMessageIDLock
<1>22. ASSUME NEW m \in Msgs, Finalize(m) PROVE StageInv'
  BY <1>22, IdType DEF Finalize, RemoveReceiver, NoChan, Buffered, Ch
<1>23. ASSUME CloseMark PROVE StageInv'
  BY <1>23 DEF CloseMark, CloseMove
<1>24. ASSUME CloseReceivers PROVE StageInv'
  BY <1>24 DEF CloseReceivers, CloseMove
<1>25. ASSUME CloseLocks PROVE StageInv'
  BY <1>25 DEF CloseLocks, CloseMove
<1>26. ASSUME CloseCancel PROVE StageInv'
  BY <1>26 DEF CloseCancel, CloseMove
<1>27. ASSUME UNCHANGED vars PROVE StageInv'
  BY <1>27 DEF vars
<1> QED
  BY <1>1, <1>2, <1>3, <1>4, <1>5, <1>6, <1>7, <1>8, <1>9, <1>10, <1>11, <1>12, <1>13,
     <1>14, <1>15, <1>16, <1>17, <1>18, <1>19, <1>20, <1>21, <1>22, <1>23, <1>24, <1>25,
     <1>26, <1>27
  DEF Next, Framework, Environment, Close, Terminated

(* Every step keeps the lock table free of closed channels: SetMessageID puts*)
(* in a channel of its own, a release takes out the one it closes.           *)
LEMMA LockStep == ASSUME TypeOK, StageInv, LockInv, TypeOK', [Next]_vars PROVE LockInv'
<1> USE ConversationAssumption DEF TypeOK, StageInv, LockInv, BeforeLock, Pcs, Id
<1>1. ASSUME NEW m \in Msgs, HandleNextMessage(m) PROVE LockInv'
  BY <1>1, IdType DEF HandleNextMessage, CanAsk, IsClosed
<1>2. ASSUME NEW m \in Msgs, SetMessageID(m) PROVE LockInv'
  <2>1. Id(m) \in Ids
    BY <1>2, IdType DEF SetMessageID
  <2>2. CASE locks[Id(m)] = None
    BY <1>2, <2>1, <2>2 DEF SetMessageID, AcquireMessageIDLock
  <2>3. CASE locks[Id(m)] # None
    BY <1>2, <2>1, <2>3 DEF SetMessageID, AcquireMessageIDLock
  <2> QED
    BY <2>2, <2>3
<1>3. ASSUME NEW m \in Msgs, RetryMessageID(m) PROVE LockInv'
  <2>1. Id(m) \in Ids
    BY <1>3, IdType DEF RetryMessageID
  <2>2. CASE locks[Id(m)] = None
    BY <1>3, <2>1, <2>2 DEF RetryMessageID, AcquireMessageIDLock
  <2>3. CASE locks[Id(m)] # None
    BY <1>3, <2>1, <2>3 DEF RetryMessageID, AcquireMessageIDLock
  <2> QED
    BY <2>2, <2>3
<1>4. ASSUME NEW m \in Msgs, GiveUpMessageID(m) PROVE LockInv'
  BY <1>4, IdType DEF GiveUpMessageID, Done
<1>5. ASSUME NEW m \in Msgs, NextCheck(m) PROVE LockInv'
  BY <1>5, IdType DEF NextCheck, CanAsk, IsClosed, Back
<1>6. ASSUME NEW m \in Msgs, FindReceiver(m) PROVE LockInv'
  BY <1>6, IdType DEF FindReceiver, Arrives, Ahead, ReceiverAt, NoChan
<1>7. ASSUME NEW m \in Msgs, RunHandler(m) PROVE LockInv'
  BY <1>7, IdType DEF RunHandler, Arrives, Ahead, Matches
<1>8. ASSUME NEW m \in Msgs, BeyondEnd(m) PROVE LockInv'
  BY <1>8, IdType DEF BeyondEnd, Ahead, Matches, Back, NoChan, RemoveReceiver
<1>9. ASSUME NEW m \in Msgs, TakeReceiver(m) PROVE LockInv'
  BY <1>9, IdType DEF TakeReceiver, RemoveReceiver
<1>10. ASSUME NEW m \in Msgs, Deliver(m) PROVE LockInv'
  BY <1>10, IdType DEF Deliver, Buffered
<1>11. ASSUME NEW m \in Msgs, DeliverPanics(m) PROVE LockInv'
  BY <1>11, IdType DEF DeliverPanics, PopHandler
<1>12. ASSUME NEW m \in Msgs, DeliverAbandoned(m) PROVE LockInv'
  BY <1>12, IdType DEF DeliverAbandoned, Done
<1>13. ASSUME NEW m \in Msgs, CallNext(m) PROVE LockInv'
  BY <1>13, IdType DEF CallNext
<1>14. ASSUME NEW m \in Msgs, HandlerReturn(m) PROVE LockInv'
  BY <1>14, IdType DEF HandlerReturn, PopHandler
<1>15. ASSUME NEW m \in Msgs, BeginReceive(m) PROVE LockInv'
  BY <1>15, IdType DEF BeginReceive
<1>16. ASSUME NEW m \in Msgs, Register(m) PROVE LockInv'
  BY <1>16, IdType DEF Register, AddReceiver
<1>17. ASSUME NEW m \in Msgs, ReleaseAndWait(m) PROVE LockInv'
  BY <1>17, IdType DEF ReleaseAndWait, ReleaseMessageIDLock
<1>18. ASSUME NEW m \in Msgs, TakeMessage(m) PROVE LockInv'
  BY <1>18, IdType DEF TakeMessage, Buffered, Ch
<1>19. ASSUME NEW m \in Msgs, TakeNil(m) PROVE LockInv'
  BY <1>19, IdType DEF TakeNil, Buffered, Ch
<1>20. ASSUME NEW m \in Msgs, ReceiveCancelled(m) PROVE LockInv'
  BY <1>20, IdType DEF ReceiveCancelled, Done
<1>21. ASSUME NEW m \in Msgs, Finish(m) PROVE LockInv'
  BY <1>21, IdType DEF Finish, ReleaseMessageIDLock
<1>22. ASSUME NEW m \in Msgs, Finalize(m) PROVE LockInv'
  BY <1>22, IdType DEF Finalize, RemoveReceiver, NoChan, Buffered, Ch
<1>23. ASSUME CloseMark PROVE LockInv'
  BY <1>23 DEF CloseMark, CloseMove
<1>24. ASSUME CloseReceivers PROVE LockInv'
  BY <1>24 DEF CloseReceivers, CloseMove
<1>25. ASSUME CloseLocks PROVE LockInv'
  BY <1>25 DEF CloseLocks, CloseMove
<1>26. ASSUME CloseCancel PROVE LockInv'
  BY <1>26 DEF CloseCancel, CloseMove
<1>27. ASSUME UNCHANGED vars PROVE LockInv'
  BY <1>27 DEF vars
<1> QED
  BY <1>1, <1>2, <1>3, <1>4, <1>5, <1>6, <1>7, <1>8, <1>9, <1>10, <1>11, <1>12, <1>13,
     <1>14, <1>15, <1>16, <1>17, <1>18, <1>19, <1>20, <1>21, <1>22, <1>23, <1>24, <1>25,
     <1>26, <1>27
  DEF Next, Framework, Environment, Close, Terminated

(* Every step keeps each sleeper of SetMessageID on a channel that is closed *)
(* or in the table: acquiring happens only when the table has none.          *)
LEMMA WakeupStep ==
    ASSUME TypeOK, StageInv, LockInv, NoLostWakeup, TypeOK', [Next]_vars
    PROVE  NoLostWakeup'
<1> USE ConversationAssumption
    DEF TypeOK, StageInv, NoLostWakeup, LockInv, BeforeLock, Pcs, Open, Id, Chan, Entry
<1>1. ASSUME NEW m \in Msgs, HandleNextMessage(m) PROVE NoLostWakeup'
  BY <1>1, IdType DEF HandleNextMessage, CanAsk, IsClosed
<1>2. ASSUME NEW m \in Msgs, SetMessageID(m) PROVE NoLostWakeup'
  <2>1. Id(m) \in Ids
    BY <1>2, IdType DEF SetMessageID
  <2>2. CASE locks[Id(m)] = None
    <3> SUFFICES ASSUME NEW k \in Msgs, pc'[k] = "waiting", Open'
                 PROVE  waitOn'[k] \in lockClosed' \/ waitOn'[k] = locks'[Id(k)]
      BY <1>2 DEF SetMessageID
    <3>1. k # m /\ pc[k] = "waiting" /\ waitOn'[k] = waitOn[k] /\ waitOn[k] \in Msgs
      BY <1>2, <2>2 DEF SetMessageID, AcquireMessageIDLock
    <3>2. waitOn[k] \in lockClosed \/ waitOn[k] = locks[Id(k)]
      BY <1>2, <3>1 DEF SetMessageID
    <3>3. waitOn[k] = locks[Id(k)] => Id(k) # Id(m)
      BY <2>2, <3>1
    <3>4. Id(k) \in Ids
      BY <3>1, IdType
    <3> QED
      BY <1>2, <2>1, <2>2, <3>1, <3>2, <3>3, <3>4 DEF SetMessageID, AcquireMessageIDLock
  <2>3. CASE locks[Id(m)] # None
    BY <1>2, <2>1, <2>3 DEF SetMessageID, AcquireMessageIDLock
  <2> QED
    BY <2>2, <2>3
<1>3. ASSUME NEW m \in Msgs, RetryMessageID(m) PROVE NoLostWakeup'
  <2>1. Id(m) \in Ids
    BY <1>3, IdType DEF RetryMessageID
  <2>2. CASE locks[Id(m)] = None
    <3> SUFFICES ASSUME NEW k \in Msgs, pc'[k] = "waiting", Open'
                 PROVE  waitOn'[k] \in lockClosed' \/ waitOn'[k] = locks'[Id(k)]
      BY <1>3 DEF RetryMessageID
    <3>1. k # m /\ pc[k] = "waiting" /\ waitOn'[k] = waitOn[k] /\ waitOn[k] \in Msgs
      BY <1>3, <2>2 DEF RetryMessageID, AcquireMessageIDLock
    <3>2. waitOn[k] \in lockClosed \/ waitOn[k] = locks[Id(k)]
      BY <1>3, <3>1 DEF RetryMessageID
    <3>3. waitOn[k] = locks[Id(k)] => Id(k) # Id(m)
      BY <2>2, <3>1
    <3>4. Id(k) \in Ids
      BY <3>1, IdType
    <3> QED
      BY <1>3, <2>1, <2>2, <3>1, <3>2, <3>3, <3>4 DEF RetryMessageID, AcquireMessageIDLock
  <2>3. CASE locks[Id(m)] # None
    BY <1>3, <2>1, <2>3 DEF RetryMessageID, AcquireMessageIDLock
  <2> QED
    BY <2>2, <2>3
<1>4. ASSUME NEW m \in Msgs, GiveUpMessageID(m) PROVE NoLostWakeup'
  BY <1>4, IdType DEF GiveUpMessageID, Done
<1>5. ASSUME NEW m \in Msgs, NextCheck(m) PROVE NoLostWakeup'
  BY <1>5, IdType DEF NextCheck, CanAsk, IsClosed, Back
<1>6. ASSUME NEW m \in Msgs, FindReceiver(m) PROVE NoLostWakeup'
  BY <1>6, IdType DEF FindReceiver, Arrives, Ahead, ReceiverAt, NoChan
<1>7. ASSUME NEW m \in Msgs, RunHandler(m) PROVE NoLostWakeup'
  BY <1>7, IdType DEF RunHandler, Arrives, Ahead, Matches
<1>8. ASSUME NEW m \in Msgs, BeyondEnd(m) PROVE NoLostWakeup'
  BY <1>8, IdType DEF BeyondEnd, Ahead, Matches, Back, NoChan, RemoveReceiver
<1>9. ASSUME NEW m \in Msgs, TakeReceiver(m) PROVE NoLostWakeup'
  BY <1>9, IdType DEF TakeReceiver, RemoveReceiver
<1>10. ASSUME NEW m \in Msgs, Deliver(m) PROVE NoLostWakeup'
  BY <1>10, IdType DEF Deliver, Buffered
<1>11. ASSUME NEW m \in Msgs, DeliverPanics(m) PROVE NoLostWakeup'
  BY <1>11, IdType DEF DeliverPanics, PopHandler
<1>12. ASSUME NEW m \in Msgs, DeliverAbandoned(m) PROVE NoLostWakeup'
  BY <1>12, IdType DEF DeliverAbandoned, Done
<1>13. ASSUME NEW m \in Msgs, CallNext(m) PROVE NoLostWakeup'
  BY <1>13, IdType DEF CallNext
<1>14. ASSUME NEW m \in Msgs, HandlerReturn(m) PROVE NoLostWakeup'
  BY <1>14, IdType DEF HandlerReturn, PopHandler
<1>15. ASSUME NEW m \in Msgs, BeginReceive(m) PROVE NoLostWakeup'
  BY <1>15, IdType DEF BeginReceive
<1>16. ASSUME NEW m \in Msgs, Register(m) PROVE NoLostWakeup'
  BY <1>16, IdType DEF Register, AddReceiver
<1>17. ASSUME NEW m \in Msgs, ReleaseAndWait(m) PROVE NoLostWakeup'
  BY <1>17, IdType DEF ReleaseAndWait, ReleaseMessageIDLock
<1>18. ASSUME NEW m \in Msgs, TakeMessage(m) PROVE NoLostWakeup'
  BY <1>18, IdType DEF TakeMessage, Buffered, Ch
<1>19. ASSUME NEW m \in Msgs, TakeNil(m) PROVE NoLostWakeup'
  BY <1>19, IdType DEF TakeNil, Buffered, Ch
<1>20. ASSUME NEW m \in Msgs, ReceiveCancelled(m) PROVE NoLostWakeup'
  BY <1>20, IdType DEF ReceiveCancelled, Done
<1>21. ASSUME NEW m \in Msgs, Finish(m) PROVE NoLostWakeup'
  BY <1>21, IdType DEF Finish, ReleaseMessageIDLock
<1>22. ASSUME NEW m \in Msgs, Finalize(m) PROVE NoLostWakeup'
  BY <1>22, IdType DEF Finalize, RemoveReceiver, NoChan, Buffered, Ch
<1>23. ASSUME CloseMark PROVE NoLostWakeup'
  BY <1>23 DEF CloseMark, CloseMove
<1>24. ASSUME CloseReceivers PROVE NoLostWakeup'
  BY <1>24 DEF CloseReceivers, CloseMove
<1>25. ASSUME CloseLocks PROVE NoLostWakeup'
  BY <1>25 DEF CloseLocks, CloseMove
<1>26. ASSUME CloseCancel PROVE NoLostWakeup'
  BY <1>26 DEF CloseCancel, CloseMove
<1>27. ASSUME UNCHANGED vars PROVE NoLostWakeup'
  BY <1>27 DEF vars
<1> QED
  BY <1>1, <1>2, <1>3, <1>4, <1>5, <1>6, <1>7, <1>8, <1>9, <1>10, <1>11, <1>12, <1>13,
     <1>14, <1>15, <1>16, <1>17, <1>18, <1>19, <1>20, <1>21, <1>22, <1>23, <1>24, <1>25,
     <1>26, <1>27
  DEF Next, Framework, Environment, Close, Terminated

(* Every step keeps registered receivers in the hands of live goroutines:    *)
(* the maker of a channel ends only through finalize, which unregisters.     *)
LEMMA ReceiverStep ==
    ASSUME TypeOK, StageInv, ReceiverInv, TypeOK', [Next]_vars
    PROVE  ReceiverInv'
<1> USE ConversationAssumption
    DEF TypeOK, StageInv, ReceiverInv, BeforeLock, Pcs, Entry, Chan, Ch, NoChan, Id
<1>1. ASSUME NEW m \in Msgs, HandleNextMessage(m) PROVE ReceiverInv'
  BY <1>1, IdType DEF HandleNextMessage, CanAsk, IsClosed
<1>2. ASSUME NEW m \in Msgs, SetMessageID(m) PROVE ReceiverInv'
  <2>1. Id(m) \in Ids
    BY <1>2, IdType DEF SetMessageID
  <2>2. CASE locks[Id(m)] = None
    BY <1>2, <2>1, <2>2 DEF SetMessageID, AcquireMessageIDLock
  <2>3. CASE locks[Id(m)] # None
    BY <1>2, <2>1, <2>3 DEF SetMessageID, AcquireMessageIDLock
  <2> QED
    BY <2>2, <2>3
<1>3. ASSUME NEW m \in Msgs, RetryMessageID(m) PROVE ReceiverInv'
  <2>1. Id(m) \in Ids
    BY <1>3, IdType DEF RetryMessageID
  <2>2. CASE locks[Id(m)] = None
    BY <1>3, <2>1, <2>2 DEF RetryMessageID, AcquireMessageIDLock
  <2>3. CASE locks[Id(m)] # None
    BY <1>3, <2>1, <2>3 DEF RetryMessageID, AcquireMessageIDLock
  <2> QED
    BY <2>2, <2>3
<1>4. ASSUME NEW m \in Msgs, GiveUpMessageID(m) PROVE ReceiverInv'
  BY <1>4, IdType DEF GiveUpMessageID, Done
<1>5. ASSUME NEW m \in Msgs, NextCheck(m) PROVE ReceiverInv'
  BY <1>5, IdType DEF NextCheck, CanAsk, IsClosed, Back
<1>6. ASSUME NEW m \in Msgs, FindReceiver(m) PROVE ReceiverInv'
  BY <1>6, IdType DEF FindReceiver, Arrives, Ahead, ReceiverAt, NoChan
<1>7. ASSUME NEW m \in Msgs, RunHandler(m) PROVE ReceiverInv'
  BY <1>7, IdType DEF RunHandler, Arrives, Ahead, Matches
<1>8. ASSUME NEW m \in Msgs, BeyondEnd(m) PROVE ReceiverInv'
  BY <1>8, IdType DEF BeyondEnd, Ahead, Matches, Back, NoChan, RemoveReceiver
<1>9. ASSUME NEW m \in Msgs, TakeReceiver(m) PROVE ReceiverInv'
  BY <1>9, IdType DEF TakeReceiver, RemoveReceiver
<1>10. ASSUME NEW m \in Msgs, Deliver(m) PROVE ReceiverInv'
  BY <1>10, IdType DEF Deliver, Buffered
<1>11. ASSUME NEW m \in Msgs, DeliverPanics(m) PROVE ReceiverInv'
  BY <1>11, IdType DEF DeliverPanics, PopHandler
<1>12. ASSUME NEW m \in Msgs, DeliverAbandoned(m) PROVE ReceiverInv'
  BY <1>12, IdType DEF DeliverAbandoned, Done
<1>13. ASSUME NEW m \in Msgs, CallNext(m) PROVE ReceiverInv'
  BY <1>13, IdType DEF CallNext
<1>14. ASSUME NEW m \in Msgs, HandlerReturn(m) PROVE ReceiverInv'
  BY <1>14, IdType DEF HandlerReturn, PopHandler
<1>15. ASSUME NEW m \in Msgs, BeginReceive(m) PROVE ReceiverInv'
  BY <1>15, IdType DEF BeginReceive
<1>16. ASSUME NEW m \in Msgs, Register(m) PROVE ReceiverInv'
  BY <1>16, IdType DEF Register, AddReceiver
<1>17. ASSUME NEW m \in Msgs, ReleaseAndWait(m) PROVE ReceiverInv'
  BY <1>17, IdType DEF ReleaseAndWait, ReleaseMessageIDLock
<1>18. ASSUME NEW m \in Msgs, TakeMessage(m) PROVE ReceiverInv'
  BY <1>18, IdType DEF TakeMessage, Buffered, Ch
<1>19. ASSUME NEW m \in Msgs, TakeNil(m) PROVE ReceiverInv'
  BY <1>19, IdType DEF TakeNil, Buffered, Ch
<1>20. ASSUME NEW m \in Msgs, ReceiveCancelled(m) PROVE ReceiverInv'
  BY <1>20, IdType DEF ReceiveCancelled, Done
<1>21. ASSUME NEW m \in Msgs, Finish(m) PROVE ReceiverInv'
  BY <1>21, IdType DEF Finish, ReleaseMessageIDLock
<1>22. ASSUME NEW m \in Msgs, Finalize(m) PROVE ReceiverInv'
  BY <1>22, IdType DEF Finalize, RemoveReceiver, NoChan, Buffered, Ch
<1>23. ASSUME CloseMark PROVE ReceiverInv'
  BY <1>23 DEF CloseMark, CloseMove
<1>24. ASSUME CloseReceivers PROVE ReceiverInv'
  BY <1>24 DEF CloseReceivers, CloseMove
<1>25. ASSUME CloseLocks PROVE ReceiverInv'
  BY <1>25 DEF CloseLocks, CloseMove
<1>26. ASSUME CloseCancel PROVE ReceiverInv'
  BY <1>26 DEF CloseCancel, CloseMove
<1>27. ASSUME UNCHANGED vars PROVE ReceiverInv'
  BY <1>27 DEF vars
<1> QED
  BY <1>1, <1>2, <1>3, <1>4, <1>5, <1>6, <1>7, <1>8, <1>9, <1>10, <1>11, <1>12, <1>13,
     <1>14, <1>15, <1>16, <1>17, <1>18, <1>19, <1>20, <1>21, <1>22, <1>23, <1>24, <1>25,
     <1>26, <1>27
  DEF Next, Framework, Environment, Close, Terminated

(* On an open socket without timeouts every step keeps at most one message   *)
(* per ID running: the lock lets one in, a delivery runs one and ends one.   *)
LEMMA SerialStep ==
    ASSUME chClosed = {}, TypeOK, StageInv, LockInv, ReceiverInv, ~Timeouts, Open,
           Open', Serial, LockedWhileRunning, TargetWaits, [Next]_vars
    PROVE  Serial'
<1> USE ConversationAssumption
    DEF TypeOK, StageInv, BeforeLock, Pcs, Id, Open, Done, Running, Buffered, Ch, NoChan,
        Serial, LockedWhileRunning, TargetWaits
<1>1. ASSUME NEW m \in Msgs, HandleNextMessage(m) PROVE Serial'
  BY <1>1, IdType DEF HandleNextMessage, CanAsk, IsClosed
<1>2. ASSUME NEW m \in Msgs, SetMessageID(m) PROVE Serial'
  <2>1. Id(m) \in Ids
    BY <1>2, IdType DEF SetMessageID
  <2>2. CASE locks[Id(m)] = None
    BY <1>2, <2>1, <2>2 DEF SetMessageID, AcquireMessageIDLock
  <2>3. CASE locks[Id(m)] # None
    BY <1>2, <2>1, <2>3 DEF SetMessageID, AcquireMessageIDLock
  <2> QED
    BY <2>2, <2>3
<1>3. ASSUME NEW m \in Msgs, RetryMessageID(m) PROVE Serial'
  <2>1. Id(m) \in Ids
    BY <1>3, IdType DEF RetryMessageID
  <2>2. CASE locks[Id(m)] = None
    BY <1>3, <2>1, <2>2 DEF RetryMessageID, AcquireMessageIDLock
  <2>3. CASE locks[Id(m)] # None
    BY <1>3, <2>1, <2>3 DEF RetryMessageID, AcquireMessageIDLock
  <2> QED
    BY <2>2, <2>3
<1>4. ASSUME NEW m \in Msgs, GiveUpMessageID(m) PROVE Serial'
  BY <1>4, IdType DEF GiveUpMessageID, Done
<1>5. ASSUME NEW m \in Msgs, NextCheck(m) PROVE Serial'
  BY <1>5, IdType DEF NextCheck, CanAsk, IsClosed, Back
<1>6. ASSUME NEW m \in Msgs, FindReceiver(m) PROVE Serial'
  BY <1>6, IdType DEF FindReceiver, Arrives, Ahead, ReceiverAt, NoChan
<1>7. ASSUME NEW m \in Msgs, RunHandler(m) PROVE Serial'
  BY <1>7, IdType DEF RunHandler, Arrives, Ahead, Matches
<1>8. ASSUME NEW m \in Msgs, BeyondEnd(m) PROVE Serial'
  BY <1>8, IdType DEF BeyondEnd, Ahead, Matches, Back, NoChan, RemoveReceiver
<1>9. ASSUME NEW m \in Msgs, TakeReceiver(m) PROVE Serial'
  BY <1>9, IdType DEF TakeReceiver, RemoveReceiver
<1>10. ASSUME NEW m \in Msgs, Deliver(m) PROVE Serial'
  BY <1>10, IdType DEF Deliver, Buffered
<1>11. ASSUME NEW m \in Msgs, DeliverPanics(m) PROVE Serial'
  BY <1>11, IdType DEF DeliverPanics, PopHandler
<1>12. ASSUME NEW m \in Msgs, DeliverAbandoned(m) PROVE Serial'
  BY <1>12, IdType DEF DeliverAbandoned, Done
<1>13. ASSUME NEW m \in Msgs, CallNext(m) PROVE Serial'
  BY <1>13, IdType DEF CallNext
<1>14. ASSUME NEW m \in Msgs, HandlerReturn(m) PROVE Serial'
  BY <1>14, IdType DEF HandlerReturn, PopHandler
<1>15. ASSUME NEW m \in Msgs, BeginReceive(m) PROVE Serial'
  BY <1>15, IdType DEF BeginReceive
<1>16. ASSUME NEW m \in Msgs, Register(m) PROVE Serial'
  BY <1>16, IdType DEF Register, AddReceiver
<1>17. ASSUME NEW m \in Msgs, ReleaseAndWait(m) PROVE Serial'
  BY <1>17, IdType DEF ReleaseAndWait, ReleaseMessageIDLock
<1>18. ASSUME NEW m \in Msgs, TakeMessage(m) PROVE Serial'
  BY <1>18, IdType DEF TakeMessage, Buffered, Ch
<1>19. ASSUME NEW m \in Msgs, TakeNil(m) PROVE Serial'
  BY <1>19, IdType DEF TakeNil, Buffered, Ch
<1>20. ASSUME NEW m \in Msgs, ReceiveCancelled(m) PROVE Serial'
  BY <1>20, IdType DEF ReceiveCancelled, Done
<1>21. ASSUME NEW m \in Msgs, Finish(m) PROVE Serial'
  BY <1>21, IdType DEF Finish, ReleaseMessageIDLock
<1>22. ASSUME NEW m \in Msgs, Finalize(m) PROVE Serial'
  BY <1>22, IdType DEF Finalize, RemoveReceiver, NoChan, Buffered, Ch
<1>23. ASSUME CloseMark PROVE Serial'
  BY <1>23 DEF CloseMark, CloseMove
<1>24. ASSUME CloseReceivers PROVE Serial'
  BY <1>24 DEF CloseReceivers, CloseMove
<1>25. ASSUME CloseLocks PROVE Serial'
  BY <1>25 DEF CloseLocks, CloseMove
<1>26. ASSUME CloseCancel PROVE Serial'
  BY <1>26 DEF CloseCancel, CloseMove
<1>27. ASSUME UNCHANGED vars PROVE Serial'
  BY <1>27 DEF vars
<1> QED
  BY <1>1, <1>2, <1>3, <1>4, <1>5, <1>6, <1>7, <1>8, <1>9, <1>10, <1>11, <1>12, <1>13,
     <1>14, <1>15, <1>16, <1>17, <1>18, <1>19, <1>20, <1>21, <1>22, <1>23, <1>24, <1>25,
     <1>26, <1>27
  DEF Next, Framework, Environment, Close, Terminated

(* A message that runs has its ID locked, whoever made the lock.             *)
LEMMA LockedStep ==
    ASSUME chClosed = {}, TypeOK, StageInv, LockInv, ReceiverInv, ~Timeouts, Open,
           Open', LockedWhileRunning, Serial, TargetWaits, BufferAwaited, [Next]_vars
    PROVE  LockedWhileRunning'
<1> USE ConversationAssumption
    DEF TypeOK, StageInv, BeforeLock, Pcs, Id, Open, Done, Running, Buffered, Ch, NoChan,
        LockedWhileRunning, Serial, TargetWaits, BufferAwaited
<1>1. ASSUME NEW m \in Msgs, HandleNextMessage(m) PROVE LockedWhileRunning'
  BY <1>1, IdType DEF HandleNextMessage, CanAsk, IsClosed
<1>2. ASSUME NEW m \in Msgs, SetMessageID(m) PROVE LockedWhileRunning'
  <2>1. Id(m) \in Ids
    BY <1>2, IdType DEF SetMessageID
  <2>2. CASE locks[Id(m)] = None
    <3> SUFFICES ASSUME NEW a \in Msgs, Running(a)', a # m PROVE locks'[Id(a)] # None
      BY <1>2, <2>1, <2>2 DEF SetMessageID, AcquireMessageIDLock
    <3>1. Running(a)
      BY <1>2, <2>2 DEF SetMessageID, AcquireMessageIDLock
    <3>2. Id(a) \in Ids /\ Id(a) # Id(m)
      BY <2>2, <3>1, IdType
    <3> QED
      BY <1>2, <2>2, <3>1, <3>2 DEF SetMessageID, AcquireMessageIDLock
  <2>3. CASE locks[Id(m)] # None
    BY <1>2, <2>1, <2>3 DEF SetMessageID, AcquireMessageIDLock
  <2> QED
    BY <2>2, <2>3
<1>3. ASSUME NEW m \in Msgs, RetryMessageID(m) PROVE LockedWhileRunning'
  <2>1. Id(m) \in Ids
    BY <1>3, IdType DEF RetryMessageID
  <2>2. CASE locks[Id(m)] = None
    <3> SUFFICES ASSUME NEW a \in Msgs, Running(a)', a # m PROVE locks'[Id(a)] # None
      BY <1>3, <2>1, <2>2 DEF RetryMessageID, AcquireMessageIDLock
    <3>1. Running(a)
      BY <1>3, <2>2 DEF RetryMessageID, AcquireMessageIDLock
    <3>2. Id(a) \in Ids /\ Id(a) # Id(m)
      BY <2>2, <3>1, IdType
    <3> QED
      BY <1>3, <2>2, <3>1, <3>2 DEF RetryMessageID, AcquireMessageIDLock
  <2>3. CASE locks[Id(m)] # None
    BY <1>3, <2>1, <2>3 DEF RetryMessageID, AcquireMessageIDLock
  <2> QED
    BY <2>2, <2>3
<1>4. ASSUME NEW m \in Msgs, GiveUpMessageID(m) PROVE LockedWhileRunning'
  BY <1>4, IdType DEF GiveUpMessageID, Done
<1>5. ASSUME NEW m \in Msgs, NextCheck(m) PROVE LockedWhileRunning'
  BY <1>5, IdType DEF NextCheck, CanAsk, IsClosed, Back
<1>6. ASSUME NEW m \in Msgs, FindReceiver(m) PROVE LockedWhileRunning'
  BY <1>6, IdType DEF FindReceiver, Arrives, Ahead, ReceiverAt, NoChan
<1>7. ASSUME NEW m \in Msgs, RunHandler(m) PROVE LockedWhileRunning'
  BY <1>7, IdType DEF RunHandler, Arrives, Ahead, Matches
<1>8. ASSUME NEW m \in Msgs, BeyondEnd(m) PROVE LockedWhileRunning'
  BY <1>8, IdType DEF BeyondEnd, Ahead, Matches, Back, NoChan, RemoveReceiver
<1>9. ASSUME NEW m \in Msgs, TakeReceiver(m) PROVE LockedWhileRunning'
  BY <1>9, IdType DEF TakeReceiver, RemoveReceiver
<1>10. ASSUME NEW m \in Msgs, Deliver(m) PROVE LockedWhileRunning'
  BY <1>10, IdType DEF Deliver, Buffered
<1>11. ASSUME NEW m \in Msgs, DeliverPanics(m) PROVE LockedWhileRunning'
  BY <1>11, IdType DEF DeliverPanics, PopHandler
<1>12. ASSUME NEW m \in Msgs, DeliverAbandoned(m) PROVE LockedWhileRunning'
  BY <1>12, IdType DEF DeliverAbandoned, Done
<1>13. ASSUME NEW m \in Msgs, CallNext(m) PROVE LockedWhileRunning'
  BY <1>13, IdType DEF CallNext
<1>14. ASSUME NEW m \in Msgs, HandlerReturn(m) PROVE LockedWhileRunning'
  BY <1>14, IdType DEF HandlerReturn, PopHandler
<1>15. ASSUME NEW m \in Msgs, BeginReceive(m) PROVE LockedWhileRunning'
  BY <1>15, IdType DEF BeginReceive
<1>16. ASSUME NEW m \in Msgs, Register(m) PROVE LockedWhileRunning'
  BY <1>16, IdType DEF Register, AddReceiver
<1>17. ASSUME NEW m \in Msgs, ReleaseAndWait(m) PROVE LockedWhileRunning'
  BY <1>17, IdType DEF ReleaseAndWait, ReleaseMessageIDLock
<1>18. ASSUME NEW m \in Msgs, TakeMessage(m) PROVE LockedWhileRunning'
  BY <1>18, IdType DEF TakeMessage, Buffered, Ch
<1>19. ASSUME NEW m \in Msgs, TakeNil(m) PROVE LockedWhileRunning'
  BY <1>19, IdType DEF TakeNil, Buffered, Ch
<1>20. ASSUME NEW m \in Msgs, ReceiveCancelled(m) PROVE LockedWhileRunning'
  BY <1>20, IdType DEF ReceiveCancelled, Done
<1>21. ASSUME NEW m \in Msgs, Finish(m) PROVE LockedWhileRunning'
  BY <1>21, IdType DEF Finish, ReleaseMessageIDLock
<1>22. ASSUME NEW m \in Msgs, Finalize(m) PROVE LockedWhileRunning'
  BY <1>22, IdType DEF Finalize, RemoveReceiver, NoChan, Buffered, Ch
<1>23. ASSUME CloseMark PROVE LockedWhileRunning'
  BY <1>23 DEF CloseMark, CloseMove
<1>24. ASSUME CloseReceivers PROVE LockedWhileRunning'
  BY <1>24 DEF CloseReceivers, CloseMove
<1>25. ASSUME CloseLocks PROVE LockedWhileRunning'
  BY <1>25 DEF CloseLocks, CloseMove
<1>26. ASSUME CloseCancel PROVE LockedWhileRunning'
  BY <1>26 DEF CloseCancel, CloseMove
<1>27. ASSUME UNCHANGED vars PROVE LockedWhileRunning'
  BY <1>27 DEF vars
<1> QED
  BY <1>1, <1>2, <1>3, <1>4, <1>5, <1>6, <1>7, <1>8, <1>9, <1>10, <1>11, <1>12, <1>13,
     <1>14, <1>15, <1>16, <1>17, <1>18, <1>19, <1>20, <1>21, <1>22, <1>23, <1>24, <1>25,
     <1>26, <1>27
  DEF Next, Framework, Environment, Close, Terminated

(* A locked ID has a message that runs: a delivery wakes its handler, every  *)
(* other way to stop running releases the lock.                              *)
LEMMA HolderStep ==
    ASSUME chClosed = {}, TypeOK, StageInv, LockInv, ReceiverInv, ~Timeouts, Open,
           Open', RunningWhileLocked, Serial, TargetWaits, BufferAwaited, [Next]_vars
    PROVE  RunningWhileLocked'
<1> USE ConversationAssumption
    DEF TypeOK, StageInv, BeforeLock, Pcs, Id, Open, Done, Running, Buffered, Ch, NoChan,
        RunningWhileLocked, Serial, TargetWaits, BufferAwaited
<1>1. ASSUME NEW m \in Msgs, HandleNextMessage(m) PROVE RunningWhileLocked'
  BY <1>1, IdType DEF HandleNextMessage, CanAsk, IsClosed
<1>2. ASSUME NEW m \in Msgs, SetMessageID(m) PROVE RunningWhileLocked'
  <2>1. Id(m) \in Ids
    BY <1>2, IdType DEF SetMessageID
  <2>2. CASE locks[Id(m)] = None
    BY <1>2, <2>1, <2>2 DEF SetMessageID, AcquireMessageIDLock
  <2>3. CASE locks[Id(m)] # None
    BY <1>2, <2>1, <2>3 DEF SetMessageID, AcquireMessageIDLock
  <2> QED
    BY <2>2, <2>3
<1>3. ASSUME NEW m \in Msgs, RetryMessageID(m) PROVE RunningWhileLocked'
  <2>1. Id(m) \in Ids
    BY <1>3, IdType DEF RetryMessageID
  <2>2. CASE locks[Id(m)] = None
    BY <1>3, <2>1, <2>2 DEF RetryMessageID, AcquireMessageIDLock
  <2>3. CASE locks[Id(m)] # None
    BY <1>3, <2>1, <2>3 DEF RetryMessageID, AcquireMessageIDLock
  <2> QED
    BY <2>2, <2>3
<1>4. ASSUME NEW m \in Msgs, GiveUpMessageID(m) PROVE RunningWhileLocked'
  BY <1>4, IdType DEF GiveUpMessageID, Done
<1>5. ASSUME NEW m \in Msgs, NextCheck(m) PROVE RunningWhileLocked'
  BY <1>5, IdType DEF NextCheck, CanAsk, IsClosed, Back
<1>6. ASSUME NEW m \in Msgs, FindReceiver(m) PROVE RunningWhileLocked'
  BY <1>6, IdType DEF FindReceiver, Arrives, Ahead, ReceiverAt, NoChan
<1>7. ASSUME NEW m \in Msgs, RunHandler(m) PROVE RunningWhileLocked'
  BY <1>7, IdType DEF RunHandler, Arrives, Ahead, Matches
<1>8. ASSUME NEW m \in Msgs, BeyondEnd(m) PROVE RunningWhileLocked'
  BY <1>8, IdType DEF BeyondEnd, Ahead, Matches, Back, NoChan, RemoveReceiver
<1>9. ASSUME NEW m \in Msgs, TakeReceiver(m) PROVE RunningWhileLocked'
  BY <1>9, IdType DEF TakeReceiver, RemoveReceiver
<1>10. ASSUME NEW m \in Msgs, Deliver(m) PROVE RunningWhileLocked'
  <2>1. PICK o \in Msgs : target[m] = Ch(o) /\ Id(o) = Id(m) /\ pc[o] = "receive"
    BY <1>10 DEF Deliver
  <2>2. o # m /\ Running(o)'
    <3>1. <<target[m], m>> \in buf' /\ <<target[m], m>>[1] = Ch(o)
      BY <1>10, <2>1 DEF Deliver
    <3> QED
      BY <1>10, <2>1, <3>1 DEF Deliver
  <2> SUFFICES ASSUME NEW i \in Ids, locks[i] # None
               PROVE  \E k \in Msgs : Running(k)' /\ Id(k) = i
    BY <1>10 DEF Deliver
  <2>3. PICK k \in Msgs : Running(k) /\ Id(k) = i
    OBVIOUS
  <2>4. CASE k = m
    BY <2>1, <2>2, <2>3, <2>4
  <2>5. CASE k # m
    BY <1>10, <2>3, <2>5 DEF Deliver, Buffered
  <2> QED
    BY <2>4, <2>5
<1>11. ASSUME NEW m \in Msgs, DeliverPanics(m) PROVE RunningWhileLocked'
  BY <1>11, IdType DEF DeliverPanics, PopHandler
<1>12. ASSUME NEW m \in Msgs, DeliverAbandoned(m) PROVE RunningWhileLocked'
  BY <1>12, IdType DEF DeliverAbandoned, Done
<1>13. ASSUME NEW m \in Msgs, CallNext(m) PROVE RunningWhileLocked'
  BY <1>13, IdType DEF CallNext
<1>14. ASSUME NEW m \in Msgs, HandlerReturn(m) PROVE RunningWhileLocked'
  BY <1>14, IdType DEF HandlerReturn, PopHandler
<1>15. ASSUME NEW m \in Msgs, BeginReceive(m) PROVE RunningWhileLocked'
  BY <1>15, IdType DEF BeginReceive
<1>16. ASSUME NEW m \in Msgs, Register(m) PROVE RunningWhileLocked'
  BY <1>16, IdType DEF Register, AddReceiver
<1>17. ASSUME NEW m \in Msgs, ReleaseAndWait(m) PROVE RunningWhileLocked'
  BY <1>17, IdType DEF ReleaseAndWait, ReleaseMessageIDLock
<1>18. ASSUME NEW m \in Msgs, TakeMessage(m) PROVE RunningWhileLocked'
  BY <1>18, IdType DEF TakeMessage, Buffered, Ch
<1>19. ASSUME NEW m \in Msgs, TakeNil(m) PROVE RunningWhileLocked'
  BY <1>19, IdType DEF TakeNil, Buffered, Ch
<1>20. ASSUME NEW m \in Msgs, ReceiveCancelled(m) PROVE RunningWhileLocked'
  BY <1>20, IdType DEF ReceiveCancelled, Done
<1>21. ASSUME NEW m \in Msgs, Finish(m) PROVE RunningWhileLocked'
  BY <1>21, IdType DEF Finish, ReleaseMessageIDLock
<1>22. ASSUME NEW m \in Msgs, Finalize(m) PROVE RunningWhileLocked'
  BY <1>22, IdType DEF Finalize, RemoveReceiver, NoChan, Buffered, Ch
<1>23. ASSUME CloseMark PROVE RunningWhileLocked'
  BY <1>23 DEF CloseMark, CloseMove
<1>24. ASSUME CloseReceivers PROVE RunningWhileLocked'
  BY <1>24 DEF CloseReceivers, CloseMove
<1>25. ASSUME CloseLocks PROVE RunningWhileLocked'
  BY <1>25 DEF CloseLocks, CloseMove
<1>26. ASSUME CloseCancel PROVE RunningWhileLocked'
  BY <1>26 DEF CloseCancel, CloseMove
<1>27. ASSUME UNCHANGED vars PROVE RunningWhileLocked'
  BY <1>27 DEF vars
<1> QED
  BY <1>1, <1>2, <1>3, <1>4, <1>5, <1>6, <1>7, <1>8, <1>9, <1>10, <1>11, <1>12, <1>13,
     <1>14, <1>15, <1>16, <1>17, <1>18, <1>19, <1>20, <1>21, <1>22, <1>23, <1>24, <1>25,
     <1>26, <1>27
  DEF Next, Framework, Environment, Close, Terminated

(* A registered receiver's handler sleeps, or is about to, with nothing to take. *)
LEMMA ReceiverWaitsStep ==
    ASSUME chClosed = {}, TypeOK, StageInv, LockInv, ReceiverInv, ~Timeouts, Open,
           Open', ReceiverWaits, BufferAwaited, TargetWaits, TargetTaken, OneInBuffer,
           [Next]_vars
    PROVE  ReceiverWaits'
<1> USE ConversationAssumption
    DEF TypeOK, StageInv, BeforeLock, Pcs, Id, Open, Done, Running, Buffered, Ch, NoChan,
        ReceiverWaits, BufferAwaited, TargetWaits, TargetTaken, OneInBuffer, ReceiverInv,
        Chan, Entry
<1>1. ASSUME NEW m \in Msgs, HandleNextMessage(m) PROVE ReceiverWaits'
  BY <1>1, IdType DEF HandleNextMessage, CanAsk, IsClosed
<1>2. ASSUME NEW m \in Msgs, SetMessageID(m) PROVE ReceiverWaits'
  <2>1. Id(m) \in Ids
    BY <1>2, IdType DEF SetMessageID
  <2>2. CASE locks[Id(m)] = None
    BY <1>2, <2>1, <2>2 DEF SetMessageID, AcquireMessageIDLock
  <2>3. CASE locks[Id(m)] # None
    BY <1>2, <2>1, <2>3 DEF SetMessageID, AcquireMessageIDLock
  <2> QED
    BY <2>2, <2>3
<1>3. ASSUME NEW m \in Msgs, RetryMessageID(m) PROVE ReceiverWaits'
  <2>1. Id(m) \in Ids
    BY <1>3, IdType DEF RetryMessageID
  <2>2. CASE locks[Id(m)] = None
    BY <1>3, <2>1, <2>2 DEF RetryMessageID, AcquireMessageIDLock
  <2>3. CASE locks[Id(m)] # None
    BY <1>3, <2>1, <2>3 DEF RetryMessageID, AcquireMessageIDLock
  <2> QED
    BY <2>2, <2>3
<1>4. ASSUME NEW m \in Msgs, GiveUpMessageID(m) PROVE ReceiverWaits'
  BY <1>4, IdType DEF GiveUpMessageID, Done
<1>5. ASSUME NEW m \in Msgs, NextCheck(m) PROVE ReceiverWaits'
  BY <1>5, IdType DEF NextCheck, CanAsk, IsClosed, Back
<1>6. ASSUME NEW m \in Msgs, FindReceiver(m) PROVE ReceiverWaits'
  BY <1>6, IdType DEF FindReceiver, Arrives, Ahead, ReceiverAt, NoChan
<1>7. ASSUME NEW m \in Msgs, RunHandler(m) PROVE ReceiverWaits'
  BY <1>7, IdType DEF RunHandler, Arrives, Ahead, Matches
<1>8. ASSUME NEW m \in Msgs, BeyondEnd(m) PROVE ReceiverWaits'
  BY <1>8, IdType DEF BeyondEnd, Ahead, Matches, Back, NoChan, RemoveReceiver
<1>9. ASSUME NEW m \in Msgs, TakeReceiver(m) PROVE ReceiverWaits'
  BY <1>9, IdType DEF TakeReceiver, RemoveReceiver
<1>10. ASSUME NEW m \in Msgs, Deliver(m) PROVE ReceiverWaits'
  BY <1>10, IdType DEF Deliver, Buffered
<1>11. ASSUME NEW m \in Msgs, DeliverPanics(m) PROVE ReceiverWaits'
  BY <1>11, IdType DEF DeliverPanics, PopHandler
<1>12. ASSUME NEW m \in Msgs, DeliverAbandoned(m) PROVE ReceiverWaits'
  BY <1>12, IdType DEF DeliverAbandoned, Done
<1>13. ASSUME NEW m \in Msgs, CallNext(m) PROVE ReceiverWaits'
  BY <1>13, IdType DEF CallNext
<1>14. ASSUME NEW m \in Msgs, HandlerReturn(m) PROVE ReceiverWaits'
  BY <1>14, IdType DEF HandlerReturn, PopHandler
<1>15. ASSUME NEW m \in Msgs, BeginReceive(m) PROVE ReceiverWaits'
  BY <1>15, IdType DEF BeginReceive
<1>16. ASSUME NEW m \in Msgs, Register(m) PROVE ReceiverWaits'
  BY <1>16, IdType DEF Register, AddReceiver
<1>17. ASSUME NEW m \in Msgs, ReleaseAndWait(m) PROVE ReceiverWaits'
  BY <1>17, IdType DEF ReleaseAndWait, ReleaseMessageIDLock
<1>18. ASSUME NEW m \in Msgs, TakeMessage(m) PROVE ReceiverWaits'
  BY <1>18, IdType DEF TakeMessage, Buffered, Ch
<1>19. ASSUME NEW m \in Msgs, TakeNil(m) PROVE ReceiverWaits'
  BY <1>19, IdType DEF TakeNil, Buffered, Ch
<1>20. ASSUME NEW m \in Msgs, ReceiveCancelled(m) PROVE ReceiverWaits'
  BY <1>20, IdType DEF ReceiveCancelled, Done
<1>21. ASSUME NEW m \in Msgs, Finish(m) PROVE ReceiverWaits'
  BY <1>21, IdType DEF Finish, ReleaseMessageIDLock
<1>22. ASSUME NEW m \in Msgs, Finalize(m) PROVE ReceiverWaits'
  BY <1>22, IdType DEF Finalize, RemoveReceiver, NoChan, Buffered, Ch
<1>23. ASSUME CloseMark PROVE ReceiverWaits'
  BY <1>23 DEF CloseMark, CloseMove
<1>24. ASSUME CloseReceivers PROVE ReceiverWaits'
  BY <1>24 DEF CloseReceivers, CloseMove
<1>25. ASSUME CloseLocks PROVE ReceiverWaits'
  BY <1>25 DEF CloseLocks, CloseMove
<1>26. ASSUME CloseCancel PROVE ReceiverWaits'
  BY <1>26 DEF CloseCancel, CloseMove
<1>27. ASSUME UNCHANGED vars PROVE ReceiverWaits'
  BY <1>27 DEF vars
<1> QED
  BY <1>1, <1>2, <1>3, <1>4, <1>5, <1>6, <1>7, <1>8, <1>9, <1>10, <1>11, <1>12, <1>13,
     <1>14, <1>15, <1>16, <1>17, <1>18, <1>19, <1>20, <1>21, <1>22, <1>23, <1>24, <1>25,
     <1>26, <1>27
  DEF Next, Framework, Environment, Close, Terminated

(* A receiver that was found stays asleep until the message is sent to it.   *)
LEMMA TargetWaitsStep ==
    ASSUME chClosed = {}, TypeOK, StageInv, LockInv, ReceiverInv, ~Timeouts, Open,
           Open', TargetWaits, Serial, ReceiverWaits, [Next]_vars
    PROVE  TargetWaits'
<1> USE ConversationAssumption
    DEF TypeOK, StageInv, BeforeLock, Pcs, Id, Open, Done, Running, Buffered, Ch, NoChan,
        TargetWaits, Serial, ReceiverWaits, ReceiverInv, Chan, Entry
<1>1. ASSUME NEW m \in Msgs, HandleNextMessage(m) PROVE TargetWaits'
  BY <1>1, IdType DEF HandleNextMessage, CanAsk, IsClosed
<1>2. ASSUME NEW m \in Msgs, SetMessageID(m) PROVE TargetWaits'
  <2>1. Id(m) \in Ids
    BY <1>2, IdType DEF SetMessageID
  <2>2. CASE locks[Id(m)] = None
    BY <1>2, <2>1, <2>2 DEF SetMessageID, AcquireMessageIDLock
  <2>3. CASE locks[Id(m)] # None
    BY <1>2, <2>1, <2>3 DEF SetMessageID, AcquireMessageIDLock
  <2> QED
    BY <2>2, <2>3
<1>3. ASSUME NEW m \in Msgs, RetryMessageID(m) PROVE TargetWaits'
  <2>1. Id(m) \in Ids
    BY <1>3, IdType DEF RetryMessageID
  <2>2. CASE locks[Id(m)] = None
    BY <1>3, <2>1, <2>2 DEF RetryMessageID, AcquireMessageIDLock
  <2>3. CASE locks[Id(m)] # None
    BY <1>3, <2>1, <2>3 DEF RetryMessageID, AcquireMessageIDLock
  <2> QED
    BY <2>2, <2>3
<1>4. ASSUME NEW m \in Msgs, GiveUpMessageID(m) PROVE TargetWaits'
  BY <1>4, IdType DEF GiveUpMessageID, Done
<1>5. ASSUME NEW m \in Msgs, NextCheck(m) PROVE TargetWaits'
  BY <1>5, IdType DEF NextCheck, CanAsk, IsClosed, Back
<1>6. ASSUME NEW m \in Msgs, FindReceiver(m) PROVE TargetWaits'
  <2>1. Id(m) \in Ids /\ receivers[Id(m)] # None /\ target' = [target EXCEPT ![m] = receivers[Id(m)].ch]
    BY <1>6, IdType DEF FindReceiver, ReceiverAt
  <2>2. PICK o \in Msgs : receivers[Id(m)].ch = Ch(o) /\ Id(o) = Id(m)
    BY <2>1
  <2>3. pc[o] \in {"release", "receive"} /\ ~Buffered(Ch(o))
    BY <2>1, <2>2
  <2>4. pc[o] # "release"
    BY <1>6, <2>2 DEF FindReceiver, ReceiverAt
  <2>5. pc'[o] = "receive" /\ target'[m] = Ch(o) /\ UNCHANGED <<frame, round, buf>>
    BY <1>6, <2>1, <2>2, <2>3, <2>4 DEF FindReceiver
  <2> SUFFICES ASSUME NEW k \in Msgs, pc'[k] \in {"found", "deliver"}, k # m
               PROVE  \E q \in Msgs : /\ target'[k] = Ch(q)' /\ Id(q)' = Id(k)'
                                       /\ pc'[q] = "receive" /\ ~Buffered(Ch(q))'
    BY <2>2, <2>3, <2>5
  <2>6. PICK q \in Msgs : /\ target[k] = Ch(q) /\ Id(q) = Id(k)
                           /\ pc[q] = "receive" /\ ~Buffered(Ch(q))
    BY <1>6 DEF FindReceiver
  <2> QED
    BY <1>6, <2>6 DEF FindReceiver
<1>7. ASSUME NEW m \in Msgs, RunHandler(m) PROVE TargetWaits'
  BY <1>7, IdType DEF RunHandler, Arrives, Ahead, Matches
<1>8. ASSUME NEW m \in Msgs, BeyondEnd(m) PROVE TargetWaits'
  BY <1>8, IdType DEF BeyondEnd, Ahead, Matches, Back, NoChan, RemoveReceiver
<1>9. ASSUME NEW m \in Msgs, TakeReceiver(m) PROVE TargetWaits'
  BY <1>9, IdType DEF TakeReceiver, RemoveReceiver
<1>10. ASSUME NEW m \in Msgs, Deliver(m) PROVE TargetWaits'
  BY <1>10, IdType DEF Deliver, Buffered
<1>11. ASSUME NEW m \in Msgs, DeliverPanics(m) PROVE TargetWaits'
  BY <1>11, IdType DEF DeliverPanics, PopHandler
<1>12. ASSUME NEW m \in Msgs, DeliverAbandoned(m) PROVE TargetWaits'
  BY <1>12, IdType DEF DeliverAbandoned, Done
<1>13. ASSUME NEW m \in Msgs, CallNext(m) PROVE TargetWaits'
  BY <1>13, IdType DEF CallNext
<1>14. ASSUME NEW m \in Msgs, HandlerReturn(m) PROVE TargetWaits'
  BY <1>14, IdType DEF HandlerReturn, PopHandler
<1>15. ASSUME NEW m \in Msgs, BeginReceive(m) PROVE TargetWaits'
  BY <1>15, IdType DEF BeginReceive
<1>16. ASSUME NEW m \in Msgs, Register(m) PROVE TargetWaits'
  BY <1>16, IdType DEF Register, AddReceiver
<1>17. ASSUME NEW m \in Msgs, ReleaseAndWait(m) PROVE TargetWaits'
  BY <1>17, IdType DEF ReleaseAndWait, ReleaseMessageIDLock
<1>18. ASSUME NEW m \in Msgs, TakeMessage(m) PROVE TargetWaits'
  BY <1>18, IdType DEF TakeMessage, Buffered, Ch
<1>19. ASSUME NEW m \in Msgs, TakeNil(m) PROVE TargetWaits'
  BY <1>19, IdType DEF TakeNil, Buffered, Ch
<1>20. ASSUME NEW m \in Msgs, ReceiveCancelled(m) PROVE TargetWaits'
  BY <1>20, IdType DEF ReceiveCancelled, Done
<1>21. ASSUME NEW m \in Msgs, Finish(m) PROVE TargetWaits'
  BY <1>21, IdType DEF Finish, ReleaseMessageIDLock
<1>22. ASSUME NEW m \in Msgs, Finalize(m) PROVE TargetWaits'
  BY <1>22, IdType DEF Finalize, RemoveReceiver, NoChan, Buffered, Ch
<1>23. ASSUME CloseMark PROVE TargetWaits'
  BY <1>23 DEF CloseMark, CloseMove
<1>24. ASSUME CloseReceivers PROVE TargetWaits'
  BY <1>24 DEF CloseReceivers, CloseMove
<1>25. ASSUME CloseLocks PROVE TargetWaits'
  BY <1>25 DEF CloseLocks, CloseMove
<1>26. ASSUME CloseCancel PROVE TargetWaits'
  BY <1>26 DEF CloseCancel, CloseMove
<1>27. ASSUME UNCHANGED vars PROVE TargetWaits'
  BY <1>27 DEF vars
<1> QED
  BY <1>1, <1>2, <1>3, <1>4, <1>5, <1>6, <1>7, <1>8, <1>9, <1>10, <1>11, <1>12, <1>13,
     <1>14, <1>15, <1>16, <1>17, <1>18, <1>19, <1>20, <1>21, <1>22, <1>23, <1>24, <1>25,
     <1>26, <1>27
  DEF Next, Framework, Environment, Close, Terminated

(* Nobody registers for an ID between the consuming of its receiver and the  *)
(* send: to register one must run.                                           *)
LEMMA TargetTakenStep ==
    ASSUME chClosed = {}, TypeOK, StageInv, LockInv, ReceiverInv, ~Timeouts, Open,
           Open', TargetTaken, Serial, TargetWaits, [Next]_vars
    PROVE  TargetTaken'
<1> USE ConversationAssumption
    DEF TypeOK, StageInv, BeforeLock, Pcs, Id, Open, Done, Running, Buffered, Ch, NoChan,
        TargetTaken, Serial, TargetWaits, Chan, Entry
<1>1. ASSUME NEW m \in Msgs, HandleNextMessage(m) PROVE TargetTaken'
  BY <1>1, IdType DEF HandleNextMessage, CanAsk, IsClosed
<1>2. ASSUME NEW m \in Msgs, SetMessageID(m) PROVE TargetTaken'
  <2>1. Id(m) \in Ids
    BY <1>2, IdType DEF SetMessageID
  <2>2. CASE locks[Id(m)] = None
    BY <1>2, <2>1, <2>2 DEF SetMessageID, AcquireMessageIDLock
  <2>3. CASE locks[Id(m)] # None
    BY <1>2, <2>1, <2>3 DEF SetMessageID, AcquireMessageIDLock
  <2> QED
    BY <2>2, <2>3
<1>3. ASSUME NEW m \in Msgs, RetryMessageID(m) PROVE TargetTaken'
  <2>1. Id(m) \in Ids
    BY <1>3, IdType DEF RetryMessageID
  <2>2. CASE locks[Id(m)] = None
    BY <1>3, <2>1, <2>2 DEF RetryMessageID, AcquireMessageIDLock
  <2>3. CASE locks[Id(m)] # None
    BY <1>3, <2>1, <2>3 DEF RetryMessageID, AcquireMessageIDLock
  <2> QED
    BY <2>2, <2>3
<1>4. ASSUME NEW m \in Msgs, GiveUpMessageID(m) PROVE TargetTaken'
  BY <1>4, IdType DEF GiveUpMessageID, Done
<1>5. ASSUME NEW m \in Msgs, NextCheck(m) PROVE TargetTaken'
  BY <1>5, IdType DEF NextCheck, CanAsk, IsClosed, Back
<1>6. ASSUME NEW m \in Msgs, FindReceiver(m) PROVE TargetTaken'
  BY <1>6, IdType DEF FindReceiver, Arrives, Ahead, ReceiverAt, NoChan
<1>7. ASSUME NEW m \in Msgs, RunHandler(m) PROVE TargetTaken'
  BY <1>7, IdType DEF RunHandler, Arrives, Ahead, Matches
<1>8. ASSUME NEW m \in Msgs, BeyondEnd(m) PROVE TargetTaken'
  BY <1>8, IdType DEF BeyondEnd, Ahead, Matches, Back, NoChan, RemoveReceiver
<1>9. ASSUME NEW m \in Msgs, TakeReceiver(m) PROVE TargetTaken'
  BY <1>9, IdType DEF TakeReceiver, RemoveReceiver
<1>10. ASSUME NEW m \in Msgs, Deliver(m) PROVE TargetTaken'
  BY <1>10, IdType DEF Deliver, Buffered
<1>11. ASSUME NEW m \in Msgs, DeliverPanics(m) PROVE TargetTaken'
  BY <1>11, IdType DEF DeliverPanics, PopHandler
<1>12. ASSUME NEW m \in Msgs, DeliverAbandoned(m) PROVE TargetTaken'
  BY <1>12, IdType DEF DeliverAbandoned, Done
<1>13. ASSUME NEW m \in Msgs, CallNext(m) PROVE TargetTaken'
  BY <1>13, IdType DEF CallNext
<1>14. ASSUME NEW m \in Msgs, HandlerReturn(m) PROVE TargetTaken'
  BY <1>14, IdType DEF HandlerReturn, PopHandler
<1>15. ASSUME NEW m \in Msgs, BeginReceive(m) PROVE TargetTaken'
  BY <1>15, IdType DEF BeginReceive
<1>16. ASSUME NEW m \in Msgs, Register(m) PROVE TargetTaken'
  BY <1>16, IdType DEF Register, AddReceiver
<1>17. ASSUME NEW m \in Msgs, ReleaseAndWait(m) PROVE TargetTaken'
  BY <1>17, IdType DEF ReleaseAndWait, ReleaseMessageIDLock
<1>18. ASSUME NEW m \in Msgs, TakeMessage(m) PROVE TargetTaken'
  BY <1>18, IdType DEF TakeMessage, Buffered, Ch
<1>19. ASSUME NEW m \in Msgs, TakeNil(m) PROVE TargetTaken'
  BY <1>19, IdType DEF TakeNil, Buffered, Ch
<1>20. ASSUME NEW m \in Msgs, ReceiveCancelled(m) PROVE TargetTaken'
  BY <1>20, IdType DEF ReceiveCancelled, Done
<1>21. ASSUME NEW m \in Msgs, Finish(m) PROVE TargetTaken'
  BY <1>21, IdType DEF Finish, ReleaseMessageIDLock
<1>22. ASSUME NEW m \in Msgs, Finalize(m) PROVE TargetTaken'
  BY <1>22, IdType DEF Finalize, RemoveReceiver, NoChan, Buffered, Ch
<1>23. ASSUME CloseMark PROVE TargetTaken'
  BY <1>23 DEF CloseMark, CloseMove
<1>24. ASSUME CloseReceivers PROVE TargetTaken'
  BY <1>24 DEF CloseReceivers, CloseMove
<1>25. ASSUME CloseLocks PROVE TargetTaken'
  BY <1>25 DEF CloseLocks, CloseMove
<1>26. ASSUME CloseCancel PROVE TargetTaken'
  BY <1>26 DEF CloseCancel, CloseMove
<1>27. ASSUME UNCHANGED vars PROVE TargetTaken'
  BY <1>27 DEF vars
<1> QED
  BY <1>1, <1>2, <1>3, <1>4, <1>5, <1>6, <1>7, <1>8, <1>9, <1>10, <1>11, <1>12, <1>13,
     <1>14, <1>15, <1>16, <1>17, <1>18, <1>19, <1>20, <1>21, <1>22, <1>23, <1>24, <1>25,
     <1>26, <1>27
  DEF Next, Framework, Environment, Close, Terminated

(* What sits in a channel is awaited.                                        *)
LEMMA BufferAwaitedStep ==
    ASSUME chClosed = {}, TypeOK, StageInv, LockInv, ReceiverInv, ~Timeouts, Open,
           Open', BufferAwaited, OneInBuffer, TargetWaits, [Next]_vars
    PROVE  BufferAwaited'
<1> USE ConversationAssumption
    DEF TypeOK, StageInv, BeforeLock, Pcs, Id, Open, Done, Running, Buffered, Ch, NoChan,
        BufferAwaited, OneInBuffer, TargetWaits, Chan, Entry
<1>1. ASSUME NEW m \in Msgs, HandleNextMessage(m) PROVE BufferAwaited'
  BY <1>1, IdType DEF HandleNextMessage, CanAsk, IsClosed
<1>2. ASSUME NEW m \in Msgs, SetMessageID(m) PROVE BufferAwaited'
  <2>1. Id(m) \in Ids
    BY <1>2, IdType DEF SetMessageID
  <2>2. CASE locks[Id(m)] = None
    BY <1>2, <2>1, <2>2 DEF SetMessageID, AcquireMessageIDLock
  <2>3. CASE locks[Id(m)] # None
    BY <1>2, <2>1, <2>3 DEF SetMessageID, AcquireMessageIDLock
  <2> QED
    BY <2>2, <2>3
<1>3. ASSUME NEW m \in Msgs, RetryMessageID(m) PROVE BufferAwaited'
  <2>1. Id(m) \in Ids
    BY <1>3, IdType DEF RetryMessageID
  <2>2. CASE locks[Id(m)] = None
    BY <1>3, <2>1, <2>2 DEF RetryMessageID, AcquireMessageIDLock
  <2>3. CASE locks[Id(m)] # None
    BY <1>3, <2>1, <2>3 DEF RetryMessageID, AcquireMessageIDLock
  <2> QED
    BY <2>2, <2>3
<1>4. ASSUME NEW m \in Msgs, GiveUpMessageID(m) PROVE BufferAwaited'
  BY <1>4, IdType DEF GiveUpMessageID, Done
<1>5. ASSUME NEW m \in Msgs, NextCheck(m) PROVE BufferAwaited'
  BY <1>5, IdType DEF NextCheck, CanAsk, IsClosed, Back
<1>6. ASSUME NEW m \in Msgs, FindReceiver(m) PROVE BufferAwaited'
  BY <1>6, IdType DEF FindReceiver, Arrives, Ahead, ReceiverAt, NoChan
<1>7. ASSUME NEW m \in Msgs, RunHandler(m) PROVE BufferAwaited'
  BY <1>7, IdType DEF RunHandler, Arrives, Ahead, Matches
<1>8. ASSUME NEW m \in Msgs, BeyondEnd(m) PROVE BufferAwaited'
  BY <1>8, IdType DEF BeyondEnd, Ahead, Matches, Back, NoChan, RemoveReceiver
<1>9. ASSUME NEW m \in Msgs, TakeReceiver(m) PROVE BufferAwaited'
  BY <1>9, IdType DEF TakeReceiver, RemoveReceiver
<1>10. ASSUME NEW m \in Msgs, Deliver(m) PROVE BufferAwaited'
  BY <1>10, IdType DEF Deliver, Buffered
<1>11. ASSUME NEW m \in Msgs, DeliverPanics(m) PROVE BufferAwaited'
  BY <1>11, IdType DEF DeliverPanics, PopHandler
<1>12. ASSUME NEW m \in Msgs, DeliverAbandoned(m) PROVE BufferAwaited'
  BY <1>12, IdType DEF DeliverAbandoned, Done
<1>13. ASSUME NEW m \in Msgs, CallNext(m) PROVE BufferAwaited'
  BY <1>13, IdType DEF CallNext
<1>14. ASSUME NEW m \in Msgs, HandlerReturn(m) PROVE BufferAwaited'
  BY <1>14, IdType DEF HandlerReturn, PopHandler
<1>15. ASSUME NEW m \in Msgs, BeginReceive(m) PROVE BufferAwaited'
  BY <1>15, IdType DEF BeginReceive
<1>16. ASSUME NEW m \in Msgs, Register(m) PROVE BufferAwaited'
  BY <1>16, IdType DEF Register, AddReceiver
<1>17. ASSUME NEW m \in Msgs, ReleaseAndWait(m) PROVE BufferAwaited'
  BY <1>17, IdType DEF ReleaseAndWait, ReleaseMessageIDLock
<1>18. ASSUME NEW m \in Msgs, TakeMessage(m) PROVE BufferAwaited'
  BY <1>18, IdType DEF TakeMessage, Buffered, Ch
<1>19. ASSUME NEW m \in Msgs, TakeNil(m) PROVE BufferAwaited'
  BY <1>19, IdType DEF TakeNil, Buffered, Ch
<1>20. ASSUME NEW m \in Msgs, ReceiveCancelled(m) PROVE BufferAwaited'
  BY <1>20, IdType DEF ReceiveCancelled, Done
<1>21. ASSUME NEW m \in Msgs, Finish(m) PROVE BufferAwaited'
  BY <1>21, IdType DEF Finish, ReleaseMessageIDLock
<1>22. ASSUME NEW m \in Msgs, Finalize(m) PROVE BufferAwaited'
  BY <1>22, IdType DEF Finalize, RemoveReceiver, NoChan, Buffered, Ch
<1>23. ASSUME CloseMark PROVE BufferAwaited'
  BY <1>23 DEF CloseMark, CloseMove
<1>24. ASSUME CloseReceivers PROVE BufferAwaited'
  BY <1>24 DEF CloseReceivers, CloseMove
<1>25. ASSUME CloseLocks PROVE BufferAwaited'
  BY <1>25 DEF CloseLocks, CloseMove
<1>26. ASSUME CloseCancel PROVE BufferAwaited'
  BY <1>26 DEF CloseCancel, CloseMove
<1>27. ASSUME UNCHANGED vars PROVE BufferAwaited'
  BY <1>27 DEF vars
<1> QED
  BY <1>1, <1>2, <1>3, <1>4, <1>5, <1>6, <1>7, <1>8, <1>9, <1>10, <1>11, <1>12, <1>13,
     <1>14, <1>15, <1>16, <1>17, <1>18, <1>19, <1>20, <1>21, <1>22, <1>23, <1>24, <1>25,
     <1>26, <1>27
  DEF Next, Framework, Environment, Close, Terminated

(* A channel holds at most one message, so the send never blocks.            *)
LEMMA OneInBufferStep ==
    ASSUME chClosed = {}, TypeOK, StageInv, LockInv, ReceiverInv, ~Timeouts, Open,
           Open', OneInBuffer, TargetWaits, [Next]_vars
    PROVE  OneInBuffer'
<1> USE ConversationAssumption
    DEF TypeOK, StageInv, BeforeLock, Pcs, Id, Open, Done, Running, Buffered, Ch, NoChan,
        OneInBuffer, TargetWaits, Chan, Entry
<1>1. ASSUME NEW m \in Msgs, HandleNextMessage(m) PROVE OneInBuffer'
  BY <1>1, IdType DEF HandleNextMessage, CanAsk, IsClosed
<1>2. ASSUME NEW m \in Msgs, SetMessageID(m) PROVE OneInBuffer'
  <2>1. Id(m) \in Ids
    BY <1>2, IdType DEF SetMessageID
  <2>2. CASE locks[Id(m)] = None
    BY <1>2, <2>1, <2>2 DEF SetMessageID, AcquireMessageIDLock
  <2>3. CASE locks[Id(m)] # None
    BY <1>2, <2>1, <2>3 DEF SetMessageID, AcquireMessageIDLock
  <2> QED
    BY <2>2, <2>3
<1>3. ASSUME NEW m \in Msgs, RetryMessageID(m) PROVE OneInBuffer'
  <2>1. Id(m) \in Ids
    BY <1>3, IdType DEF RetryMessageID
  <2>2. CASE locks[Id(m)] = None
    BY <1>3, <2>1, <2>2 DEF RetryMessageID, AcquireMessageIDLock
  <2>3. CASE locks[Id(m)] # None
    BY <1>3, <2>1, <2>3 DEF RetryMessageID, AcquireMessageIDLock
  <2> QED
    BY <2>2, <2>3
<1>4. ASSUME NEW m \in Msgs, GiveUpMessageID(m) PROVE OneInBuffer'
  BY <1>4, IdType DEF GiveUpMessageID, Done
<1>5. ASSUME NEW m \in Msgs, NextCheck(m) PROVE OneInBuffer'
  BY <1>5, IdType DEF NextCheck, CanAsk, IsClosed, Back
<1>6. ASSUME NEW m \in Msgs, FindReceiver(m) PROVE OneInBuffer'
  BY <1>6, IdType DEF FindReceiver, Arrives, Ahead, ReceiverAt, NoChan
<1>7. ASSUME NEW m \in Msgs, RunHandler(m) PROVE OneInBuffer'
  BY <1>7, IdType DEF RunHandler, Arrives, Ahead, Matches
<1>8. ASSUME NEW m \in Msgs, BeyondEnd(m) PROVE OneInBuffer'
  BY <1>8, IdType DEF BeyondEnd, Ahead, Matches, Back, NoChan, RemoveReceiver
<1>9. ASSUME NEW m \in Msgs, TakeReceiver(m) PROVE OneInBuffer'
  BY <1>9, IdType DEF TakeReceiver, RemoveReceiver
<1>10. ASSUME NEW m \in Msgs, Deliver(m) PROVE OneInBuffer'
  BY <1>10, IdType DEF Deliver, Buffered
<1>11. ASSUME NEW m \in Msgs, DeliverPanics(m) PROVE OneInBuffer'
  BY <1>11, IdType DEF DeliverPanics, PopHandler
<1>12. ASSUME NEW m \in Msgs, DeliverAbandoned(m) PROVE OneInBuffer'
  BY <1>12, IdType DEF DeliverAbandoned, Done
<1>13. ASSUME NEW m \in Msgs, CallNext(m) PROVE OneInBuffer'
  BY <1>13, IdType DEF CallNext
<1>14. ASSUME NEW m \in Msgs, HandlerReturn(m) PROVE OneInBuffer'
  BY <1>14, IdType DEF HandlerReturn, PopHandler
<1>15. ASSUME NEW m \in Msgs, BeginReceive(m) PROVE OneInBuffer'
  BY <1>15, IdType DEF BeginReceive
<1>16. ASSUME NEW m \in Msgs, Register(m) PROVE OneInBuffer'
  BY <1>16, IdType DEF Register, AddReceiver
<1>17. ASSUME NEW m \in Msgs, ReleaseAndWait(m) PROVE OneInBuffer'
  BY <1>17, IdType DEF ReleaseAndWait, ReleaseMessageIDLock
<1>18. ASSUME NEW m \in Msgs, TakeMessage(m) PROVE OneInBuffer'
  BY <1>18, IdType DEF TakeMessage, Buffered, Ch
<1>19. ASSUME NEW m \in Msgs, TakeNil(m) PROVE OneInBuffer'
  BY <1>19, IdType DEF TakeNil, Buffered, Ch
<1>20. ASSUME NEW m \in Msgs, ReceiveCancelled(m) PROVE OneInBuffer'
  BY <1>20, IdType DEF ReceiveCancelled, Done
<1>21. ASSUME NEW m \in Msgs, Finish(m) PROVE OneInBuffer'
  BY <1>21, IdType DEF Finish, ReleaseMessageIDLock
<1>22. ASSUME NEW m \in Msgs, Finalize(m) PROVE OneInBuffer'
  BY <1>22, IdType DEF Finalize, RemoveReceiver, NoChan, Buffered, Ch
<1>23. ASSUME CloseMark PROVE OneInBuffer'
  BY <1>23 DEF CloseMark, CloseMove
<1>24. ASSUME CloseReceivers PROVE OneInBuffer'
  BY <1>24 DEF CloseReceivers, CloseMove
<1>25. ASSUME CloseLocks PROVE OneInBuffer'
  BY <1>25 DEF CloseLocks, CloseMove
<1>26. ASSUME CloseCancel PROVE OneInBuffer'
  BY <1>26 DEF CloseCancel, CloseMove
<1>27. ASSUME UNCHANGED vars PROVE OneInBuffer'
  BY <1>27 DEF vars
<1> QED
  BY <1>1, <1>2, <1>3, <1>4, <1>5, <1>6, <1>7, <1>8, <1>9, <1>10, <1>11, <1>12, <1>13,
     <1>14, <1>15, <1>16, <1>17, <1>18, <1>19, <1>20, <1>21, <1>22, <1>23, <1>24, <1>25,
     <1>26, <1>27
  DEF Next, Framework, Environment, Close, Terminated

-----------------------------------------------------------------------------
(* GInv is an invariant of every behaviour.                                  *)
LEMMA GInvInit == Init => GInv
  BY ConversationAssumption
  DEF Init, GInv, TypeOK, StageInv, LockInv, NoLostWakeup, ReceiverInv, BeforeLock, Pcs, CloseSteps

(* Every step keeps what holds whatever handlers and Close do.               *)
LEMMA GInvStep == GInv /\ [Next]_vars => GInv'
<1> SUFFICES ASSUME GInv, [Next]_vars PROVE GInv'
  OBVIOUS
<1>1. TypeOK'
  BY TypeStep DEF GInv
<1>2. StageInv' /\ LockInv' /\ NoLostWakeup' /\ ReceiverInv'
  BY <1>1, StageStep, LockStep, WakeupStep, ReceiverStep DEF GInv
<1> QED
  BY <1>1, <1>2 DEF GInv

(* It holds for ever.                                                        *)
LEMMA GInvariant == Spec => []GInv
  BY GInvInit, GInvStep, PTL DEF Spec

(* SInv is an invariant of every behaviour of handlers without timeouts.     *)
LEMMA SInvInit == Init => SInv
  BY DEF Init, SInv, OpenInv, Serial, LockedWhileRunning, RunningWhileLocked, ReceiverWaits,
         TargetWaits, TargetTaken, BufferAwaited, OneInBuffer, Running

(* A socket that is open was open before: nothing reopens it.                *)
LEMMA OpenStep == ASSUME [Next]_vars, Open' PROVE Open
  BY DEF Next, Framework, Environment, Close, Terminated, vars, Open, CloseMove,
         HandleNextMessage, SetMessageID, RetryMessageID, GiveUpMessageID, NextCheck,
         FindReceiver, RunHandler, BeyondEnd, TakeReceiver, Deliver, DeliverPanics,
         DeliverAbandoned, CallNext, HandlerReturn, BeginReceive, Register, ReleaseAndWait,
         TakeMessage, TakeNil, ReceiveCancelled, Finish, Finalize,
         CloseMark, CloseReceivers, CloseLocks, CloseCancel

(* Only Close closes receiver channels.                                      *)
LEMMA ChannelsOpenStep == ASSUME [Next]_vars, Open', chClosed = {} PROVE chClosed' = {}
  BY DEF Next, Framework, Environment, Close, Terminated, vars, Open, CloseMove,
         HandleNextMessage, SetMessageID, RetryMessageID, GiveUpMessageID, NextCheck,
         FindReceiver, RunHandler, BeyondEnd, TakeReceiver, Deliver, DeliverPanics,
         DeliverAbandoned, CallNext, HandlerReturn, BeginReceive, Register, ReleaseAndWait,
         TakeMessage, TakeNil, ReceiveCancelled, Finish, Finalize,
         CloseMark, CloseReceivers, CloseLocks, CloseCancel

(* Without timeouts every step on an open socket keeps the rest as well.     *)
LEMMA SInvStep == ASSUME ~Timeouts PROVE GInv /\ SInv /\ [Next]_vars => SInv'
<1> SUFFICES ASSUME GInv, SInv, [Next]_vars, Open' PROVE OpenInv'
  BY DEF SInv
<1>1. Open /\ OpenInv
  BY OpenStep DEF SInv
<1> USE <1>1 DEF OpenInv, GInv
<1>2. Serial' /\ LockedWhileRunning' /\ RunningWhileLocked'
  BY SerialStep, LockedStep, HolderStep
<1>3. ReceiverWaits' /\ TargetWaits' /\ TargetTaken'
  BY ReceiverWaitsStep, TargetWaitsStep, TargetTakenStep
<1>4. BufferAwaited' /\ OneInBuffer' /\ chClosed' = {}
  BY BufferAwaitedStep, OneInBufferStep, ChannelsOpenStep
<1> QED
  BY <1>2, <1>3, <1>4

(* That too holds for ever.                                                  *)
LEMMA SInvariant == ASSUME ~Timeouts PROVE Spec => [](GInv /\ SInv)
<1>1. Init => GInv /\ SInv
  BY GInvInit, SInvInit
<1>2. GInv /\ SInv /\ [Next]_vars => (GInv /\ SInv)'
  BY GInvStep, SInvStep
<1> QED
  BY <1>1, <1>2, PTL DEF Spec

-----------------------------------------------------------------------------
(* The variables keep the shape of the Go fields, with any configuration.    *)
THEOREM TypeCorrect == Spec => []TypeOK
  BY GInvariant, PTL DEF GInv

(* No goroutine in SetMessageID sleeps on a lock channel that a release can  *)
(* no longer find, timeouts and Close included.                              *)
THEOREM WakeupNeverLost == Spec => []NoLostWakeup
  BY GInvariant, PTL DEF GInv

(* A receiver never outlives the goroutine of its handler, timeouts and Close*)
(* included.                                                                 *)
THEOREM ReceiversAlive == Spec => []NoDanglingReceiver
<1>1. GInv => NoDanglingReceiver
  BY DEF GInv, ReceiverInv, NoDanglingReceiver, Ch
<1> QED
  BY <1>1, GInvariant, PTL

(* The promise of message-ID locking (socket.go:69) for handlers that receive*)
(* without timeouts: at most one message per ID runs in the handler chain.   *)
THEOREM OneAtATime == ASSUME ~Timeouts PROVE Spec => []SerialChain
<1>1. GInv /\ SInv => SerialChain
  BY DEF SInv, OpenInv, Serial, SerialChain
<1> QED
  BY <1>1, SInvariant, PTL

(* A message handed to a receiver is awaited, for handlers without timeouts. *)
THEOREM HandoverAwaited == ASSUME ~Timeouts PROVE Spec => []HandedOverIsAwaited
<1>1. GInv /\ SInv => HandedOverIsAwaited
  BY DEF SInv, OpenInv, BufferAwaited, HandedOverIsAwaited, Ch
<1> QED
  BY <1>1, SInvariant, PTL

(* Whoever waits for an ID waits for a message that runs, for handlers       *)
(* without timeouts: the lock is never left behind.                          *)
THEOREM BlockedByLive == ASSUME ~Timeouts PROVE Spec => []BlockedByLiveMessage
<1>1. ASSUME GInv, SInv PROVE BlockedByLiveMessage
  <2> SUFFICES ASSUME Open, NEW m \in Msgs, pc[m] = "waiting", waitOn[m] \notin lockClosed
               PROVE  \E o \in Msgs : Running(o) /\ Id(o) = Id(m)
    BY DEF BlockedByLiveMessage
  <2>1. waitOn[m] = locks[Id(m)] /\ waitOn[m] \in Msgs /\ HasID(m)
    BY <1>1 DEF GInv, NoLostWakeup, StageInv
  <2>2. Id(m) \in Ids /\ locks[Id(m)] # None
    BY <1>1, <2>1, IdType, ConversationAssumption DEF GInv
  <2> QED
    BY <1>1, <2>2 DEF SInv, OpenInv, RunningWhileLocked
<1> QED
  BY <1>1, SInvariant, PTL

(* The send to a receiver finds its channel empty, for handlers without      *)
(* timeouts.                                                                 *)
THEOREM DeliveryFree == ASSUME ~Timeouts PROVE Spec => []DeliveryNeverBlocks
<1>1. GInv /\ SInv => DeliveryNeverBlocks
  BY DEF SInv, OpenInv, TargetWaits, DeliveryNeverBlocks, Buffered
<1> QED
  BY <1>1, SInvariant, PTL

-----------------------------------------------------------------------------
(* Conversation implements Floor when its handlers receive without timeouts. *)
(* Away from Close, only five steps of a goroutine are visible in Floor:     *)
(* acquiring the lock (Take), releasing it in Receive (Park) or at the end   *)
(* (Leave), and the send to a receiver (Pass).  Others move nobody.          *)
StagesKept == \A k \in Msgs : Stage(k)' = Stage(k)

Others(m) == \A k \in Msgs \ {m} : Stage(k)' = Stage(k)

(* One message moving is a Move of Floor.                                    *)
LEMMA MoveOne ==
    ASSUME NEW m \in Msgs, NEW from, NEW to, Stage(m) = from, Stage(m)' = to, Others(m)
    PROVE  Abstract!Move(m, from, to)
  BY DEF Abstract!Move, Others

(* On an open socket without timeouts every step either keeps the stages or  *)
(* is one of the moves of Floor.                                             *)
LEMMA StageMoves ==
    ASSUME GInv, OpenInv, ~Timeouts, Open, Open', [Next]_vars
    PROVE  \/ StagesKept
           \/ \E m \in Msgs : \/ Abstract!Take(m) \/ Abstract!Park(m) \/ Abstract!Leave(m)
                             \/ \E o \in Msgs : Abstract!Pass(m, o)
<1> DEFINE Goal == \/ StagesKept
                   \/ \E m \in Msgs : \/ Abstract!Take(m) \/ Abstract!Park(m) \/ Abstract!Leave(m)
                                     \/ \E o \in Msgs : Abstract!Pass(m, o)
<1> USE ConversationAssumption
    DEF GInv, TypeOK, StageInv, BeforeLock, Pcs, Id, Open, Done, Running,
        Parked, Buffered, Ch, NoChan, OpenInv, Stage, Others
<1>1. ASSUME NEW m \in Msgs, HandleNextMessage(m) PROVE StagesKept
  BY <1>1 DEF StagesKept, HandleNextMessage, CanAsk, IsClosed
<1>2. ASSUME NEW m \in Msgs, SetMessageID(m) PROVE Goal
  <2>1. Id(m) \in Ids
    BY <1>2, IdType DEF SetMessageID
  <2>2. CASE locks[Id(m)] = None
    <3>1. Stage(m) = "waiting" /\ Stage(m)' = "speaking" /\ Others(m)
      BY <1>2, <2>2 DEF SetMessageID, AcquireMessageIDLock
    <3>2. \A k \in Msgs : Id(k) = Id(m) => Stage(k) # "speaking"
      BY <2>2 DEF LockedWhileRunning
    <3>3. HasID(m)
      BY <1>2 DEF SetMessageID
    <3> HIDE DEF Stage, Others
    <3>4. Abstract!Move(m, "waiting", "speaking")
      BY <3>1, MoveOne
    <3> QED
      BY <3>2, <3>3, <3>4 DEF Abstract!Take
  <2>3. CASE locks[Id(m)] # None
    BY <1>2, <2>3 DEF SetMessageID, AcquireMessageIDLock, StagesKept
  <2> QED
    BY <2>2, <2>3
<1>3. ASSUME NEW m \in Msgs, RetryMessageID(m) PROVE Goal
  <2>1. Id(m) \in Ids
    BY <1>3, IdType DEF RetryMessageID
  <2>2. CASE locks[Id(m)] = None
    <3>1. Stage(m) = "waiting" /\ Stage(m)' = "speaking" /\ Others(m)
      BY <1>3, <2>2 DEF RetryMessageID, AcquireMessageIDLock
    <3>2. \A k \in Msgs : Id(k) = Id(m) => Stage(k) # "speaking"
      BY <2>2 DEF LockedWhileRunning
    <3>3. HasID(m)
      BY <1>3 DEF RetryMessageID
    <3> HIDE DEF Stage, Others
    <3>4. Abstract!Move(m, "waiting", "speaking")
      BY <3>1, MoveOne
    <3> QED
      BY <3>2, <3>3, <3>4 DEF Abstract!Take
  <2>3. CASE locks[Id(m)] # None
    BY <1>3, <2>3 DEF RetryMessageID, AcquireMessageIDLock, StagesKept
  <2> QED
    BY <2>2, <2>3
<1>4. ASSUME NEW m \in Msgs, GiveUpMessageID(m) PROVE FALSE
  BY <1>4 DEF GiveUpMessageID
<1>5. ASSUME NEW m \in Msgs, NextCheck(m) PROVE StagesKept
  BY <1>5 DEF StagesKept, NextCheck, CanAsk, IsClosed, Back
<1>6. ASSUME NEW m \in Msgs, FindReceiver(m) PROVE StagesKept
  BY <1>6 DEF StagesKept, FindReceiver, Arrives, Ahead, ReceiverAt, NoChan
<1>7. ASSUME NEW m \in Msgs, RunHandler(m) PROVE StagesKept
  BY <1>7 DEF StagesKept, RunHandler, Arrives, Ahead, Matches
<1>8. ASSUME NEW m \in Msgs, BeyondEnd(m) PROVE StagesKept
  BY <1>8 DEF StagesKept, BeyondEnd, Ahead, Matches, Back, NoChan, RemoveReceiver
<1>9. ASSUME NEW m \in Msgs, TakeReceiver(m) PROVE StagesKept
  BY <1>9 DEF StagesKept, TakeReceiver, RemoveReceiver
<1>10. ASSUME NEW m \in Msgs, Deliver(m) PROVE Goal
  <2>1. PICK o \in Msgs : /\ target[m] = Ch(o) /\ Id(o) = Id(m)
                           /\ pc[o] = "receive" /\ ~Buffered(Ch(o))
    BY <1>10 DEF Deliver, TargetWaits
  <2>2. <<target[m], m>> \in buf' /\ <<target[m], m>>[1] = Ch(o)
    BY <1>10, <2>1 DEF Deliver
  <2>3. Stage(m) = "speaking" /\ Stage(o) = "parked"
    BY <1>10, <2>1 DEF Deliver
  <2>4. Stage(m)' = "left" /\ Stage(o)' = "speaking"
    BY <1>10, <2>1, <2>2 DEF Deliver
  <2>5. \A k \in Msgs \ {m, o} : Stage(k)' = Stage(k)
    BY <1>10, <2>1 DEF Deliver
  <2> HIDE DEF Stage, Others
  <2> QED
    BY <2>1, <2>3, <2>4, <2>5 DEF Abstract!Pass
<1>11. ASSUME NEW m \in Msgs, DeliverPanics(m) PROVE FALSE
  BY <1>11 DEF DeliverPanics
<1>12. ASSUME NEW m \in Msgs, DeliverAbandoned(m) PROVE FALSE
  BY <1>12 DEF DeliverAbandoned
<1>13. ASSUME NEW m \in Msgs, CallNext(m) PROVE StagesKept
  BY <1>13 DEF StagesKept, CallNext
<1>14. ASSUME NEW m \in Msgs, HandlerReturn(m) PROVE StagesKept
  BY <1>14 DEF StagesKept, HandlerReturn, PopHandler
<1>15. ASSUME NEW m \in Msgs, BeginReceive(m) PROVE StagesKept
  BY <1>15 DEF StagesKept, BeginReceive
<1>16. ASSUME NEW m \in Msgs, Register(m) PROVE StagesKept
  BY <1>16 DEF StagesKept, Register, AddReceiver
<1>17. ASSUME NEW m \in Msgs, ReleaseAndWait(m) PROVE Goal
  <2>1. ~Buffered(Ch(m))
    BY <1>17 DEF ReleaseAndWait, BufferAwaited
  <2>2. Stage(m) = "speaking" /\ Stage(m)' = "parked" /\ Others(m)
    BY <1>17, <2>1 DEF ReleaseAndWait
  <2> HIDE DEF Stage, Others
  <2> QED
    BY <2>2, MoveOne DEF Abstract!Park
<1>18. ASSUME NEW m \in Msgs, TakeMessage(m) PROVE StagesKept
  BY <1>18 DEF StagesKept, TakeMessage, Buffered, Ch
<1>19. ASSUME NEW m \in Msgs, TakeNil(m) PROVE FALSE
  BY <1>19 DEF TakeNil
<1>20. ASSUME NEW m \in Msgs, ReceiveCancelled(m) PROVE FALSE
  BY <1>20 DEF ReceiveCancelled
<1>21. ASSUME NEW m \in Msgs, Finish(m) PROVE Goal
  <2>1. CASE HasID(m)
    <3>1. Stage(m) = "speaking" /\ Stage(m)' = "left" /\ Others(m)
      BY <1>21, <2>1 DEF Finish
    <3> HIDE DEF Stage, Others
    <3> QED
      BY <3>1, MoveOne DEF Abstract!Leave
  <2>2. CASE ~HasID(m)
    BY <1>21, <2>2 DEF Finish, StagesKept
  <2> QED
    BY <2>1, <2>2
<1>22. ASSUME NEW m \in Msgs, Finalize(m) PROVE StagesKept
  BY <1>22 DEF StagesKept, Finalize, RemoveReceiver, NoChan, Buffered, Ch
<1>23. ASSUME UNCHANGED vars PROVE StagesKept
  BY <1>23 DEF StagesKept, vars
<1>24. ~Close
  BY DEF Close, CloseMove, CloseMark, CloseReceivers, CloseLocks, CloseCancel
<1> QED
  BY <1>1, <1>2, <1>3, <1>4, <1>5, <1>6, <1>7, <1>8, <1>9, <1>10, <1>11, <1>12, <1>13,
     <1>14, <1>15, <1>16, <1>17, <1>18, <1>19, <1>20, <1>21, <1>22, <1>23, <1>24
  DEF Next, Framework, Environment, Terminated

(* Every step of the code maps to a step of Floor or to none.                *)
LEMMA FloorStep ==
    ASSUME GInv, SInv, ~Timeouts, [Next]_vars PROVE [Abstract!Next]_(Abstract!vars)
<1>1. frame' = frame
  BY DEF Next, Framework, Environment, Close, Terminated, vars,
         HandleNextMessage, SetMessageID, RetryMessageID, GiveUpMessageID, NextCheck,
         FindReceiver, RunHandler, BeyondEnd, TakeReceiver, Deliver, DeliverPanics,
         DeliverAbandoned, CallNext, HandlerReturn, BeginReceive, Register, ReleaseAndWait,
         TakeMessage, TakeNil, ReceiveCancelled, Finish, Finalize,
         CloseMark, CloseReceivers, CloseLocks, CloseCancel
<1>2. [m \in Msgs |-> Id(m)]' = [m \in Msgs |-> Id(m)]
  BY <1>1 DEF Id
<1>3. CASE ~Open /\ ~Open'
  <2>1. StagesKept
    BY <1>3 DEF StagesKept, Stage
  <2> QED
    BY <1>2, <1>3, <2>1 DEF Abstract!vars, StagesKept
<1>4. CASE Open /\ ~Open'
  <2>1. \A m \in Msgs : Stage(m)' = "left"
    BY <1>4 DEF Stage
  <2> QED
    BY <1>2, <1>4, <2>1 DEF Abstract!Next, Abstract!Shut
<1>5. CASE Open /\ Open'
  <2>1. CASE StagesKept
    BY <1>2, <1>5, <2>1 DEF Abstract!vars, StagesKept
  <2>2. CASE \E m \in Msgs : \/ Abstract!Take(m) \/ Abstract!Park(m) \/ Abstract!Leave(m)
                            \/ \E o \in Msgs : Abstract!Pass(m, o)
    BY <1>2, <1>5, <2>2 DEF Abstract!Next
  <2> QED
    BY <1>5, <2>1, <2>2, StageMoves DEF SInv
<1> QED
  BY <1>3, <1>4, <1>5, OpenStep

(* The code starts where Floor starts.                                       *)
LEMMA FloorInit == Init => Abstract!Init
  BY DEF Init, Abstract!Init, Stage, Open, Running, Parked

(* For handlers that receive without timeouts, the locks, receivers and      *)
(* channels of the code implement Floor, with any number of messages, IDs    *)
(* and handlers: the floor is never shared, never stolen, and passed only    *)
(* from a message to a handler parked in the same conversation.              *)
THEOREM CodeImplementsFloor == ASSUME ~Timeouts PROVE Spec => ImplementsFloor
<1>1. GInv /\ SInv /\ [Next]_vars => [Abstract!Next]_(Abstract!vars)
  BY FloorStep
<1> QED
  BY <1>1, FloorInit, SInvariant, PTL DEF Spec, ImplementsFloor, Abstract!Spec
=============================================================================
