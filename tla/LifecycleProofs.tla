--------------------------- MODULE LifecycleProofs ---------------------------
(* Theorems about Lifecycle, for any number of handlers and messages.  The   *)
(* invariant says, phase by phase, how far the two handler chains have come. *)
EXTENDS Lifecycle, TLAPS

(* The handlers before the chain's next one ran once, the others not at all. *)
OpenedUpTo(n)  == \A h \in OpenHandlers : opened[h] = (IF h < n THEN 1 ELSE 0)
CleanedUpTo(n) == \A h \in CloseHandlers : cleaned[h] = (IF h < n THEN 1 ELSE 0)

Opening  == main \in {"openNext", "openHandler"}
Cleaning == main \in {"closeNext", "closeHandler"}
Leaving  == main \in {"locking", "hangup", "returned"}

OpeningInv ==
    Opening => /\ OpenedUpTo(at)
               /\ CleanedUpTo(1)
               /\ \A m \in Msgs : msgPc[m] = "unread"

ReadingInv ==
    /\ main \in {"read", "panicked"} => at = 1 /\ CleanedUpTo(1)
    /\ ~Opening => AllOpened \/ failed \/ Closed

CleaningInv ==
    /\ Cleaning => CleanedUpTo(at)
    /\ Leaving => AllCleaned
    /\ Cleaning \/ Leaving => Closed

ReasonInv ==
    /\ reason = first
    /\ sent # None => sent = reason

LInv == TypeOK /\ at > 0 /\ OpeningInv /\ ReadingInv /\ CleaningInv /\ ReasonInv

-----------------------------------------------------------------------------
(* Before the first open handler nothing has happened.                       *)
LEMMA LInvInit == Init => LInv
<1> SUFFICES ASSUME Init PROVE LInv
  OBVIOUS
<1> USE LifecycleAssumption DEF Init
<1>1. TypeOK
  BY DEF TypeOK, Mains, PingStates, MsgStates
<1>4. at > 0
  OBVIOUS
<1>2. OpeningInv
  BY DEF OpeningInv, Opening, OpenedUpTo, CleanedUpTo, OpenHandlers, CloseHandlers
<1>3. ReadingInv /\ CleaningInv /\ ReasonInv
  BY DEF ReadingInv, CleaningInv, ReasonInv, Opening, Cleaning, Leaving
<1> QED
  BY <1>1, <1>2, <1>3, <1>4 DEF LInv

(* Every step keeps the types.                                               *)
LEMMA TypeStep == TypeOK /\ [Next]_vars => TypeOK'
<1> SUFFICES ASSUME TypeOK, [Next]_vars PROVE TypeOK'
  OBVIOUS
<1> USE DEF TypeOK, Closed, At, chainVars, closeVars
<1>1. ASSUME RunOpenHandler PROVE TypeOK'
  BY <1>1 DEF RunOpenHandler, OpenMayRun, Mains
<1>2. ASSUME OpenChainEnds PROVE TypeOK'
  BY <1>2 DEF OpenChainEnds, OpenMayRun, Mains
<1>3. ASSUME OpenHandlerCallsNext PROVE TypeOK'
  BY <1>3 DEF OpenHandlerCallsNext, Mains
<1>4. ASSUME OpenHandlerReturns PROVE TypeOK'
  BY <1>4 DEF OpenHandlerReturns, Mains
<1>5. ASSUME OpenHandlerFails PROVE TypeOK'
  BY <1>5 DEF OpenHandlerFails, Mains
<1>6. ASSUME OpenHandlerCloses PROVE TypeOK'
  BY <1>6 DEF OpenHandlerCloses, CloseWith, Reasons
<1>7. ASSUME NEW m \in Msgs, ReadMessage(m) PROVE TypeOK'
  BY <1>7 DEF ReadMessage, MsgStates
<1>8. ASSUME ReadEnds PROVE TypeOK'
  BY <1>8 DEF ReadEnds, CloseWith, Mains, Reasons
<1>9. ASSUME ReadCanceled PROVE TypeOK'
  BY <1>9 DEF ReadCanceled, CloseWith, Mains, Reasons
<1>10. ASSUME ReadPanics PROVE TypeOK'
  BY <1>10 DEF ReadPanics, Mains
<1>11. ASSUME RunCloseHandler PROVE TypeOK'
  BY <1>11 DEF RunCloseHandler, Mains
<1>12. ASSUME CloseChainEnds PROVE TypeOK'
  BY <1>12 DEF CloseChainEnds, Mains
<1>13. ASSUME CloseHandlerCallsNext PROVE TypeOK'
  BY <1>13 DEF CloseHandlerCallsNext, Mains
<1>14. ASSUME CloseHandlerReturns PROVE TypeOK'
  BY <1>14 DEF CloseHandlerReturns, Mains
<1>15. ASSUME HangUp PROVE TypeOK'
  BY <1>15 DEF HangUp, Mains
<1>16. ASSUME Return PROVE TypeOK'
  BY <1>16 DEF Return, Mains
<1>17. ASSUME Tick PROVE TypeOK'
  BY <1>17 DEF Tick, PingStates
<1>18. ASSUME Pong PROVE TypeOK'
  BY <1>18 DEF Pong, PingStates
<1>19. ASSUME PingFails PROVE TypeOK'
  BY <1>19 DEF PingFails, PingStates
<1>20. ASSUME PingCloses PROVE TypeOK'
  BY <1>20 DEF PingCloses, CloseWith, PingStates, Reasons
<1>21. ASSUME PingStops PROVE TypeOK'
  BY <1>21 DEF PingStops, PingStates
<1>22. ASSUME NEW m \in Msgs, MsgStart(m) PROVE TypeOK'
  BY <1>22 DEF MsgStart, MsgGoes, MsgStates
<1>23. ASSUME NEW m \in Msgs, MsgReceives(m) PROVE TypeOK'
  BY <1>23 DEF MsgReceives, MsgGoes, MsgStates
<1>24. ASSUME NEW o \in Msgs, NEW m \in Msgs, MsgHandsOver(o, m) PROVE TypeOK'
  BY <1>24 DEF MsgHandsOver, MsgStates
<1>25. ASSUME NEW m \in Msgs, MsgCanceled(m) PROVE TypeOK'
  BY <1>25 DEF MsgCanceled, MsgGoes, MsgStates
<1>26. ASSUME NEW m \in Msgs, MsgCloses(m) PROVE TypeOK'
  BY <1>26 DEF MsgCloses, CloseWith, Reasons
<1>27. ASSUME NEW m \in Msgs, MsgEnds(m) PROVE TypeOK'
  BY <1>27 DEF MsgEnds, MsgGoes, MsgStates
<1>28. CASE UNCHANGED vars
  BY <1>28 DEF vars
<1> QED
  BY <1>1, <1>2, <1>3, <1>4, <1>5, <1>6, <1>7, <1>8, <1>9, <1>10, <1>11, <1>12, <1>13,
     <1>14, <1>15, <1>16, <1>17, <1>18, <1>19, <1>20, <1>21, <1>22, <1>23, <1>24, <1>25,
     <1>26, <1>27, <1>28
  DEF Next, Main, HandlerCalls, Reads, PingLoop, Msg, Terminated

(* Handlers are numbered from one.                                           *)
LEMMA AtStep == LInv /\ [Next]_vars => (at > 0)'
<1> SUFFICES ASSUME LInv, [Next]_vars PROVE (at > 0)'
  OBVIOUS
<1> USE LifecycleAssumption
     DEF LInv, TypeOK, OpenHandlers, CloseHandlers, Closed, At, chainVars, closeVars
<1>1. ASSUME RunOpenHandler PROVE (at > 0)'
  BY <1>1 DEF RunOpenHandler, OpenMayRun
<1>2. ASSUME OpenChainEnds PROVE (at > 0)'
  BY <1>2 DEF OpenChainEnds, OpenMayRun
<1>3. ASSUME OpenHandlerCallsNext PROVE (at > 0)'
  BY <1>3 DEF OpenHandlerCallsNext
<1>4. ASSUME OpenHandlerReturns PROVE (at > 0)'
  BY <1>4 DEF OpenHandlerReturns
<1>5. ASSUME OpenHandlerFails PROVE (at > 0)'
  BY <1>5 DEF OpenHandlerFails
<1>6. ASSUME OpenHandlerCloses PROVE (at > 0)'
  BY <1>6 DEF OpenHandlerCloses, CloseWith
<1>7. ASSUME NEW m \in Msgs, ReadMessage(m) PROVE (at > 0)'
  BY <1>7 DEF ReadMessage
<1>8. ASSUME ReadEnds PROVE (at > 0)'
  BY <1>8 DEF ReadEnds, CloseWith
<1>9. ASSUME ReadCanceled PROVE (at > 0)'
  BY <1>9 DEF ReadCanceled, CloseWith
<1>10. ASSUME ReadPanics PROVE (at > 0)'
  BY <1>10 DEF ReadPanics
<1>11. ASSUME RunCloseHandler PROVE (at > 0)'
  BY <1>11 DEF RunCloseHandler
<1>12. ASSUME CloseChainEnds PROVE (at > 0)'
  BY <1>12 DEF CloseChainEnds
<1>13. ASSUME CloseHandlerCallsNext PROVE (at > 0)'
  BY <1>13 DEF CloseHandlerCallsNext
<1>14. ASSUME CloseHandlerReturns PROVE (at > 0)'
  BY <1>14 DEF CloseHandlerReturns
<1>15. ASSUME HangUp PROVE (at > 0)'
  BY <1>15 DEF HangUp
<1>16. ASSUME Return PROVE (at > 0)'
  BY <1>16 DEF Return
<1>17. ASSUME Tick PROVE (at > 0)'
  BY <1>17 DEF Tick
<1>18. ASSUME Pong PROVE (at > 0)'
  BY <1>18 DEF Pong
<1>19. ASSUME PingFails PROVE (at > 0)'
  BY <1>19 DEF PingFails
<1>20. ASSUME PingCloses PROVE (at > 0)'
  BY <1>20 DEF PingCloses, CloseWith
<1>21. ASSUME PingStops PROVE (at > 0)'
  BY <1>21 DEF PingStops
<1>22. ASSUME NEW m \in Msgs, MsgStart(m) PROVE (at > 0)'
  BY <1>22 DEF MsgStart, MsgGoes
<1>23. ASSUME NEW m \in Msgs, MsgReceives(m) PROVE (at > 0)'
  BY <1>23 DEF MsgReceives, MsgGoes
<1>24. ASSUME NEW o \in Msgs, NEW m \in Msgs, MsgHandsOver(o, m) PROVE (at > 0)'
  BY <1>24 DEF MsgHandsOver
<1>25. ASSUME NEW m \in Msgs, MsgCanceled(m) PROVE (at > 0)'
  BY <1>25 DEF MsgCanceled, MsgGoes
<1>26. ASSUME NEW m \in Msgs, MsgCloses(m) PROVE (at > 0)'
  BY <1>26 DEF MsgCloses, CloseWith
<1>27. ASSUME NEW m \in Msgs, MsgEnds(m) PROVE (at > 0)'
  BY <1>27 DEF MsgEnds, MsgGoes
<1>28. CASE UNCHANGED vars
  BY <1>28 DEF vars
<1> QED
  BY <1>1, <1>2, <1>3, <1>4, <1>5, <1>6, <1>7, <1>8, <1>9, <1>10, <1>11, <1>12, <1>13,
     <1>14, <1>15, <1>16, <1>17, <1>18, <1>19, <1>20, <1>21, <1>22, <1>23, <1>24, <1>25,
     <1>26, <1>27, <1>28
  DEF Next, Main, HandlerCalls, Reads, PingLoop, Msg, Terminated

(* Every step keeps the open chain in order, and messages out of it.         *)
LEMMA OpeningStep == LInv /\ [Next]_vars => OpeningInv'
<1> SUFFICES ASSUME LInv, [Next]_vars PROVE OpeningInv'
  OBVIOUS
<1> USE LifecycleAssumption
     DEF LInv, TypeOK, OpeningInv, CleaningInv, OpenedUpTo, CleanedUpTo, Opening,
        Cleaning, Leaving, Closed, At, chainVars, closeVars
<1>1. ASSUME RunOpenHandler PROVE OpeningInv'
  BY <1>1 DEF RunOpenHandler, OpenMayRun
<1>2. ASSUME OpenChainEnds PROVE OpeningInv'
  BY <1>2 DEF OpenChainEnds, OpenMayRun
<1>3. ASSUME OpenHandlerCallsNext PROVE OpeningInv'
  BY <1>3 DEF OpenHandlerCallsNext
<1>4. ASSUME OpenHandlerReturns PROVE OpeningInv'
  BY <1>4 DEF OpenHandlerReturns
<1>5. ASSUME OpenHandlerFails PROVE OpeningInv'
  BY <1>5 DEF OpenHandlerFails
<1>6. ASSUME OpenHandlerCloses PROVE OpeningInv'
  BY <1>6 DEF OpenHandlerCloses, CloseWith
<1>7. ASSUME NEW m \in Msgs, ReadMessage(m) PROVE OpeningInv'
  BY <1>7 DEF ReadMessage
<1>8. ASSUME ReadEnds PROVE OpeningInv'
  BY <1>8 DEF ReadEnds, CloseWith
<1>9. ASSUME ReadCanceled PROVE OpeningInv'
  BY <1>9 DEF ReadCanceled, CloseWith
<1>10. ASSUME ReadPanics PROVE OpeningInv'
  BY <1>10 DEF ReadPanics
<1>11. ASSUME RunCloseHandler PROVE OpeningInv'
  BY <1>11 DEF RunCloseHandler
<1>12. ASSUME CloseChainEnds PROVE OpeningInv'
  BY <1>12 DEF CloseChainEnds
<1>13. ASSUME CloseHandlerCallsNext PROVE OpeningInv'
  BY <1>13 DEF CloseHandlerCallsNext
<1>14. ASSUME CloseHandlerReturns PROVE OpeningInv'
  BY <1>14 DEF CloseHandlerReturns
<1>15. ASSUME HangUp PROVE OpeningInv'
  BY <1>15 DEF HangUp
<1>16. ASSUME Return PROVE OpeningInv'
  BY <1>16 DEF Return
<1>17. ASSUME Tick PROVE OpeningInv'
  BY <1>17 DEF Tick
<1>18. ASSUME Pong PROVE OpeningInv'
  BY <1>18 DEF Pong
<1>19. ASSUME PingFails PROVE OpeningInv'
  BY <1>19 DEF PingFails
<1>20. ASSUME PingCloses PROVE OpeningInv'
  BY <1>20 DEF PingCloses, CloseWith
<1>21. ASSUME PingStops PROVE OpeningInv'
  BY <1>21 DEF PingStops
<1>22. ASSUME NEW m \in Msgs, MsgStart(m) PROVE OpeningInv'
  BY <1>22 DEF MsgStart, MsgGoes
<1>23. ASSUME NEW m \in Msgs, MsgReceives(m) PROVE OpeningInv'
  BY <1>23 DEF MsgReceives, MsgGoes
<1>24. ASSUME NEW o \in Msgs, NEW m \in Msgs, MsgHandsOver(o, m) PROVE OpeningInv'
  BY <1>24 DEF MsgHandsOver
<1>25. ASSUME NEW m \in Msgs, MsgCanceled(m) PROVE OpeningInv'
  BY <1>25 DEF MsgCanceled, MsgGoes
<1>26. ASSUME NEW m \in Msgs, MsgCloses(m) PROVE OpeningInv'
  BY <1>26 DEF MsgCloses, CloseWith
<1>27. ASSUME NEW m \in Msgs, MsgEnds(m) PROVE OpeningInv'
  BY <1>27 DEF MsgEnds, MsgGoes
<1>28. CASE UNCHANGED vars
  BY <1>28 DEF vars
<1> QED
  BY <1>1, <1>2, <1>3, <1>4, <1>5, <1>6, <1>7, <1>8, <1>9, <1>10, <1>11, <1>12, <1>13,
     <1>14, <1>15, <1>16, <1>17, <1>18, <1>19, <1>20, <1>21, <1>22, <1>23, <1>24, <1>25,
     <1>26, <1>27, <1>28
  DEF Next, Main, HandlerCalls, Reads, PingLoop, Msg, Terminated

(* Every step keeps what is known once the open chain is done.               *)
LEMMA ReadingStep == LInv /\ [Next]_vars => ReadingInv'
<1> SUFFICES ASSUME LInv, [Next]_vars PROVE ReadingInv'
  OBVIOUS
<1> USE LifecycleAssumption
     DEF LInv, TypeOK, OpeningInv, ReadingInv, OpenedUpTo, CleanedUpTo, AllOpened,
        Opening, OpenHandlers, Closed, At, chainVars, closeVars
<1>1. ASSUME RunOpenHandler PROVE ReadingInv'
  BY <1>1 DEF RunOpenHandler, OpenMayRun
<1>2. ASSUME OpenChainEnds PROVE ReadingInv'
  BY <1>2 DEF OpenChainEnds, OpenMayRun
<1>3. ASSUME OpenHandlerCallsNext PROVE ReadingInv'
  BY <1>3 DEF OpenHandlerCallsNext
<1>4. ASSUME OpenHandlerReturns PROVE ReadingInv'
  BY <1>4 DEF OpenHandlerReturns
<1>5. ASSUME OpenHandlerFails PROVE ReadingInv'
  BY <1>5 DEF OpenHandlerFails
<1>6. ASSUME OpenHandlerCloses PROVE ReadingInv'
  BY <1>6 DEF OpenHandlerCloses, CloseWith
<1>7. ASSUME NEW m \in Msgs, ReadMessage(m) PROVE ReadingInv'
  BY <1>7 DEF ReadMessage
<1>8. ASSUME ReadEnds PROVE ReadingInv'
  BY <1>8 DEF ReadEnds, CloseWith
<1>9. ASSUME ReadCanceled PROVE ReadingInv'
  BY <1>9 DEF ReadCanceled, CloseWith
<1>10. ASSUME ReadPanics PROVE ReadingInv'
  BY <1>10 DEF ReadPanics
<1>11. ASSUME RunCloseHandler PROVE ReadingInv'
  BY <1>11 DEF RunCloseHandler
<1>12. ASSUME CloseChainEnds PROVE ReadingInv'
  BY <1>12 DEF CloseChainEnds
<1>13. ASSUME CloseHandlerCallsNext PROVE ReadingInv'
  BY <1>13 DEF CloseHandlerCallsNext
<1>14. ASSUME CloseHandlerReturns PROVE ReadingInv'
  BY <1>14 DEF CloseHandlerReturns
<1>15. ASSUME HangUp PROVE ReadingInv'
  BY <1>15 DEF HangUp
<1>16. ASSUME Return PROVE ReadingInv'
  BY <1>16 DEF Return
<1>17. ASSUME Tick PROVE ReadingInv'
  BY <1>17 DEF Tick
<1>18. ASSUME Pong PROVE ReadingInv'
  BY <1>18 DEF Pong
<1>19. ASSUME PingFails PROVE ReadingInv'
  BY <1>19 DEF PingFails
<1>20. ASSUME PingCloses PROVE ReadingInv'
  BY <1>20 DEF PingCloses, CloseWith
<1>21. ASSUME PingStops PROVE ReadingInv'
  BY <1>21 DEF PingStops
<1>22. ASSUME NEW m \in Msgs, MsgStart(m) PROVE ReadingInv'
  BY <1>22 DEF MsgStart, MsgGoes
<1>23. ASSUME NEW m \in Msgs, MsgReceives(m) PROVE ReadingInv'
  BY <1>23 DEF MsgReceives, MsgGoes
<1>24. ASSUME NEW o \in Msgs, NEW m \in Msgs, MsgHandsOver(o, m) PROVE ReadingInv'
  BY <1>24 DEF MsgHandsOver
<1>25. ASSUME NEW m \in Msgs, MsgCanceled(m) PROVE ReadingInv'
  BY <1>25 DEF MsgCanceled, MsgGoes
<1>26. ASSUME NEW m \in Msgs, MsgCloses(m) PROVE ReadingInv'
  BY <1>26 DEF MsgCloses, CloseWith
<1>27. ASSUME NEW m \in Msgs, MsgEnds(m) PROVE ReadingInv'
  BY <1>27 DEF MsgEnds, MsgGoes
<1>28. CASE UNCHANGED vars
  BY <1>28 DEF vars
<1> QED
  BY <1>1, <1>2, <1>3, <1>4, <1>5, <1>6, <1>7, <1>8, <1>9, <1>10, <1>11, <1>12, <1>13,
     <1>14, <1>15, <1>16, <1>17, <1>18, <1>19, <1>20, <1>21, <1>22, <1>23, <1>24, <1>25,
     <1>26, <1>27, <1>28
  DEF Next, Main, HandlerCalls, Reads, PingLoop, Msg, Terminated

(* Every step keeps the close chain in order.                                *)
LEMMA CleaningStep == LInv /\ [Next]_vars => CleaningInv'
<1> SUFFICES ASSUME LInv, [Next]_vars PROVE CleaningInv'
  OBVIOUS
<1> USE LifecycleAssumption
     DEF LInv, TypeOK, ReadingInv, CleaningInv, CleanedUpTo, AllCleaned, Cleaning,
        Leaving, CloseHandlers, Closed, At, chainVars, closeVars
<1>1. ASSUME RunOpenHandler PROVE CleaningInv'
  BY <1>1 DEF RunOpenHandler, OpenMayRun
<1>2. ASSUME OpenChainEnds PROVE CleaningInv'
  BY <1>2 DEF OpenChainEnds, OpenMayRun
<1>3. ASSUME OpenHandlerCallsNext PROVE CleaningInv'
  BY <1>3 DEF OpenHandlerCallsNext
<1>4. ASSUME OpenHandlerReturns PROVE CleaningInv'
  BY <1>4 DEF OpenHandlerReturns
<1>5. ASSUME OpenHandlerFails PROVE CleaningInv'
  BY <1>5 DEF OpenHandlerFails
<1>6. ASSUME OpenHandlerCloses PROVE CleaningInv'
  BY <1>6 DEF OpenHandlerCloses, CloseWith
<1>7. ASSUME NEW m \in Msgs, ReadMessage(m) PROVE CleaningInv'
  BY <1>7 DEF ReadMessage
<1>8. ASSUME ReadEnds PROVE CleaningInv'
  <2>1. PICK r \in {"close frame", "eof"} : CloseWith(r)
    BY <1>8 DEF ReadEnds
  <2>2. r # None
    BY DEF Reasons
  <2>3. Closed'
    BY <2>1, <2>2 DEF CloseWith
  <2> QED
    BY <1>8, <2>3 DEF ReadEnds
<1>9. ASSUME ReadCanceled PROVE CleaningInv'
  BY <1>9 DEF ReadCanceled, CloseWith
<1>10. ASSUME ReadPanics PROVE CleaningInv'
  BY <1>10 DEF ReadPanics
<1>11. ASSUME RunCloseHandler PROVE CleaningInv'
  BY <1>11 DEF RunCloseHandler
<1>12. ASSUME CloseChainEnds PROVE CleaningInv'
  BY <1>12 DEF CloseChainEnds
<1>13. ASSUME CloseHandlerCallsNext PROVE CleaningInv'
  BY <1>13 DEF CloseHandlerCallsNext
<1>14. ASSUME CloseHandlerReturns PROVE CleaningInv'
  BY <1>14 DEF CloseHandlerReturns
<1>15. ASSUME HangUp PROVE CleaningInv'
  BY <1>15 DEF HangUp
<1>16. ASSUME Return PROVE CleaningInv'
  BY <1>16 DEF Return
<1>17. ASSUME Tick PROVE CleaningInv'
  BY <1>17 DEF Tick
<1>18. ASSUME Pong PROVE CleaningInv'
  BY <1>18 DEF Pong
<1>19. ASSUME PingFails PROVE CleaningInv'
  BY <1>19 DEF PingFails
<1>20. ASSUME PingCloses PROVE CleaningInv'
  BY <1>20 DEF PingCloses, CloseWith
<1>21. ASSUME PingStops PROVE CleaningInv'
  BY <1>21 DEF PingStops
<1>22. ASSUME NEW m \in Msgs, MsgStart(m) PROVE CleaningInv'
  BY <1>22 DEF MsgStart, MsgGoes
<1>23. ASSUME NEW m \in Msgs, MsgReceives(m) PROVE CleaningInv'
  BY <1>23 DEF MsgReceives, MsgGoes
<1>24. ASSUME NEW o \in Msgs, NEW m \in Msgs, MsgHandsOver(o, m) PROVE CleaningInv'
  BY <1>24 DEF MsgHandsOver
<1>25. ASSUME NEW m \in Msgs, MsgCanceled(m) PROVE CleaningInv'
  BY <1>25 DEF MsgCanceled, MsgGoes
<1>26. ASSUME NEW m \in Msgs, MsgCloses(m) PROVE CleaningInv'
  BY <1>26 DEF MsgCloses, CloseWith
<1>27. ASSUME NEW m \in Msgs, MsgEnds(m) PROVE CleaningInv'
  BY <1>27 DEF MsgEnds, MsgGoes
<1>28. CASE UNCHANGED vars
  BY <1>28 DEF vars
<1> QED
  BY <1>1, <1>2, <1>3, <1>4, <1>5, <1>6, <1>7, <1>8, <1>9, <1>10, <1>11, <1>12, <1>13,
     <1>14, <1>15, <1>16, <1>17, <1>18, <1>19, <1>20, <1>21, <1>22, <1>23, <1>24, <1>25,
     <1>26, <1>27, <1>28
  DEF Next, Main, HandlerCalls, Reads, PingLoop, Msg, Terminated

(* Every step keeps the first reason.                                        *)
LEMMA ReasonStep == LInv /\ [Next]_vars => ReasonInv'
<1> SUFFICES ASSUME LInv, [Next]_vars PROVE ReasonInv'
  OBVIOUS
<1> USE LifecycleAssumption
     DEF LInv, TypeOK, ReasonInv, CleaningInv, Reasons, Cleaning, Leaving, Closed, At,
        chainVars, closeVars
<1>1. ASSUME RunOpenHandler PROVE ReasonInv'
  BY <1>1 DEF RunOpenHandler, OpenMayRun
<1>2. ASSUME OpenChainEnds PROVE ReasonInv'
  BY <1>2 DEF OpenChainEnds, OpenMayRun
<1>3. ASSUME OpenHandlerCallsNext PROVE ReasonInv'
  BY <1>3 DEF OpenHandlerCallsNext
<1>4. ASSUME OpenHandlerReturns PROVE ReasonInv'
  BY <1>4 DEF OpenHandlerReturns
<1>5. ASSUME OpenHandlerFails PROVE ReasonInv'
  BY <1>5 DEF OpenHandlerFails
<1>6. ASSUME OpenHandlerCloses PROVE ReasonInv'
  BY <1>6 DEF OpenHandlerCloses, CloseWith
<1>7. ASSUME NEW m \in Msgs, ReadMessage(m) PROVE ReasonInv'
  BY <1>7 DEF ReadMessage
<1>8. ASSUME ReadEnds PROVE ReasonInv'
  BY <1>8 DEF ReadEnds, CloseWith
<1>9. ASSUME ReadCanceled PROVE ReasonInv'
  BY <1>9 DEF ReadCanceled, CloseWith
<1>10. ASSUME ReadPanics PROVE ReasonInv'
  BY <1>10 DEF ReadPanics
<1>11. ASSUME RunCloseHandler PROVE ReasonInv'
  BY <1>11 DEF RunCloseHandler
<1>12. ASSUME CloseChainEnds PROVE ReasonInv'
  BY <1>12 DEF CloseChainEnds
<1>13. ASSUME CloseHandlerCallsNext PROVE ReasonInv'
  BY <1>13 DEF CloseHandlerCallsNext
<1>14. ASSUME CloseHandlerReturns PROVE ReasonInv'
  BY <1>14 DEF CloseHandlerReturns
<1>15. ASSUME HangUp PROVE ReasonInv'
  BY <1>15 DEF HangUp
<1>16. ASSUME Return PROVE ReasonInv'
  BY <1>16 DEF Return
<1>17. ASSUME Tick PROVE ReasonInv'
  BY <1>17 DEF Tick
<1>18. ASSUME Pong PROVE ReasonInv'
  BY <1>18 DEF Pong
<1>19. ASSUME PingFails PROVE ReasonInv'
  BY <1>19 DEF PingFails
<1>20. ASSUME PingCloses PROVE ReasonInv'
  BY <1>20 DEF PingCloses, CloseWith
<1>21. ASSUME PingStops PROVE ReasonInv'
  BY <1>21 DEF PingStops
<1>22. ASSUME NEW m \in Msgs, MsgStart(m) PROVE ReasonInv'
  BY <1>22 DEF MsgStart, MsgGoes
<1>23. ASSUME NEW m \in Msgs, MsgReceives(m) PROVE ReasonInv'
  BY <1>23 DEF MsgReceives, MsgGoes
<1>24. ASSUME NEW o \in Msgs, NEW m \in Msgs, MsgHandsOver(o, m) PROVE ReasonInv'
  BY <1>24 DEF MsgHandsOver
<1>25. ASSUME NEW m \in Msgs, MsgCanceled(m) PROVE ReasonInv'
  BY <1>25 DEF MsgCanceled, MsgGoes
<1>26. ASSUME NEW m \in Msgs, MsgCloses(m) PROVE ReasonInv'
  BY <1>26 DEF MsgCloses, CloseWith
<1>27. ASSUME NEW m \in Msgs, MsgEnds(m) PROVE ReasonInv'
  BY <1>27 DEF MsgEnds, MsgGoes
<1>28. CASE UNCHANGED vars
  BY <1>28 DEF vars
<1> QED
  BY <1>1, <1>2, <1>3, <1>4, <1>5, <1>6, <1>7, <1>8, <1>9, <1>10, <1>11, <1>12, <1>13,
     <1>14, <1>15, <1>16, <1>17, <1>18, <1>19, <1>20, <1>21, <1>22, <1>23, <1>24, <1>25,
     <1>26, <1>27, <1>28
  DEF Next, Main, HandlerCalls, Reads, PingLoop, Msg, Terminated

(* The invariant holds for ever.                                             *)
LEMMA LInvariant == Spec => []LInv
  <1>1. LInv /\ [Next]_vars => LInv'
  BY TypeStep, AtStep, OpeningStep, ReadingStep, CleaningStep, ReasonStep DEF LInv
<1> QED
  BY <1>1, LInvInit, PTL DEF Spec

-----------------------------------------------------------------------------
(* The variables keep their types.                                           *)
THEOREM LifecycleTypes == Spec => []TypeOK
  BY LInvariant, PTL DEF LInv

(* When HandleConnection returns, every close handler ran exactly once and   *)
(* the socket is closed.                                                     *)
THEOREM CleanupGuaranteed == Spec => []CleanupBeforeStop
<1>1. LInv => CleanupBeforeStop
  BY DEF LInv, CleaningInv, CleanupBeforeStop, AllCleaned, Leaving
<1> QED
  BY <1>1, LInvariant, PTL

(* The peer is told the status of the first Close.                           *)
THEOREM PeerToldFirst == Spec => []FirstReasonSent
<1>1. LInv => FirstReasonSent
  BY DEF LInv, ReasonInv, FirstReasonSent
<1> QED
  BY <1>1, LInvariant, PTL

(* Close handlers find the socket closed and the first reason in it.         *)
THEOREM CleanupKnowsWhy == Spec => []CloseHandlersKnowWhy
<1>1. LInv => CloseHandlersKnowWhy
  BY DEF LInv, CleaningInv, ReasonInv, CloseHandlersKnowWhy, Cleaning, Leaving
<1> QED
  BY <1>1, LInvariant, PTL

(* No message is handled before the open handlers are done.                  *)
THEOREM OpensFirst == Spec => []OpenedBeforeMessages
<1>1. LInv => OpenedBeforeMessages
  BY DEF LInv, OpeningInv, ReadingInv, OpenedBeforeMessages
<1> QED
  BY <1>1, LInvariant, PTL
=============================================================================
