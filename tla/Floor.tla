-------------------------------- MODULE Floor --------------------------------
(* What message-ID locking and receivers promise together, without locks,    *)
(* channels or handler chains: in each conversation at most one message has  *)
(* the floor.  Who has it may leave, or park and listen (Receive); a later   *)
(* message that gets the floor may pass it to a parked one and leave.  Nobody*)
(* else wakes a parked message.  When the socket shuts the promise ends.     *)
CONSTANTS Msgs, NoId

VARIABLES topic,  \* the conversation of each message, never changed
          stage,  \* where each message is
          shut    \* the socket has been closed

vars == <<topic, stage, shut>>

Stages == {"waiting", "speaking", "parked", "left"}

Move(m, from, to) == stage[m] = from /\ stage' = [stage EXCEPT ![m] = to]

Take(m) ==
    /\ topic[m] # NoId
    /\ \A o \in Msgs : topic[o] = topic[m] => stage[o] # "speaking"
    /\ Move(m, "waiting", "speaking")

Park(m)  == Move(m, "speaking", "parked")
Leave(m) == Move(m, "speaking", "left")

Pass(m, o) ==
    /\ topic[m] = topic[o]
    /\ stage[m] = "speaking"
    /\ stage[o] = "parked"
    /\ stage' = [stage EXCEPT ![m] = "left", ![o] = "speaking"]

Shut == shut' = TRUE /\ stage' = [m \in Msgs |-> "left"] /\ UNCHANGED topic

Init ==
    /\ stage = [m \in Msgs |-> "waiting"]
    /\ shut = FALSE

Next ==
    \/ Shut
    \/ /\ ~shut
       /\ UNCHANGED <<topic, shut>>
       /\ \E m \in Msgs : Take(m) \/ Park(m) \/ Leave(m) \/ \E o \in Msgs : Pass(m, o)

Spec == Init /\ [][Next]_vars
=============================================================================
