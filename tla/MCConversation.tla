--------------------------- MODULE MCConversation ---------------------------
(* Conversation on small instances: two or three messages, two paths, a      *)
(* middleware at position 1 that both paths reach, and a handler at position *)
(* 2 that only path "chat" reaches.                                          *)
EXTENDS Conversation, TLC

CONSTANTS chat, ping, i1, i2

MCMatching == (chat :> {1, 2}) @@ (ping :> {1})

F(id, path, empty) == [id |-> id, path |-> path, empty |-> empty]

(* one conversation; messages that carry data *)
FullFrames == {F(i1, p, FALSE) : p \in Paths}

(* two conversations on one path *)
TwoFrames == {F(i, chat, FALSE) : i \in Ids}

(* one conversation on two paths, and messages that belong to none *)
LooseFrames == FullFrames \cup {F(NoId, chat, FALSE)}

(* all there is *)
MixedFrames == LooseFrames \cup {F(i1, chat, TRUE), F(i2, chat, FALSE)}

(* The promises of an open socket end with Close, which is never undone: a    *)
(* run that checks only them need not go on behind the first step of Close.  *)
WhileOpen == Open

MsgSymmetry == Permutations(Msgs)
=============================================================================
