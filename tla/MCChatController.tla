---------------------------- MODULE MCChatController ----------------------------
(* A chat with a few messages of each kind, each of which may be edited once. *)
EXTENDS ChatController

First == [at |-> 1, says |-> 0]
Rewritten(at) == [at |-> at, says |-> 1]

\* The first message is edited in its second, the second message in a later one.
MCEdits == {<<1, First, Rewritten(1)>>, <<2, First, Rewritten(2)>>}

\* Each is edited in its second or in a later one.
AllEdits == {<<m, First, Rewritten(at)>> : m \in Message, at \in {1, 2}}
=============================================================================
