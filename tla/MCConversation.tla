-------------------------- MODULE MCConversation --------------------------
(* Conversation on a small instance. *)
EXTENDS Conversation

CONSTANTS w1, alice

OneWorker == {w1}
Alice == {alice}
Live == {"live"}
=============================================================================
