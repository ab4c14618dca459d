---------------------------- MODULE MCDelivery ----------------------------
(* Small instances of Delivery for TLC. *)
EXTENDS Delivery, TLC

CONSTANTS w1, w2, alice

TwoWorkers == {w1, w2}
OneWorker == {w1}
Alice == {alice}
NoConversation == {}
CanaryShadow == {"canary", "shadow"}
Live == {"live"}

WorkerSymmetry == Permutations(TwoWorkers)
=============================================================================
