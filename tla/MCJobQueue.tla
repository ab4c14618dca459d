---------------------------- MODULE MCJobQueue ----------------------------
(* JobQueue on small instances.                                            *)
EXTENDS JobQueue, TLC

CONSTANTS w1, w2, alice, bob

OneWorker == {w1}
TwoWorkers == {w1, w2}
Alice == {alice}
AliceAndBob == {alice, bob}

WorkerSymmetry == Permutations(TwoWorkers)
=============================================================================
