---------------------------- MODULE MCReviewDesk ----------------------------
(* ReviewDesk on small instances.                                          *)
EXTENDS ReviewDesk, TLC

CONSTANTS t1, t2, alice

TwoThreads == {t1, t2}
Alice == {alice}

ThreadSymmetry == Permutations(TwoThreads)
=============================================================================
