----------------------------- MODULE MCBackups -----------------------------
(* Backups with a short retention.                                         *)
EXTENDS Backups

KeepOne == [kind \in Scheduled |-> 1]
=============================================================================
