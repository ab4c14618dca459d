---------------------------- MODULE MCLifecycle ----------------------------
(* Small instances of Lifecycle for TLC. *)
EXTENDS Lifecycle

CONSTANTS w1, web, cli, fact

Worker == {w1}
Dashboard == {web}
OneFact == {fact}
=============================================================================
