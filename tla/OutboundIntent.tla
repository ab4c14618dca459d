-------------------------- MODULE OutboundIntent --------------------------
(***************************************************************************)
(* What the delivery table promises about the messages the bridge decides  *)
(* to send, without workers, leases or transactions.  An intent is         *)
(* accepted, its message reaches the customer at most once, and the        *)
(* outcome that is recorded never contradicts what the customer got: an    *)
(* outcome of which the bridge cannot be sure is recorded as "uncertain".  *)
(***************************************************************************)
EXTENDS Naturals

CONSTANT Intent  \* the identities of the intents that may be accepted

VARIABLES outcome,  \* what the bridge has recorded of each intent
          copies    \* how many copies of its message the customer has

vars == <<outcome, copies>>

Outcome == {"none", "open", "delivered", "rejected", "withheld", "uncertain"}

Init == /\ outcome = [i \in Intent |-> "none"]
        /\ copies = [i \in Intent |-> 0]

Accept(i) == /\ outcome[i] = "none"
             /\ outcome' = [outcome EXCEPT ![i] = "open"]
             /\ UNCHANGED copies

(* The message may still leave after the bridge gave up waiting for it,    *)
(* but never once the bridge has said that it did not leave.               *)
Transmit(i) == /\ outcome[i] \in {"open", "uncertain"}
               /\ copies[i] = 0
               /\ copies' = [copies EXCEPT ![i] = 1]
               /\ UNCHANGED outcome

Conclude(i, o) == /\ outcome[i] = "open"
                  /\ o = "delivered" => copies[i] = 1
                  /\ o \in {"rejected", "withheld"} => copies[i] = 0
                  /\ outcome' = [outcome EXCEPT ![i] = o]
                  /\ UNCHANGED copies

(* An uncertain intent is only ever found not to have been sent.           *)
Withdraw(i) == /\ outcome[i] = "uncertain"
               /\ copies[i] = 0
               /\ outcome' = [outcome EXCEPT ![i] = "withheld"]
               /\ UNCHANGED copies

Step(i) == \/ Accept(i)
           \/ Transmit(i)
           \/ \E o \in {"delivered", "rejected", "withheld", "uncertain"} :
                 Conclude(i, o)
           \/ Withdraw(i)

(* Recovery settles every expired intent in one transaction, so one step   *)
(* may make several intents uncertain.                                     *)
GiveUp(I) == /\ I # {}
             /\ \A i \in I : outcome[i] = "open"
             /\ outcome' = [i \in Intent |-> IF i \in I THEN "uncertain" ELSE outcome[i]]
             /\ UNCHANGED copies

Next == \/ \E i \in Intent : Step(i)
        \/ \E I \in SUBSET Intent : GiveUp(I)

Spec == Init /\ [][Next]_vars
=============================================================================
