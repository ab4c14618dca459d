-------------------------- MODULE MessagePromise --------------------------
(***************************************************************************)
(* What the bridge promises about the messages of its customers, without   *)
(* queues, workers, leases, deliveries or crashes.  A message waits until  *)
(* somebody or something decides on it, a later message of its thread      *)
(* takes its place, or it is parked for a person.  The bot answers a       *)
(* message once at most, only after the decision, and never after it       *)
(* answered a later message of the thread.                                 *)
(***************************************************************************)
EXTENDS Naturals, Sequences

CONSTANTS Thread,  \* the conversations
          Message  \* 1 .. n, the messages that may arrive

VARIABLES threads,  \* the conversation of each message, in their order
          fate,     \* what became of a message
          copies    \* how many answers of the bot to it the customer has

vars == <<threads, fate, copies>>

Fate == {"none", "waiting", "decided", "aside", "parked", "dismissed"}

Undecided == {"waiting", "parked", "dismissed"}

Later(m) == {n \in DOMAIN threads : n > m /\ threads[n] = threads[m]}

Init == /\ threads = <<>>
        /\ fate = [m \in Message |-> "none"]
        /\ copies = [m \in Message |-> 0]

Arrive(c) == /\ Len(threads) + 1 \in Message
             /\ threads' = Append(threads, c)
             /\ fate' = [fate EXCEPT ![Len(threads) + 1] = "waiting"]
             /\ UNCHANGED copies

Become(m, f) == /\ fate' = [fate EXCEPT ![m] = f]
                /\ UNCHANGED <<threads, copies>>

(* A person may answer what was parked or dismissed.                       *)
Decide(m) == fate[m] \in Undecided /\ Become(m, "decided")

(* A person tries again what was parked; a worker that still had a message *)
(* in hand when it was parked, or even dismissed, reports late.            *)
Return(m) == /\ fate[m] \in {"parked", "dismissed"}
             /\ Become(m, "waiting") \/ Become(m, "parked")

Dismiss(m) == fate[m] = "parked" /\ Become(m, "dismissed")

(* Some messages are set aside for a later one that is not; recovery parks *)
(* every message it gives up.                                              *)
SetAside(M) == /\ M # {}
               /\ \A m \in M : fate[m] \in Undecided /\ Later(m) \ M # {}
               /\ fate' = [m \in Message |-> IF m \in M THEN "aside" ELSE fate[m]]
               /\ UNCHANGED <<threads, copies>>

Park(M) == /\ M # {}
           /\ \A m \in M : fate[m] = "waiting"
           /\ fate' = [m \in Message |-> IF m \in M THEN "parked" ELSE fate[m]]
           /\ UNCHANGED <<threads, copies>>

Answer(m) == /\ fate[m] = "decided"
             /\ copies[m] = 0
             /\ \A n \in Later(m) : copies[n] = 0
             /\ copies' = [copies EXCEPT ![m] = 1]
             /\ UNCHANGED <<threads, fate>>

Next == \/ \E c \in Thread : Arrive(c)
        \/ \E m \in Message : Decide(m) \/ Return(m) \/ Dismiss(m) \/ Answer(m)
        \/ \E M \in SUBSET Message : SetAside(M) \/ Park(M)

Spec == Init /\ [][Next]_vars
=============================================================================
