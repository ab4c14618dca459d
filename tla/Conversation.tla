--------------------------- MODULE Conversation ---------------------------
(***************************************************************************)
(* The road of a message from its acceptance to its answer: JobQueue and   *)
(* Delivery under one worker process and one set of conversations.         *)
(*                                                                         *)
(* Executor.run_once first serves the outbox and turns to the jobs when no *)
(* delivery is pending; the transaction that records the action of a job   *)
(* inserts its delivery; a message and a human reply are written to both   *)
(* halves in one transaction; a crash takes both away.  Every step is a    *)
(* step of one half or of both at once.                                    *)
(***************************************************************************)
EXTENDS Naturals, Sequences, FiniteSets

CONSTANTS
  Workers,                \* worker processes
  Conversations,
  SendableConversations,  \* see Delivery
  CanaryConversations,    \* see Delivery
  Modes,                  \* see Delivery
  MaxAttempts,            \* settings.max_attempts
  Debounce,               \* response_debounce_seconds is not 0
  MaxJobs,                \* bound: messages ever accepted
  MaxDeliveries,          \* bound: rows ever inserted in deliveries
  MaxReplies,             \* bound: human replies
  MaxRetries,             \* bound: dead-letter jobs retried by an operator
  MaxInterventions,       \* bound: acts of operators, of whatever kind
  MaxCrashes              \* bound: crashes of worker processes

ASSUME ConversationConstants ==  \* what the two halves assume of them
  /\ SendableConversations \subseteq Conversations
  /\ CanaryConversations \subseteq Conversations
  /\ Modes \subseteq {"shadow", "dry-run", "canary", "live"} /\ Modes # {}
  /\ "none" \notin Conversations
  /\ MaxAttempts \in Nat \ {0}
  /\ Debounce \in BOOLEAN
  /\ {MaxJobs, MaxDeliveries, MaxReplies, MaxRetries, MaxInterventions, MaxCrashes} \subseteq Nat

VARIABLES  \* of JobQueue, under its names
  jobs, state, attempts, due, leaseOver, successor, eventStatus, actions, pc, run,
  replies, retries

VARIABLES  \* of Delivery, under its names but for three
  row, status,
  posts,      \* deliveries.attempts
  postOver,   \* deliveries.lease_expires_at has passed
  postPc,     \* where each worker is in DeliveryExecutor.run_once
  attemptLog, actionState, review, lastEvent, pause, convStatus, mode, held, heldAttempt,
  accepted, requests, delivered

VARIABLES crashes,       \* of the worker processes, and so of both
          interventions  \* counts against MaxInterventions

J == INSTANCE JobQueue
D == INSTANCE Delivery
       WITH attempts <- posts, leaseOver <- postOver, pc <- postPc, MaxEvents <- MaxJobs

jobSide == <<jobs, state, attempts, due, leaseOver, successor, eventStatus, actions, pc,
             run, replies, retries>>
outboxSide == <<row, status, posts, postOver, postPc, attemptLog, actionState, review,
                lastEvent, pause, convStatus, mode, held, heldAttempt, accepted, requests,
                delivered>>
vars == <<jobSide, outboxSide, crashes, interventions>>

(* A step of the one half that leaves the other alone.                     *)
JobsIdle == UNCHANGED <<jobSide, interventions>>
OutboxIdle == UNCHANGED <<outboxSide, interventions>>
Together == UNCHANGED interventions

(* Delivery numbers the messages of each conversation, JobQueue all.       *)
EventOf(j) == Cardinality({k \in J!JobsOf(jobs[j]) : k <= j})

Init == J!Init /\ D!Init /\ interventions = 0

-----------------------------------------------------------------------------
(* Executor.run_once                                                       *)

(* DeliveryExecutor.run_once comes first, between two runs of a job.       *)
ServeOutbox(w) ==
  /\ pc[w] = "idle"
  /\ \/ D!RecoverStale(w) \/ D!ClaimOldest(w) \/ D!ClaimNothing(w)
     \/ D!ReadContext(w) \/ D!ReadMode(w) \/ D!ReadFreshness(w)
     \/ D!Suppress(w) \/ D!Send(w)
     \/ D!FinishSent(w) \/ D!FinishRejected(w) \/ D!FinishAmbiguous(w)
  /\ JobsIdle

(* The queue, when it found nothing to send, and the steps of a run that   *)
(* leave the outbox alone.                                                 *)
TurnToJobs(w) ==
  /\ postPc[w] = "jobs"
  /\ J!RecoverStale(w)
  /\ OutboxIdle

RunJob(w) ==
  /\ \/ J!ClaimNext(w) \/ J!LookForAction(w) \/ J!CheckFresh(w)
     \/ J!CheckExecution(w) \/ J!Execute(w) \/ J!FindNewest(w)
  /\ OutboxIdle

(* Mutant: the delivery is left to a later transaction.                    *)
QueueAnswerLater(w, j) == OutboxIdle

QueueAnswer(w, j) ==
  /\ D!EnqueueBot(w) /\ Together
  /\ \E d \in D!Delivery :
       row' = [row EXCEPT ![d] =
         [conversation |-> jobs[j], author |-> "bot", event |-> EventOf(j)]]

OpenReview(w, j) ==
  /\ D!AskOperator(w) /\ Together
  /\ convStatus' = [convStatus EXCEPT ![jobs[j]] = "pending_review"]

(* One transaction: the action, and its delivery or its review.            *)
Decide(w) ==
  /\ J!InsertAction(w)
  /\ LET j == run[w].job
         kind == actions'[j][run'[w].action].kind
     IN \/ kind = "delivery" /\ QueueAnswer(w, j)
        \/ kind = "review" /\ OpenReview(w, j)
        \/ kind = "no_action" /\ OutboxIdle

EndRun(w) ==
  /\ J!Complete(w) \/ J!Supersede(w) \/ J!Fail(w) \/ J!ClaimNothing(w)
  /\ IF postPc[w] = "jobs" THEN D!EnqueueNothing(w) /\ Together ELSE OutboxIdle

Crash(w) == D!Crash(w) /\ J!Crash(w) /\ Together

Restart(w) ==
  /\ D!Restart(w)
  /\ IF pc[w] = "down" THEN J!Restart(w) /\ Together ELSE JobsIdle

WorkerStep(w) ==
  ServeOutbox(w) \/ TurnToJobs(w) \/ RunJob(w) \/ Decide(w) \/ EndRun(w) \/ Restart(w)

-----------------------------------------------------------------------------
(* Customers, operators and time.                                          *)

Enqueue(c) == J!Enqueue(c) /\ D!Inbound(c) /\ Together

Intervene ==
  /\ interventions < MaxInterventions
  /\ interventions' = interventions + 1

HumanReply(c) == J!HumanReply(c) /\ D!HumanReply(c) /\ Intervene

JobOperator ==
  /\ Intervene
  /\ J!RecoverByHand \/ \E j \in J!Job : J!Retry(j) \/ J!Dismiss(j)
  /\ UNCHANGED outboxSide

ConversationOperator ==
  /\ Intervene
  /\ \/ \E c \in Conversations :
          \/ \E paused \in BOOLEAN : D!SetBotPaused(c, paused)
          \/ \E s \in {"open", "resolved"} : D!SetConversationStatus(c, s)
     \/ \E m \in Modes : D!SetMode(m)
     \/ \E d \in D!Delivery, target \in {"prepared", "rejected", "resolved"} :
          D!TransitionReview(d, target)
  /\ UNCHANGED jobSide

JobTime(j) == (J!BecomeDue(j) \/ J!LeaseExpires(j)) /\ OutboxIdle

DeliveryTime(d) == D!LeaseExpires(d) /\ JobsIdle

-----------------------------------------------------------------------------

Next ==
  \/ \E w \in Workers : WorkerStep(w) \/ Crash(w)
  \/ \E c \in Conversations : Enqueue(c) \/ HumanReply(c)
  \/ JobOperator
  \/ ConversationOperator
  \/ \E j \in J!Job : JobTime(j)
  \/ \E d \in D!Delivery : DeliveryTime(d)

Spec == Init /\ [][Next]_vars

(* As in the two halves: the worker goes on and is restarted, and time     *)
(* passes.                                                                 *)
FairSpec ==
  /\ Spec
  /\ \A w \in Workers : WF_vars(WorkerStep(w))
  /\ \A j \in J!Job : WF_vars(J!BecomeDue(j) /\ OutboxIdle)
                      /\ WF_vars(J!LeaseExpires(j) /\ OutboxIdle)
  /\ \A d \in D!Delivery : WF_vars(DeliveryTime(d))

-----------------------------------------------------------------------------
(* Properties                                                              *)

AnswersTo(j) ==
  {d \in D!Delivery : row[d].author = "bot" /\ row[d].conversation = jobs[j]
                      /\ row[d].event = EventOf(j)}

BotAnswers(j) ==
  {i \in 1..Len(actions[j]) :
     actions[j][i].author = "bot" /\ actions[j][i].kind = "delivery"}

fateBar == [j \in J!Job |->
  IF actions[j] # <<>> THEN "decided"
  ELSE CASE state[j] = "none" -> "none"
         [] state[j] \in J!Open -> "waiting"
         [] state[j] = "superseded" -> "aside"
         [] state[j] = "dead_letter" -> "parked"
         [] state[j] = "dismissed" -> "dismissed"
         [] state[j] = "completed" -> "lost"]

copiesBar == [j \in J!Job |->
  IF j \in J!Inserted
    THEN Cardinality(UNION {{d} \X (1 .. delivered[d]) : d \in AnswersTo(j)})
    ELSE 0]

Promise == INSTANCE MessagePromise
             WITH Thread <- Conversations, Message <- J!Job,
                  threads <- jobs, fate <- fateBar, copies <- copiesBar

(* "One answer": through crashes, expired leases, retries and reviews the  *)
(* customer gets one answer of the bot to a message at most, answers come  *)
(* in the order of the messages, only to messages that were decided on,    *)
(* and what is set aside has a later message that is not.                  *)
ImplementsPromise == Promise!Spec

(* A message is seen to when it was set aside, handed to a person, decided *)
(* without an answer, or its answer was sent or is in the review queue.    *)
SeenTo(j) ==
  \/ state[j] \in {"superseded", "dead_letter", "dismissed"}
  \/ /\ state[j] = "completed"
     /\ BotAnswers(j) # {} => AnswersTo(j) # {}
     /\ \A d \in AnswersTo(j) : status[d] = "sent" \/ review[d] # D!NoReview

(* Every message that was accepted is seen to, whatever crashes on the way *)
(* between the queue, the provider, the outbox and Instagram.              *)
EverySeenTo == \A j \in J!Job : state[j] # "none" ~> state[j] # "none" /\ SeenTo(j)
=============================================================================
