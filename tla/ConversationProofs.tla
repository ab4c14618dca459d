------------------------- MODULE ConversationProofs -------------------------
(***************************************************************************)
(* The composition of the queue and the outbox restricts each half to      *)
(* behaviours it has by itself: what is proved of JobQueue and of Delivery *)
(* holds of the whole, for every instance.  With one worker it keeps the   *)
(* promise of MessagePromise.                                              *)
(***************************************************************************)
EXTENDS Conversation, SequenceTheorems, FiniteSetTheorems, TLAPS

-----------------------------------------------------------------------------
(* A half that is left alone stutters.                                     *)

LEMMA JobsStutter == ASSUME UNCHANGED <<jobSide, crashes>> PROVE UNCHANGED J!vars
  BY DEF jobSide, J!vars, J!jobVars, J!workerVars, J!bounds

LEMMA OutboxStutters == ASSUME UNCHANGED <<outboxSide, crashes>> PROVE UNCHANGED D!vars
  BY DEF outboxSide, D!vars, D!outboxVars, D!conversationVars, D!workerVars, D!wireVars

-----------------------------------------------------------------------------
(* The queue.                                                              *)

LEMMA WorkerIsJobs ==
  ASSUME NEW w \in Workers, WorkerStep(w) \/ Crash(w)
  PROVE  J!Next \/ UNCHANGED J!vars
<1>1. CASE ServeOutbox(w)
  <2>1. UNCHANGED crashes
    BY <1>1
       DEF ServeOutbox, D!RecoverStale, D!ClaimOldest, D!ClaimNothing, D!ReadContext, D!ReadMode,
           D!ReadFreshness, D!Suppress, D!Send, D!FinishSent, D!FinishRejected,
           D!FinishAmbiguous, D!RecordSent, D!RecordError, D!LogConflict
  <2> QED BY <1>1, <2>1, JobsStutter DEF ServeOutbox, JobsIdle
<1>2. CASE TurnToJobs(w) \/ RunJob(w) \/ Decide(w) \/ EndRun(w) \/ Crash(w)
  <2>1. J!WorkerStep(w) \/ J!Crash(w)
    BY <1>2 DEF TurnToJobs, RunJob, Decide, EndRun, Crash, J!WorkerStep
  <2> QED BY <2>1 DEF J!Next
<1>3. CASE Restart(w)
  <2>1. CASE J!Restart(w)
    BY <2>1 DEF J!WorkerStep, J!Next
  <2>2. CASE JobsIdle
    <3>1. UNCHANGED crashes
      BY <1>3 DEF Restart, D!Restart
    <3> QED BY <2>2, <3>1, JobsStutter DEF JobsIdle
  <2> QED BY <1>3, <2>1, <2>2 DEF Restart
<1> QED BY <1>1, <1>2, <1>3 DEF WorkerStep

LEMMA StepIsJobs == ASSUME [Next]_vars PROVE [J!Next]_(J!vars)
<1>1. ASSUME NEW w \in Workers, WorkerStep(w) \/ Crash(w) PROVE J!Next \/ UNCHANGED J!vars
  BY <1>1, WorkerIsJobs
<1>2. ASSUME NEW c \in Conversations, Enqueue(c) \/ HumanReply(c) PROVE J!Next
  BY <1>2 DEF Enqueue, HumanReply, J!Next, J!Operator
<1>3. CASE JobOperator
  BY <1>3 DEF JobOperator, J!Next, J!Operator
<1>4. CASE ConversationOperator
  <2>1. UNCHANGED crashes
    BY <1>4 DEF ConversationOperator, D!SetBotPaused, D!SetConversationStatus, D!SetMode,
                D!TransitionReview
  <2> QED BY <1>4, <2>1, JobsStutter DEF ConversationOperator
<1>5. ASSUME NEW j \in J!Job, JobTime(j) PROVE J!Next
  BY <1>5 DEF JobTime, J!Next
<1>6. ASSUME NEW d \in D!Delivery, DeliveryTime(d) PROVE UNCHANGED J!vars
  BY <1>6, JobsStutter DEF DeliveryTime, JobsIdle, D!LeaseExpires
<1>7. CASE UNCHANGED vars
  BY <1>7, JobsStutter DEF vars
<1> QED BY <1>1, <1>2, <1>3, <1>4, <1>5, <1>6, <1>7 DEF Next

-----------------------------------------------------------------------------
(* The outbox.                                                             *)

LEMMA WorkerIsOutbox ==
  ASSUME NEW w \in Workers, WorkerStep(w) \/ Crash(w)
  PROVE  D!Next \/ UNCHANGED D!vars
<1>1. CASE ServeOutbox(w) \/ Restart(w)
  <2>1. D!WorkerStep(w)
    BY <1>1 DEF ServeOutbox, Restart, D!WorkerStep
  <2> QED BY <2>1 DEF D!Next
<1>2. CASE TurnToJobs(w) \/ RunJob(w)
  <2>1. UNCHANGED crashes
    BY <1>2 DEF TurnToJobs, RunJob, J!RecoverStale, J!Recover, J!ClaimNext, J!LookForAction,
                J!CheckFresh, J!CheckExecution, J!Execute, J!FindNewest, J!bounds
  <2> QED BY <1>2, <2>1, OutboxStutters DEF TurnToJobs, RunJob, OutboxIdle
<1>3. CASE Decide(w)
  <2>1. CASE \E j : QueueAnswer(w, j) \/ OpenReview(w, j)
    BY <2>1 DEF QueueAnswer, OpenReview, D!WorkerStep, D!Next
  <2>2. CASE OutboxIdle
    <3>1. UNCHANGED crashes
      BY <1>3 DEF Decide, J!InsertAction, J!bounds
    <3> QED BY <2>2, <3>1, OutboxStutters DEF OutboxIdle
  <2> QED BY <1>3, <2>1, <2>2 DEF Decide
<1>4. CASE EndRun(w)
  <2>1. CASE D!EnqueueNothing(w)
    BY <2>1 DEF D!WorkerStep, D!Next
  <2>2. CASE OutboxIdle
    <3>1. UNCHANGED crashes
      BY <1>4 DEF EndRun, J!Complete, J!Supersede, J!Fail, J!ClaimNothing, J!bounds
    <3> QED BY <2>2, <3>1, OutboxStutters DEF OutboxIdle
  <2> QED BY <1>4, <2>1, <2>2 DEF EndRun
<1>5. CASE Crash(w)
  BY <1>5 DEF Crash, D!Next
<1> QED BY <1>1, <1>2, <1>3, <1>4, <1>5 DEF WorkerStep

LEMMA StepIsOutbox == ASSUME [Next]_vars PROVE [D!Next]_(D!vars)
<1>1. ASSUME NEW w \in Workers, WorkerStep(w) \/ Crash(w) PROVE D!Next \/ UNCHANGED D!vars
  BY <1>1, WorkerIsOutbox
<1>2. ASSUME NEW c \in Conversations, Enqueue(c) \/ HumanReply(c) PROVE D!Next
  BY <1>2 DEF Enqueue, HumanReply, D!Next, D!Operator
<1>3. CASE JobOperator
  <2>1. UNCHANGED crashes
    BY <1>3 DEF JobOperator, J!RecoverByHand, J!Recover, J!Retry, J!Dismiss, J!bounds
  <2> QED BY <1>3, <2>1, OutboxStutters DEF JobOperator
<1>4. CASE ConversationOperator
  BY <1>4 DEF ConversationOperator, D!Next, D!Operator
<1>5. ASSUME NEW j \in J!Job, JobTime(j) PROVE UNCHANGED D!vars
  BY <1>5, OutboxStutters DEF JobTime, OutboxIdle, J!BecomeDue, J!LeaseExpires, J!bounds
<1>6. ASSUME NEW d \in D!Delivery, DeliveryTime(d) PROVE D!Next
  BY <1>6 DEF DeliveryTime, D!Next
<1>7. CASE UNCHANGED vars
  BY <1>7, OutboxStutters DEF vars
<1> QED BY <1>1, <1>2, <1>3, <1>4, <1>5, <1>6, <1>7 DEF Next

-----------------------------------------------------------------------------
(* Theorems                                                                *)

(* Executor.run_once together with DeliveryExecutor.run_once, the ingress  *)
(* and the dashboard does nothing to the jobs that JobQueue does not allow.*)
THEOREM WholeIsJobQueue == Spec => J!Spec
<1>1. Init => J!Init
  BY DEF Init
<1>2. [Next]_vars => [J!Next]_(J!vars)
  BY StepIsJobs
<1> QED BY <1>1, <1>2, PTL DEF Spec, J!Spec

(* ... and nothing to the outbox that Delivery does not allow.             *)
THEOREM WholeIsDelivery == Spec => D!Spec
<1>1. Init => D!Init
  BY DEF Init
<1>2. [Next]_vars => [D!Next]_(D!vars)
  BY StepIsOutbox
<1> QED BY <1>1, <1>2, PTL DEF Spec, D!Spec

-----------------------------------------------------------------------------
(* With one worker: what the refinement needs to know of the queue.        *)

OneWorker == \A v, w \in Workers : v = w

ByBot(j) == \E i \in 1..Len(actions[j]) : actions[j][i].author = "bot"

Unanswered == {"queued", "processing", "dead_letter", "dismissed"}

InHand == [job : Nat, attempts : Nat, action : Nat, seen : Nat, newest : Nat]

QueueTypes ==
  /\ jobs \in Seq(Conversations) /\ Len(jobs) <= MaxJobs
  /\ state \in [J!Job -> J!State]
  /\ attempts \in [J!Job -> Nat]
  /\ actions \in [J!Job -> Seq(J!ActionRow)]
  /\ pc \in [Workers -> J!AtRest \cup J!Busy]
  /\ run \in [Workers -> InHand]
  /\ \A j \in J!Job : /\ state[j] # "none" <=> j \in J!Inserted
                      /\ actions[j] # <<>> => j \in J!Inserted

(* What a worker does with its job is still called for, and what was set   *)
(* aside or completed was so for a reason.                                 *)
JobInHand ==
  \A w \in Workers :
    /\ pc[w] \in J!Busy => run[w].job \in J!Inserted /\ state[run[w].job] \in Unanswered
    /\ pc[w] \in {"check", "execute", "complete"} => actions[run[w].job] # <<>>
    /\ pc[w] \in {"newest", "supersede"} => J!Newer(run[w].job) # {}
    /\ pc[w] \in {"provider", "insert"} => ~ByBot(run[w].job)

JobsClosed ==
  \A j \in J!Inserted :
    /\ state[j] = "superseded" => J!Newer(j) # {}
    /\ state[j] = "completed" => actions[j] # <<>>

QueueInv == QueueTypes /\ JobInHand /\ JobsClosed

LEMMA InsertedIsJob == ASSUME QueueTypes PROVE J!Inserted \subseteq J!Job
  BY ConversationConstants DEF QueueTypes, J!Inserted, J!Job

LEMMA QueueStutter == QueueInv /\ UNCHANGED J!vars => QueueInv'
  BY DEF QueueInv, QueueTypes, JobInHand, JobsClosed, ByBot, J!vars, J!jobVars, J!workerVars,
         J!Inserted, J!Newer, J!JobsOf

LEMMA QueueInit == J!Init => QueueInv
<1> SUFFICES ASSUME J!Init PROVE QueueInv
  OBVIOUS
<1>1. QueueTypes
  BY ConversationConstants
     DEF J!Init, QueueTypes, InHand, J!NoRun, J!State, J!AtRest, J!Inserted, J!Job
<1>2. JobInHand /\ JobsClosed
  BY DEF J!Init, JobInHand, JobsClosed, J!Busy, J!Inserted
<1> QED BY <1>1, <1>2 DEF QueueInv

(* A message that arrives is newer than all the others.                    *)
LEMMA QueueEnqueue ==
  ASSUME QueueInv, NEW c \in Conversations, J!Enqueue(c)
  PROVE  QueueInv'
<1> USE DEF QueueInv, QueueTypes
<1> DEFINE n == Len(jobs) + 1
<1>1. /\ jobs' = Append(jobs, c) /\ n \in J!Job /\ n \notin J!Inserted
      /\ J!Inserted' = J!Inserted \cup {n}
      /\ \A j \in J!Inserted : jobs'[j] = jobs[j]
  BY ConversationConstants DEF J!Enqueue, J!Inserted, J!Job
<1>2. /\ state' = [state EXCEPT ![n] = "queued"]
      /\ UNCHANGED <<attempts, actions, pc, run>>
  BY DEF J!Enqueue, J!workerVars
<1>3. \A j \in J!Inserted : J!Newer(j) \subseteq (J!Newer(j))'
  BY <1>1 DEF J!Newer, J!JobsOf
<1>4. QueueTypes'
  <2>1. jobs' \in Seq(Conversations) /\ Len(jobs') = n
    BY <1>1
  <2>2. Len(jobs') <= MaxJobs
    BY <1>1, <2>1 DEF J!Job
  <2>3. state' \in [J!Job -> J!State]
    BY <1>2 DEF J!State
  <2>4. \A j \in J!Job : state'[j] # "none" <=> j \in J!Inserted'
    BY <1>1, <1>2
  <2> QED BY <1>1, <1>2, <2>1, <2>2, <2>3, <2>4
<1>5. JobInHand'
  BY <1>1, <1>2, <1>3, InsertedIsJob DEF JobInHand, ByBot, J!Busy
<1>6. JobsClosed'
  BY <1>1, <1>2, <1>3, InsertedIsJob DEF JobsClosed
<1> QED BY <1>4, <1>5, <1>6

(* The steps that move jobs between the open and the parked states and     *)
(* leave jobs, actions and workers alone.                                  *)
LEMMA QueueTimeOrOperator ==
  ASSUME QueueInv,
         \/ \E j \in J!Job : J!BecomeDue(j) \/ J!LeaseExpires(j) \/ J!Retry(j) \/ J!Dismiss(j)
         \/ J!RecoverByHand
         \/ \E w \in Workers : J!RecoverStale(w)
  PROVE  QueueInv'
<1> USE DEF QueueInv, QueueTypes
<1>1. UNCHANGED <<jobs, actions, run>>
  BY DEF J!BecomeDue, J!LeaseExpires, J!Retry, J!Dismiss, J!RecoverByHand, J!Recover,
         J!RecoverStale, J!workerVars
<1>2. /\ state' \in [J!Job -> J!State] /\ attempts' \in [J!Job -> Nat]
      /\ \A k \in J!Job : \/ state'[k] = state[k]
                          \/ state[k] \in Unanswered /\ state'[k] \in Unanswered
  <2>1. CASE \E j \in J!Job : J!BecomeDue(j) \/ J!LeaseExpires(j)
    BY <2>1 DEF J!BecomeDue, J!LeaseExpires
  <2>2. CASE \E j \in J!Job : J!Retry(j) \/ J!Dismiss(j)
    <3>1. PICK j \in J!Job : J!Retry(j) \/ J!Dismiss(j)
      BY <2>2
    <3>2. /\ state[j] = "dead_letter"
          /\ \/ state' = [state EXCEPT ![j] = "queued"]
             \/ state' = [state EXCEPT ![j] = "dismissed"]
      BY <3>1 DEF J!Retry, J!Dismiss, J!Leave
    <3>3. attempts' = [attempts EXCEPT ![j] = 0] \/ attempts' = attempts
      BY <3>1 DEF J!Retry, J!Dismiss
    <3>4. attempts \in [J!Job -> Nat]
      OBVIOUS
    <3>5. attempts' \in [J!Job -> Nat]
      BY <3>3, <3>4
    <3> QED BY <3>2, <3>5 DEF J!State, Unanswered
  <2>3. CASE J!Recover
    <3>1. \A k \in J!Stale : state[k] = "processing"
      BY DEF J!Stale
    <3>2. \A m : J!AfterFailure(m) \in {"queued", "dead_letter"}
      BY DEF J!AfterFailure
    <3> QED BY <2>3, <3>1, <3>2 DEF J!Recover, J!State, Unanswered
  <2> QED BY <2>1, <2>2, <2>3 DEF J!RecoverByHand, J!RecoverStale
<1>3. /\ pc' \in [Workers -> J!AtRest \cup J!Busy]
      /\ \A w \in Workers : pc'[w] = pc[w] \/ pc'[w] = "claim"
  BY DEF J!BecomeDue, J!LeaseExpires, J!Retry, J!Dismiss, J!RecoverByHand, J!RecoverStale,
         J!GoTo, J!workerVars, J!AtRest
<1>4. J!Inserted' = J!Inserted /\ \A j : (J!Newer(j))' = J!Newer(j)
  BY <1>1 DEF J!Inserted, J!Newer, J!JobsOf
<1>5. QueueTypes'
  BY <1>1, <1>2, <1>3, <1>4 DEF Unanswered
<1>6. JobInHand'
  BY <1>1, <1>2, <1>3, <1>4, InsertedIsJob DEF JobInHand, ByBot, J!Busy
<1>7. JobsClosed'
  BY <1>1, <1>2, <1>4, InsertedIsJob DEF JobsClosed, Unanswered
<1> QED BY <1>5, <1>6, <1>7

LEMMA QueueHumanReply ==
  ASSUME QueueInv, NEW c \in Conversations, J!HumanReply(c)
  PROVE  QueueInv'
<1> USE DEF QueueInv, QueueTypes
<1>1. PICK j \in J!Inserted :
        actions' = [actions EXCEPT ![j] = Append(@, J!Action("human", "delivery", @ = <<>>))]
  BY DEF J!HumanReply
<1>2. j \in J!Job /\ actions[j] \in Seq(J!ActionRow)
  BY <1>1, InsertedIsJob
<1>3. J!Action("human", "delivery", actions[j] = <<>>) \in J!ActionRow
  <2> DEFINE first == actions[j] = <<>>
  <2>1. first \in BOOLEAN
    OBVIOUS
  <2> HIDE DEF first
  <2>2. J!Action("human", "delivery", first) \in J!ActionRow
    BY <2>1 DEF J!Action, J!ActionRow, J!Kind
  <2> QED BY <2>2 DEF first
<1>4. /\ actions' \in [J!Job -> Seq(J!ActionRow)]
      /\ \A k \in J!Job : actions[k] # <<>> => actions'[k] # <<>>
  <2> DEFINE a == Append(actions[j], J!Action("human", "delivery", actions[j] = <<>>))
  <2>1. a \in Seq(J!ActionRow) /\ Len(a) # 0
    BY <1>2, <1>3
  <2>2. actions' = [actions EXCEPT ![j] = a]
    BY <1>1
  <2> HIDE DEF a
  <2> QED BY <1>2, <2>1, <2>2
<1>5. \A k \in J!Job : (ByBot(k))' => ByBot(k)
  <2> SUFFICES ASSUME NEW k \in J!Job, NEW i \in 1..Len(actions'[k]),
                      actions'[k][i].author = "bot"
               PROVE  ByBot(k)
    BY DEF ByBot
  <2>1. CASE k = j
    <3>1. actions'[j] = Append(actions[j], J!Action("human", "delivery", actions[j] = <<>>))
      BY <1>1, <1>2
    <3>2. i # Len(actions[j]) + 1
      BY <1>2, <1>3, <2>1, <3>1 DEF J!Action
    <3> QED BY <1>2, <1>3, <2>1, <3>1, <3>2 DEF ByBot
  <2>2. CASE k # j
    BY <1>1, <1>2, <2>2 DEF ByBot
  <2> QED BY <2>1, <2>2
<1>6. UNCHANGED <<jobs, state, attempts, pc, run>>
  BY DEF J!HumanReply, J!jobVars, J!workerVars
<1>7. QueueTypes'
  BY <1>1, <1>2, <1>4, <1>6 DEF J!Inserted
<1>8. JobInHand'
  BY <1>4, <1>5, <1>6, InsertedIsJob DEF JobInHand, J!Inserted, J!Newer, J!JobsOf, J!Busy
<1>9. JobsClosed'
  BY <1>4, <1>6, InsertedIsJob DEF JobsClosed, J!Inserted, J!Newer, J!JobsOf
<1> QED BY <1>7, <1>8, <1>9

(* claim_next: the older due jobs stand behind the newest one.             *)
LEMMA ClaimIs ==
  ASSUME QueueTypes, NEW w \in Workers, J!ClaimNext(w)
  PROVE  /\ pc[w] = "claim" /\ UNCHANGED <<jobs, actions>>
         /\ attempts' \in [J!Job -> Nat]
         /\ pc' = [pc EXCEPT ![w] = "look"]
         /\ \E j \in J!Inserted, older \in SUBSET J!Inserted :
              /\ state[j] = "queued" /\ j \notin older
              /\ \A k \in older : state[k] = "queued" /\ j \in J!Newer(k)
              /\ state' = [k \in J!Job |-> IF k = j THEN "processing"
                                           ELSE IF k \in older THEN "superseded"
                                           ELSE state[k]]
              /\ \E r \in InHand : r.job = j /\ run' = [run EXCEPT ![w] = r]
<1> USE DEF QueueTypes
<1>1. PICK candidate \in J!Claimable, j \in J!Claimable :
        LET older == J!Due(jobs[candidate]) \ {j}
        IN /\ J!IsNewest(j, J!Due(jobs[candidate]))
           /\ state' = [k \in J!Job |->
                IF k = j THEN "processing" ELSE IF k \in older THEN "superseded" ELSE state[k]]
           /\ attempts' = [attempts EXCEPT ![j] = @ + 1]
           /\ run' = [run EXCEPT ![w] =
                [J!NoRun EXCEPT !.job = j, !.attempts = attempts[j] + 1]]
  BY DEF J!ClaimNext
<1> DEFINE older == J!Due(jobs[candidate]) \ {j}
<1>2. j \in J!Inserted /\ state[j] = "queued" /\ j \in J!Job /\ attempts[j] \in Nat
  BY <1>1, InsertedIsJob DEF J!Claimable, J!Due, J!Queued
<1>3. jobs[j] = jobs[candidate]
  BY <1>1 DEF J!IsNewest, J!Due, J!Queued, J!JobsOf
<1>4. older \in SUBSET J!Inserted /\ j \notin older
  BY DEF J!Due, J!Queued, J!JobsOf
<1>5. \A k \in older : state[k] = "queued" /\ j \in J!Newer(k)
  <2> SUFFICES ASSUME NEW k \in older PROVE state[k] = "queued" /\ j \in J!Newer(k)
    OBVIOUS
  <2>1. k <= j /\ k # j /\ k \in J!Inserted /\ jobs[k] = jobs[j] /\ state[k] = "queued"
    BY <1>1, <1>3 DEF J!IsNewest, J!Due, J!Queued, J!JobsOf
  <2> QED BY <1>2, <2>1 DEF J!Newer, J!JobsOf, J!Inserted
<1>6. \E r \in InHand : r.job = j /\ run' = [run EXCEPT ![w] = r]
  <2> DEFINE r == [J!NoRun EXCEPT !.job = j, !.attempts = attempts[j] + 1]
  <2>1. r \in InHand /\ r.job = j
    <3>1. j \in Nat /\ attempts[j] + 1 \in Nat
      BY <1>2 DEF J!Job
    <3> QED BY <3>1 DEF J!NoRun, InHand
  <2> QED BY <1>1, <2>1
<1>7. attempts' \in [J!Job -> Nat]
  BY <1>1, <1>2
<1>8. pc[w] = "claim" /\ UNCHANGED <<jobs, actions>> /\ pc' = [pc EXCEPT ![w] = "look"]
  BY DEF J!ClaimNext, J!GoTo
<1> QED BY <1>1, <1>2, <1>4, <1>5, <1>6, <1>7, <1>8

LEMMA QueueClaim ==
  ASSUME OneWorker, QueueInv, NEW w \in Workers, J!ClaimNext(w)
  PROVE  QueueInv'
<1> USE DEF QueueInv, QueueTypes
<1>1. PICK j \in J!Inserted, older \in SUBSET J!Inserted :
        /\ state[j] = "queued" /\ j \notin older
        /\ \A k \in older : state[k] = "queued" /\ j \in J!Newer(k)
        /\ state' = [k \in J!Job |-> IF k = j THEN "processing"
                                     ELSE IF k \in older THEN "superseded" ELSE state[k]]
        /\ \E r \in InHand : r.job = j /\ run' = [run EXCEPT ![w] = r]
  BY ClaimIs
<1>2. /\ UNCHANGED <<jobs, actions>> /\ attempts' \in [J!Job -> Nat]
      /\ pc' = [pc EXCEPT ![w] = "look"]
  BY ClaimIs
<1>3. J!Inserted' = J!Inserted /\ \A k : (J!Newer(k))' = J!Newer(k)
  BY <1>2 DEF J!Inserted, J!Newer, J!JobsOf
<1>4. j \in J!Job /\ j \in Nat /\ attempts[j] + 1 \in Nat
  BY InsertedIsJob DEF J!Job
<1>5. QueueTypes'
  BY <1>1, <1>2, <1>3, <1>4, InsertedIsJob DEF J!State, J!Busy
<1>6. JobInHand'
  <2>1. \A v \in Workers : v = w
    BY DEF OneWorker
  <2>2. run'[w].job = j /\ pc'[w] = "look" /\ state'[j] \in Unanswered
    BY <1>1, <1>2, <1>4 DEF Unanswered
  <2> QED BY <1>3, <2>1, <2>2 DEF JobInHand
<1>7. JobsClosed'
  BY <1>1, <1>2, <1>3, InsertedIsJob DEF JobsClosed
<1> QED BY <1>5, <1>6, <1>7

(* The steps inside a run that touch no table.                             *)
LEMMA QueueReads ==
  ASSUME OneWorker, QueueInv, NEW w \in Workers,
         \/ J!ClaimNothing(w) \/ J!LookForAction(w) \/ J!CheckFresh(w) \/ J!CheckExecution(w)
         \/ J!FindNewest(w) \/ J!Restart(w)
  PROVE  QueueInv'
<1> USE DEF QueueInv, QueueTypes
<1>1. UNCHANGED <<jobs, state, attempts, actions>>
  BY DEF J!ClaimNothing, J!LookForAction, J!CheckFresh, J!CheckExecution, J!FindNewest,
         J!Restart, J!jobVars
<1>2. \A v \in Workers : v = w
  BY DEF OneWorker
<1>3. /\ J!Inserted' = J!Inserted /\ \A k : (J!Newer(k))' = J!Newer(k)
      /\ \A k : (ByBot(k))' <=> ByBot(k)
  BY <1>1 DEF J!Inserted, J!Newer, J!JobsOf, ByBot
<1>4. /\ run' \in [Workers -> InHand]
      /\ run'[w].job = run[w].job
  <2>1. CASE UNCHANGED run
    BY <2>1
  <2>2. CASE \E n \in Nat : \/ run' = [run EXCEPT ![w].action = n]
                          \/ run' = [run EXCEPT ![w].seen = n]
    <3>1. PICK n \in Nat : \/ run' = [run EXCEPT ![w].action = n]
                           \/ run' = [run EXCEPT ![w].seen = n]
      BY <2>2
    <3>2. run[w] \in InHand
      OBVIOUS
    <3>3. /\ [run[w] EXCEPT !.action = n] \in InHand
          /\ [run[w] EXCEPT !.action = n].job = run[w].job
      BY <3>2 DEF InHand
    <3>4. /\ [run[w] EXCEPT !.seen = n] \in InHand
          /\ [run[w] EXCEPT !.seen = n].job = run[w].job
      BY <3>2 DEF InHand
    <3>5. CASE run' = [run EXCEPT ![w].action = n]
      BY <3>3, <3>5
    <3>6. CASE run' = [run EXCEPT ![w].seen = n]
      BY <3>4, <3>6
    <3> QED BY <3>1, <3>5, <3>6
  <2>3. CASE \E k \in J!Inserted : run' = [run EXCEPT ![w].newest = k]
    <3>1. PICK k \in J!Inserted : run' = [run EXCEPT ![w].newest = k]
      BY <2>3
    <3>2. k \in Nat /\ run[w] \in InHand
      BY InsertedIsJob DEF J!Job
    <3>3. [run[w] EXCEPT !.newest = k] \in InHand /\ [run[w] EXCEPT !.newest = k].job = run[w].job
      BY <3>2 DEF InHand
    <3> QED BY <3>1, <3>3
  <2>4. CASE J!LookForAction(w)
    BY <2>1, <2>2, <2>4 DEF J!LookForAction
  <2>5. CASE J!CheckFresh(w)
    <3>1. Len(actions[run[w].job]) \in Nat
      BY <2>5, InsertedIsJob DEF J!CheckFresh, JobInHand, J!Busy
    <3> QED BY <2>2, <2>5, <3>1 DEF J!CheckFresh
  <2> QED BY <2>1, <2>3, <2>4, <2>5 DEF J!ClaimNothing, J!CheckExecution, J!FindNewest, J!Restart
<1>5. JobInHand' /\ pc' \in [Workers -> J!AtRest \cup J!Busy]
  <2>1. CASE J!ClaimNothing(w) \/ J!Restart(w)
    BY <1>2, <2>1 DEF J!ClaimNothing, J!Restart, J!GoTo, J!AtRest, J!Busy, JobInHand
  <2>2. CASE J!LookForAction(w)
    <3>1. run[w].job \in J!Inserted /\ state[run[w].job] \in Unanswered
      BY <2>2 DEF J!LookForAction, JobInHand, J!Busy
    <3>2. CASE actions[run[w].job] = <<>>
      <4>0. Len(actions[run[w].job]) = 0
        BY <3>2
      <4>1. pc' = [pc EXCEPT ![w] = "provider"]
        BY <2>2, <4>0 DEF J!LookForAction, J!GoTo
      <4>2. ~ByBot(run[w].job)
        BY <3>2 DEF ByBot
      <4> QED BY <1>1, <1>2, <1>3, <1>4, <3>1, <4>1, <4>2 DEF JobInHand, J!Busy
    <3>3. CASE actions[run[w].job] # <<>>
      <4>1. \E l \in {"check", "complete"} : pc' = [pc EXCEPT ![w] = l]
        BY <2>2, <3>3 DEF J!LookForAction, J!GoTo, J!AfterAction
      <4> QED BY <1>1, <1>2, <1>3, <1>4, <3>1, <3>3, <4>1 DEF JobInHand, J!Busy
    <3> QED BY <3>2, <3>3
  <2>3. CASE J!CheckFresh(w)
    <3>1. /\ run[w].job \in J!Inserted /\ state[run[w].job] \in Unanswered
          /\ ~ByBot(run[w].job)
      BY <2>3 DEF J!CheckFresh, JobInHand, J!Busy
    <3>2. \/ pc' = [pc EXCEPT ![w] = "insert"]
          \/ pc' = [pc EXCEPT ![w] = "newest"] /\ J!Newer(run[w].job) # {}
      BY <2>3 DEF J!CheckFresh, J!GoTo
    <3> QED BY <1>1, <1>2, <1>3, <1>4, <3>1, <3>2 DEF JobInHand, J!Busy
  <2>4. CASE J!CheckExecution(w)
    <3>1. /\ run[w].job \in J!Inserted /\ state[run[w].job] \in Unanswered
          /\ actions[run[w].job] # <<>>
      BY <2>4 DEF J!CheckExecution, JobInHand, J!Busy
    <3>2. \E l \in {"execute", "complete"} : pc' = [pc EXCEPT ![w] = l]
      BY <2>4 DEF J!CheckExecution, J!GoTo
    <3> QED BY <1>1, <1>2, <1>3, <1>4, <3>1, <3>2 DEF JobInHand, J!Busy
  <2>5. CASE J!FindNewest(w)
    <3>1. /\ run[w].job \in J!Inserted /\ state[run[w].job] \in Unanswered
          /\ J!Newer(run[w].job) # {}
      BY <2>5 DEF J!FindNewest, JobInHand, J!Busy
    <3>2. pc' = [pc EXCEPT ![w] = "supersede"]
      BY <2>5 DEF J!FindNewest, J!GoTo
    <3> QED BY <1>1, <1>2, <1>3, <1>4, <3>1, <3>2 DEF JobInHand, J!Busy
  <2> QED BY <2>1, <2>2, <2>3, <2>4, <2>5
<1>6. QueueTypes'
  BY <1>1, <1>3, <1>4, <1>5
<1>7. JobsClosed'
  BY <1>1, <1>3 DEF JobsClosed
<1> QED BY <1>5, <1>6, <1>7

(* The action of a run, and its execution on the local sink.               *)
LEMMA QueueInsertAction ==
  ASSUME OneWorker, QueueInv, NEW w \in Workers, J!InsertAction(w)
  PROVE  /\ QueueInv'
         /\ run[w].job \in J!Inserted
         /\ \E kind \in J!Kind, earlier \in BOOLEAN :
              actions' = [actions EXCEPT ![run[w].job] = Append(@, J!Action("bot", kind, earlier))]
         /\ actions'[run[w].job] # <<>> /\ (ByBot(run[w].job))'
<1> USE DEF QueueInv, QueueTypes
<1> DEFINE j == run[w].job
<1>1. j \in J!Inserted /\ j \in J!Job /\ state[j] \in Unanswered
  BY InsertedIsJob DEF J!InsertAction, JobInHand, J!Busy
<1>2. PICK kind \in J!Kind, earlier \in BOOLEAN :
        /\ actions' = [actions EXCEPT ![j] = Append(@, J!Action("bot", kind, earlier))]
        /\ run' = [run EXCEPT ![w].action = Len(actions[j]) + 1]
        /\ J!GoTo(w, J!AfterAction(kind))
  BY DEF J!InsertAction, J!MayBeEarlier
<1>3. J!Action("bot", kind, earlier) \in J!ActionRow /\ J!Action("bot", kind, earlier).author = "bot"
  BY DEF J!Action, J!ActionRow
<1> DEFINE a == Append(actions[j], J!Action("bot", kind, earlier))
<1>4. /\ actions[j] \in Seq(J!ActionRow) /\ a \in Seq(J!ActionRow) /\ a # <<>>
      /\ Len(actions[j]) + 1 \in 1..Len(a)
      /\ a[Len(actions[j]) + 1].author = "bot"
  <2>1. actions[j] \in Seq(J!ActionRow)
    BY <1>1
  <2>2. a \in Seq(J!ActionRow) /\ Len(a) = Len(actions[j]) + 1
    BY <1>3, <2>1
  <2>3. a[Len(actions[j]) + 1] = J!Action("bot", kind, earlier)
    BY <1>3, <2>1
  <2>4. a[Len(actions[j]) + 1].author = "bot"
    BY <1>3, <2>3
  <2> HIDE DEF a
  <2>5. a # <<>> /\ Len(actions[j]) + 1 \in 1..Len(a)
    BY <2>1, <2>2
  <2> QED BY <2>1, <2>2, <2>4, <2>5
<1>5. actions'[j] = a /\ actions' = [actions EXCEPT ![j] = a]
  BY <1>1, <1>2
<1> HIDE DEF a
<1>6. actions'[j] # <<>> /\ (ByBot(j))'
  <2>1. \E i \in 1..Len(actions'[j]) : actions'[j][i].author = "bot"
    BY <1>4, <1>5
  <2>2. j' = j
    <3>1. run[w] \in InHand /\ Len(actions[j]) + 1 \in Nat
      BY <1>4
    <3> QED BY <1>2, <3>1 DEF InHand
  <2> QED BY <1>4, <1>5, <2>1, <2>2 DEF ByBot
<1>7. /\ UNCHANGED <<jobs, state, attempts>>
      /\ J!Inserted' = J!Inserted /\ \A k : (J!Newer(k))' = J!Newer(k)
  BY DEF J!InsertAction, J!jobVars, J!Inserted, J!Newer, J!JobsOf
<1>8. QueueTypes'
  <2>1. run' \in [Workers -> InHand]
    <3>1. run[w] \in InHand /\ Len(actions[j]) + 1 \in Nat
      BY <1>4
    <3>2. [run[w] EXCEPT !.action = Len(actions[j]) + 1] \in InHand
      BY <3>1 DEF InHand
    <3> QED BY <1>2, <3>2
  <2>2. pc' \in [Workers -> J!AtRest \cup J!Busy]
    BY <1>2 DEF J!GoTo, J!AfterAction, J!Busy
  <2>3. actions' \in [J!Job -> Seq(J!ActionRow)]
    BY <1>1, <1>4, <1>5
  <2> QED BY <1>1, <1>5, <1>7, <2>1, <2>2, <2>3
<1>9. JobInHand'
  <2>1. \A v \in Workers : v = w
    BY DEF OneWorker
  <2>2. run'[w].job = j
    <3>1. run[w] \in InHand /\ Len(actions[j]) + 1 \in Nat
      BY <1>4
    <3> QED BY <1>2, <3>1 DEF InHand
  <2>3. pc'[w] \in {"check", "complete"}
    BY <1>2 DEF J!GoTo, J!AfterAction
  <2> QED BY <1>1, <1>4, <1>5, <1>7, <2>1, <2>2, <2>3 DEF JobInHand
<1>10. JobsClosed'
  BY <1>1, <1>4, <1>5, <1>7, InsertedIsJob DEF JobsClosed
<1> QED BY <1>1, <1>2, <1>6, <1>8, <1>9, <1>10

LEMMA QueueExecute ==
  ASSUME OneWorker, QueueInv, NEW w \in Workers, J!Execute(w)
  PROVE  /\ QueueInv'
         /\ \A k \in J!Job : /\ actions[k] # <<>> <=> actions'[k] # <<>>
                             /\ ByBot(k) => (ByBot(k))'
<1> USE DEF QueueInv, QueueTypes
<1> DEFINE j == run[w].job
           n == run[w].action
           a == [actions[j] EXCEPT ![n].executed = TRUE]
<1>1. /\ j \in J!Inserted /\ j \in J!Job /\ state[j] \in Unanswered
      /\ actions[j] # <<>> /\ actions[j] \in Seq(J!ActionRow) /\ n \in Nat
  BY InsertedIsJob DEF J!Execute, JobInHand, J!Busy, InHand
<1>2. actions' = [actions EXCEPT ![j] = a]
  BY DEF J!Execute
<1>3. /\ a \in Seq(J!ActionRow) /\ Len(a) = Len(actions[j]) /\ a # <<>>
      /\ \A i \in 1..Len(actions[j]) : a[i].author = actions[j][i].author
  <2>1. CASE n \in 1..Len(actions[j])
    <3> DEFINE r == [actions[j][n] EXCEPT !.executed = TRUE]
    <3>1. actions[j][n] \in J!ActionRow
      BY <1>1, <2>1
    <3>2. r \in J!ActionRow /\ r.author = actions[j][n].author
      BY <3>1 DEF J!ActionRow
    <3> HIDE DEF r
    <3>3. a = [actions[j] EXCEPT ![n] = r]
      BY DEF r
    <3>4. a \in Seq(J!ActionRow) /\ Len(a) = Len(actions[j])
      <4> DEFINE s == actions[j]
                 b == [s EXCEPT ![n] = r]
      <4>1. s \in Seq(J!ActionRow) /\ n \in 1..Len(s)
        BY <1>1, <2>1
      <4> HIDE DEF s
      <4>2. b \in Seq(J!ActionRow) /\ Len(b) = Len(s)
        BY <3>2, <4>1, ExceptSeq
      <4>3. a = b
        BY <3>3 DEF s
      <4> QED BY <4>2, <4>3 DEF s
    <3>5. Len(a) # 0
      BY <2>1, <3>4
    <3>6. a # <<>>
      <4> HIDE DEF a
      <4> QED BY <3>5
    <3>7. ASSUME NEW i \in 1..Len(actions[j]) PROVE a[i].author = actions[j][i].author
      <4>1. DOMAIN actions[j] = 1..Len(actions[j])
        BY <1>1
      <4>2. a[i] = IF i = n THEN r ELSE actions[j][i]
        BY <3>3, <4>1
      <4> QED BY <3>2, <4>2
    <3> QED BY <3>4, <3>6, <3>7
  <2>2. CASE n \notin 1..Len(actions[j])
    <3>1. DOMAIN actions[j] = 1..Len(actions[j])
      BY <1>1
    <3>2. a = actions[j]
      BY <1>1, <2>2, <3>1
    <3> HIDE DEF a, j, n
    <3>3. actions[j] \in Seq(J!ActionRow) /\ actions[j] # <<>>
      BY <1>1
    <3> QED BY <3>2, <3>3
  <2> QED BY <2>1, <2>2
<1> HIDE DEF a
<1>4. \A k \in J!Job : /\ actions[k] # <<>> <=> actions'[k] # <<>>
                       /\ ByBot(k) <=> (ByBot(k))'
  <2> SUFFICES ASSUME NEW k \in J!Job
               PROVE  /\ actions[k] # <<>> <=> actions'[k] # <<>>
                      /\ ByBot(k) <=> (ByBot(k))'
    OBVIOUS
  <2>1. CASE k = j
    BY <1>1, <1>2, <1>3, <2>1 DEF ByBot
  <2>2. CASE k # j
    BY <1>2, <2>2 DEF ByBot
  <2> QED BY <2>1, <2>2
<1>5. /\ UNCHANGED <<jobs, state, attempts, run>>
      /\ pc' = [pc EXCEPT ![w] = "complete"]
      /\ J!Inserted' = J!Inserted /\ \A k : (J!Newer(k))' = J!Newer(k)
  BY DEF J!Execute, J!GoTo, J!jobVars, J!Inserted, J!Newer, J!JobsOf
<1>6. QueueTypes'
  <2>1. actions' \in [J!Job -> Seq(J!ActionRow)]
    BY <1>1, <1>2, <1>3
  <2> QED BY <1>4, <1>5, <2>1 DEF J!Busy
<1>7. JobInHand'
  <2>1. \A v \in Workers : v = w
    BY DEF OneWorker
  <2> QED BY <1>1, <1>4, <1>5, <2>1 DEF JobInHand
<1>8. JobsClosed'
  BY <1>4, <1>5, InsertedIsJob DEF JobsClosed
<1> QED BY <1>4, <1>6, <1>7, <1>8

(* The steps that end a run: what becomes of its job.                      *)
LEMMA QueueEnd ==
  ASSUME OneWorker, QueueInv, NEW w \in Workers,
         J!Complete(w) \/ J!Supersede(w) \/ J!Fail(w) \/ J!Crash(w)
  PROVE  QueueInv'
<1> USE DEF QueueInv, QueueTypes
<1> DEFINE j == run[w].job
<1>1. /\ UNCHANGED <<jobs, actions, attempts>>
      /\ J!Inserted' = J!Inserted /\ \A k : (J!Newer(k))' = J!Newer(k)
  BY DEF J!Complete, J!Supersede, J!Fail, J!Crash, J!Inserted, J!Newer, J!JobsOf, J!jobVars
<1>2. /\ pc'[w] \in {"idle", "down"}
      /\ pc' \in [Workers -> J!AtRest \cup J!Busy]
      /\ run' \in [Workers -> InHand]
  <2>1. \E l \in {"idle", "down"} : J!EndRun(w, l)
    BY DEF J!Complete, J!Supersede, J!Fail, J!Crash
  <2>2. J!NoRun \in InHand
    BY DEF J!NoRun, InHand
  <2> QED BY <2>1, <2>2 DEF J!EndRun, J!GoTo, J!AtRest
<1>3. /\ state' \in [J!Job -> J!State]
      /\ \A k \in J!Job : state'[k] # "none" <=> k \in J!Inserted
      /\ \A k \in J!Inserted : /\ state'[k] = "superseded" => J!Newer(k) # {}
                               /\ state'[k] = "completed" => actions[k] # <<>>
  <2>1. CASE J!Crash(w)
    BY <2>1 DEF J!Crash, J!jobVars, JobsClosed
  <2>2. CASE J!Complete(w)
    <3>1. j \in J!Inserted /\ actions[j] # <<>>
      BY <2>2 DEF J!Complete, JobInHand, J!Busy
    <3>2. state' = [state EXCEPT ![j] = "completed"]
      BY <2>2 DEF J!Complete, J!Leave
    <3> QED BY <3>1, <3>2, InsertedIsJob DEF JobsClosed, J!State
  <2>3. CASE J!Supersede(w)
    <3>1. j \in J!Inserted /\ J!Newer(j) # {}
      BY <2>3 DEF J!Supersede, JobInHand, J!Busy
    <3>2. state' = [state EXCEPT ![j] = "superseded"]
      BY <2>3 DEF J!Supersede, J!Leave
    <3> QED BY <3>1, <3>2, InsertedIsJob DEF JobsClosed, J!State
  <2>4. CASE J!Fail(w)
    <3>1. j \in J!Inserted
      BY <2>4 DEF J!Fail, JobInHand, J!Busy
    <3>2. \E s \in {"queued", "dead_letter"} : state' = [state EXCEPT ![j] = s]
      BY <2>4 DEF J!Fail, J!Leave, J!AfterFailure
    <3> QED BY <3>1, <3>2, InsertedIsJob DEF JobsClosed, J!State
  <2> QED BY <2>1, <2>2, <2>3, <2>4
<1>4. QueueTypes'
  BY <1>1, <1>2, <1>3
<1>5. JobInHand'
  BY <1>2 DEF JobInHand, J!Busy, OneWorker
<1>6. JobsClosed'
  BY <1>1, <1>3 DEF JobsClosed
<1> QED BY <1>4, <1>5, <1>6

LEMMA QueueStep == ASSUME OneWorker, QueueInv, [J!Next]_(J!vars) PROVE QueueInv'
<1>1. ASSUME NEW w \in Workers, J!WorkerStep(w) \/ J!Crash(w) PROVE QueueInv'
  BY <1>1, QueueTimeOrOperator, QueueClaim, QueueReads, QueueInsertAction, QueueExecute,
     QueueEnd DEF J!WorkerStep
<1>2. ASSUME NEW c \in Conversations, J!Enqueue(c) PROVE QueueInv'
  BY <1>2, QueueEnqueue
<1>3. ASSUME NEW j \in J!Job, J!BecomeDue(j) \/ J!LeaseExpires(j) PROVE QueueInv'
  BY <1>3, QueueTimeOrOperator
<1>4. CASE J!Operator
  BY <1>4, QueueHumanReply, QueueTimeOrOperator DEF J!Operator
<1>5. CASE UNCHANGED J!vars
  BY <1>5, QueueStutter
<1> QED BY <1>1, <1>2, <1>3, <1>4, <1>5 DEF J!Next

-----------------------------------------------------------------------------
(* With one worker: what the refinement needs to know of the outbox.       *)

OutboxTypes ==
  /\ row = [d \in D!Delivery |-> row[d]]
  /\ status \in [D!Delivery -> D!Status]
  /\ delivered \in [D!Delivery -> Nat]
  /\ postPc \in [Workers -> D!AtRest \cup D!Busy]
  /\ held \in [Workers -> D!Delivery \cup {D!NoDelivery}]
  /\ \A d \in D!Delivery : status[d] = "none" => row[d] = D!NoRow

NotTaken == {"none", "pending"}

(* Deliveries leave in the order of their rowids.                          *)
FirstInFirstOut ==
  \A d, e \in D!Delivery : d < e =>
    /\ status[d] = "none" => status[e] = "none"
    /\ status[d] = "pending" => status[e] \in NotTaken

UnsentIsUnsent == \A d \in D!Delivery : status[d] \in NotTaken => delivered[d] = 0

(* The delivery in hand is the newest that was ever taken, and until the   *)
(* request is posted the customer has not got it.                          *)
DeliveryInHand ==
  \A w \in Workers : postPc[w] \in D!Busy =>
    /\ held[w] \in D!Delivery /\ status[held[w]] = "sending"
    /\ \A e \in D!Delivery : e > held[w] => status[e] \in NotTaken
    /\ postPc[w] # "waiting" => delivered[held[w]] = 0

OutboxInv == OutboxTypes /\ FirstInFirstOut /\ UnsentIsUnsent /\ DeliveryInHand

LEMMA OutboxStutter == OutboxInv /\ UNCHANGED D!vars => OutboxInv'
  BY DEF OutboxInv, OutboxTypes, FirstInFirstOut, UnsentIsUnsent, DeliveryInHand, D!vars,
         D!outboxVars, D!conversationVars, D!workerVars, D!wireVars

LEMMA OutboxInit == D!Init => OutboxInv
  BY DEF D!Init, OutboxInv, OutboxTypes, FirstInFirstOut, UnsentIsUnsent, DeliveryInHand,
         D!Status, D!AtRest, D!Busy

(* Steps that touch neither a row nor a status nor a worker.               *)
LEMMA OutboxAside ==
  ASSUME OutboxInv, UNCHANGED <<row, status, postPc, held, delivered>>
  PROVE  OutboxInv'
  BY DEF OutboxInv, OutboxTypes, FirstInFirstOut, UnsentIsUnsent, DeliveryInHand

(* A row is inserted behind all the others.                                *)
LEMMA OutboxInsert ==
  ASSUME OutboxInv, NEW d \in D!Delivery, NEW c, NEW author, NEW event,
         D!FreeRowid(d), D!Insert(d, c, author, event),
         UNCHANGED <<held, delivered>>,
         postPc' \in [Workers -> D!AtRest \cup D!Busy],
         \A w \in Workers : postPc'[w] = postPc[w] \/ postPc'[w] = "idle"
  PROVE  OutboxInv'
<1> USE DEF OutboxInv, OutboxTypes, D!FreeRowid, D!Insert
<1>1. /\ status[d] = "none" /\ status'[d] = "pending"
      /\ \A e \in D!Delivery \ {d} : status'[e] = status[e]
      /\ \A e \in D!Delivery : e > d => status[e] = "none"
      /\ \A e \in D!Delivery : e < d => status[e] # "none"
      /\ \A e \in D!Delivery : d \in Nat /\ e \in Nat
  BY DEF FirstInFirstOut, D!Delivery
<1>2. OutboxTypes'
  BY <1>1 DEF D!Status
<1>3. FirstInFirstOut'
  BY <1>1 DEF FirstInFirstOut, NotTaken, D!Delivery
<1>4. UnsentIsUnsent'
  BY <1>1 DEF UnsentIsUnsent, NotTaken
<1>5. DeliveryInHand'
  BY <1>1 DEF DeliveryInHand, NotTaken, D!Busy
<1> QED BY <1>2, <1>3, <1>4, <1>5

LEMMA OutboxClaim ==
  ASSUME OneWorker, OutboxInv, NEW w \in Workers, D!ClaimOldest(w)
  PROVE  OutboxInv'
<1> USE DEF OutboxInv, OutboxTypes
<1>1. PICK d \in D!Delivery :
        /\ D!OldestPending(d)
        /\ status' = [status EXCEPT ![d] = "sending"]
        /\ held' = [held EXCEPT ![w] = d]
  BY DEF D!ClaimOldest
<1>2. /\ postPc' = [postPc EXCEPT ![w] = "context"] /\ UNCHANGED <<row, delivered>>
      /\ \A v \in Workers : v = w
  BY DEF D!ClaimOldest, D!GoTo, D!wireVars, OneWorker
<1>3. /\ status[d] = "pending"
      /\ \A e \in D!Delivery : status[e] = "pending" => d <= e
      /\ \A e \in D!Delivery : d \in Nat /\ e \in Nat
  BY <1>1 DEF D!OldestPending, D!Pending, D!Delivery
<1>4. OutboxTypes'
  BY <1>1, <1>2, <1>3 DEF D!Status, D!Busy
<1>5. FirstInFirstOut'
  BY <1>1, <1>3 DEF FirstInFirstOut, NotTaken, D!Delivery
<1>6. UnsentIsUnsent'
  BY <1>1, <1>2 DEF UnsentIsUnsent, NotTaken
<1>7. DeliveryInHand'
  <2>1. \A e \in D!Delivery : e > d => status'[e] \in NotTaken
    BY <1>1, <1>3 DEF FirstInFirstOut, NotTaken
  <2> QED BY <1>1, <1>2, <1>3, <2>1 DEF DeliveryInHand, UnsentIsUnsent, NotTaken
<1> QED BY <1>4, <1>5, <1>6, <1>7

(* Only what was being sent is settled.                                    *)
LEMMA OutboxSettle ==
  ASSUME OneWorker, OutboxInv, NEW w \in Workers,
         \/ D!RecoverStale(w) \/ D!Suppress(w)
         \/ D!FinishSent(w) \/ D!FinishRejected(w) \/ D!FinishAmbiguous(w)
  PROVE  OutboxInv' /\ UNCHANGED <<row, delivered>>
<1> USE DEF OutboxInv, OutboxTypes
<1>1. \A v \in Workers : v = w
  BY DEF OneWorker
<1>2. /\ UNCHANGED <<row, delivered>>
      /\ postPc' \in [Workers -> D!AtRest \cup D!Busy] /\ postPc'[w] \notin D!Busy
      /\ held' \in [Workers -> D!Delivery \cup {D!NoDelivery}]
  <2>1. CASE D!RecoverStale(w)
    BY <2>1 DEF D!RecoverStale, D!GoTo, D!wireVars, D!AtRest, D!Busy
  <2>2. ASSUME \E l \in {"idle", "down"} : /\ postPc' = [postPc EXCEPT ![w] = l]
                                           /\ held' = [held EXCEPT ![w] = D!NoDelivery]
        PROVE  /\ postPc' \in [Workers -> D!AtRest \cup D!Busy] /\ postPc'[w] \notin D!Busy
               /\ held' \in [Workers -> D!Delivery \cup {D!NoDelivery}]
    BY <2>2 DEF D!AtRest, D!Busy
  <2>3. CASE D!Suppress(w)
    BY <2>2, <2>3 DEF D!Suppress, D!Return, D!wireVars
  <2>4. CASE D!RecordSent(w) \/ (\E o : D!RecordError(w, o)) \/ D!LogConflict(w)
    BY <2>2, <2>4 DEF D!RecordSent, D!RecordError, D!LogConflict, D!Return, D!Die,
                      D!outboxVars, D!wireVars
  <2> QED BY <2>1, <2>3, <2>4 DEF D!FinishSent, D!FinishRejected, D!FinishAmbiguous
<1>3. /\ status' \in [D!Delivery -> D!Status]
      /\ \A d \in D!Delivery : \/ status'[d] = status[d]
                               \/ status[d] = "sending" /\ status'[d] \in D!Settled
  <2>1. CASE D!RecoverStale(w)
    BY <2>1 DEF D!RecoverStale, D!Stale, D!Status, D!Settled
  <2>2. CASE D!LogConflict(w)
    BY <2>2 DEF D!LogConflict, D!Die, D!outboxVars
  <2>3. CASE \E s \in D!Settled : D!Release(held[w], s) /\ postPc[w] \in D!Busy
    BY <2>3 DEF D!Release, DeliveryInHand, D!Status, D!Settled
  <2> QED BY <2>1, <2>2, <2>3
          DEF D!Suppress, D!FinishSent, D!FinishRejected, D!FinishAmbiguous, D!RecordSent,
              D!RecordError, D!Settled, D!Busy
<1>4. OutboxTypes'
  BY <1>2, <1>3 DEF D!Settled
<1>5. FirstInFirstOut' /\ UnsentIsUnsent'
  BY <1>2, <1>3 DEF FirstInFirstOut, UnsentIsUnsent, NotTaken, D!Settled
<1>6. DeliveryInHand'
  BY <1>1, <1>2 DEF DeliveryInHand
<1> QED BY <1>2, <1>4, <1>5, <1>6

(* The steps that change no table.                                         *)
LEMMA OutboxReads ==
  ASSUME OneWorker, OutboxInv, NEW w \in Workers,
         \/ D!ClaimNothing(w) \/ D!ReadContext(w) \/ D!ReadMode(w) \/ D!ReadFreshness(w)
         \/ D!AskOperator(w) \/ D!EnqueueNothing(w) \/ D!Restart(w) \/ D!Crash(w)
  PROVE  OutboxInv' /\ UNCHANGED <<row, delivered>>
<1> USE DEF OutboxInv, OutboxTypes
<1>1. UNCHANGED <<row, status, delivered>>
  BY DEF D!ClaimNothing, D!ReadContext, D!ReadMode, D!ReadFreshness, D!AskOperator,
         D!EnqueueNothing, D!Restart, D!Crash, D!Die, D!outboxVars, D!wireVars
<1>2. /\ postPc' \in [Workers -> D!AtRest \cup D!Busy]
      /\ held' \in [Workers -> D!Delivery \cup {D!NoDelivery}]
      /\ postPc'[w] \in D!Busy =>
           /\ held'[w] = held[w]
           /\ postPc[w] \in D!Busy \ {"waiting"}
  <2>1. CASE D!Crash(w)
    BY <2>1 DEF D!Crash, D!Die, D!AtRest, D!Busy
  <2>2. CASE \E l \in {"jobs", "idle"} : D!GoTo(w, l) /\ UNCHANGED held
    BY <2>2 DEF D!GoTo, D!AtRest, D!Busy
  <2>3. CASE /\ postPc[w] \in {"context", "mode", "freshness"} /\ UNCHANGED held
             /\ \E l \in {"suppress", "mode", "freshness", "send"} : D!GoTo(w, l)
    BY <2>3 DEF D!GoTo, D!AtRest, D!Busy
  <2> QED BY <2>1, <2>2, <2>3 DEF D!ClaimNothing, D!ReadContext, D!ReadMode, D!ReadFreshness,
                                  D!AskOperator, D!EnqueueNothing, D!Restart
<1>3. OutboxTypes' /\ FirstInFirstOut' /\ UnsentIsUnsent'
  BY <1>1, <1>2 DEF FirstInFirstOut, UnsentIsUnsent
<1>4. DeliveryInHand'
  <2>1. \A v \in Workers : v = w
    BY DEF OneWorker
  <2> QED BY <1>1, <1>2, <2>1 DEF DeliveryInHand
<1> QED BY <1>1, <1>3, <1>4

LEMMA OutboxSend ==
  ASSUME OneWorker, OutboxInv, NEW w \in Workers, D!Send(w)
  PROVE  /\ OutboxInv' /\ UNCHANGED row
         /\ held[w] \in D!Delivery /\ delivered[held[w]] = 0
         /\ \/ UNCHANGED delivered
            \/ delivered' = [delivered EXCEPT ![held[w]] = 1]
<1> USE DEF OutboxInv, OutboxTypes
<1>1. /\ held[w] \in D!Delivery /\ status[held[w]] = "sending" /\ delivered[held[w]] = 0
      /\ \A e \in D!Delivery : e > held[w] => status[e] \in NotTaken
  BY DEF D!Send, DeliveryInHand, D!Busy
<1>2. \/ UNCHANGED delivered
      \/ delivered' = [delivered EXCEPT ![held[w]] = 1]
  <2>1. PICK ok \in BOOLEAN :
          delivered' = [delivered EXCEPT ![held[w]] = IF ok THEN @ + 1 ELSE @]
    BY DEF D!Send
  <2>2. CASE ok
    BY <1>1, <2>1, <2>2
  <2>3. CASE ~ok
    BY <1>1, <2>1, <2>3
  <2> QED BY <2>2, <2>3
<1>3. /\ UNCHANGED <<row, status, held>>
      /\ postPc' = [postPc EXCEPT ![w] = "waiting"]
  BY DEF D!Send, D!GoTo, D!outboxVars
<1>4. OutboxTypes' /\ FirstInFirstOut' /\ UnsentIsUnsent'
  BY <1>1, <1>2, <1>3 DEF FirstInFirstOut, UnsentIsUnsent, NotTaken, D!Busy
<1>5. DeliveryInHand'
  <2>1. \A v \in Workers : v = w
    BY DEF OneWorker
  <2> QED BY <1>1, <1>3, <2>1 DEF DeliveryInHand
<1> QED BY <1>1, <1>2, <1>3, <1>4, <1>5

LEMMA OutboxStep == ASSUME OneWorker, OutboxInv, [D!Next]_(D!vars) PROVE OutboxInv'
<1>1. ASSUME NEW w \in Workers, D!WorkerStep(w) \/ D!Crash(w) PROVE OutboxInv'
  <2>1. CASE D!EnqueueBot(w)
    <3>1. PICK d \in D!Delivery, c \in SendableConversations :
            /\ D!FreeRowid(d)
            /\ \E e \in 1..lastEvent[c] : D!Insert(d, c, "bot", e)
      BY <2>1 DEF D!EnqueueBot
    <3>2. /\ UNCHANGED <<held, delivered>> /\ postPc' = [postPc EXCEPT ![w] = "idle"]
      BY <2>1 DEF D!EnqueueBot, D!GoTo, D!wireVars
    <3>3. /\ postPc' \in [Workers -> D!AtRest \cup D!Busy]
          /\ \A v \in Workers : postPc'[v] = postPc[v] \/ postPc'[v] = "idle"
      BY <3>2 DEF OutboxInv, OutboxTypes, D!AtRest
    <3> QED BY <3>1, <3>2, <3>3, OutboxInsert
  <2> QED BY <1>1, <2>1, OutboxClaim, OutboxSettle, OutboxReads, OutboxSend DEF D!WorkerStep
<1>2. ASSUME NEW d \in D!Delivery, D!LeaseExpires(d) PROVE OutboxInv'
  BY <1>2, OutboxAside DEF D!LeaseExpires, D!workerVars, D!wireVars
<1>3. ASSUME NEW c \in Conversations, D!Inbound(c) PROVE OutboxInv'
  BY <1>3, OutboxAside DEF D!Inbound, D!outboxVars, D!workerVars, D!wireVars
<1>4. CASE D!Operator
  <2>1. ASSUME NEW c \in Conversations, D!HumanReply(c) PROVE OutboxInv'
    <3>1. PICK d \in D!Delivery :
            D!FreeRowid(d) /\ D!Insert(d, c, "human", lastEvent[c])
      BY <2>1 DEF D!HumanReply
    <3>2. UNCHANGED <<held, delivered, postPc>>
      BY <2>1 DEF D!HumanReply, D!workerVars, D!wireVars
    <3> QED BY <3>1, <3>2, OutboxInsert DEF OutboxInv, OutboxTypes
  <2>2. CASE UNCHANGED <<row, status, postPc, held, delivered>>
    BY <2>2, OutboxAside
  <2> QED BY <1>4, <2>1, <2>2
          DEF D!Operator, D!SetBotPaused, D!SetConversationStatus, D!SetMode,
              D!TransitionReview, D!outboxVars, D!workerVars, D!wireVars
<1>5. CASE UNCHANGED D!vars
  BY <1>5, OutboxStutter
<1> QED BY <1>1, <1>2, <1>3, <1>4, <1>5 DEF D!Next

-----------------------------------------------------------------------------
(* The number of a message in its conversation.                            *)

Rank(s, j) == Cardinality({k \in 1..Len(s) : s[k] = s[j] /\ k <= j})

LEMMA RankGrows ==
  ASSUME NEW s \in Seq(Conversations), NEW j \in 1..Len(s), NEW k \in 1..Len(s), s[j] = s[k]
  PROVE  /\ Rank(s, j) \in Nat
         /\ j < k => Rank(s, j) < Rank(s, k)
<1> DEFINE below(i) == {l \in 1..Len(s) : s[l] = s[i] /\ l <= i}
<1>1. \A i : IsFiniteSet(below(i)) /\ Cardinality(below(i)) \in Nat
  <2> SUFFICES ASSUME NEW i PROVE IsFiniteSet(below(i)) /\ Cardinality(below(i)) \in Nat
    OBVIOUS
  <2>1. IsFiniteSet(1..Len(s))
    BY FS_Interval
  <2>2. IsFiniteSet(below(i))
    BY <2>1, FS_Subset
  <2> QED BY <2>2, FS_CardinalityType
<1>2. ASSUME j < k PROVE Cardinality(below(j)) < Cardinality(below(k))
  <2>1. below(j) \in SUBSET below(k) /\ k \in below(k) /\ k \notin below(j)
    BY <1>2
  <2>2. /\ Cardinality(below(j)) <= Cardinality(below(k))
        /\ Cardinality(below(k)) = Cardinality(below(j)) => below(k) = below(j)
    BY <1>1, <2>1, FS_Subset
  <2>3. below(k) # below(j)
    BY <2>1
  <2>4. Cardinality(below(k)) \in Nat /\ Cardinality(below(j)) \in Nat
    BY <1>1
  <2> HIDE DEF below
  <2> QED BY <2>2, <2>3, <2>4
<1> QED BY <1>1, <1>2 DEF Rank

LEMMA RankStays ==
  ASSUME NEW s \in Seq(Conversations), NEW c \in Conversations, NEW j \in 1..Len(s)
  PROVE  Rank(Append(s, c), j) = Rank(s, j)
<1> DEFINE t == Append(s, c)
<1>1. /\ Len(t) = Len(s) + 1 /\ Len(s) \in Nat
      /\ \A i \in 1..Len(s) : t[i] = s[i]
  OBVIOUS
<1> HIDE DEF t
<1>2. {k \in 1..Len(t) : t[k] = t[j] /\ k <= j} = {k \in 1..Len(s) : s[k] = s[j] /\ k <= j}
  BY <1>1
<1> QED BY <1>2 DEF Rank, t

(* Events tell the messages of a conversation apart, and in their order.   *)
LEMMA MessagesAreNumbered ==
  ASSUME QueueTypes, NEW j \in J!Inserted, NEW k \in J!Inserted, jobs[j] = jobs[k]
  PROVE  /\ Rank(jobs, j) \in Nat
         /\ j < k => Rank(jobs, j) < Rank(jobs, k)
         /\ Rank(jobs, j) = Rank(jobs, k) => j = k
<1>1. j \in 1..Len(jobs) /\ k \in 1..Len(jobs) /\ jobs \in Seq(Conversations)
  BY DEF QueueTypes, J!Inserted
<1>2. /\ Rank(jobs, j) \in Nat /\ Rank(jobs, k) \in Nat
      /\ j < k => Rank(jobs, j) < Rank(jobs, k)
      /\ k < j => Rank(jobs, k) < Rank(jobs, j)
  BY <1>1, RankGrows
<1> QED BY <1>1, <1>2

-----------------------------------------------------------------------------
(* The copies of an answer.                                                *)

Copies(A, f) == Cardinality(UNION {{d} \X (1 .. f[d]) : d \in A})

LEMMA NoCopies == ASSUME NEW A, NEW f, \A d \in A : f[d] = 0 PROVE Copies(A, f) = 0
<1>1. UNION {{d} \X (1 .. f[d]) : d \in A} = {}
  OBVIOUS
<1> QED BY <1>1, FS_EmptySet DEF Copies

LEMMA OneCopy == ASSUME NEW d, NEW f, f[d] = 1 PROVE Copies({d}, f) = 1
<1>1. UNION {{e} \X (1 .. f[e]) : e \in {d}} = {<<d, 1>>}
  OBVIOUS
<1> QED BY <1>1, FS_Singleton DEF Copies

LEMMA SameCopies ==
  ASSUME NEW A, NEW B, NEW f, NEW g,
         \A d \in A : f[d] = 0 \/ (d \in B /\ g[d] = f[d]),
         \A d \in B : g[d] = 0 \/ (d \in A /\ f[d] = g[d])
  PROVE  Copies(A, f) = Copies(B, g)
<1> DEFINE of(S, h) == UNION {{d} \X (1 .. h[d]) : d \in S}
<1>1. \A S, h, x : x \in of(S, h) <=> \E d \in S : x \in {d} \X (1 .. h[d])
  OBVIOUS
<1>2. \A n : n = 0 => 1 .. n = {}
  OBVIOUS
<1>3. \A x : x \in of(A, f) <=> x \in of(B, g)
  <2> HIDE DEF of
  <2> SUFFICES ASSUME NEW x PROVE x \in of(A, f) <=> x \in of(B, g)
    OBVIOUS
  <2>1. ASSUME x \in of(A, f) PROVE x \in of(B, g)
    <3>1. PICK d \in A : x \in {d} \X (1 .. f[d])
      BY <1>1, <2>1
    <3>2. f[d] # 0
      BY <1>2, <3>1
    <3> QED BY <1>1, <3>1, <3>2
  <2>2. ASSUME x \in of(B, g) PROVE x \in of(A, f)
    <3>1. PICK d \in B : x \in {d} \X (1 .. g[d])
      BY <1>1, <2>2
    <3>2. g[d] # 0
      BY <1>2, <3>1
    <3> QED BY <1>1, <3>1, <3>2
  <2> QED BY <2>1, <2>2
<1>4. of(A, f) = of(B, g)
  BY <1>3
<1> QED BY <1>4 DEF Copies

-----------------------------------------------------------------------------
(* With one worker: the answers in the outbox and the messages.            *)

FromBot(d) == row[d].author = "bot"

(* The answer of the bot in the outbox belongs to a message for which the  *)
(* bot recorded an action.                                                 *)
AnswersHaveMessages ==
  \A d \in D!Delivery : FromBot(d) =>
    \E j \in J!Inserted : /\ row[d].conversation = jobs[j] /\ row[d].event = Rank(jobs, j)
                          /\ ByBot(j)

(* The answers to a conversation are queued in the order of its messages.  *)
AnswersInOrder ==
  \A d, e \in D!Delivery :
    /\ FromBot(d) /\ FromBot(e) /\ d < e
    /\ row[d].conversation = row[e].conversation
    => row[d].event < row[e].event

(* What a worker is about to answer comes after all that was answered,     *)
(* even if the customer wrote again since the worker looked.               *)
AnswerIsNext ==
  \A w \in Workers : pc[w] = "insert" =>
    \A d \in D!Delivery :
      FromBot(d) /\ row[d].conversation = jobs[run[w].job] => row[d].event < Rank(jobs, run[w].job)

Answers == AnswersHaveMessages /\ AnswersInOrder /\ AnswerIsNext

WholeInv == QueueInv /\ OutboxInv /\ Answers

LEMMA AnswersInit == Init => Answers
<1> SUFFICES ASSUME Init PROVE Answers
  OBVIOUS
<1>1. \A d \in D!Delivery : ~FromBot(d)
  BY DEF Init, D!Init, D!NoRow, FromBot
<1> QED BY <1>1 DEF Answers, AnswersHaveMessages, AnswersInOrder, AnswerIsNext

(* How a step of the queue treats the actions and the worker who inserts.  *)
LEMMA QueueMoves ==
  ASSUME OneWorker, QueueInv, [J!Next]_(J!vars), UNCHANGED jobs
  PROVE  /\ \A j \in J!Inserted : ByBot(j) => (ByBot(j))'
         /\ \A w \in Workers : pc'[w] = "insert" =>
              /\ run'[w].job = run[w].job
              /\ pc[w] = "insert" \/ (pc[w] = "provider" /\ J!Newer(run[w].job) = {})
<1> USE DEF QueueInv, QueueTypes
<1> DEFINE Goal == /\ \A j \in J!Inserted : ByBot(j) => (ByBot(j))'
                   /\ \A w \in Workers : pc'[w] = "insert" =>
                        /\ run'[w].job = run[w].job
                        /\ pc[w] = "insert" \/ (pc[w] = "provider" /\ J!Newer(run[w].job) = {})
<1>1. ASSUME UNCHANGED <<actions, pc, run>> PROVE Goal
  BY <1>1 DEF ByBot
<1>2. ASSUME NEW w \in Workers, UNCHANGED actions, \A v \in Workers : v = w,
             pc'[w] # "insert"
      PROVE  Goal
  BY <1>2 DEF ByBot
<1>3. ASSUME NEW w \in Workers, J!WorkerStep(w) \/ J!Crash(w) PROVE Goal
  <2>0. \A v \in Workers : v = w
    BY DEF OneWorker
  <2>1. CASE J!CheckFresh(w)
    <3>1. UNCHANGED actions /\ run'[w].job = run[w].job /\ pc[w] = "provider"
      BY <2>1 DEF J!CheckFresh, InHand
    <3>2. pc'[w] = "insert" => J!Newer(run[w].job) = {}
      BY <2>1 DEF J!CheckFresh, J!GoTo
    <3> QED BY <2>0, <3>1, <3>2 DEF ByBot
  <2>2. CASE J!InsertAction(w)
    <3>1. \A j \in J!Inserted : ByBot(j) => (ByBot(j))'
      <4> SUFFICES ASSUME NEW j \in J!Inserted, ByBot(j) PROVE (ByBot(j))'
        OBVIOUS
      <4>1. CASE j = run[w].job
        <5>1. PICK i \in 1..Len(actions[j]) : actions[j][i].author = "bot"
          BY DEF ByBot
        <5>2. PICK kind \in J!Kind, earlier \in J!MayBeEarlier(w) :
                actions' = [actions EXCEPT ![j] = Append(@, J!Action("bot", kind, earlier))]
          BY <2>2, <4>1 DEF J!InsertAction
        <5>3. j \in J!Job /\ actions[j] \in Seq(J!ActionRow)
          BY InsertedIsJob
        <5>4. actions'[j] = Append(actions[j], J!Action("bot", kind, earlier))
          BY <5>2, <5>3
        <5>5. i \in 1..Len(actions'[j]) /\ actions'[j][i] = actions[j][i]
          BY <5>3, <5>4
        <5> QED BY <5>1, <5>5 DEF ByBot
      <4>2. CASE j # run[w].job
        <5>1. actions'[j] = actions[j]
          BY <2>2, <4>2, InsertedIsJob DEF J!InsertAction
        <5> QED BY <5>1 DEF ByBot
      <4> QED BY <4>1, <4>2
    <3>2. pc'[w] # "insert"
      BY <2>2 DEF J!InsertAction, J!GoTo, J!AfterAction
    <3> QED BY <2>0, <3>1, <3>2
  <2>3. CASE J!Execute(w)
    <3>1. \A j \in J!Inserted : ByBot(j) => (ByBot(j))'
      BY <2>3, QueueExecute, InsertedIsJob
    <3>2. pc'[w] # "insert"
      BY <2>3 DEF J!Execute, J!GoTo
    <3> QED BY <2>0, <3>1, <3>2
  <2>4. CASE J!RecoverStale(w) \/ J!ClaimNext(w) \/ J!ClaimNothing(w) \/ J!LookForAction(w)
             \/ J!CheckExecution(w) \/ J!FindNewest(w) \/ J!Restart(w)
    <3>1. UNCHANGED actions
      BY <2>4 DEF J!RecoverStale, J!Recover, J!ClaimNext, J!ClaimNothing, J!LookForAction,
                  J!CheckExecution, J!FindNewest, J!Restart
    <3>2. pc'[w] # "insert"
      BY <2>4 DEF J!RecoverStale, J!ClaimNext, J!ClaimNothing, J!LookForAction,
                  J!CheckExecution, J!FindNewest, J!Restart, J!GoTo, J!AfterAction
    <3> QED BY <1>2, <2>0, <3>1, <3>2
  <2>5. CASE J!Complete(w) \/ J!Supersede(w) \/ J!Fail(w) \/ J!Crash(w)
    <3>1. UNCHANGED actions
      BY <2>5 DEF J!Complete, J!Supersede, J!Fail, J!Crash
    <3>2. pc'[w] # "insert"
      BY <2>5 DEF J!Complete, J!Supersede, J!Fail, J!Crash, J!EndRun, J!GoTo
    <3> QED BY <1>2, <2>0, <3>1, <3>2
  <2> QED BY <1>3, <2>1, <2>2, <2>3, <2>4, <2>5 DEF J!WorkerStep
<1>4. ASSUME NEW c \in Conversations, J!Enqueue(c) PROVE Goal
  <2>1. UNCHANGED <<actions, pc, run>>
    BY <1>4 DEF J!Enqueue, J!workerVars
  <2> QED BY <1>1, <2>1
<1>5. ASSUME NEW c \in Conversations, J!HumanReply(c) PROVE Goal
  <2>1. PICK k \in J!Inserted :
          actions' = [actions EXCEPT ![k] = Append(@, J!Action("human", "delivery", @ = <<>>))]
    BY <1>5 DEF J!HumanReply
  <2>2. \A j \in J!Inserted : ByBot(j) => (ByBot(j))'
    <3> SUFFICES ASSUME NEW j \in J!Inserted, ByBot(j) PROVE (ByBot(j))'
      OBVIOUS
    <3>1. CASE j = k
      <4>1. PICK i \in 1..Len(actions[j]) : actions[j][i].author = "bot"
        BY DEF ByBot
      <4>2. j \in J!Job /\ actions[j] \in Seq(J!ActionRow)
        BY InsertedIsJob
      <4>3. actions'[j] = Append(actions[j], J!Action("human", "delivery", actions[j] = <<>>))
        BY <2>1, <3>1, <4>2
      <4>4. i \in 1..Len(actions'[j]) /\ actions'[j][i] = actions[j][i]
        BY <4>2, <4>3
      <4> QED BY <4>1, <4>4 DEF ByBot
    <3>2. CASE j # k
      <4>1. actions'[j] = actions[j]
        BY <2>1, <3>2, InsertedIsJob
      <4> QED BY <4>1 DEF ByBot
    <3> QED BY <3>1, <3>2
  <2>3. UNCHANGED <<pc, run>>
    BY <1>5 DEF J!HumanReply, J!workerVars
  <2> QED BY <2>2, <2>3
<1>6. CASE J!RecoverByHand \/ (\E j \in J!Job : J!Retry(j) \/ J!Dismiss(j) \/ J!BecomeDue(j)
                                                \/ J!LeaseExpires(j))
  <2>1. UNCHANGED <<actions, pc, run>>
    BY <1>6 DEF J!RecoverByHand, J!Recover, J!Retry, J!Dismiss, J!BecomeDue, J!LeaseExpires,
                J!workerVars
  <2> QED BY <1>1, <2>1
<1>7. CASE UNCHANGED J!vars
  BY <1>1, <1>7 DEF J!vars, J!workerVars
<1> QED BY <1>3, <1>4, <1>5, <1>6, <1>7 DEF J!Next, J!Operator

(* How a step treats the rows and the wire.                                *)
LEMMA OutboxMoves ==
  ASSUME OneWorker, OutboxInv, [Next]_vars
  PROVE  \/ \E w \in Workers : D!Send(w) /\ JobsIdle
         \/ \E w \in Workers : Decide(w) /\ QueueAnswer(w, run[w].job) /\ UNCHANGED delivered
         \/ /\ UNCHANGED delivered
            /\ \A d \in D!Delivery :
                 row'[d] = row[d] \/ (status[d] = "none" /\ row'[d].author = "human")
<1> DEFINE Quiet == UNCHANGED <<row, delivered>>
<1> SUFFICES ASSUME ~ Quiet,
                    ~ \E w \in Workers : D!Send(w) /\ JobsIdle,
                    ~ \E w \in Workers :
                        Decide(w) /\ QueueAnswer(w, run[w].job) /\ UNCHANGED delivered
             PROVE  /\ UNCHANGED delivered
                    /\ \A d \in D!Delivery :
                         row'[d] = row[d] \/ (status[d] = "none" /\ row'[d].author = "human")
  OBVIOUS
<1>1. ASSUME NEW w \in Workers, WorkerStep(w) \/ Crash(w) PROVE FALSE
  <2>1. CASE ServeOutbox(w)
    <3>1. CASE D!ClaimOldest(w)
      BY <3>1 DEF D!ClaimOldest, D!wireVars
    <3> QED BY <2>1, <3>1, OutboxSettle, OutboxReads DEF ServeOutbox
  <2>2. CASE TurnToJobs(w) \/ RunJob(w)
    BY <2>2 DEF TurnToJobs, RunJob, OutboxIdle, outboxSide
  <2>3. CASE Decide(w)
    <3>1. CASE QueueAnswer(w, run[w].job)
      BY <2>3, <3>1 DEF QueueAnswer, D!EnqueueBot, D!wireVars
    <3>2. CASE OpenReview(w, run[w].job)
      BY <3>2, OutboxReads DEF OpenReview
    <3>3. CASE OutboxIdle
      BY <3>3 DEF OutboxIdle, outboxSide
    <3> QED BY <2>3, <3>1, <3>2, <3>3 DEF Decide
  <2>4. CASE EndRun(w)
    BY <2>4, OutboxReads DEF EndRun, OutboxIdle, outboxSide
  <2>5. CASE Restart(w) \/ Crash(w)
    BY <2>5, OutboxReads DEF Restart, Crash
  <2> QED BY <1>1, <2>1, <2>2, <2>3, <2>4, <2>5 DEF WorkerStep
<1>2. ASSUME NEW c \in Conversations, Enqueue(c) PROVE FALSE
  BY <1>2 DEF Enqueue, D!Inbound, D!outboxVars, D!wireVars
<1>3. ASSUME NEW c \in Conversations, HumanReply(c)
      PROVE  /\ UNCHANGED delivered
             /\ \A d \in D!Delivery :
                  row'[d] = row[d] \/ (status[d] = "none" /\ row'[d].author = "human")
  <2>1. PICK d \in D!Delivery : D!FreeRowid(d) /\ D!Insert(d, c, "human", lastEvent[c])
    BY <1>3 DEF HumanReply, D!HumanReply
  <2>2. UNCHANGED delivered
    BY <1>3 DEF HumanReply, D!HumanReply, D!wireVars
  <2> QED BY <2>1, <2>2 DEF D!FreeRowid, D!Insert, OutboxInv, OutboxTypes
<1>4. CASE JobOperator
  BY <1>4 DEF JobOperator, outboxSide
<1>5. CASE ConversationOperator
  BY <1>5 DEF ConversationOperator, D!SetBotPaused, D!SetConversationStatus, D!SetMode,
              D!TransitionReview, D!outboxVars, D!wireVars
<1>6. ASSUME NEW j \in J!Job, JobTime(j) PROVE FALSE
  BY <1>6 DEF JobTime, OutboxIdle, outboxSide
<1>7. ASSUME NEW d \in D!Delivery, DeliveryTime(d) PROVE FALSE
  BY <1>7 DEF DeliveryTime, D!LeaseExpires, D!wireVars
<1>8. CASE UNCHANGED vars
  BY <1>8 DEF vars, outboxSide
<1> QED BY <1>1, <1>2, <1>3, <1>4, <1>5, <1>6, <1>7, <1>8 DEF Next

(* The delivery of an answer: a row behind all those of the bot.           *)
LEMMA AnswerQueued ==
  ASSUME WholeInv, NEW w \in Workers, QueueAnswer(w, run[w].job)
  PROVE  \E d \in D!Delivery :
           /\ status[d] = "none" /\ row' = [row EXCEPT ![d] = row'[d]]
           /\ row'[d].author = "bot" /\ row'[d].conversation = jobs[run[w].job]
           /\ row'[d].event = Rank(jobs, run[w].job)
           /\ \A e \in D!Delivery : FromBot(e) => e < d
<1> USE DEF WholeInv, OutboxInv, OutboxTypes
<1> DEFINE j == run[w].job
<1>1. PICK d \in D!Delivery :
        row' = [row EXCEPT ![d] =
          [conversation |-> jobs[j], author |-> "bot", event |-> EventOf(j)]]
  BY DEF QueueAnswer
<1>2. PICK f \in D!Delivery, c \in SendableConversations :
        /\ D!FreeRowid(f)
        /\ \E e \in 1..lastEvent[c] : D!Insert(f, c, "bot", e)
  BY DEF QueueAnswer, D!EnqueueBot
<1>3. f = d
  <2>1. status[f] = "none" /\ row[f].author = "none"
    BY <1>2 DEF D!FreeRowid, D!NoRow
  <2>2. row'[f].author = "bot"
    BY <1>2 DEF D!Insert
  <2> QED BY <1>1, <2>1, <2>2
<1>4. /\ status[d] = "none"
      /\ \A e \in D!Delivery : status[e] = "none" => d <= e
  BY <1>2, <1>3 DEF D!FreeRowid
<1>5. \A e \in D!Delivery : FromBot(e) => e < d
  <2> SUFFICES ASSUME NEW e \in D!Delivery, FromBot(e) PROVE e < d
    OBVIOUS
  <2>1. status[e] # "none"
    BY DEF FromBot, D!NoRow
  <2> QED BY <1>4, <2>1 DEF FirstInFirstOut, D!Delivery
<1>6. row'[d] = [conversation |-> jobs[j], author |-> "bot", event |-> EventOf(j)]
  BY <1>1
<1>7. EventOf(j) = Rank(jobs, j)
  <2>1. {k \in J!JobsOf(jobs[j]) : k <= j} = {k \in 1..Len(jobs) : jobs[k] = jobs[j] /\ k <= j}
    BY DEF J!JobsOf, J!Inserted
  <2> QED BY <2>1 DEF EventOf, Rank
<1> QED BY <1>1, <1>4, <1>5, <1>6, <1>7

LEMMA AnswersKept ==
  ASSUME WholeInv,
         J!Inserted \subseteq J!Inserted',
         \A j \in J!Inserted : /\ jobs'[j] = jobs[j] /\ Rank(jobs', j) = Rank(jobs, j)
                               /\ ByBot(j) => (ByBot(j))',
         \A d \in D!Delivery :
           row'[d] = row[d] \/ (status[d] = "none" /\ row'[d].author = "human"),
         \A w \in Workers : pc'[w] = "insert" =>
           /\ run'[w].job = run[w].job
           /\ pc[w] = "insert" \/ (pc[w] = "provider" /\ J!Newer(run[w].job) = {})
  PROVE  Answers'
<1> USE DEF WholeInv, Answers
<1>1. \A d \in D!Delivery : row'[d].author = "bot" => row'[d] = row[d] /\ FromBot(d)
  BY DEF FromBot
<1>2. AnswersHaveMessages'
  BY <1>1 DEF AnswersHaveMessages, FromBot
<1>3. AnswersInOrder'
  BY <1>1 DEF AnswersInOrder, FromBot
<1>4. AnswerIsNext'
  <2> SUFFICES ASSUME NEW w \in Workers, pc'[w] = "insert",
                      NEW d \in D!Delivery, row'[d].author = "bot",
                      row'[d].conversation = jobs'[run'[w].job]
               PROVE  row'[d].event < Rank(jobs', run'[w].job)
    BY DEF AnswerIsNext, FromBot
  <2> DEFINE j == run[w].job
  <2>1. run'[w].job = j /\ j \in J!Inserted /\ jobs'[j] = jobs[j]
    BY DEF QueueInv, JobInHand, J!Busy
  <2>2. FromBot(d) /\ row'[d] = row[d] /\ row[d].conversation = jobs[j]
    BY <1>1, <2>1
  <2>3. Rank(jobs', run'[w].job) = Rank(jobs, j)
    BY <2>1
  <2>4. CASE pc[w] = "insert"
    BY <2>2, <2>3, <2>4 DEF AnswerIsNext
  <2>5. CASE pc[w] = "provider" /\ J!Newer(j) = {}
    <3>1. PICK k \in J!Inserted :
            jobs[k] = jobs[j] /\ row[d].event = Rank(jobs, k) /\ ByBot(k)
      BY <2>2 DEF AnswersHaveMessages
    <3>2. k # j
      BY <2>5, <3>1 DEF QueueInv, JobInHand
    <3>3. ~ (k > j)
      BY <2>1, <2>5, <3>1 DEF J!Newer, J!JobsOf
    <3>4. k < j
      BY <2>1, <3>2, <3>3 DEF J!Inserted
    <3>5. Rank(jobs, k) < Rank(jobs, j)
      BY <2>1, <3>1, <3>4, MessagesAreNumbered DEF QueueInv
    <3> QED BY <2>2, <2>3, <3>1, <3>5
  <2> QED BY <2>4, <2>5
<1> QED BY <1>2, <1>3, <1>4

LEMMA JobsMove ==
  ASSUME QueueTypes, [Next]_vars
  PROVE  UNCHANGED jobs \/ \E c \in Conversations : Enqueue(c)
<1>1. ASSUME NEW w \in Workers, WorkerStep(w) \/ Crash(w) PROVE UNCHANGED jobs
  BY <1>1
     DEF WorkerStep, ServeOutbox, TurnToJobs, RunJob, Decide, EndRun, Restart, Crash, JobsIdle,
         jobSide, J!RecoverStale, J!Recover, J!ClaimNext, J!ClaimNothing, J!LookForAction,
         J!CheckFresh, J!CheckExecution, J!Execute, J!FindNewest, J!InsertAction, J!Complete,
         J!Supersede, J!Fail, J!Crash, J!Restart
<1>2. ASSUME NEW c \in Conversations, HumanReply(c) PROVE UNCHANGED jobs
  BY <1>2 DEF HumanReply, J!HumanReply
<1>3. CASE JobOperator
  BY <1>3 DEF JobOperator, J!RecoverByHand, J!Recover, J!Retry, J!Dismiss
<1>4. CASE ConversationOperator \/ UNCHANGED vars \/ \E d \in D!Delivery : DeliveryTime(d)
  BY <1>4 DEF ConversationOperator, vars, DeliveryTime, JobsIdle, jobSide
<1>5. ASSUME NEW j \in J!Job, JobTime(j) PROVE UNCHANGED jobs
  BY <1>5 DEF JobTime, J!BecomeDue, J!LeaseExpires
<1> QED BY <1>1, <1>2, <1>3, <1>4, <1>5 DEF Next

LEMMA AnswersDecided ==
  ASSUME OneWorker, WholeInv, NEW w \in Workers, Decide(w), QueueAnswer(w, run[w].job)
  PROVE  Answers'
<1> USE DEF WholeInv, Answers
<1>0. J!InsertAction(w) /\ pc[w] = "insert" /\ UNCHANGED jobs
  BY DEF Decide, J!InsertAction
<1>a. PICK j \in J!Inserted : j = run[w].job
  BY <1>0, QueueInsertAction
<1>1. PICK d \in D!Delivery :
        /\ status[d] = "none" /\ row' = [row EXCEPT ![d] = row'[d]]
        /\ row'[d].author = "bot" /\ row'[d].conversation = jobs[j]
        /\ row'[d].event = Rank(jobs, j)
        /\ \A e \in D!Delivery : FromBot(e) => e < d
  BY <1>a, AnswerQueued
<1>2. (ByBot(j))' /\ UNCHANGED jobs /\ pc'[w] # "insert"
  <2>1. (ByBot(run[w].job))'
    BY <1>0, QueueInsertAction
  <2>2. run'[w].job = j
    BY <1>0, <1>a DEF J!InsertAction, QueueInv, QueueTypes, InHand
  <2>3. pc'[w] # "insert"
    BY <1>0 DEF J!InsertAction, J!GoTo, J!AfterAction, QueueInv, QueueTypes
  <2> QED BY <1>0, <2>1, <2>2, <2>3 DEF ByBot
<1>3. \A e \in D!Delivery \ {d} : row'[e] = row[e]
  BY <1>1 DEF OutboxInv, OutboxTypes
<1>4. \A k \in J!Inserted : ByBot(k) => (ByBot(k))'
  <2>1. [J!Next]_(J!vars)
    BY DEF Decide, J!Next, J!WorkerStep
  <2> QED BY <1>2, <2>1, QueueMoves
<1>5. AnswersHaveMessages'
  <2> SUFFICES ASSUME NEW e \in D!Delivery, row'[e].author = "bot"
               PROVE  \E k \in J!Inserted' : /\ row'[e].conversation = jobs'[k]
                                             /\ row'[e].event = Rank(jobs', k)
                                             /\ (ByBot(k))'
    BY DEF AnswersHaveMessages, FromBot
  <2>1. J!Inserted' = J!Inserted
    BY <1>2 DEF J!Inserted
  <2>2. CASE e = d
    BY <1>1, <1>2, <2>1, <2>2
  <2>3. CASE e # d
    <3>1. row'[e] = row[e] /\ FromBot(e)
      BY <1>3, <2>3 DEF FromBot
    <3> QED BY <1>2, <1>4, <2>1, <3>1 DEF AnswersHaveMessages
  <2> QED BY <2>2, <2>3
<1>6. AnswersInOrder'
  <2> SUFFICES ASSUME NEW a \in D!Delivery, NEW b \in D!Delivery, a < b,
                      row'[a].author = "bot", row'[b].author = "bot",
                      row'[a].conversation = row'[b].conversation
               PROVE  row'[a].event < row'[b].event
    BY DEF AnswersInOrder, FromBot
  <2>1. CASE a = d
    <3>1. row'[b] = row[b] /\ FromBot(b)
      BY <1>3, <2>1 DEF FromBot, D!Delivery
    <3> QED BY <1>1, <2>1, <3>1 DEF D!Delivery
  <2>2. CASE a # d /\ b = d
    <3>1. row'[a] = row[a] /\ FromBot(a) /\ row[a].conversation = jobs[j]
      BY <1>1, <1>3, <2>2 DEF FromBot
    <3> QED BY <1>0, <1>a, <1>1, <1>2, <2>2, <3>1 DEF AnswerIsNext
  <2>3. CASE a # d /\ b # d
    BY <1>3, <2>3 DEF AnswersInOrder, FromBot
  <2> QED BY <2>1, <2>2, <2>3
<1>7. AnswerIsNext'
  BY <1>2 DEF AnswerIsNext, OneWorker
<1> QED BY <1>5, <1>6, <1>7

LEMMA AnswersStep ==
  ASSUME OneWorker, WholeInv, [Next]_vars
  PROVE  Answers'
<1> USE DEF WholeInv
<1>1. ASSUME NEW c \in Conversations, Enqueue(c) PROVE Answers'
  <2>1. jobs' = Append(jobs, c) /\ UNCHANGED <<actions, pc, run>>
    BY <1>1 DEF Enqueue, J!Enqueue, J!workerVars
  <2>2. UNCHANGED row
    BY <1>1 DEF Enqueue, D!Inbound, D!outboxVars
  <2>3. /\ J!Inserted \subseteq J!Inserted'
        /\ \A j \in J!Inserted : jobs'[j] = jobs[j]
    BY <2>1 DEF QueueInv, QueueTypes, J!Inserted
  <2>4. \A j \in J!Inserted : Rank(jobs', j) = Rank(jobs, j)
    BY <2>1, RankStays DEF QueueInv, QueueTypes, J!Inserted
  <2>5. \A j \in J!Inserted : ByBot(j) => (ByBot(j))'
    BY <2>1 DEF ByBot
  <2> QED BY <2>1, <2>2, <2>3, <2>4, <2>5, AnswersKept
<1>2. CASE UNCHANGED jobs
  <2>1. CASE \E w \in Workers : Decide(w) /\ QueueAnswer(w, run[w].job)
    BY <2>1, AnswersDecided
  <2>2. CASE \A d \in D!Delivery :
               row'[d] = row[d] \/ (status[d] = "none" /\ row'[d].author = "human")
    <3>1. J!Inserted \subseteq J!Inserted'
      BY <1>2 DEF J!Inserted
    <3>2. [J!Next]_(J!vars)
      BY StepIsJobs
    <3>3. /\ \A j \in J!Inserted : ByBot(j) => (ByBot(j))'
          /\ \A w \in Workers : pc'[w] = "insert" =>
               /\ run'[w].job = run[w].job
               /\ pc[w] = "insert" \/ (pc[w] = "provider" /\ J!Newer(run[w].job) = {})
      BY <1>2, <3>2, QueueMoves
    <3> QED BY <1>2, <2>2, <3>1, <3>3, AnswersKept
  <2>3. CASE \E w \in Workers : D!Send(w) /\ JobsIdle
    BY <2>2, <2>3 DEF D!Send, D!outboxVars
  <2> QED BY <2>1, <2>2, <2>3, OutboxMoves
<1> QED BY <1>1, <1>2, JobsMove DEF QueueInv

LEMMA WholeInvariance ==
  ASSUME OneWorker
  PROVE  Spec => []WholeInv
<1>1. Init => WholeInv
  BY QueueInit, OutboxInit, AnswersInit DEF Init, WholeInv
<1>2. WholeInv /\ [Next]_vars => WholeInv'
  <2> SUFFICES ASSUME WholeInv, [Next]_vars PROVE WholeInv'
    OBVIOUS
  <2>1. QueueInv'
    BY StepIsJobs, QueueStep DEF WholeInv
  <2>2. OutboxInv'
    BY StepIsOutbox, OutboxStep DEF WholeInv
  <2>3. Answers'
    BY AnswersStep
  <2> QED BY <2>1, <2>2, <2>3 DEF WholeInv
<1> QED BY <1>1, <1>2, PTL DEF Spec

-----------------------------------------------------------------------------
(* The refinement.                                                         *)

FateOf(a, s) ==
  IF a # <<>> THEN "decided"
  ELSE CASE s = "none" -> "none"
         [] s \in J!Open -> "waiting"
         [] s = "superseded" -> "aside"
         [] s = "dead_letter" -> "parked"
         [] s = "dismissed" -> "dismissed"
         [] s = "completed" -> "lost"

LEMMA Fates ==
  /\ \A a, s : a # <<>> => FateOf(a, s) = "decided"
  /\ FateOf(<<>>, "none") = "none"
  /\ FateOf(<<>>, "queued") = "waiting" /\ FateOf(<<>>, "processing") = "waiting"
  /\ FateOf(<<>>, "superseded") = "aside" /\ FateOf(<<>>, "dead_letter") = "parked"
  /\ FateOf(<<>>, "dismissed") = "dismissed"
  BY DEF FateOf, J!Open

AnswersIn(r, s, j) ==
  {d \in D!Delivery : /\ r[d].author = "bot" /\ r[d].conversation = s[j]
                      /\ r[d].event = Rank(s, j)}

CopiesIn(r, s, f) ==
  [j \in J!Job |-> IF j \in 1..Len(s) THEN Copies(AnswersIn(r, s, j), f) ELSE 0]

LEMMA Numbered ==
  /\ \A j : EventOf(j) = Rank(jobs, j)
  /\ \A j : (EventOf(j))' = Rank(jobs', j)
<1>1. \A j : {k \in J!JobsOf(jobs[j]) : k <= j} =
             {k \in 1..Len(jobs) : jobs[k] = jobs[j] /\ k <= j}
  BY DEF J!JobsOf, J!Inserted
<1>2. \A j : ({k \in J!JobsOf(jobs[j]) : k <= j})' =
             {k \in 1..Len(jobs') : jobs'[k] = jobs'[j] /\ k <= j}
  BY DEF J!JobsOf, J!Inserted
<1> QED BY <1>1, <1>2 DEF EventOf, Rank

LEMMA FateBarIs ==
  /\ fateBar = [j \in J!Job |-> FateOf(actions[j], state[j])]
  /\ fateBar' = [j \in J!Job |-> FateOf(actions'[j], state'[j])]
  BY DEF fateBar, FateOf, J!Job, J!Open

LEMMA CopiesBarIs ==
  /\ copiesBar = CopiesIn(row, jobs, delivered)
  /\ copiesBar' = CopiesIn(row', jobs', delivered')
<1>1. \A j : AnswersTo(j) = AnswersIn(row, jobs, j)
  BY Numbered DEF AnswersTo, AnswersIn
<1>2. \A j : (AnswersTo(j))' = AnswersIn(row', jobs', j)
  <2> SUFFICES ASSUME NEW j PROVE (AnswersTo(j))' = AnswersIn(row', jobs', j)
    OBVIOUS
  <2>1. (AnswersTo(j))' =
          {d \in D!Delivery : /\ row'[d].author = "bot" /\ row'[d].conversation = jobs'[j]
                              /\ row'[d].event = (EventOf(j))'}
    BY DEF AnswersTo, D!Delivery
  <2> QED BY <2>1, Numbered DEF AnswersIn
<1>3. copiesBar = CopiesIn(row, jobs, delivered)
  BY <1>1 DEF copiesBar, CopiesIn, Copies, J!Inserted
<1>4. copiesBar' = CopiesIn(row', jobs', delivered')
  <2>1. copiesBar' = [j \in J!Job |->
          IF j \in 1..Len(jobs')
            THEN Cardinality(UNION {{d} \X (1 .. delivered'[d]) : d \in (AnswersTo(j))'})
            ELSE 0]
    BY DEF copiesBar, J!Inserted, J!Job
  <2> QED BY <1>2, <2>1 DEF CopiesIn, Copies
<1> QED BY <1>3, <1>4

(* A step that changes the state of one job, or the first of its actions.  *)
LEMMA StateMovesFate ==
  ASSUME QueueTypes, NEW j \in J!Job, NEW s, state' = [state EXCEPT ![j] = s],
         UNCHANGED actions
  PROVE  fateBar' = [fateBar EXCEPT ![j] = FateOf(actions[j], s)]
<1>1. \A k \in J!Job : state'[k] = IF k = j THEN s ELSE state[k]
  BY DEF QueueTypes
<1> HIDE DEF FateOf
<1> QED BY <1>1, FateBarIs

LEMMA ActionMovesFate ==
  ASSUME QueueTypes, NEW j \in J!Job, UNCHANGED state, actions'[j] # <<>>,
         \A k \in J!Job \ {j} : actions'[k] = actions[k]
  PROVE  fateBar' = [fateBar EXCEPT ![j] = "decided"]
<1>1. FateOf(actions'[j], state[j]) = "decided"
  BY DEF FateOf
<1> QED BY <1>1, FateBarIs

LEMMA UndecidedIs ==
  ASSUME NEW j \in J!Job
  PROVE  /\ fateBar[j] = FateOf(actions[j], state[j])
         /\ actions[j] # <<>> => fateBar[j] = "decided"
         /\ actions[j] = <<>> /\ state[j] \in Unanswered => fateBar[j] \in Promise!Undecided
         /\ actions[j] = <<>> /\ state[j] \in J!Open => fateBar[j] = "waiting"
  BY FateBarIs DEF FateOf, Unanswered, Promise!Undecided, J!Open

(* One message: an action decides it, a failure or an operator moves it.   *)
LEMMA ActionIsDecision ==
  ASSUME QueueTypes, UNCHANGED <<jobs, state, copiesBar>>, NEW j \in J!Job,
         state[j] \in Unanswered \/ actions[j] # <<>>, actions'[j] # <<>>,
         \A k \in J!Job \ {j} : actions'[k] = actions[k]
  PROVE  [Promise!Next]_(Promise!vars)
<1>1. fateBar' = [fateBar EXCEPT ![j] = "decided"]
  BY ActionMovesFate
<1>2. CASE actions[j] = <<>>
  <2>1. Promise!Decide(j)
    BY <1>1, <1>2, UndecidedIs DEF Promise!Decide, Promise!Become
  <2> QED BY <2>1 DEF Promise!Next
<1>3. CASE actions[j] # <<>>
  <2>1. fateBar' = fateBar
    BY <1>1, <1>3, UndecidedIs, FateBarIs
  <2> QED BY <2>1 DEF Promise!vars
<1> QED BY <1>2, <1>3

LEMMA StateIsFate ==
  ASSUME QueueTypes, UNCHANGED <<jobs, actions, copiesBar>>, NEW j \in J!Job, NEW s,
         state' = [state EXCEPT ![j] = s],
         \/ actions[j] # <<>>
         \/ state[j] \in Unanswered /\ s \in {"queued", "dead_letter"}
         \/ state[j] = "dead_letter" /\ s = "dismissed"
         \/ state[j] \in Unanswered /\ s = "superseded" /\ J!Newer(j) # {}
  PROVE  [Promise!Next]_(Promise!vars)
<1>1. fateBar' = [fateBar EXCEPT ![j] = FateOf(actions[j], s)]
  BY StateMovesFate
<1>2. fateBar = [k \in J!Job |-> fateBar[k]] /\ fateBar[j] = FateOf(actions[j], state[j])
  BY FateBarIs
<1>3. CASE fateBar[j] = FateOf(actions[j], s)
  <2>1. fateBar' = fateBar
    BY <1>1, <1>2, <1>3
  <2> QED BY <2>1 DEF Promise!vars
<1>4. CASE actions[j] # <<>>
  BY <1>2, <1>3, <1>4 DEF FateOf
<1>5. CASE /\ actions[j] = <<>> /\ state[j] \in Unanswered /\ s \in {"queued", "dead_letter"}
           /\ fateBar[j] # FateOf(actions[j], s)
  <2>1. /\ FateOf(actions[j], s) = IF s = "queued" THEN "waiting" ELSE "parked"
        /\ fateBar[j] \in {"waiting", "parked", "dismissed"}
    BY <1>2, <1>5 DEF FateOf, Unanswered, J!Open
  <2>2. CASE fateBar[j] = "waiting"
    <3>1. Promise!Park({j})
      BY <1>1, <1>2, <1>5, <2>1, <2>2 DEF Promise!Park
    <3> QED BY <3>1 DEF Promise!Next
  <2>3. CASE fateBar[j] \in {"parked", "dismissed"}
    <3>1. Promise!Return(j)
      BY <1>1, <2>1, <2>3 DEF Promise!Return, Promise!Become
    <3> QED BY <3>1 DEF Promise!Next
  <2> QED BY <2>1, <2>2, <2>3
<1>6. CASE actions[j] = <<>> /\ state[j] = "dead_letter" /\ s = "dismissed"
  <2>1. Promise!Dismiss(j)
    BY <1>1, <1>2, <1>6 DEF FateOf, J!Open, Promise!Dismiss, Promise!Become
  <2> QED BY <2>1 DEF Promise!Next
<1>7. CASE actions[j] = <<>> /\ state[j] \in Unanswered /\ s = "superseded" /\ J!Newer(j) # {}
  <2>1. FateOf(actions[j], s) = "aside" /\ fateBar[j] \in Promise!Undecided
    BY <1>2, <1>7 DEF FateOf, Unanswered, J!Open, Promise!Undecided
  <2>2. Promise!Later(j) \ {j} # {}
    BY <1>7 DEF Promise!Later, J!Newer, J!JobsOf, J!Inserted, J!Job, QueueTypes
  <2>3. fateBar' = [m \in J!Job |-> IF m \in {j} THEN "aside" ELSE fateBar[m]]
    BY <1>1, <1>2, <2>1
  <2>4. Promise!SetAside({j})
    BY <2>1, <2>2, <2>3 DEF Promise!SetAside
  <2> QED BY <2>4 DEF Promise!Next
<1> QED BY <1>3, <1>4, <1>5, <1>6, <1>7

(* Several messages: recovery parks them, a claim sets them aside.         *)
LEMMA RecoverIsPark ==
  ASSUME QueueTypes, J!Recover, UNCHANGED copiesBar
  PROVE  [Promise!Next]_(Promise!vars)
<1> DEFINE M == {j \in J!Job : /\ actions[j] = <<>> /\ j \in J!Stale
                               /\ J!AfterFailure(attempts[j]) = "dead_letter"}
<1>1. /\ UNCHANGED <<jobs, actions>>
      /\ \A j \in J!Job : state'[j] =
           IF j \in J!Stale THEN J!AfterFailure(attempts[j]) ELSE state[j]
      /\ \A j \in J!Stale : state[j] = "processing"
      /\ \A n : J!AfterFailure(n) \in {"dead_letter", "queued"}
  BY DEF J!Recover, J!Stale, J!AfterFailure
<1>2. \A j \in J!Job : FateOf(actions'[j], state'[j]) =
                         IF j \in M THEN "parked" ELSE FateOf(actions[j], state[j])
  <2> SUFFICES ASSUME NEW j \in J!Job
               PROVE  FateOf(actions'[j], state'[j]) =
                        IF j \in M THEN "parked" ELSE FateOf(actions[j], state[j])
    OBVIOUS
  <2>1. CASE actions[j] # <<>>
    BY <1>1, <2>1, Fates
  <2>2. CASE actions[j] = <<>> /\ j \in J!Stale
    BY <1>1, <2>2, Fates
  <2>3. CASE actions[j] = <<>> /\ j \notin J!Stale
    BY <1>1, <2>3
  <2> QED BY <2>1, <2>2, <2>3
<1>3. \A j \in M : fateBar[j] = "waiting"
  BY <1>1, UndecidedIs DEF J!Open
<1> HIDE DEF M
<1>4. fateBar' = [j \in J!Job |-> IF j \in M THEN "parked" ELSE fateBar[j]]
  BY <1>2, FateBarIs
<1>5. CASE M = {}
  <2>1. fateBar' = fateBar
    BY <1>4, <1>5, FateBarIs
  <2> QED BY <1>1, <2>1 DEF Promise!vars
<1>6. CASE M # {}
  <2>1. Promise!Park(M)
    BY <1>1, <1>3, <1>4, <1>6 DEF Promise!Park
  <2>2. M \in SUBSET J!Job
    BY DEF M
  <2> QED BY <2>1, <2>2 DEF Promise!Next
<1> QED BY <1>5, <1>6

LEMMA ClaimIsSetAside ==
  ASSUME QueueTypes, NEW w \in Workers, J!ClaimNext(w), UNCHANGED copiesBar
  PROVE  [Promise!Next]_(Promise!vars)
<1>1. PICK j \in J!Inserted, older \in SUBSET J!Inserted :
        /\ state[j] = "queued" /\ j \notin older
        /\ \A k \in older : state[k] = "queued" /\ j \in J!Newer(k)
        /\ state' = [k \in J!Job |-> IF k = j THEN "processing"
                                     ELSE IF k \in older THEN "superseded" ELSE state[k]]
  BY ClaimIs
<1>2. UNCHANGED <<jobs, actions>>
  BY ClaimIs
<1> DEFINE M == {k \in older : actions[k] = <<>>}
<1>3. \A k \in J!Job : FateOf(actions'[k], state'[k]) =
                         IF k \in M THEN "aside" ELSE FateOf(actions[k], state[k])
  <2> SUFFICES ASSUME NEW k \in J!Job
               PROVE  FateOf(actions'[k], state'[k]) =
                        IF k \in M THEN "aside" ELSE FateOf(actions[k], state[k])
    OBVIOUS
  <2>1. CASE actions[k] # <<>>
    BY <1>1, <1>2, <2>1, Fates
  <2>2. CASE actions[k] = <<>> /\ (k = j \/ k \in older)
    BY <1>1, <1>2, <2>2, Fates
  <2>3. CASE actions[k] = <<>> /\ k # j /\ k \notin older
    BY <1>1, <1>2, <2>3
  <2> QED BY <2>1, <2>2, <2>3
<1>4. \A k \in M : /\ k \in J!Job /\ fateBar[k] \in Promise!Undecided
                   /\ Promise!Later(k) \ M # {}
  <2> SUFFICES ASSUME NEW k \in M
               PROVE  /\ k \in J!Job /\ fateBar[k] \in Promise!Undecided
                      /\ j \in Promise!Later(k) \ M
    OBVIOUS
  <2>1. k \in J!Job /\ fateBar[k] \in Promise!Undecided
    BY <1>1, InsertedIsJob, UndecidedIs DEF Unanswered
  <2>2. j \in Promise!Later(k) /\ j \notin M
    BY <1>1 DEF Promise!Later, J!Newer, J!JobsOf, J!Inserted, QueueTypes
  <2> QED BY <2>1, <2>2
<1> HIDE DEF M
<1>5. fateBar' = [k \in J!Job |-> IF k \in M THEN "aside" ELSE fateBar[k]]
  BY <1>3, FateBarIs
<1>6. CASE M = {}
  <2>1. fateBar' = fateBar
    BY <1>5, <1>6, FateBarIs
  <2> QED BY <1>2, <2>1 DEF Promise!vars
<1>7. CASE M # {}
  <2>1. Promise!SetAside(M)
    BY <1>2, <1>4, <1>5, <1>7 DEF Promise!SetAside
  <2>2. M \in SUBSET J!Job
    BY <1>4
  <2> QED BY <2>1, <2>2 DEF Promise!Next
<1> QED BY <1>6, <1>7

(* The newest message of a conversation was not set aside, and if it was   *)
(* completed it has an action: a person may still answer it.               *)
LEMMA HumanReplyIsDecision ==
  ASSUME QueueInv, NEW c \in Conversations, J!HumanReply(c), UNCHANGED copiesBar
  PROVE  [Promise!Next]_(Promise!vars)
<1> USE DEF QueueInv, QueueTypes
<1>1. PICK j \in J!Inserted :
        /\ J!IsNewest(j, J!JobsOf(c))
        /\ actions' = [actions EXCEPT ![j] = Append(@, J!Action("human", "delivery", @ = <<>>))]
  BY DEF J!HumanReply
<1>2. j \in J!Job /\ actions[j] \in Seq(J!ActionRow)
  BY InsertedIsJob
<1>3. J!Action("human", "delivery", actions[j] = <<>>) \in J!ActionRow
  <2> DEFINE first == actions[j] = <<>>
  <2>1. first \in BOOLEAN
    OBVIOUS
  <2> HIDE DEF first
  <2>2. J!Action("human", "delivery", first) \in J!ActionRow
    BY <2>1 DEF J!Action, J!ActionRow, J!Kind
  <2> QED BY <2>2 DEF first
<1>4. actions'[j] # <<>>
  <2> DEFINE a == Append(actions[j], J!Action("human", "delivery", actions[j] = <<>>))
  <2>1. a \in Seq(J!ActionRow) /\ Len(a) # 0
    BY <1>2, <1>3
  <2>2. actions'[j] = a
    BY <1>1, <1>2
  <2> HIDE DEF a
  <2> QED BY <2>1, <2>2
<1>5. J!Newer(j) = {}
  BY <1>1 DEF J!IsNewest, J!Newer, J!JobsOf, J!Inserted
<1>6. state[j] \in Unanswered \/ actions[j] # <<>>
  BY <1>2, <1>5 DEF JobsClosed, Unanswered, J!State
<1>7. UNCHANGED <<jobs, state>>
  BY DEF J!HumanReply, J!jobVars
<1> QED BY <1>1, <1>2, <1>4, <1>6, <1>7, ActionIsDecision

(* Every step of the queue but the arrival of a message.                   *)
LEMMA QueueSimulates ==
  ASSUME OneWorker, QueueInv, [J!Next]_(J!vars), UNCHANGED <<jobs, copiesBar>>
  PROVE  [Promise!Next]_(Promise!vars)
<1> USE DEF QueueInv
<1>1. ASSUME UNCHANGED state,
             \A k \in J!Job : actions[k] # <<>> <=> actions'[k] # <<>>
      PROVE  [Promise!Next]_(Promise!vars)
  <2>1. \A k \in J!Job : FateOf(actions'[k], state'[k]) = FateOf(actions[k], state[k])
    <3> SUFFICES ASSUME NEW k \in J!Job
                 PROVE  FateOf(actions'[k], state'[k]) = FateOf(actions[k], state[k])
      OBVIOUS
    <3>1. CASE actions[k] # <<>>
      BY <1>1, <3>1, Fates
    <3>2. CASE actions[k] = <<>>
      BY <1>1, <3>2
    <3> QED BY <3>1, <3>2
  <2>2. fateBar' = fateBar
    BY <2>1, FateBarIs
  <2> QED BY <2>2 DEF Promise!vars
<1>2. ASSUME NEW w \in Workers, J!WorkerStep(w) \/ J!Crash(w)
      PROVE  [Promise!Next]_(Promise!vars)
  <2> DEFINE j == run[w].job
  <2>0. pc[w] \in J!Busy => j \in J!Inserted /\ j \in J!Job /\ state[j] \in Unanswered
    BY InsertedIsJob DEF JobInHand
  <2>1. CASE J!RecoverStale(w)
    BY <2>1, RecoverIsPark DEF J!RecoverStale
  <2>2. CASE J!ClaimNext(w)
    BY <2>2, ClaimIsSetAside
  <2>3. CASE J!InsertAction(w)
    <3>1. UNCHANGED state /\ pc[w] \in J!Busy
      BY <2>3 DEF J!InsertAction, J!jobVars, J!Busy
    <3>2. actions'[j] # <<>> /\ \A k \in J!Job \ {j} : actions'[k] = actions[k]
      BY <2>3, QueueInsertAction DEF QueueTypes
    <3> QED BY <2>0, <3>1, <3>2, ActionIsDecision
  <2>4. CASE J!Execute(w)
    <3>1. UNCHANGED state
      BY <2>4 DEF J!Execute, J!jobVars
    <3> QED BY <1>1, <2>4, <3>1, QueueExecute
  <2>5. CASE J!Complete(w)
    <3>1. /\ pc[w] \in J!Busy /\ actions[j] # <<>> /\ UNCHANGED actions
          /\ state' = [state EXCEPT ![j] = "completed"]
      BY <2>5 DEF J!Complete, J!Leave, J!Busy, JobInHand
    <3> QED BY <2>0, <3>1, StateIsFate
  <2>6. CASE J!Supersede(w)
    <3>1. /\ pc[w] \in J!Busy /\ J!Newer(j) # {} /\ UNCHANGED actions
          /\ state' = [state EXCEPT ![j] = "superseded"]
      BY <2>6 DEF J!Supersede, J!Leave, J!Busy, JobInHand
    <3> QED BY <2>0, <3>1, StateIsFate
  <2>7. CASE J!Fail(w)
    <3>1. pc[w] \in J!Busy /\ UNCHANGED actions
      BY <2>7 DEF J!Fail, J!Busy
    <3>2. \E s \in {"queued", "dead_letter"} : state' = [state EXCEPT ![j] = s]
      BY <2>7 DEF J!Fail, J!Leave, J!AfterFailure
    <3> QED BY <2>0, <3>1, <3>2, StateIsFate
  <2>8. CASE \/ J!ClaimNothing(w) \/ J!LookForAction(w) \/ J!CheckFresh(w)
             \/ J!CheckExecution(w) \/ J!FindNewest(w) \/ J!Restart(w) \/ J!Crash(w)
    <3>1. UNCHANGED <<state, actions>>
      BY <2>8 DEF J!ClaimNothing, J!LookForAction, J!CheckFresh, J!CheckExecution,
                  J!FindNewest, J!Restart, J!Crash, J!jobVars
    <3> QED BY <1>1, <3>1
  <2> QED BY <1>2, <2>1, <2>2, <2>3, <2>4, <2>5, <2>6, <2>7, <2>8 DEF J!WorkerStep
<1>3. ASSUME NEW j \in J!Job, J!BecomeDue(j) \/ J!LeaseExpires(j)
      PROVE  [Promise!Next]_(Promise!vars)
  <2>1. UNCHANGED <<state, actions>>
    BY <1>3 DEF J!BecomeDue, J!LeaseExpires
  <2> QED BY <1>1, <2>1
<1>4. ASSUME NEW c \in Conversations, J!Enqueue(c) PROVE FALSE
  <2>1. Len(jobs') = Len(jobs) + 1 /\ Len(jobs) \in Nat
    BY <1>4 DEF J!Enqueue, QueueTypes
  <2> QED BY <2>1
<1>5. ASSUME NEW c \in Conversations, J!HumanReply(c) PROVE [Promise!Next]_(Promise!vars)
  BY <1>5, HumanReplyIsDecision
<1>6. ASSUME NEW j \in J!Job, J!Retry(j) \/ J!Dismiss(j)
      PROVE  [Promise!Next]_(Promise!vars)
  <2>1. state[j] = "dead_letter" /\ UNCHANGED actions
    BY <1>6 DEF J!Retry, J!Dismiss
  <2>2. \E s \in {"queued", "dismissed"} : state' = [state EXCEPT ![j] = s]
    BY <1>6 DEF J!Retry, J!Dismiss, J!Leave
  <2> QED BY <2>1, <2>2, StateIsFate DEF Unanswered
<1>7. CASE J!RecoverByHand
  BY <1>7, RecoverIsPark DEF J!RecoverByHand
<1>8. CASE UNCHANGED J!vars
  <2>1. UNCHANGED <<state, actions>>
    BY <1>8 DEF J!vars, J!jobVars
  <2> QED BY <1>1, <2>1
<1> QED BY <1>2, <1>3, <1>4, <1>5, <1>6, <1>7, <1>8 DEF J!Next, J!Operator

(* Rows that are new, or that the customer got no copy of, change nothing. *)
LEMMA NewRowsAreEmpty ==
  ASSUME OutboxInv, UNCHANGED <<jobs, delivered>>,
         \A d \in D!Delivery : row'[d] = row[d] \/ status[d] = "none"
  PROVE  UNCHANGED copiesBar
<1>1. \A d \in D!Delivery : delivered[d] = 0 \/ row'[d] = row[d]
  BY DEF OutboxInv, UnsentIsUnsent, NotTaken
<1>2. \A j : Copies(AnswersIn(row', jobs, j), delivered) = Copies(AnswersIn(row, jobs, j), delivered)
  <2> SUFFICES ASSUME NEW j
               PROVE  Copies(AnswersIn(row', jobs, j), delivered) =
                        Copies(AnswersIn(row, jobs, j), delivered)
    OBVIOUS
  <2> DEFINE A == AnswersIn(row', jobs, j)
             B == AnswersIn(row, jobs, j)
  <2>1. /\ \A d \in A : delivered[d] = 0 \/ (d \in B /\ delivered[d] = delivered[d])
        /\ \A d \in B : delivered[d] = 0 \/ (d \in A /\ delivered[d] = delivered[d])
    BY <1>1 DEF AnswersIn
  <2> HIDE DEF A, B
  <2>2. Copies(A, delivered) = Copies(B, delivered)
    BY <2>1, SameCopies
  <2> QED BY <2>2 DEF A, B
<1> QED BY <1>2, CopiesBarIs DEF CopiesIn

LEMMA EnqueueIsArrive ==
  ASSUME WholeInv, NEW c \in Conversations, Enqueue(c)
  PROVE  Promise!Arrive(c)
<1> USE DEF WholeInv, QueueInv, QueueTypes
<1> DEFINE n == Len(jobs) + 1
<1>1. /\ jobs' = Append(jobs, c) /\ n \in J!Job
      /\ state' = [state EXCEPT ![n] = "queued"] /\ UNCHANGED <<actions, row, delivered>>
  BY ConversationConstants
     DEF Enqueue, J!Enqueue, D!Inbound, D!outboxVars, D!wireVars, J!Job
<1>2. /\ Len(jobs) \in Nat /\ Len(jobs') = n /\ jobs'[n] = c
      /\ \A j \in 1..Len(jobs) : jobs'[j] = jobs[j] /\ Rank(jobs', j) = Rank(jobs, j)
  BY <1>1, RankStays
<1>3. fateBar' = [fateBar EXCEPT ![n] = "waiting"]
  <2>1. actions[n] = <<>>
    BY <1>1 DEF J!Inserted
  <2>2. FateOf(actions[n], "queued") = "waiting"
    BY <2>1, Fates
  <2>3. fateBar' = [fateBar EXCEPT ![n] = FateOf(actions[n], "queued")]
    BY <1>1, StateMovesFate
  <2> QED BY <2>2, <2>3
<1>4. \A j \in 1..Len(jobs) : AnswersIn(row, jobs', j) = AnswersIn(row, jobs, j)
  BY <1>2 DEF AnswersIn
<1>5. AnswersIn(row, jobs', n) = {}
  <2> SUFFICES ASSUME NEW d \in AnswersIn(row, jobs', n) PROVE FALSE
    OBVIOUS
  <2>1. FromBot(d) /\ d \in D!Delivery /\ row[d].conversation = c /\ row[d].event = Rank(jobs', n)
    BY <1>2 DEF AnswersIn, FromBot
  <2>2. PICK k \in 1..Len(jobs) : jobs[k] = c /\ row[d].event = Rank(jobs, k)
    BY <2>1 DEF Answers, AnswersHaveMessages, J!Inserted
  <2>3. /\ k \in 1..Len(jobs') /\ n \in 1..Len(jobs') /\ jobs'[k] = jobs'[n] /\ k < n
        /\ jobs' \in Seq(Conversations)
    BY <1>1, <1>2, <2>2
  <2>4. Rank(jobs', k) \in Nat /\ Rank(jobs', k) < Rank(jobs', n)
    BY <2>3, RankGrows
  <2>5. Rank(jobs', n) \in Nat
    BY <2>3, RankGrows
  <2> QED BY <1>2, <2>1, <2>2, <2>4, <2>5
<1>6. UNCHANGED copiesBar
  <2> SUFFICES ASSUME NEW j \in J!Job
               PROVE  (IF j \in 1..Len(jobs') THEN Copies(AnswersIn(row, jobs', j), delivered)
                                              ELSE 0) =
                      (IF j \in 1..Len(jobs) THEN Copies(AnswersIn(row, jobs, j), delivered)
                                             ELSE 0)
    BY <1>1, CopiesBarIs DEF CopiesIn
  <2>1. CASE j \in 1..Len(jobs)
    BY <1>2, <1>4, <2>1
  <2>2. CASE j = n
    <3>1. Copies(AnswersIn(row, jobs', n), delivered) = 0
      BY <1>5, NoCopies
    <3> QED BY <1>2, <2>2, <3>1
  <2>3. CASE j \notin 1..Len(jobs) /\ j # n
    BY <1>2, <2>3 DEF J!Job
  <2> QED BY <2>1, <2>2, <2>3
<1> QED BY <1>1, <1>3, <1>6 DEF Promise!Arrive

LEMMA SendIsAnswer ==
  ASSUME OneWorker, WholeInv, NEW w \in Workers, D!Send(w), JobsIdle
  PROVE  [Promise!Next]_(Promise!vars)
<1> USE DEF WholeInv, QueueInv, QueueTypes
<1> DEFINE d == held[w]
<1>1. /\ d \in D!Delivery /\ delivered[d] = 0 /\ UNCHANGED row
      /\ UNCHANGED delivered \/ delivered' = [delivered EXCEPT ![d] = 1]
  BY OutboxSend
<1>2. UNCHANGED <<jobs, state, actions>>
  BY DEF JobsIdle, jobSide
<1>3. UNCHANGED fateBar
  BY <1>2, FateBarIs
<1>4. \A e \in D!Delivery : e > d => delivered[e] = 0
  BY DEF D!Send, OutboxInv, DeliveryInHand, UnsentIsUnsent, D!Busy
<1>5. CASE UNCHANGED delivered
  BY <1>1, <1>2, <1>3, <1>5, CopiesBarIs DEF Promise!vars
<1>6. ASSUME delivered' = [delivered EXCEPT ![d] = 1] PROVE [Promise!Next]_(Promise!vars)
  <2>1. delivered'[d] = 1 /\ \A e \in D!Delivery \ {d} : delivered'[e] = delivered[e]
    BY <1>1, <1>6 DEF OutboxInv, OutboxTypes
  <2>2. ASSUME NEW j, d \notin AnswersIn(row, jobs, j)
        PROVE  Copies(AnswersIn(row, jobs, j), delivered') =
                 Copies(AnswersIn(row, jobs, j), delivered)
    <3> DEFINE A == AnswersIn(row, jobs, j)
    <3>1. \A e \in A : delivered'[e] = 0 \/ (e \in A /\ delivered[e] = delivered'[e])
      BY <2>1, <2>2 DEF AnswersIn
    <3>2. \A e \in A : delivered[e] = 0 \/ (e \in A /\ delivered'[e] = delivered[e])
      BY <2>1, <2>2 DEF AnswersIn
    <3> HIDE DEF A
    <3>3. Copies(A, delivered') = Copies(A, delivered)
      BY <3>1, <3>2, SameCopies
    <3> QED BY <3>3 DEF A
  <2>3. CASE ~FromBot(d)
    <3>1. \A j : d \notin AnswersIn(row, jobs, j)
      BY <2>3 DEF AnswersIn, FromBot
    <3>2. UNCHANGED copiesBar
      BY <1>1, <1>2, <2>2, <3>1, CopiesBarIs DEF CopiesIn
    <3> QED BY <1>2, <1>3, <3>2 DEF Promise!vars
  <2>4. CASE FromBot(d)
    <3>1. PICK j \in J!Inserted : /\ row[d].conversation = jobs[j]
                                  /\ row[d].event = Rank(jobs, j)
                                  /\ ByBot(j)
      BY <1>1, <2>4 DEF Answers, AnswersHaveMessages
    <3>2. j \in J!Job /\ j \in 1..Len(jobs)
      BY InsertedIsJob DEF J!Inserted
    <3>3. fateBar[j] = "decided"
      <4>1. actions[j] # <<>>
        BY <3>1 DEF ByBot
      <4> QED BY <3>2, <4>1, UndecidedIs
    <3>4. Rank(jobs, j) \in Nat
      BY <3>1, MessagesAreNumbered
    <3>5. AnswersIn(row, jobs, j) = {d}
      <4>1. d \in AnswersIn(row, jobs, j)
        BY <1>1, <2>4, <3>1 DEF AnswersIn, FromBot
      <4>2. ASSUME NEW e \in AnswersIn(row, jobs, j), e # d PROVE FALSE
        <5>1. /\ e \in D!Delivery /\ FromBot(e) /\ row[e].conversation = row[d].conversation
              /\ row[e].event = row[d].event
          BY <3>1, <4>2 DEF AnswersIn, FromBot
        <5>2. e < d \/ d < e
          BY <1>1, <4>2, <5>1 DEF D!Delivery
        <5>3. row[e].event < row[d].event \/ row[d].event < row[e].event
          BY <1>1, <2>4, <5>1, <5>2 DEF Answers, AnswersInOrder
        <5> QED BY <3>1, <3>4, <5>1, <5>3
      <4> QED BY <4>1, <4>2
    <3>6. /\ Copies(AnswersIn(row, jobs, j), delivered) = 0
          /\ Copies(AnswersIn(row, jobs, j), delivered') = 1
      <4>1. Copies({d}, delivered) = 0
        BY <1>1, NoCopies
      <4>2. Copies({d}, delivered') = 1
        <5> DEFINE f == delivered'
        <5>1. f[d] = 1
          BY <2>1
        <5> HIDE DEF f
        <5>2. Copies({d}, f) = 1
          BY <5>1, OneCopy
        <5> QED BY <5>2 DEF f
      <4> QED BY <3>5, <4>1, <4>2
    <3>7. \A k \in J!Inserted \ {j} : d \notin AnswersIn(row, jobs, k)
      <4> SUFFICES ASSUME NEW k \in J!Inserted, d \in AnswersIn(row, jobs, k) PROVE k = j
        OBVIOUS
      <4>1. jobs[k] = jobs[j] /\ Rank(jobs, k) = Rank(jobs, j)
        BY <3>1 DEF AnswersIn
      <4> QED BY <4>1, MessagesAreNumbered
    <3>8. copiesBar' = [copiesBar EXCEPT ![j] = 1]
      <4> DEFINE now(k) == IF k \in 1..Len(jobs) THEN Copies(AnswersIn(row, jobs, k), delivered)
                                                 ELSE 0
                 next(k) == IF k \in 1..Len(jobs) THEN Copies(AnswersIn(row, jobs, k), delivered')
                                                  ELSE 0
      <4>1. /\ copiesBar = [k \in J!Job |-> now(k)]
            /\ copiesBar' = [k \in J!Job |-> next(k)]
        BY <1>1, <1>2, CopiesBarIs DEF CopiesIn
      <4>2. next(j) = 1
        BY <3>2, <3>6
      <4>3. \A k \in J!Job \ {j} : next(k) = now(k)
        BY <2>2, <3>7 DEF J!Inserted
      <4> HIDE DEF now, next
      <4> QED BY <4>1, <4>2, <4>3
    <3>9. copiesBar[j] = 0
      BY <3>2, <3>6, CopiesBarIs DEF CopiesIn
    <3>10. ASSUME NEW n \in Promise!Later(j) PROVE copiesBar[n] = 0
      <4>1. n \in J!Inserted /\ n \in J!Job /\ n \in 1..Len(jobs) /\ n > j /\ jobs[n] = jobs[j]
        BY <3>10, InsertedIsJob DEF Promise!Later, J!Inserted
      <4>2. Rank(jobs, n) \in Nat /\ Rank(jobs, j) < Rank(jobs, n)
        BY <4>1, MessagesAreNumbered
      <4>3. ASSUME NEW e \in AnswersIn(row, jobs, n) PROVE delivered[e] = 0
        <5>1. /\ e \in D!Delivery /\ FromBot(e) /\ row[e].conversation = row[d].conversation
              /\ row[e].event = Rank(jobs, n)
          BY <3>1, <4>1, <4>3 DEF AnswersIn, FromBot
        <5>2. ~ (e < d)
          BY <1>1, <2>4, <3>1, <3>4, <4>2, <5>1 DEF Answers, AnswersInOrder
        <5>3. e # d
          BY <3>1, <3>4, <4>2, <5>1
        <5>4. e > d
          BY <1>1, <5>1, <5>2, <5>3 DEF D!Delivery
        <5> QED BY <1>4, <5>1, <5>4
      <4>4. Copies(AnswersIn(row, jobs, n), delivered) = 0
        BY <4>3, NoCopies
      <4> QED BY <4>1, <4>4, CopiesBarIs DEF CopiesIn
    <3>11. Promise!Answer(j)
      BY <1>2, <1>3, <3>3, <3>8, <3>9, <3>10 DEF Promise!Answer
    <3> QED BY <3>2, <3>11 DEF Promise!Next
  <2> QED BY <2>3, <2>4
<1> QED BY <1>1, <1>5, <1>6

LEMMA StepSimulates ==
  ASSUME OneWorker, WholeInv, [Next]_vars
  PROVE  [Promise!Next]_(Promise!vars)
<1> USE DEF WholeInv
<1>1. ASSUME NEW c \in Conversations, Enqueue(c) PROVE [Promise!Next]_(Promise!vars)
  BY <1>1, EnqueueIsArrive DEF Promise!Next
<1>2. CASE \E w \in Workers : D!Send(w) /\ JobsIdle
  BY <1>2, SendIsAnswer
<1>3. ASSUME UNCHANGED <<jobs, delivered>>,
             \A d \in D!Delivery : row'[d] = row[d] \/ status[d] = "none"
      PROVE  [Promise!Next]_(Promise!vars)
  <2>1. UNCHANGED copiesBar
    BY <1>3, NewRowsAreEmpty
  <2> QED BY <1>3, <2>1, StepIsJobs, QueueSimulates
<1>4. ASSUME NEW w \in Workers, QueueAnswer(w, run[w].job), UNCHANGED <<jobs, delivered>>
      PROVE  [Promise!Next]_(Promise!vars)
  <2>1. \A d \in D!Delivery : row'[d] = row[d] \/ status[d] = "none"
    BY <1>4, AnswerQueued DEF OutboxInv, OutboxTypes
  <2> QED BY <1>3, <1>4, <2>1
<1>5. UNCHANGED jobs \/ \E c \in Conversations : Enqueue(c)
  BY JobsMove DEF QueueInv
<1> QED BY <1>1, <1>2, <1>3, <1>4, <1>5, OutboxMoves

LEMMA InitSimulates == Init => Promise!Init
<1> SUFFICES ASSUME Init PROVE Promise!Init
  OBVIOUS
<1>1. /\ jobs = <<>> /\ state = [j \in J!Job |-> "none"]
      /\ actions = [j \in J!Job |-> <<>>]
  BY DEF Init, J!Init
<1>2. fateBar = [j \in J!Job |-> "none"]
  BY <1>1, Fates, FateBarIs
<1>3. copiesBar = [j \in J!Job |-> 0]
  BY <1>1, CopiesBarIs DEF CopiesIn
<1> QED BY <1>1, <1>2, <1>3 DEF Promise!Init

(* "One answer": with the one worker of the deployment, whatever crashes,  *)
(* expires, is retried or reviewed between the queue, the provider, the    *)
(* outbox and Instagram, the bridge keeps the promise of MessagePromise.   *)
THEOREM PromiseKept ==
  ASSUME OneWorker
  PROVE  Spec => ImplementsPromise
<1>1. Init => Promise!Init
  BY InitSimulates
<1>2. WholeInv /\ [Next]_vars => [Promise!Next]_(Promise!vars)
  BY StepSimulates
<1>3. Spec => []WholeInv
  BY WholeInvariance
<1> QED BY <1>1, <1>2, <1>3, PTL DEF Spec, ImplementsPromise, Promise!Spec

-----------------------------------------------------------------------------
(* What the promise says of every state of the whole.                      *)

Final == {"decided", "aside"}

(* A message is answered once at most and only if it was decided on, none  *)
(* is lost, and the newest of a conversation is never set aside.           *)
Kept ==
  /\ jobs \in Seq(Conversations)
  /\ fateBar \in [J!Job -> Promise!Fate]
  /\ copiesBar \in [J!Job -> {0, 1}]
  /\ \A j \in J!Job : /\ copiesBar[j] = 1 => fateBar[j] = "decided"
                      /\ fateBar[j] # "none" => j \in DOMAIN jobs
                      /\ fateBar[j] = "aside" => Promise!Later(j) # {}

LEMMA KeptInit == ASSUME Promise!Init PROVE Kept
<1>1. /\ jobs \in Seq(Conversations)
      /\ \A j \in J!Job : fateBar[j] = "none" /\ copiesBar[j] = 0
  BY DEF Promise!Init
<1> QED BY <1>1 DEF Promise!Init, Promise!Fate, Kept

(* An arrival only adds later messages.                                    *)
LEMMA KeptArrive ==
  ASSUME Kept, NEW c \in Conversations, Promise!Arrive(c)
  PROVE  /\ Kept'
         /\ \A j \in J!Job : fateBar[j] \in Final => fateBar'[j] = fateBar[j]
<1> DEFINE n == Len(jobs) + 1
<1>1. /\ jobs \in Seq(Conversations) /\ jobs' = Append(jobs, c) /\ n \in J!Job
      /\ fateBar' = [fateBar EXCEPT ![n] = "waiting"] /\ UNCHANGED copiesBar
  BY DEF Kept, Promise!Arrive
<1>2. /\ jobs' \in Seq(Conversations) /\ DOMAIN jobs' = DOMAIN jobs \cup {n} /\ n \notin DOMAIN jobs
      /\ \A k \in DOMAIN jobs : jobs'[k] = jobs[k]
  BY <1>1
<1>3. fateBar[n] = "none" /\ copiesBar[n] # 1
  BY <1>1, <1>2 DEF Kept
<1>4. /\ fateBar' \in [J!Job -> Promise!Fate] /\ copiesBar' \in [J!Job -> {0, 1}]
      /\ fateBar'[n] = "waiting" /\ \A j \in J!Job \ {n} : fateBar'[j] = fateBar[j]
  BY <1>1 DEF Kept, Promise!Fate
<1>5. \A j \in DOMAIN jobs : Promise!Later(j) \subseteq (Promise!Later(j))'
  BY <1>2 DEF Promise!Later
<1>6. \A j \in J!Job : fateBar'[j] = "aside" => (Promise!Later(j))' # {}
  BY <1>3, <1>4, <1>5 DEF Kept
<1>7. J!Job' = J!Job /\ (Promise!Fate)' = Promise!Fate
  BY DEF J!Job, Promise!Fate
<1> QED BY <1>1, <1>2, <1>3, <1>4, <1>6, <1>7 DEF Kept, Final

(* Every other step moves fates, or answers.                               *)
LEMMA KeptMoves ==
  ASSUME Kept, UNCHANGED <<jobs, copiesBar>>,
         fateBar' \in [J!Job -> Promise!Fate],
         \A j \in J!Job : \/ fateBar'[j] = fateBar[j]
                          \/ /\ fateBar[j] \notin Final \cup {"none"}
                             /\ fateBar'[j] = "aside" => Promise!Later(j) # {}
  PROVE  /\ Kept'
         /\ \A j \in J!Job : fateBar[j] \in Final => fateBar'[j] = fateBar[j]
<1>1. \A j \in J!Job : (Promise!Later(j))' = Promise!Later(j)
  BY DEF Promise!Later
<1>2. J!Job' = J!Job /\ (Promise!Fate)' = Promise!Fate
  BY DEF J!Job, Promise!Fate
<1> QED BY <1>1, <1>2 DEF Kept, Final

LEMMA KeptStep ==
  ASSUME Kept, [Promise!Next]_(Promise!vars)
  PROVE  /\ Kept'
         /\ \A j \in J!Job : fateBar[j] \in Final => fateBar'[j] = fateBar[j]
<1>1. ASSUME NEW m \in J!Job, Promise!Decide(m) \/ Promise!Return(m) \/ Promise!Dismiss(m)
      PROVE  /\ UNCHANGED <<jobs, copiesBar>>
             /\ fateBar' \in [J!Job -> Promise!Fate]
             /\ \A j \in J!Job : \/ fateBar'[j] = fateBar[j]
                                 \/ /\ fateBar[j] \notin Final \cup {"none"}
                                    /\ fateBar'[j] # "aside"
  <2>1. PICK f \in {"decided", "waiting", "parked", "dismissed"} : Promise!Become(m, f)
    BY <1>1 DEF Promise!Decide, Promise!Return, Promise!Dismiss
  <2>2. fateBar[m] \in Promise!Undecided
    BY <1>1 DEF Promise!Decide, Promise!Return, Promise!Dismiss, Promise!Undecided
  <2> QED BY <2>1, <2>2 DEF Promise!Become, Promise!Undecided, Promise!Fate, Kept, Final
<1>2. ASSUME NEW M \in SUBSET J!Job, Promise!SetAside(M) \/ Promise!Park(M)
      PROVE  /\ UNCHANGED <<jobs, copiesBar>>
             /\ fateBar' \in [J!Job -> Promise!Fate]
             /\ \A j \in J!Job : \/ fateBar'[j] = fateBar[j]
                                 \/ /\ fateBar[j] \notin Final \cup {"none"}
                                    /\ fateBar'[j] = "aside" => Promise!Later(j) # {}
  <2>1. CASE Promise!SetAside(M)
    BY <2>1 DEF Promise!SetAside, Promise!Undecided, Promise!Fate, Kept, Final
  <2>2. CASE Promise!Park(M)
    BY <2>2 DEF Promise!Park, Promise!Fate, Kept, Final
  <2> QED BY <1>2, <2>1, <2>2
<1>3. ASSUME NEW m \in J!Job, Promise!Answer(m)
      PROVE  /\ Kept'
             /\ \A j \in J!Job : fateBar[j] \in Final => fateBar'[j] = fateBar[j]
  <2>1. \A j \in J!Job : (Promise!Later(j))' = Promise!Later(j)
    BY <1>3 DEF Promise!Answer, Promise!Later
  <2>2. J!Job' = J!Job /\ (Promise!Fate)' = Promise!Fate
    BY DEF J!Job, Promise!Fate
  <2> QED BY <1>3, <2>1, <2>2 DEF Promise!Answer, Kept
<1>4. ASSUME UNCHANGED Promise!vars
      PROVE  UNCHANGED <<jobs, copiesBar>> /\ fateBar' = fateBar
  BY <1>4 DEF Promise!vars
<1>5. fateBar \in [J!Job -> Promise!Fate]
  BY DEF Kept
<1> QED BY <1>1, <1>2, <1>3, <1>4, <1>5, KeptArrive, KeptMoves DEF Promise!Next

(* With one worker the customer gets one answer of the bot to a message at *)
(* most, to one that was decided on; no message is completed with nothing  *)
(* done about it; and the newest of a conversation is never set aside.     *)
THEOREM EveryMessageIsKept ==
  ASSUME OneWorker
  PROVE  Spec => []Kept
<1>1. Promise!Spec => []Kept
  BY KeptInit, KeptStep, PTL DEF Promise!Spec
<1> QED BY <1>1, PromiseKept, PTL DEF ImplementsPromise

(* With one worker a decision about a message is final, and so is that a   *)
(* later message took its place, whatever is retried or dismissed by hand. *)
THEOREM FatesAreFinal ==
  ASSUME OneWorker
  PROVE  Spec => [][\A j \in J!Job : fateBar[j] \in Final => fateBar'[j] = fateBar[j]]_vars
<1> DEFINE Lasts == \A j \in J!Job : fateBar[j] \in Final => fateBar'[j] = fateBar[j]
<1>1. WholeInv /\ Kept /\ [Next]_vars => Lasts
  BY StepSimulates, KeptStep
<1>2. Spec => []WholeInv
  BY WholeInvariance
<1>3. Spec => []Kept
  BY EveryMessageIsKept
<1> QED BY <1>1, <1>2, <1>3, PTL DEF Spec

(* The answers of the bot to a conversation are queued in the order of its *)
(* messages, and a worker takes deliveries in the order of their queue.    *)
THEOREM AnswersLeaveInOrder ==
  ASSUME OneWorker
  PROVE  Spec => [](AnswersInOrder /\ FirstInFirstOut)
<1>1. WholeInv => AnswersInOrder /\ FirstInFirstOut
  BY DEF WholeInv, Answers, OutboxInv
<1> QED BY <1>1, WholeInvariance, PTL
=============================================================================
