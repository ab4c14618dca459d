----------------------------- MODULE JobQueue -----------------------------
(***************************************************************************)
(* rrpp_bridge/queue.py and the job half of rrpp_bridge/executor.py: the   *)
(* durable queue between the channel adapters and the agent.               *)
(*                                                                         *)
(* An accepted message is a row of "events" and a row of "jobs", inserted  *)
(* together, so one number (the rowid of the event) names both.  A worker  *)
(* claims the newest due job of a conversation and sets the older ones     *)
(* aside, asks the provider for a decision, records an action, executes it *)
(* on the local sink unless it became a delivery, and completes the job.   *)
(* Workers crash and leases expire; no write of a worker checks that it    *)
(* still owns the job.                                                     *)
(*                                                                         *)
(* The work_key of a job and its conversation are the same here, as they   *)
(* are for Instagram.  What the provider and the policy decide is left     *)
(* open: every kind of action may come out of a run.                       *)
(***************************************************************************)
EXTENDS Naturals, Sequences, FiniteSets

CONSTANTS
  Workers,        \* worker processes
  Conversations,  \* values of work_key
  MaxAttempts,    \* settings.max_attempts
  Debounce,       \* response_debounce_seconds is not 0
  MaxJobs,        \* bound: messages ever accepted
  MaxReplies,     \* bound: human replies
  MaxRetries,     \* bound: dead-letter jobs retried by an operator
  MaxCrashes      \* bound: crashes of worker processes

ASSUME JobQueueConstants ==
  /\ MaxAttempts \in Nat \ {0}  \* config.py refuses less than 1
  /\ Debounce \in BOOLEAN
  /\ MaxJobs \in Nat
  /\ MaxReplies \in Nat
  /\ MaxRetries \in Nat
  /\ MaxCrashes \in Nat

VARIABLES
  jobs,         \* the conversations of the accepted messages, oldest first
  state,        \* jobs.state, "none" for a job not yet inserted
  attempts,     \* jobs.attempts
  due,          \* jobs.available_at has passed
  leaseOver,    \* jobs.lease_expires_at is set and has passed
  successor,    \* jobs.superseded_by_job_id, 0 for NULL
  eventStatus,  \* events.status of the event of the job
  actions,      \* the actions of a job, in the order of their insertion
  pc,           \* where each worker is in run_once
  run,          \* what each worker has read of the job it claimed
  replies,      \* human replies so far
  retries,      \* operator retries so far
  crashes       \* crashes so far

jobVars == <<state, attempts, due, leaseOver, successor, eventStatus>>
workerVars == <<pc, run>>
bounds == <<replies, retries, crashes>>
vars == <<jobs, jobVars, actions, workerVars, bounds>>

Job == 1..MaxJobs
Inserted == 1..Len(jobs)
Open == {"queued", "processing"}
Kind == {"delivery", "no_action", "review"}
NoRun == [job |-> 0, attempts |-> 0, action |-> 0, seen |-> 0, newest |-> 0]

(* earlier: its created_at is earlier than that of every action before it. *)
Action(author, kind, earlier) ==
  [author |-> author, kind |-> kind, earlier |-> earlier, executed |-> FALSE]

Init ==
  /\ jobs = <<>>
  /\ state = [j \in Job |-> "none"]
  /\ attempts = [j \in Job |-> 0]
  /\ due = [j \in Job |-> FALSE]
  /\ leaseOver = [j \in Job |-> FALSE]
  /\ successor = [j \in Job |-> 0]
  /\ eventStatus = [j \in Job |-> "none"]
  /\ actions = [j \in Job |-> <<>>]
  /\ pc = [w \in Workers |-> "idle"]
  /\ run = [w \in Workers |-> NoRun]
  /\ replies = 0 /\ retries = 0 /\ crashes = 0

-----------------------------------------------------------------------------
(* The tables as seen by a statement.                                      *)

JobsOf(c) == {j \in Inserted : jobs[j] = c}

(* Mutant: a message that was set aside can be claimed again.              *)
QueuedOrSuperseded(c) == {j \in JobsOf(c) : state[j] \in {"queued", "superseded"}}

Queued(c) == {j \in JobsOf(c) : state[j] = "queued"}

Newer(j) == {k \in JobsOf(jobs[j]) : k > j}

IsNewest(j, J) == j \in J /\ \A k \in J : k <= j

Due(c) == {j \in Queued(c) : due[j]}

(* Mutant: a conversation is not serialized.                               *)
ClaimableAnyhow == {j \in Inserted : j \in Due(jobs[j])}

(* The due jobs whose conversation no worker is processing.                *)
Claimable ==
  {j \in Inserted : j \in Due(jobs[j]) /\ \A k \in JobsOf(jobs[j]) : state[k] # "processing"}

(* Mutant: an expired lease is not noticed.                                *)
StaleNever == {}

Stale == {j \in Inserted : state[j] = "processing" /\ leaseOver[j]}

(* Mutant: every failure is retried.                                       *)
AlwaysRequeued(n) == "queued"

(* fail and recover_stale: another try, or the dead-letter state.          *)
AfterFailure(n) == IF n >= MaxAttempts THEN "dead_letter" ELSE "queued"

EventAfterFailure(n) == IF AfterFailure(n) = "queued" THEN "retrying" ELSE "failed"

(* A job leaves a worker: state, lease and event change together.          *)
Leave(j, s, e) ==
  /\ state' = [state EXCEPT ![j] = s]
  /\ leaseOver' = [leaseOver EXCEPT ![j] = FALSE]
  /\ eventStatus' = [eventStatus EXCEPT ![j] = e]

GoTo(w, label) == pc' = [pc EXCEPT ![w] = label]

(* Mutant: the worker keeps the job it had.                                *)
EndRunHolding(w, label) ==
  /\ GoTo(w, label)
  /\ UNCHANGED run

EndRun(w, label) ==
  /\ GoTo(w, label)
  /\ run' = [run EXCEPT ![w] = NoRun]

-----------------------------------------------------------------------------
(* Customers: enqueue_in_transaction of a message not seen before.         *)

Enqueue(c) ==
  /\ Len(jobs) < MaxJobs
  /\ LET j == Len(jobs) + 1 IN
       /\ jobs' = Append(jobs, c)
       /\ state' = [state EXCEPT ![j] = "queued"]
       /\ eventStatus' = [eventStatus EXCEPT ![j] = "queued"]
       /\ due' = [k \in Job |->
            IF k = j THEN ~Debounce
            ELSE IF Debounce /\ k \in Queued(c) THEN FALSE
            ELSE due[k]]
  /\ UNCHANGED <<attempts, leaseOver, successor, actions, workerVars, bounds>>

BecomeDue(j) ==
  /\ state[j] = "queued" /\ ~due[j]
  /\ due' = [due EXCEPT ![j] = TRUE]
  /\ UNCHANGED <<jobs, state, attempts, leaseOver, successor, eventStatus, actions,
                 workerVars, bounds>>

LeaseExpires(j) ==
  /\ state[j] = "processing" /\ ~leaseOver[j]
  /\ leaseOver' = [leaseOver EXCEPT ![j] = TRUE]
  /\ UNCHANGED <<jobs, state, attempts, due, successor, eventStatus, actions,
                 workerVars, bounds>>

-----------------------------------------------------------------------------
(* recover_stale, by a worker before it claims or by the CLI.              *)

Recover ==
  /\ state' = [j \in Job |-> IF j \in Stale THEN AfterFailure(attempts[j]) ELSE state[j]]
  /\ due' = [j \in Job |-> due[j] \/ j \in Stale]
  /\ leaseOver' = [j \in Job |-> leaseOver[j] /\ j \notin Stale]
  /\ eventStatus' = [j \in Job |->
       IF j \in Stale THEN EventAfterFailure(attempts[j]) ELSE eventStatus[j]]
  /\ UNCHANGED <<jobs, attempts, successor, actions, bounds>>

RecoverStale(w) ==
  /\ pc[w] = "idle"
  /\ GoTo(w, "claim")
  /\ UNCHANGED run
  /\ Recover

(* Mutant: of the due jobs of a conversation the oldest is claimed.        *)
ClaimOldestJob(w) ==
  /\ pc[w] = "claim"
  /\ \E j \in Claimable :
       LET older == Due(jobs[j]) \ {j} IN
         /\ \A k \in Claimable : j <= k
         /\ state' = [k \in Job |->
              IF k = j THEN "processing" ELSE IF k \in older THEN "superseded" ELSE state[k]]
         /\ successor' = [k \in Job |-> IF k \in older THEN j ELSE successor[k]]
         /\ eventStatus' = [k \in Job |-> IF k \in older THEN "batched" ELSE eventStatus[k]]
         /\ attempts' = [attempts EXCEPT ![j] = @ + 1]
         /\ leaseOver' = [leaseOver EXCEPT ![j] = FALSE]
         /\ run' = [run EXCEPT ![w] = [NoRun EXCEPT !.job = j, !.attempts = attempts[j] + 1]]
  /\ GoTo(w, "look")
  /\ UNCHANGED <<jobs, due, actions, bounds>>

(* claim_next: the oldest claimable job selects the conversation, its      *)
(* newest due job is processed and the others are batched into it.         *)
ClaimNext(w) ==
  /\ pc[w] = "claim"
  /\ \E candidate \in Claimable, j \in Claimable :
       LET older == Due(jobs[candidate]) \ {j}
       IN /\ \A k \in Claimable : candidate <= k
          /\ IsNewest(j, Due(jobs[candidate]))
          /\ state' = [k \in Job |->
               IF k = j THEN "processing" ELSE IF k \in older THEN "superseded" ELSE state[k]]
          /\ successor' = [k \in Job |-> IF k \in older THEN j ELSE successor[k]]
          /\ eventStatus' = [k \in Job |-> IF k \in older THEN "batched" ELSE eventStatus[k]]
          /\ attempts' = [attempts EXCEPT ![j] = @ + 1]
          /\ leaseOver' = [leaseOver EXCEPT ![j] = FALSE]
          /\ run' = [run EXCEPT ![w] = [NoRun EXCEPT !.job = j, !.attempts = attempts[j] + 1]]
  /\ GoTo(w, "look")
  /\ UNCHANGED <<jobs, due, actions, bounds>>

ClaimNothing(w) ==
  /\ pc[w] = "claim"
  /\ Claimable = {}
  /\ GoTo(w, "idle")
  /\ UNCHANGED <<jobs, jobVars, actions, run, bounds>>

-----------------------------------------------------------------------------
(* _action_for_job and the rest of run_once, for the job run[w].job.       *)

(* Mutant: the local sink is skipped.                                      *)
AfterActionComplete(kind) == "complete"

(* An action that goes to the local sink, or one that ends the job: a      *)
(* delivery, and no_action, which is never executed, reviewed or not.      *)
AfterAction(kind) == IF kind = "review" THEN "check" ELSE "complete"

(* Mutant: an earlier action for the job is not looked for.                *)
LookForNothing(w) ==
  /\ pc[w] = "look"
  /\ GoTo(w, "provider")
  /\ UNCHANGED <<jobs, jobVars, actions, run, bounds>>

IsOldest(i, done) == done[i].earlier /\ \A k \in i + 1 .. Len(done) : ~done[k].earlier

(* The oldest action for the job, also a human reply, is used again.       *)
LookForAction(w) ==
  /\ pc[w] = "look"
  /\ LET done == actions[run[w].job] IN
       \/ \E i \in 1..Len(done) :
            /\ IsOldest(i, done)
            /\ GoTo(w, AfterAction(done[i].kind))
            /\ run' = [run EXCEPT ![w].action = i]
       \/ /\ done = <<>>
          /\ GoTo(w, "provider")
          /\ UNCHANGED run
  /\ UNCHANGED <<jobs, jobVars, actions, bounds>>

(* The answer of the provider is here: _newer_inbound_exists, and the      *)
(* timestamp of the action, later than that of the actions seen by now.    *)
CheckFresh(w) ==
  /\ pc[w] = "provider"
  /\ GoTo(w, IF Newer(run[w].job) = {} THEN "insert" ELSE "newest")
  /\ run' = [run EXCEPT ![w].seen = Len(actions[run[w].job])]
  /\ UNCHANGED <<jobs, jobVars, actions, bounds>>

(* An action that came in since may have the later timestamp.              *)
MayBeEarlier(w) ==
  IF actions[run[w].job] = <<>> THEN {TRUE}
  ELSE IF run[w].seen = 0 THEN BOOLEAN
  ELSE {FALSE}

(* actions, policy_decisions, agent_decisions, and the delivery or review; *)
(* the kind "review" stands for every other action than the two above.     *)
InsertAction(w) ==
  /\ pc[w] = "insert"
  /\ \E kind \in Kind, earlier \in MayBeEarlier(w) :
       LET j == run[w].job IN
         /\ actions' = [actions EXCEPT ![j] = Append(@, Action("bot", kind, earlier))]
         /\ run' = [run EXCEPT ![w].action = Len(actions[j]) + 1]
         /\ GoTo(w, AfterAction(kind))
  /\ UNCHANGED <<jobs, jobVars, bounds>>

(* LocalActionExecutor.execute: its read, and its transaction, which fails *)
(* on the idempotency key if another worker executed the action meanwhile. *)
CheckExecution(w) ==
  /\ pc[w] = "check"
  /\ GoTo(w, IF actions[run[w].job][run[w].action].executed THEN "complete" ELSE "execute")
  /\ UNCHANGED <<jobs, jobVars, actions, run, bounds>>

Execute(w) ==
  /\ pc[w] = "execute"
  /\ ~actions[run[w].job][run[w].action].executed
  /\ actions' = [actions EXCEPT ![run[w].job][run[w].action].executed = TRUE]
  /\ GoTo(w, "complete")
  /\ UNCHANGED <<jobs, jobVars, run, bounds>>

Complete(w) ==
  /\ pc[w] = "complete"
  /\ Leave(run[w].job, "completed", "processed")
  /\ EndRun(w, "idle")
  /\ UNCHANGED <<jobs, attempts, due, successor, actions, bounds>>

(* _supersede_job: the newest other message is read, then named.           *)
FindNewest(w) ==
  /\ pc[w] = "newest"
  /\ \E k \in Inserted :
       /\ IsNewest(k, JobsOf(jobs[run[w].job]) \ {run[w].job})
       /\ run' = [run EXCEPT ![w].newest = k]
  /\ GoTo(w, "supersede")
  /\ UNCHANGED <<jobs, jobVars, actions, bounds>>

Supersede(w) ==
  /\ pc[w] = "supersede"
  /\ Leave(run[w].job, "superseded", "batched")
  /\ successor' = [successor EXCEPT ![run[w].job] = run[w].newest]
  /\ EndRun(w, "idle")
  /\ UNCHANGED <<jobs, attempts, due, actions, bounds>>

(* Any exception between the claim and the completion, SIGTERM included.   *)
Fail(w) ==
  /\ pc[w] \in {"look", "provider", "insert", "check", "execute", "complete"}
  /\ LET n == run[w].attempts IN
       /\ Leave(run[w].job, AfterFailure(n), EventAfterFailure(n))
       /\ due' = [due EXCEPT ![run[w].job] = AfterFailure(n) = "dead_letter"]
  /\ EndRun(w, "idle")
  /\ UNCHANGED <<jobs, attempts, successor, actions, bounds>>

Crash(w) ==
  /\ pc[w] # "down"
  /\ crashes < MaxCrashes
  /\ crashes' = crashes + 1
  /\ EndRun(w, "down")
  /\ UNCHANGED <<jobs, jobVars, actions, replies, retries>>

Restart(w) ==
  /\ pc[w] = "down"
  /\ GoTo(w, "idle")
  /\ UNCHANGED <<jobs, jobVars, actions, run, bounds>>

WorkerStep(w) ==
  \/ RecoverStale(w)
  \/ ClaimNext(w)
  \/ ClaimNothing(w)
  \/ LookForAction(w)
  \/ CheckFresh(w)
  \/ InsertAction(w)
  \/ CheckExecution(w)
  \/ Execute(w)
  \/ Complete(w)
  \/ FindNewest(w)
  \/ Supersede(w)
  \/ Fail(w)
  \/ Restart(w)

-----------------------------------------------------------------------------
(* Operators.                                                              *)

(* create_human_reply attaches its action to the newest job.  Its          *)
(* timestamp is read as its transaction begins: one step.                  *)
HumanReply(c) ==
  /\ replies < MaxReplies
  /\ \E j \in Inserted :
       /\ IsNewest(j, JobsOf(c))
       /\ actions' =
            [actions EXCEPT ![j] = Append(@, Action("human", "delivery", @ = <<>>))]
  /\ replies' = replies + 1
  /\ UNCHANGED <<jobs, jobVars, workerVars, retries, crashes>>

Retry(j) ==
  /\ retries < MaxRetries
  /\ state[j] = "dead_letter"
  /\ retries' = retries + 1
  /\ Leave(j, "queued", "queued")
  /\ attempts' = [attempts EXCEPT ![j] = 0]
  /\ due' = [due EXCEPT ![j] = TRUE]
  /\ UNCHANGED <<jobs, successor, actions, workerVars, replies, crashes>>

Dismiss(j) ==
  /\ state[j] = "dead_letter"
  /\ Leave(j, "dismissed", "dismissed")
  /\ UNCHANGED <<jobs, attempts, due, successor, actions, workerVars, bounds>>

(* The command recover-stale.                                              *)
RecoverByHand == Stale # {} /\ Recover /\ UNCHANGED workerVars

Operator ==
  \/ \E c \in Conversations : HumanReply(c)
  \/ \E j \in Job : Retry(j) \/ Dismiss(j)
  \/ RecoverByHand

-----------------------------------------------------------------------------

Next ==
  \/ \E w \in Workers : WorkerStep(w) \/ Crash(w)
  \/ \E j \in Job : BecomeDue(j) \/ LeaseExpires(j)
  \/ \E c \in Conversations : Enqueue(c)
  \/ Operator

Spec == Init /\ [][Next]_vars

(* The loop of a worker does not stop, systemd restarts it, the provider   *)
(* call has a timeout, and time passes.                                    *)
FairSpec ==
  /\ Spec
  /\ \A w \in Workers : WF_vars(WorkerStep(w))
  /\ \A j \in Job : WF_vars(BecomeDue(j)) /\ WF_vars(LeaseExpires(j))

-----------------------------------------------------------------------------
(* Properties                                                              *)

State == {"none", "queued", "processing", "completed", "superseded", "dead_letter",
          "dismissed"}
EventStatus == {"none", "queued", "retrying", "failed", "processed", "batched", "dismissed"}
AtRest == {"idle", "claim", "down"}
Busy == {"look", "provider", "insert", "check", "execute", "complete", "newest", "supersede"}
ActionRow == [author : {"bot", "human"}, kind : Kind, earlier : BOOLEAN, executed : BOOLEAN]
Run == [job : Job, attempts : Nat, action : Nat, seen : Nat, newest : Job \cup {0}]

JobTypes ==
  /\ jobs \in Seq(Conversations) /\ Len(jobs) <= MaxJobs
  /\ state \in [Job -> State]
  /\ attempts \in [Job -> Nat]
  /\ due \in [Job -> BOOLEAN]
  /\ leaseOver \in [Job -> BOOLEAN]
  /\ successor \in [Job -> Job \cup {0}]
  /\ eventStatus \in [Job -> EventStatus]
  /\ actions \in [Job -> Seq(ActionRow)]
  /\ \A j \in Job : state[j] # "none" <=> j \in Inserted

WorkerTypes ==
  /\ pc \in [Workers -> AtRest \cup Busy]
  /\ run \in [Workers -> Run \cup {NoRun}]
  /\ \A w \in Workers : run[w] \in Run <=> pc[w] \in Busy

BoundTypes == replies \in Nat /\ retries \in Nat /\ crashes \in Nat

(* Type invariant: the columns hold what the schema allows, a job exists   *)
(* with its event, and a worker has a job in hand exactly inside run_once. *)
TypeOK == JobTypes /\ WorkerTypes /\ BoundTypes

(* "Related conversations serialize": however leases expire and workers    *)
(* report late, at most one job of a conversation is being processed.      *)
Serialized ==
  \A j, k \in Inserted :
    jobs[j] = jobs[k] /\ state[j] = "processing" /\ state[k] = "processing" => j = k

(* A message that was set aside names a later message of its conversation, *)
(* so following superseded_by_job_id never leads back or elsewhere.        *)
SupersededByLater ==
  \A j \in Inserted :
    state[j] = "superseded" => successor[j] \in Newer(j)

(* No conversation goes quiet by itself: once its newest message is not    *)
(* open any more it has an action (an answer, a review, a decision to      *)
(* ignore), or it waits in the dead-letter list, or was dismissed there.   *)
NothingForgotten ==
  \A j \in Inserted :
    IsNewest(j, JobsOf(jobs[j])) /\ state[j] \notin Open =>
      \/ state[j] = "completed" /\ actions[j] # <<>>
      \/ state[j] \in {"dead_letter", "dismissed"}

(* A completed job left nothing undone: it has an action, which is a       *)
(* delivery, a decision to do nothing, or was executed (and so recorded)   *)
(* on the local sink.                                                      *)
CompletedIsExecuted ==
  \A j \in Inserted :
    state[j] = "completed" =>
      \E i \in 1..Len(actions[j]) :
        actions[j][i].kind # "review" \/ actions[j][i].executed

(* "One answer": a message is answered by the bot at most once.            *)
OneBotAnswer ==
  \A j \in Inserted :
    Cardinality({i \in 1..Len(actions[j]) :
                   actions[j][i].author = "bot" /\ actions[j][i].kind = "delivery"}) <= 1

(* "Bounded retry": no job is processed more often than max_attempts       *)
(* between two interventions of an operator.                               *)
RetriesBounded == \A j \in Inserted : attempts[j] <= MaxAttempts

(* What was answered or set aside is not taken up again.                   *)
AnsweredIsFinal ==
  [][\A j \in Job :
       state[j] \in {"completed", "superseded"} => state'[j] = state[j]]_vars

(* Every accepted message is settled, whatever fails on the way.           *)
EverySettled == \A j \in Job : state[j] \in Open ~> state[j] \notin Open
=============================================================================
