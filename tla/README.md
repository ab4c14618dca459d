# A TLA+ model of rrpp-agent-bridge

The bridge takes Instagram messages through a webhook, stores them, asks an
OpenClaw agent for a structured decision, lets a deterministic policy decide
whether the answer may leave, and either sends it through Meta's API or puts it
before a person in a private dashboard.  Its promises are about what happens in
between: a message is not lost, a customer is not answered twice, nothing leaves
that the policy, the mode or an operator forbids, and what the tables say about
a message is true.  All of its state is in one SQLite database that several
processes share, so those promises depend on where transactions begin and end,
on leases, and on what a process that is late or dead leaves behind.  These are
the things the modules here model, the runs check and the proofs establish.

Paths without a directory are under `src/rrpp_bridge/`.

## 1. The system

### Components and what they keep

| Component | Code | State | Operations |
| --- | --- | --- | --- |
| Instagram ingress | `instagram_webhook.py`, `adapters/instagram.py` | `inbound_webhook_receipts` | verify, normalise and ingest a body in one transaction, then answer |
| Job queue | `queue.py` | `events`, `jobs`, `conversation_messages` | enqueue (with debounce), claim (with batching), fail, recover, retry, dismiss |
| Job executor | `executor.py`, `action_executor.py` | `actions`, `policy_decisions`, `agent_decisions`, `action_executions` | one job: context, provider, freshness, policy, action, local execution, completion |
| Policy | `policy.py` | none | `Policy.decide` |
| Provider contract | `openclaw_client.py`, `agent_provider.py` | none | request a decision, parse and validate it |
| Outbound delivery | `delivery.py`, `instagram_sender.py` | `deliveries`, `delivery_attempts` | enqueue, human reply, recover, claim, permission, send, record |
| Operator workspace | `workspace.py` | `conversations`, `action_reviews`, `draft_revisions`, `venues`, `venue_routes` | conversation status, pause, reviews; venues and routes |
| Dashboard | `web.py` | sessions (signed, not stored) | the POST handlers that call the above, on four threads |
| Runtime mode | `runtime.py` | `runtime_settings` | get and set the execution mode |
| Backups, maintenance | `operations.py` | `backup_records`, files | create, verify, export, retry, retention, the loop |
| Restore, runtime lock | `operations.py`, `runtime_lock.py` | database file, lock file | restore under the exclusive lock; services hold it shared |
| Service health | `operations.py`, `service.py` | `service_status` | start, heartbeat, stop, health |
| Catalog | `catalog.py` | `catalog_events`, `catalog_offers`, `catalog_links` | insert, snapshot in three queries |
| Schema | `db.py`, `sql/` | `schema_migrations` | create or refuse at a start, migrate, `transaction()` |
| Command line, configuration, audit | `cli.py`, `config.py`, `audit.py` | environment, `audit_log` | entry points |

### How they interact

Everything goes through the database; no component calls another across
processes.  The ingress inserts an event with its job.  A worker process first
looks for a delivery to send and only then for a job (`Executor.run_once`).  The
job executor inserts an action with its policy decision and, in the same
transaction, a delivery or a review.  The delivery executor, perhaps of another
worker, checks again whether the message may leave, posts it and records what
came of it; that writes the action, the review and the conversation.  The
dashboard writes the same tables from its own threads.  Maintenance copies the
database and prunes the copies.

`transaction(conn, immediate=True)` takes SQLite's write lock, so such a block is
one atomic step.  Reads outside it, the HTTP requests and file operations are
steps of their own, and anything may happen between two of them.

### What is hard

* *Crashes between a side effect and its record*: the POST to Instagram and the
  transaction after it; a file and its row.
* *Leases*: an owner may still be running when its lease is recovered.  Neither
  jobs nor deliveries are fenced: late writes go by id.
* *Check and use*: pause, mode, freshness and an existing action are read outside
  the transaction or before the request that relies on them.
* *Repetition*: Meta repeats bodies; operators click twice; jobs are retried.
* *Ordering*: bursts, batching, a human reply that overtakes the bot.
* *Partial failure*: several files and a row for one backup; a read and two
  transactions for one click on "send".

PROJECT.json lists each hazard with its line and the properties that cover it, and
says what no property covers and why.

### What makes each component correct

* Ingress: each message becomes one event; 200 only after everything routed is stored; every well-formed body is accepted in the end.
* Queue: one job of a conversation at a time; bursts are batched into the newest message; retries are bounded; no conversation goes quiet with nothing to show for it.
* Executor and policy: only a safe answer leaves, only spam is dropped; everything else reaches a person; the message is answered once.
* Delivery: at most one copy; the recorded outcome is true and final; what is not certainly delivered is under review; the bot stays silent during a reconciliation.
* Workspace: a decision is final; "prepared" means a reply was queued; a conversation waits for a person only for a reason.
* Backups: the copies that retention keeps exist; nothing else is removed; every day is covered.
* Restore, schema, services: a restore can be undone wherever it fails; services run on a current schema; migrations run once and in order; the status page tells the truth; everything comes back by itself.
* Catalog: what is to come reaches every conversation (it does not: section 6).
* End to end: the customer gets one answer to a message at most, and every message is seen to.

## 2. The modules

| Module | Models | Lines of the code it stands for |
| --- | --- | --- |
| `OutboundIntent` | the promise about outbound messages, without workers | (specification) |
| `Delivery` | the outbox: workers, leases, permission, send, record, operators | `delivery.py`, `instagram_sender.py`, parts of `workspace.py`, `executor.py` |
| `DeliveryProofs` | theorems about `Delivery` | |
| `JobQueue` | the queue and the steps of a worker on one job | `queue.py`, `executor.py`, `action_executor.py` |
| `JobQueueProofs` | theorems about `JobQueue` | |
| `Policy` | the policy, the provider's answers, the modes | `policy.py`, `openclaw_client.py` |
| `AutoReply` | one message through all the gates, the world changing between them | `executor.py`, `delivery.py` |
| `AutoReplyProofs` | theorems about `Policy` and `AutoReply` | |
| `Webhook` | idempotent ingestion of signed bodies | `instagram_webhook.py`, `adapters/instagram.py`, `queue.py` |
| `WebhookProofs` | theorems about `Webhook` | |
| `ReviewDesk` | operators, reviews, human replies, the worker's writes that meet them | `workspace.py`, `web.py`, `delivery.py`, `action_executor.py` |
| `ReviewDeskProofs` | theorems about `ReviewDesk` | |
| `Backups` | the maintenance loop and the backup command | `operations.py` |
| `BackupsProofs` | theorems about `Backups` | |
| `Lifecycle` | the database file: creation, migration, restore, the lock, services that start and stop | `db.py`, `runtime_lock.py`, `operations.py`, `cli.py` |
| `LifecycleProofs` | theorems about `Lifecycle` | |
| `MessagePromise` | the promise to a customer, without queue, workers, outbox | (specification) |
| `Conversation` | `JobQueue` and `Delivery` under one worker, from a message to its answer | `executor.py`, `delivery.py`, `queue.py` |
| `ConversationProofs` | theorems about `Conversation`: it behaves like each of its halves, and keeps the promise | |
| `Catalog` | venues, events, offers and the snapshot a worker reads | `catalog.py`, `workspace.py` |
| `MC...` | values of the constants for TLC | |

`AutoReply` composes the policy with the gates of the executor and of the
delivery.  `Delivery` implements `OutboundIntent`; `outcomeBar` is the mapping.
`Delivery` and `JobQueue` each leave the other's decisions open: `EnqueueBot` may
queue an answer and `AskOperator` open a review whenever the worker looks at the
jobs, and `InsertAction` may insert any kind of action.  `Conversation` closes
them: it instantiates both and lets them step together where the code does it in
one transaction or one process.  The action of a job and its delivery or review
are inserted together, an inbound message and a human reply reach both halves, a
crash takes both.  It implements `MessagePromise`, by `fateBar` and `copiesBar`.

### State and actions

*Delivery.*  A delivery is its rowid.  `row`, `status`, `attempts`, `leaseOver`
are the columns of `deliveries`; time is abstracted to "the lease has passed".
`pc` is where a worker is in `DeliveryExecutor.run_once`; `held` and
`heldAttempt` are the row it read back after the claim and goes on using.
`_permission_reason` is three actions because it makes three reads.  `Send` is
the request; `accepted` is whether Instagram took it, which the worker learns
from `FinishSent` or `FinishRejected`, or does not (`FinishAmbiguous`: a timeout
or a 5xx answer tells nothing).  `LogConflict` is the UNIQUE constraint of
`delivery_attempts` that a late worker runs into: the transaction is rolled back
and the exception ends the process.  `requests` and `delivered` are history
variables: what Instagram saw and what the customer got.

*JobQueue.*  Event and job are inserted together and have one number.  `run` is
what a worker has read: the attempts at its claim (which `fail` uses, not the
current value), the action it found or made, the actions its job had when it read the
timestamp for its own (`seen`), the successor `_supersede_job` read.  Every exception
in `run_once`, SIGTERM included (`except Exception`
catches `GracefulShutdown`), is `Fail`; a process that dies is `Crash`.  Actions
of a job keep the order of their insertion, and `earlier` says whether the timestamp of
one precedes those of all before it: a retry uses the action with the oldest
`created_at` (`IsOldest`), and a worker reads that before its transaction
(`executor.py:157`), so the action that comes in second may be the older.

*Policy, AutoReply.*  A message is the set of topics that the word lists and
patterns find (incident or credential, restricted operation, controlled topic); a
decision is an action, a class of reason, a class of text (one of them what
`_valid_text` refuses), a class of references and whether it was structured.
`Parsed` is what `_parse_response` lets through.  Which words belong to which topic
is not modelled.  In `AutoReply` every read of a gate is a step: the pause in the
context of the agent, the freshness of the message, the mode, then the transaction,
the claim of the delivery, the three reads of `_permission_reason` (`PermitContext`,
`PermitMode`, `PermitNewer`) and the request (`Post`).  The mode, the pause, a new
message or the senders may change between any two of them, the last read and the
request included.  `standing` is a history variable: what objected to the answer
when its delivery was claimed and has done so ever since.

*Webhook.*  A body is a name with a sequence of items; `mid` is the id that makes
an item idempotent.  `Routed` is `_receiver_account` and the self-message check;
`Refused` is the `ValueError` of an item over the limits, which refuses the body.
Ingestion is one transaction, but it is taken message by message: `Begin` takes the
write lock, `TakeItem` ingests the next item into `draft`, `Commit` makes the draft
and the receipt visible, and `RollBack` forgets it, wherever the thread fails or
dies.  Only one thread has a draft, and the others read `events` meanwhile.  A
receipt remembers (history variable `under`) the account registry it was written with.

*ReviewDesk.*  A row of `actions` stands for its review and its delivery as well.
`request` is where a thread is inside "send": it has read the draft, it has
queued the reply.  `worker` is the gap inside `LocalActionExecutor.execute`
between its read of the review and its transaction.

*Backups.*  A copy is a number in the order of creation.  Files, exports and rows
are separate, and each is touched in its own step by the loop and the command.
The table is a set of rows, and what orders them is `at`, which stands for
`created_at`: it is read before the transaction that inserts the row, so of two
copies made at the same time the one with the newer timestamp may be inserted first,
and retention may meet them in either order.  Retention removes a file, its export and
its row in three steps (`Unlink`, `UnlinkExport`, `DeleteRow`).  `Choose` and `Decide` are the two
queries that tell whether a copy is due; `SelectDaily` and `SelectMonthly` are those
of retention, and `todo` is what is left of the rows they returned.

*Lifecycle.*  A database is the sequence of its migrations, a set of facts (what
was written into it) and the status row of the worker.  Worker and maintenance
open the database, look at its schema and only then wait for the lock
(`OpenMonitored`, `StartService`); dashboard and ingress take the lock first
(`LockFirstOf`, `OpenLocked`).  Taking the lock and `start_service` are one step:
nothing between them touches the database.  The lock belongs to the kernel, so
`Holders` is computed from where the processes are.  `restore_backup` is a step for
each part that can fail or be interrupted.  The status row of a restored copy is
any row: whatever was in it when the copy was made.  `written` remembers facts
that must not disappear, `overtaken` the processes that had read a schema before a
restore replaced it.

*Conversation.*  The variables of `Delivery` whose names `JobQueue` uses too are
called `posts`, `postOver` and `postPc`.  Operators act at most `MaxInterventions`
times in any of their ways.

*Catalog.*  `snapshot` grows by one query at a time.  An event has a day and a
venue; an offer has its event.

### Order of the plan

1. `OutboundIntent`, `Delivery` and its proofs (done): the irreversible side effect.
2. `JobQueue` and its proofs (done): what feeds it.
3. `Policy`, `AutoReply` and their proofs (done): what may leave.
4. `Webhook`, `ReviewDesk`, `Backups` (done).
5. `Lifecycle` (done): restore, lock, migrations, services.
6. `MessagePromise`, `Conversation` (done): the whole road of a message.
7. `Catalog` (done).
8. `WebhookProofs`, `ReviewDeskProofs`, `BackupsProofs`, `LifecycleProofs`,
   `ConversationProofs`, and the properties of one worker in `DeliveryProofs` and
   `JobQueueProofs` (done).
9. `ConversationProofs`: that `Conversation` implements `MessagePromise`, as a theorem (done).

## 3. The runs

| Run | Instance | States | Shows |
| --- | --- | --- | --- |
| `DeliverySafety` | 2 workers, 1 conversation, 2 deliveries, 1 event, 1 crash, mode live | 348 k | at most once, truthful outcomes, agreement of log and status, reviews, refinement of `OutboundIntent` (and with it the finality of outcomes) |
| `DeliveryOneWorker` | 1 worker, canary and shadow, 2 deliveries, 2 events, 1 crash | 450 k | silence during reconciliation |
| `JobQueueTwoWorkers` | 2 workers, 2 jobs, debounce, 1 attempt, human reply, retry, crash | 1.9 M | serialisation, batching, nothing forgotten, nothing skipped |
| `JobQueueOneWorker` | 1 worker, 2 conversations, 2 jobs, debounce, 2 attempts, human reply, crash | 489 k | one answer, bounded retries, finality, every job is settled |
| `Conversation` | 1 worker, 1 conversation, 2 jobs, 2 deliveries, 1 attempt, 1 act of an operator, 1 crash | 277 k | refinement of `MessagePromise`; every message is seen to |
| `AutoReply` | every class of message and decision, every mode, 2 changes on the way | 4.8 M | only safe answers leave, and none against a standing objection; only spam is dropped; suspicion never helps |
| `Webhook` | 2 threads, 3 bodies that overlap, 2 registries, 2 failures | 54 k | once each, stored before 200, acceptance in the end |
| `ReviewDesk` | 2 threads, 2 actions, 2 versions, 1 crash | 158 k | prepared means sent; waiting has a reason; decisions are final |
| `Backups` | loop and 1 command, (monthly), 2 days over a change of month, 1 fault, retention of 1 | 940 k | kept copies exist; only superfluous ones go; every day is covered |
| `Lifecycle` | 1 worker, 1 dashboard, the command line, 3 migrations, 1 restore, 1 death | 380 k | nothing is lost, current schema, ordered migrations, true status, every service comes back |

`ReviewDeskDoubleSend` and `CatalogCrowdedOut` expect a violation; section 6 says
what each shows.

### Bounds, and why they are enough

Every bound is a constant whose name begins with `Max`, in a guard.  Two workers
are enough for what concurrency can do here: every conflict is between one owner
and one other process (a late owner and its successor, a claim and a claim), and
one further process would repeat the part of the second.  Two deliveries (or
jobs) of one conversation show order and batching; a second conversation is
there where liveness could depend on it.  One crash is enough for the safety
properties because a worker that was restarted keeps nothing: a second crash
starts from a state another history reaches without it.  The lease may pass at
any moment, which covers every duration.  The theorems of section 5 hold without
the bounds' values being known.

`MaxAttempts` is 1 in `JobQueueTwoWorkers`, so that dead letters and operator
retries come early, and 2 in `JobQueueOneWorker`, so that a job is retried.
`Keep` is 1 in `Backups` (7 and 3 in the code): retention acts on the second copy.
`CommandKinds` is {"monthly"} there: a scheduled kind, so that the command competes
with the loop for retention, and the one of which there are fewer copies.  A manual
copy is in none of the queries of the loop.
`Lifecycle` has three migrations, so that a process can be between two of them while
the schema is neither empty nor current, and the release of the backup is any of
the three.  One kind of each service is enough: services do not look at each other,
only restore looks at all.  `Conversation` has one attempt, so that recovery and
failure lead to the dead-letter list and back by an operator within few steps; its
two messages are what a burst, an overtaken answer and two answers in order need.
In `AutoReply` one change makes a value read earlier stale, and a second one takes it
back, so that what objects comes, stays or goes; all values are initial values too.
`JobQueueTwoWorkers` and `JobQueueOneWorker` have the debounce; in `Conversation` a
message is due at once and waits only for a backoff, as the debounce adds nothing to
what the two halves do together.

Worker and thread symmetry is used in safety runs only.

### Fairness

* A worker's loop does not stop and its process is restarted (`Restart=on-failure`
  in `deploy/systemd`, `restart: unless-stopped` in `compose.yaml`), a request ends because
  `urlopen` has a timeout, a local transaction ends.  So `WF(WorkerStep(w))`.
* Time passes: weak fairness of `LeaseExpires` and `BecomeDue`.
* Meta repeats a body until it gets 200: strong fairness of posting a body that
  is not answered, because threads are busy from time to time.
* The maintenance loop wakes every 30 seconds: `WF(Maintenance)`.
* A service that is down is started again (the same restart policies), and an
  operator whose services are refused runs `migrate`: the refusal says so
  (`db.py:86`) and `scripts/deploy.sh` does.  A restore that was begun goes on
  unless it dies.  So `Lifecycle` has `WF` of each service's start, of the commands
  that are on their way, and of `MigrateBegin` while the schema is outdated.
* In `Conversation` the worker's step is whatever the process does next, in either
  half: `WF(WorkerStep(w))`, and both kinds of lease expire.

Nothing is assumed of customers and operators, nor that a crash, a failed export
or a failed verification stops occurring; the number of crashes is bounded in
each instance, which is the assumption that they are not continuous.

## 4. What is checked

Each module has one type invariant, which also says what a process holds at which
step.  The others are stated, with the behaviour they are about, at the end of
the module.  Those a reviewer of the code may wish to argue about:

* `OutcomeIsFinal` (proved; `ImplementsIntents` implies it) has one exception: a worker whose lease was recovered before it
  posted suppresses the delivery, and "unknown" becomes "suppressed".  The
  message was not sent, so this is true, but the escalation stays.
* `LogAgrees`: the late worker cannot make the log contradict the row, because the
  UNIQUE constraint rolls its transaction back.  Without it (the mutant) it can.
* `NoBotPostWhileReconciling` holds for one worker (the theorem assumes `OneWorker`).  With two the second may
  have passed the check of the pause, as with an operator's pause.
* `SentIsSafe` says what the three reads of `_permission_reason` achieve and no more: an
  objection (a pause, a mode, a missing sender, a newer message) that was there when the
  delivery was claimed, and has stayed, is not overlooked.  One that comes up after the read
  that looks for it may be too late for the request; the model has these histories, and
  the property does not exclude them, because the code does not (section 6).
* `OneBotAnswer`, `RetriesBounded` and `AnsweredIsFinal` hold for one worker only, which their
  theorems assume: see section 6, and note that a late `fail` uses the attempts read at
  the claim.
* `WaitsForAReason` counts a suppressed human reply as a reason: the code makes no
  review of it, and nothing else reminds the operator.
* `RunningIsCurrent` has one exception: the worker reads the schema before it waits
  for the lock (section 6).
* `NoMigrationIsSkipped` is stated for histories in which no restore overtook a
  process that creates or migrates (section 6).
* `NothingLost` excludes what a command writes between the safety copy and the
  replacement: no lock keeps it out (section 6).
* `ImplementsPromise` counts copies the customer received.  It holds for one worker,
  which the theorem assumes.  With two it does not, as `OneBotAnswer` does not.

Every property has a mutant of the code in its module (comments beginning
"Mutant:") that violates it under the configuration of its run.

## 5. What is proved

With TLAPS, for every value of the constants that meets the module's ASSUME, and
without the bounds' values being known:

| Module | Theorems |
| --- | --- |
| `DeliveryProofs` | type correctness, `AtMostOnce`, `StatusIsTrue`, `LogAgrees`, `UnsentIsReviewed`, `OutcomeIsFinal`; `Delivery` implements `OutboundIntent`; with one worker `NoBotPostWhileReconciling` |
| `JobQueueProofs` | type correctness, `Serialized`, `SupersededByLater`, `CompletedIsExecuted`, `NothingForgotten`; with one worker `RetriesBounded`, `OneBotAnswer`, `AnsweredIsFinal` |
| `ConversationProofs` | `Conversation` implements `JobQueue` and `Delivery`, so all of the above holds of the whole; with one worker it implements `MessagePromise` (`ImplementsPromise`), and from that `EveryMessageIsKept`, `FatesAreFinal`, `AnswersLeaveInOrder` |
| `AutoReplyProofs` | `PolicyIsMonotone` (about `Policy.decide` alone), type correctness, `SentIsSafe`, `OnlySpamIsIgnored`, `SuspicionNeverHelps` |
| `WebhookProofs` | type correctness, `StoredOnce`, `AnsweredIsStored` |
| `ReviewDeskProofs` | type correctness, `PreparedWasSent`, `WaitsForAReason`, `DecidedIsFinal` |
| `BackupsProofs` | type correctness, `KeptAreThere`, `RemovedIsOld` |
| `LifecycleProofs` | type correctness, `NothingLost`, `RunningIsCurrent`, `NoMigrationIsSkipped`, `StoppedIsTrue` |

Hardly any of the properties is inductive, since a step acts on what its process
learnt in earlier steps.  In each module `IInv` is the type invariant with what every
process may rely on at the step it has reached.

*Delivery.*  That a delivery is posted once depends on what the workers hold.
`IInv == TypeOK /\ Safe`, and `Safe` is the conjunction of

* `OneHolder`: no two workers hold the same row (nothing returns to "pending", so a row is claimed once);
* `HeldIsCurrent`: a held row is "sending" or, after recovery, "unknown", and is held in its present attempt;
* `HeldRequests`: a held row was posted exactly if its holder waits for the answer, and received exactly if Instagram took the request;
* `RequestsBounded`: at most one request, no delivery without one, and neither while the row is queued or suppressed;
* `LogFollowsStatus`: the log has at most one row for a delivery, of its present attempt, and agrees with its status;
* `StatusIsTrue`.

From it the safety properties follow directly and the step properties by one case
per action.  Refinement is the same case split: a claim, a check and a crash
stutter, recovery is `GiveUp`, the request is `Transmit` if Instagram took it, the
record is `Conclude`.  `UnsentIsReviewed` needs `Reviewed` besides: a delivery on its
way has no review yet, so the one it gets when it fails is new.  Silence during a
reconciliation needs `Cleared`: between its look at the conversation and its request
a bot's message is of a conversation that is not under reconciliation.  Only workers
impose one, so a single worker cannot be overtaken there; a crash or a recovery
by the same worker comes before or after.

*JobQueue.*  `Serialized` needs nothing but the guard of `ClaimNext`, since late
writes only take jobs out of processing.  The others need what a worker knows of
its job at each step: `IInv == TypeOK /\ Safe` with `HeldExists` (its job was
inserted), `ActionChosen` (where it checks, executes or completes it has chosen an
action of its job, and what it completes was executed or needs no execution),
`NewerSeen` (where it supersedes there is a newer message of the conversation),
`Serialized`, `SupersededByLater` and `CompletedIsExecuted`.  `NothingForgotten` is
then a consequence: the newest message cannot have been superseded.

The properties of one worker are proved under the assumption `OneWorker`, that any
two members of `Workers` are equal, each with an invariant of its own next to `IInv`: `Budget` (a queued job
has a try left, and the attempts a worker read at its claim are not fewer than those of the
table, so a late `fail` does not requeue a job too often), `AnsweredOnce` (where the
worker asks the provider or inserts, its job has no action of the bot) and
`HeldIsUnanswered` (the job in hand is neither completed nor superseded, though it
may have been recovered and dismissed behind the worker's back).

*Conversation.*  Every step of the whole is a step of `JobQueue` or leaves its
variables alone, and likewise for `Delivery`; one case per disjunct.  The two
specifications are instances over disjoint variables (but for the number of crashes,
which both count), so this is what makes it sound to prove the halves apart.

That the whole implements `MessagePromise` is proved under `OneWorker`, from the
constants' assumption `ConversationConstants` (what the two halves assume of theirs).
It relates the two halves, and needs more than either gives:
`WholeInv == QueueInv /\ OutboxInv /\ Answers`, where

* `QueueInv` is about the jobs: `JobInHand` (the job in a worker's hand was not
  closed behind its back, has an action where it is executed or completed, has a newer
  message where it is superseded, and no action of the bot where one is about to be inserted)
  and `JobsClosed` (a superseded job has a newer message, a completed one an action);
* `OutboxInv` is about the rows: `FirstInFirstOut` (deliveries leave in the order of
  their rowids), `UnsentIsUnsent` (the customer has nothing of a row that was not taken)
  and `DeliveryInHand` (the row in a worker's hand is the newest that was taken, and
  the customer has it only once the request is posted);
* `Answers` ties them together: `AnswersHaveMessages` (a delivery of the bot is for a
  message that has an action of the bot), `AnswersInOrder` (the answers to a
  conversation are queued in the order of its messages) and `AnswerIsNext` (what a
  worker is about to insert comes after all that was answered, even if the customer
  wrote again since it looked).  `AnswerIsNext` is the heart: the run looks
  for a newer message after it asked the provider (`executor.py:150`), whatever was
  answered until then is older, and with one worker nobody else answers before it inserts.

Then each step maps to one of the promise: an insertion of a message is `Arrive`; an
action inserted by a run or by a person is `Decide`; a failure, a retry, a recovery and
a dismissal are `Return`, `Park` and `Dismiss`; a claim or a run that gives way to
newer messages is `SetAside`; a request that Instagram took is `Answer`; all others stutter
(`StepSimulates`, on `QueueSimulates`, `EnqueueIsArrive` and `SendIsAnswer`).  `Answer`
asks for what the outbox says of a rowid and the queue says of a message: that this message
and no later one of its conversation has been answered.  The copies of a message are the size
of a union of sets, so `SameCopies` and `RankGrows` are facts about finite sets.
The facts about the halves are proved here once more in the form the refinement needs,
since tlapm does not make the theorems of an instantiated module available.  TLC
found no violation of `WholeInv` on two conversations with two messages each before it was proved.

`EveryMessageIsKept` says what the promise is worth in each state, in the terms of
the code by `fateBar` and `copiesBar`: a message was answered at most once and only if it was
decided on, none is "lost" (completed with no action), and one that was set aside has
a later one.  `FatesAreFinal` is its action property: no retry, late failure
or dismissal takes back that a message was decided on or set aside.

*AutoReply.*  `Recorded` says that the outcome that was stored is the policy's
answer about the message, the decision and the pause that were read, all of which
no longer change; with `AllowedIsSafe` and `IgnoredIsSpam`, two lemmas about the
policy, it settles what may be sent and what may be dropped.  `Heeded` is about the gap
between the reads and the request: after the read that looks for a pause no pause is among
what has stood since the claim, and so on for the mode, the sender and a newer message.
A read that lets the answer pass shows that its objection is absent at that moment
(`Objected`), so it has not stood since the claim; nothing that comes up later joins what
stands, and so the request finds `standing` empty, whatever has changed by then.

*Webhook.*  `OneWriter` (the write lock), `DraftIsSound` (a draft extends what is in
the database, has nothing twice, and has every wanted message of the items it has
passed), `ReceiptsHold` (a receipt stands for messages that are stored) and
`AnswersHaveReceipts`.  A rollback is harmless because nothing refers to a draft.

*ReviewDesk.*  `RequestsRefer` (the draft a request holds is of a review that exists,
and once its reply is queued there is an action made from that draft), `WorkRefers`,
`QueuedIsUnreviewed` (a reply that waits to be sent has no review), and the two
properties themselves.  `DecidedIsFinal` follows for each step.

*Backups.*  `RowsAreMade` and `HandsAreSound` (a copy being made has its file, which is
nobody else's), `StampsAreNew` (a timestamp that was read and not yet inserted is
of one process), `TodoIsRecorded`, `TodoIsOld` (what retention is about to remove has
at least as many newer rows as are kept; a row that is deleted has them too, so those
older than it lose nothing that matters) and `MissingIsOld`: the same holds of a row
whose file or export is gone.  `TopIsFull` is the fact about finite sets behind `RemovedIsOld`: if there are at least
`k` rows, those with fewer than `k` newer ones are at least `k`, and their files are there.

*Lifecycle.*  `Exclusive` (while a database is being restored no service holds the lock), `SafetyHasAll` (from the safety
copy to the end of a restore the copies have all that was written), `NothingLost`,
`Current` (a process that no restore has overtaken is right about the schema it read;
those that lock first are never overtaken), `Ordered` (until one is overtaken every
database and every copy is a sequence of migrations without a gap) and
`StoppedIsTrue`.  Lemmas about sequential schemas (`VersionOfUpto`, `MigrationRaises`)
carry the migrations.

Every safety property of the passing runs is a theorem.  Only model-checked are the
liveness properties (`EverySettled`, `EverySeenTo`, `EveryBodyAnswered`,
`EveryDayIsCovered`, `ComesBack`), since fairness and ENABLED are beyond the prover, and
the two runs that expect a violation.

## 6. Where the code and the documents differ

Two are runs that expect a violation:

| Run | What happens |
| --- | --- |
| `ReviewDeskDoubleSend` | Two requests read the pending draft (`web.py:250`); the second is told it is no longer pending, but its reply is queued. |
| `CatalogCrowdedOut` | The snapshot takes the 20 oldest scheduled events (`catalog.py:136`), past ones included, and nothing ever completes an event: after 20 of the past, an event to come is shown to no conversation, although catalog data is "available to every conversation" (`ARCHITECTURE.md:128`). |

The others were met while modelling and are not runs of their own:

* Two workers; the first one's lease, as long as the provider's timeout, passes
  during the call; both find no action (`executor.py:131`) and insert one each: two
  answers to one message, against `DELIVERY.md:51`.  The deployment has one worker;
  `OneBotAnswer` violated under the instance of `JobQueueTwoWorkers` shows it.
* An export fails again, the next day's export works, and retention
  (`operations.py:215`) removes the copy that still waits for its export, which
  `DEPLOYMENT.md:327` says is kept.
* A pause that is committed between the permission check (`delivery.py:198`) and
  the request (`delivery.py:239`) does not stop the message; ADR-0010 asks for "an
  unpaused conversation".  The same holds of a change of the mode (`delivery.py:200`) and
  of a new message of the customer (`delivery.py:220`).  Nothing closes the gap between a read and an HTTP request entirely.
* With two workers, one that outlives its lease completes a job that recovery has
  put into the dead-letter state (`executor.py:274`), which only operators are said
  to leave.  With one worker the same happens after `recover-stale` by hand: a run
  that fails late brings back a job that was dismissed meanwhile (`queue.py:137`).
* While every export fails, `create_backup` raises (`operations.py:206`) before
  retention runs, so the copies accumulate beyond "set diàries i tres mensuals".
* The worker checks the schema and then waits for the lock (`cli.py:172`, `cli.py:263`).
  If it waits for a restore that replaces the database with an older one and dies
  before its migrations, the worker runs on the outdated schema, which
  `ARCHITECTURE.md:130` says it refuses.
* `migrate` takes no lock.  If a restore replaces the database while it is between
  two migrations, the next one runs on the older schema and the one in between is
  never applied, because only the highest number is compared (`db.py:67`).
* What a command writes between the safety copy and the replacement
  (`operations.py:283-287`) is in neither database.  The safety copy's own row in
  `backup_records` is always lost that way.
* A restore needs the live database to be readable and at the current schema, since
  the safety copy is verified so: after a restore that died half way, `migrate`
  comes before the next attempt.

## 7. What is not modelled, and why

* Venue routes (`add_route`, `disable_route`): rows that nothing reads but the page
  that writes them.
* The default mode that worker, maintenance and commands insert at a start if there is none
  (`INSERT OR IGNORE`, `runtime.py:15`): it changes nothing once there is a row, and no
  property is about it.
* The wait of `create_human_reply` for the write lock: its timestamp is read and its
  action inserted in one step, so only a worker's action can be inserted later than
  one with a newer timestamp.
* Prices, conditions, availability and links of the catalog; dates of different time
  zones, which the query compares as texts.  That a catalog item may change between
  the answer and its delivery is listed as a hazard; no document says what should
  happen.
* The last error of a service, and what a migration does to the tables.
* Rendering, login, sessions and CSRF of the dashboard, argument parsing, audit
  records, configuration: no state that the properties are about.
* Texts, word lists, digests, encryption, sizes: abstracted to classes or names.
* The provider's HTTP protocol: every answer `_parse_response` can return is possible.
* `maintenance --once`, which makes a copy even if none is due, and the hour of the
  day before which the loop makes none.
* No module with theorems has recursive definitions.  Where an argument needs induction
  over numbers (the version of a migrated schema, the newest rows of a table), the
  proofs take a least counterexample with `WFMin` of the library.
