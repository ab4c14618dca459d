----------------------------- MODULE Delivery -----------------------------
(***************************************************************************)
(* rrpp_bridge/delivery.py: the durable outbox of Instagram messages.      *)
(*                                                                         *)
(* A row of the table "deliveries" is inserted by the job executor (a bot  *)
(* answer) or by the dashboard (a human reply).  Worker processes claim    *)
(* the oldest pending row, check whether it may still be sent, post it to  *)
(* Instagram outside any transaction and record what came of it.  Workers  *)
(* crash and restart, leases expire while the owner still runs, operators  *)
(* pause, resume and change the mode at any time.                          *)
(*                                                                         *)
(* Every action is one SQLite transaction, one read outside a transaction, *)
(* or the HTTP request.  A delivery is named by its rowid; each has its    *)
(* own action (deliveries.action_id is UNIQUE), so the columns actions.state *)
(* and action_reviews are indexed by the delivery too.                     *)
(***************************************************************************)
EXTENDS Naturals

CONSTANTS
  Workers,                \* worker processes (systemd unit, container)
  Conversations,          \* one per channel, receiving account and customer
  SendableConversations,  \* those whose account has a configured sender
  CanaryConversations,    \* those whose customer is in RRPP_CANARY_SENDERS
  Modes,                  \* the modes the operator uses, of config.VALID_MODES
  MaxDeliveries,          \* bound: rows ever inserted in deliveries
  MaxEvents,              \* bound: inbound messages per conversation
  MaxCrashes              \* bound: crashes of worker processes

ASSUME DeliveryConstants ==
  /\ SendableConversations \subseteq Conversations
  /\ CanaryConversations \subseteq Conversations
  /\ Modes \subseteq {"shadow", "dry-run", "canary", "live"} /\ Modes # {}
  /\ MaxDeliveries \in Nat
  /\ MaxEvents \in Nat
  /\ MaxCrashes \in Nat
  /\ "none" \notin Conversations

VARIABLES
  row,          \* immutable columns of deliveries: conversation, author, event
  status,       \* deliveries.status, "none" for a row not yet inserted
  attempts,     \* deliveries.attempts
  leaseOver,    \* lease_expires_at has passed
  attemptLog,   \* the table delivery_attempts
  actionState,  \* actions.state of the action of the delivery
  review,       \* action_reviews of that action
  lastEvent,    \* rowid of the newest inbound event of a conversation
  pause,        \* bot_paused and pause_reason of a conversation
  convStatus,   \* conversations.status
  mode,         \* runtime_settings.execution_mode
  pc,           \* where each worker is in run_once
  held,         \* the row each worker read back after its claim
  heldAttempt,  \* "attempts" in that row
  accepted,     \* whether Instagram took the request the worker waits for
  requests,     \* ghost: requests posted for a delivery
  delivered,    \* ghost: copies of a delivery the customer received
  crashes       \* crashes so far

outboxVars == <<row, status, attempts, leaseOver, attemptLog, actionState, review>>
conversationVars == <<lastEvent, pause, convStatus>>
workerVars == <<pc, held, heldAttempt, accepted>>
wireVars == <<requests, delivered>>
vars == <<outboxVars, conversationVars, mode, workerVars, wireVars, crashes>>

Delivery == 1..MaxDeliveries
NoDelivery == 0
Author == {"bot", "human"}
Status == {"none", "pending", "sending", "sent", "suppressed", "failed", "unknown"}
Settled == {"sent", "suppressed", "failed", "unknown"}
NoReview == [kind |-> "none", status |-> "none"]
PendingReview(kind) == [kind |-> kind, status |-> "pending"]
NoRow == [conversation |-> "none", author |-> "none", event |-> 0]

-----------------------------------------------------------------------------

Init ==
  /\ row = [d \in Delivery |-> NoRow]
  /\ status = [d \in Delivery |-> "none"]
  /\ attempts = [d \in Delivery |-> 0]
  /\ leaseOver = [d \in Delivery |-> FALSE]
  /\ attemptLog = {}
  /\ actionState = [d \in Delivery |-> "none"]
  /\ review = [d \in Delivery |-> NoReview]
  /\ lastEvent = [c \in Conversations |-> 0]
  /\ pause = [c \in Conversations |-> "none"]
  /\ convStatus = [c \in Conversations |-> "open"]
  /\ mode \in Modes
  /\ pc = [w \in Workers |-> "idle"]
  /\ held = [w \in Workers |-> NoDelivery]
  /\ heldAttempt = [w \in Workers |-> 0]
  /\ accepted = [w \in Workers |-> FALSE]
  /\ requests = [d \in Delivery |-> 0]
  /\ delivered = [d \in Delivery |-> 0]
  /\ crashes = 0

-----------------------------------------------------------------------------
(* The outbox as seen by a transaction.                                    *)

(* The rows recover_stale selects.                                         *)
Stale == {d \in Delivery : status[d] = "sending" /\ leaseOver[d]}

(* Mutant: a delivery whose outcome is unknown is tried again.             *)
PendingOrUnknown == {d \in Delivery : status[d] \in {"pending", "unknown"}}

Pending == {d \in Delivery : status[d] = "pending"}

OldestPending(d) == d \in Pending /\ \A e \in Pending : d <= e

(* Mutant: delivery_attempts has no UNIQUE constraint.                     *)
AttemptNeverLogged(d, n) == FALSE

(* UNIQUE(delivery_id, attempt): inserting a second row fails.             *)
AttemptLogged(d, n) == \E a \in attemptLog : a.delivery = d /\ a.attempt = n

Attempt(d, n, outcome) == [delivery |-> d, attempt |-> n, outcome |-> outcome]

PendingReviews(c) ==
  {d \in Delivery : row[d].conversation = c /\ review[d].status = "pending"}

ConversationsOf(D) == {row[d].conversation : d \in D}

(* _ensure_escalation for the deliveries D.                                *)
EnsureEscalation(D) ==
  /\ review' = [d \in Delivery |->
       IF d \in D /\ review[d] = NoReview THEN PendingReview("escalation") ELSE review[d]]
  /\ pause' = [c \in Conversations |->
       IF c \in ConversationsOf(D) THEN "reconciliation" ELSE pause[c]]
  /\ convStatus' = [c \in Conversations |->
       IF c \in ConversationsOf(D) THEN "pending_review" ELSE convStatus[c]]

Insert(d, c, author, event) ==
  /\ row' = [row EXCEPT ![d] = [conversation |-> c, author |-> author, event |-> event]]
  /\ status' = [status EXCEPT ![d] = "pending"]
  /\ actionState' = [actionState EXCEPT ![d] = "queued_delivery"]

FreeRowid(d) == status[d] = "none" /\ \A e \in Delivery : status[e] = "none" => d <= e

GoTo(w, label) == pc' = [pc EXCEPT ![w] = label]

-----------------------------------------------------------------------------
(* The worker: Executor.run_once, DeliveryExecutor.run_once.               *)

RecoverStale(w) ==
  /\ pc[w] = "idle"
  /\ GoTo(w, "claim")
  /\ status' = [d \in Delivery |-> IF d \in Stale THEN "unknown" ELSE status[d]]
  /\ leaseOver' = [d \in Delivery |-> leaseOver[d] /\ d \notin Stale]
  /\ attemptLog' = attemptLog \cup
       {Attempt(d, attempts[d], "unknown") :
          d \in {s \in Stale : ~AttemptLogged(s, attempts[s])}}
  /\ EnsureEscalation(Stale)
  /\ UNCHANGED <<row, attempts, actionState, lastEvent, mode,
                 held, heldAttempt, accepted, wireVars, crashes>>

ClaimOldest(w) ==
  /\ pc[w] = "claim"
  /\ \E d \in Delivery :
       /\ OldestPending(d)
       /\ status' = [status EXCEPT ![d] = "sending"]
       /\ attempts' = [attempts EXCEPT ![d] = @ + 1]
       /\ leaseOver' = [leaseOver EXCEPT ![d] = FALSE]
       /\ held' = [held EXCEPT ![w] = d]
       /\ heldAttempt' = [heldAttempt EXCEPT ![w] = attempts[d] + 1]
  /\ GoTo(w, "context")
  /\ UNCHANGED <<row, attemptLog, actionState, review, conversationVars, mode,
                 accepted, wireVars, crashes>>

(* With no delivery to send the worker turns to the job queue.             *)
ClaimNothing(w) ==
  /\ pc[w] = "claim"
  /\ Pending = {}
  /\ GoTo(w, "jobs")
  /\ UNCHANGED <<outboxVars, conversationVars, mode, held, heldAttempt, accepted,
                 wireVars, crashes>>

(* Mutant: the pause of the conversation is not checked.                   *)
ReadContextIgnoringPause(w) ==
  /\ pc[w] = "context"
  /\ GoTo(w, "mode")
  /\ UNCHANGED <<outboxVars, conversationVars, mode, held, heldAttempt, accepted,
                 wireVars, crashes>>

(* _permission_reason reads the conversation, the mode and the newest event *)
(* in three separate statements: anything may happen between them.         *)
ReadContext(w) ==
  /\ pc[w] = "context"
  /\ LET r == row[held[w]] IN
       IF r.author = "bot" /\ pause[r.conversation] # "none"
         THEN GoTo(w, "suppress")
         ELSE GoTo(w, "mode")
  /\ UNCHANGED <<outboxVars, conversationVars, mode, held, heldAttempt, accepted,
                 wireVars, crashes>>

ModeAllows(c) ==
  /\ \/ mode = "live"
     \/ mode = "canary" /\ c \in CanaryConversations
  /\ c \in SendableConversations

ReadMode(w) ==
  /\ pc[w] = "mode"
  /\ LET r == row[held[w]] IN
       IF ~ModeAllows(r.conversation) THEN GoTo(w, "suppress")
       ELSE IF r.author = "bot" THEN GoTo(w, "freshness")
       ELSE GoTo(w, "send")
  /\ UNCHANGED <<outboxVars, conversationVars, mode, held, heldAttempt, accepted,
                 wireVars, crashes>>

ReadFreshness(w) ==
  /\ pc[w] = "freshness"
  /\ LET r == row[held[w]] IN
       IF lastEvent[r.conversation] > r.event
         THEN GoTo(w, "suppress")
         ELSE GoTo(w, "send")
  /\ UNCHANGED <<outboxVars, conversationVars, mode, held, heldAttempt, accepted,
                 wireVars, crashes>>

(* Mutant: the worker goes on with the row it held.                        *)
ReturnHolding(w) ==
  /\ pc' = [pc EXCEPT ![w] = "idle"]
  /\ UNCHANGED <<held, heldAttempt, accepted>>

(* run_once returns: the worker has nothing in hand.                       *)
Return(w) ==
  /\ pc' = [pc EXCEPT ![w] = "idle"]
  /\ held' = [held EXCEPT ![w] = NoDelivery]
  /\ heldAttempt' = [heldAttempt EXCEPT ![w] = 0]
  /\ accepted' = [accepted EXCEPT ![w] = FALSE]

(* The process is gone: what it held is in the table only.                 *)
Die(w) ==
  /\ pc' = [pc EXCEPT ![w] = "down"]
  /\ held' = [held EXCEPT ![w] = NoDelivery]
  /\ heldAttempt' = [heldAttempt EXCEPT ![w] = 0]
  /\ accepted' = [accepted EXCEPT ![w] = FALSE]
  /\ UNCHANGED <<outboxVars, conversationVars, mode, wireVars>>

Release(d, s) ==
  /\ status' = [status EXCEPT ![d] = s]
  /\ leaseOver' = [leaseOver EXCEPT ![d] = FALSE]

(* _suppress: a bot answer that may not leave becomes a draft to review.   *)
Suppress(w) ==
  /\ pc[w] = "suppress"
  /\ LET d == held[w]
         c == row[d].conversation
     IN /\ Release(d, "suppressed")
        /\ actionState' = [actionState EXCEPT ![d] = "suppressed"]
        /\ IF row[d].author = "bot"
             THEN /\ review' = [review EXCEPT ![d] =
                       IF @ = NoReview THEN PendingReview("draft") ELSE @]
                  /\ convStatus' = [convStatus EXCEPT ![c] = "pending_review"]
             ELSE UNCHANGED <<review, convStatus>>
  /\ Return(w)
  /\ UNCHANGED <<row, attempts, attemptLog, lastEvent, pause, mode, wireVars, crashes>>

(* The POST of send_text: Instagram takes the message or does not.         *)
Send(w) ==
  /\ pc[w] = "send"
  /\ GoTo(w, "waiting")
  /\ \E ok \in BOOLEAN :
       /\ accepted' = [accepted EXCEPT ![w] = ok]
       /\ requests' = [requests EXCEPT ![held[w]] = @ + 1]
       /\ delivered' = [delivered EXCEPT ![held[w]] = IF ok THEN @ + 1 ELSE @]
  /\ UNCHANGED <<outboxVars, conversationVars, mode, held, heldAttempt, crashes>>

(* The transaction that records the outcome of a request.  When the lease  *)
(* was recovered meanwhile the attempt is logged already, the insert       *)
(* fails, the transaction rolls back and the exception ends the worker.    *)
LogConflict(w) ==
  /\ AttemptLogged(held[w], heldAttempt[w])
  /\ Die(w)
  /\ UNCHANGED crashes

LogAttempt(w, outcome) ==
  /\ ~AttemptLogged(held[w], heldAttempt[w])
  /\ attemptLog' = attemptLog \cup {Attempt(held[w], heldAttempt[w], outcome)}

RecordSent(w) ==
  LET d == held[w]
      c == row[d].conversation
  IN /\ LogAttempt(w, "sent")
     /\ Release(d, "sent")
     /\ actionState' = [actionState EXCEPT ![d] = "sent"]
     /\ convStatus' = [convStatus EXCEPT ![c] = "resolved"]
     /\ Return(w)
     /\ UNCHANGED <<row, attempts, review, lastEvent, pause, mode, wireVars, crashes>>

(* _finish_error *)
RecordError(w, outcome) ==
  LET d == held[w] IN
     /\ LogAttempt(w, outcome)
     /\ Release(d, outcome)
     /\ actionState' = [actionState EXCEPT ![d] = "delivery_failed"]
     /\ EnsureEscalation({d})
     /\ Return(w)
     /\ UNCHANGED <<row, attempts, lastEvent, mode, wireVars, crashes>>

(* A message id in the response, a 4xx answer, and everything else: a 5xx  *)
(* answer, a timeout, a connection error, a response that is not valid.    *)
FinishSent(w) ==
  pc[w] = "waiting" /\ accepted[w] /\ (RecordSent(w) \/ LogConflict(w))

FinishRejected(w) ==
  pc[w] = "waiting" /\ ~accepted[w] /\ (RecordError(w, "failed") \/ LogConflict(w))

(* Mutant: a timeout is taken for a rejection.                             *)
FinishAmbiguousAsFailed(w) ==
  pc[w] = "waiting" /\ (RecordError(w, "failed") \/ LogConflict(w))

FinishAmbiguous(w) ==
  pc[w] = "waiting" /\ (RecordError(w, "unknown") \/ LogConflict(w))

(* The job executor queues the answer of the bot to an event of c.  Its    *)
(* reads of mode, pause and newer events precede the transaction, so they  *)
(* constrain nothing here; has_sender is a constant of the process.        *)
EnqueueBot(w) ==
  /\ pc[w] = "jobs"
  /\ \E d \in Delivery, c \in SendableConversations :
       /\ FreeRowid(d)
       /\ \E e \in 1..lastEvent[c] : Insert(d, c, "bot", e)
  /\ GoTo(w, "idle")
  /\ UNCHANGED <<attempts, leaseOver, attemptLog, review, conversationVars, mode,
                 held, heldAttempt, accepted, wireVars, crashes>>

(* Or it opens a review, whose conversation then waits for a person.       *)
AskOperator(w) ==
  /\ pc[w] = "jobs"
  /\ GoTo(w, "idle")
  /\ \E c \in Conversations :
       /\ lastEvent[c] > 0
       /\ convStatus' = [convStatus EXCEPT ![c] = "pending_review"]
  /\ UNCHANGED <<outboxVars, lastEvent, pause, mode, held, heldAttempt, accepted,
                 wireVars, crashes>>

EnqueueNothing(w) ==
  /\ pc[w] = "jobs"
  /\ GoTo(w, "idle")
  /\ UNCHANGED <<outboxVars, conversationVars, mode, held, heldAttempt, accepted,
                 wireVars, crashes>>

(* The process dies, or SIGTERM raises GracefulShutdown inside run_once.   *)
Crash(w) ==
  /\ pc[w] # "down"
  /\ crashes < MaxCrashes
  /\ crashes' = crashes + 1
  /\ Die(w)

Restart(w) ==
  /\ pc[w] = "down"
  /\ GoTo(w, "idle")
  /\ UNCHANGED <<outboxVars, conversationVars, mode, held, heldAttempt, accepted,
                 wireVars, crashes>>

WorkerStep(w) ==
  \/ RecoverStale(w)
  \/ ClaimOldest(w)
  \/ ClaimNothing(w)
  \/ ReadContext(w)
  \/ ReadMode(w)
  \/ ReadFreshness(w)
  \/ Suppress(w)
  \/ Send(w)
  \/ FinishSent(w)
  \/ FinishRejected(w)
  \/ FinishAmbiguous(w)
  \/ EnqueueBot(w)
  \/ AskOperator(w)
  \/ EnqueueNothing(w)
  \/ Restart(w)

-----------------------------------------------------------------------------
(* Time, customers and operators.                                          *)

LeaseExpires(d) ==
  /\ status[d] = "sending"
  /\ ~leaseOver[d]
  /\ leaseOver' = [leaseOver EXCEPT ![d] = TRUE]
  /\ UNCHANGED <<row, status, attempts, attemptLog, actionState, review,
                 conversationVars, mode, workerVars, wireVars, crashes>>

(* enqueue_in_transaction with ensure_conversation: a new message.         *)
Inbound(c) ==
  /\ lastEvent[c] < MaxEvents
  /\ lastEvent' = [lastEvent EXCEPT ![c] = @ + 1]
  /\ convStatus' = [convStatus EXCEPT ![c] =
       IF @ # "resolved" THEN @ ELSE IF pause[c] = "none" THEN "open" ELSE "pending_review"]
  /\ UNCHANGED <<outboxVars, pause, mode, workerVars, wireVars, crashes>>

(* create_human_reply: the reply belongs to the newest event of c.         *)
HumanReply(c) ==
  /\ lastEvent[c] > 0
  /\ \E d \in Delivery : FreeRowid(d) /\ Insert(d, c, "human", lastEvent[c])
  /\ convStatus' = [convStatus EXCEPT ![c] = "pending_review"]
  /\ UNCHANGED <<attempts, leaseOver, attemptLog, review, lastEvent, pause, mode,
                 workerVars, wireVars, crashes>>

(* set_bot_paused                                                          *)
SetBotPaused(c, paused) ==
  /\ pause' = [pause EXCEPT ![c] = IF paused THEN "operator" ELSE "none"]
  /\ convStatus' = [convStatus EXCEPT ![c] = IF paused THEN "pending_review" ELSE "open"]
  /\ UNCHANGED <<outboxVars, lastEvent, mode, workerVars, wireVars, crashes>>

(* set_conversation_status                                                 *)
SetConversationStatus(c, s) ==
  /\ convStatus' = [convStatus EXCEPT ![c] = s]
  /\ UNCHANGED <<outboxVars, lastEvent, pause, mode, workerVars, wireVars, crashes>>

(* set_mode                                                                *)
SetMode(m) ==
  /\ mode' = m
  /\ UNCHANGED <<outboxVars, conversationVars, workerVars, wireVars, crashes>>

(* transition_review: a draft is prepared or rejected, an escalation resolved. *)
(* A review of an action without a delivery may keep the conversation waiting.  *)
TransitionReview(d, target) ==
  /\ review[d].status = "pending"
  /\ (review[d].kind = "escalation") <=> (target = "resolved")
  /\ review' = [review EXCEPT ![d].status = target]
  /\ actionState' = [actionState EXCEPT ![d] = target]
  /\ LET c == row[d].conversation IN
       \E s \in {"open", "pending_review"} :
         /\ s = "open" => PendingReviews(c) \ {d} = {}
         /\ convStatus' = [convStatus EXCEPT ![c] = s]
  /\ UNCHANGED <<row, status, attempts, leaseOver, attemptLog, lastEvent, pause, mode,
                 workerVars, wireVars, crashes>>

Operator ==
  \/ \E c \in Conversations :
       \/ HumanReply(c)
       \/ \E paused \in BOOLEAN : SetBotPaused(c, paused)
       \/ \E s \in {"open", "resolved"} : SetConversationStatus(c, s)
  \/ \E m \in Modes : SetMode(m)
  \/ \E d \in Delivery, target \in {"prepared", "rejected", "resolved"} :
       TransitionReview(d, target)

-----------------------------------------------------------------------------

Next ==
  \/ \E w \in Workers : WorkerStep(w) \/ Crash(w)
  \/ \E d \in Delivery : LeaseExpires(d)
  \/ \E c \in Conversations : Inbound(c)
  \/ Operator

Spec == Init /\ [][Next]_vars

-----------------------------------------------------------------------------
(* Properties                                                              *)

Row == [conversation : Conversations, author : Author, event : Nat \ {0}]
Review == [kind : {"draft", "escalation"},
           status : {"pending", "prepared", "rejected", "resolved"}]
ActionState == {"none", "queued_delivery", "sent", "suppressed", "delivery_failed",
                "prepared", "rejected", "resolved"}
AtRest == {"idle", "claim", "jobs", "down"}
Busy == {"context", "mode", "freshness", "suppress", "send", "waiting"}

OutboxTypes ==
  /\ row \in [Delivery -> Row \cup {NoRow}]
  /\ status \in [Delivery -> Status]
  /\ attempts \in [Delivery -> Nat]
  /\ leaseOver \in [Delivery -> BOOLEAN]
  /\ attemptLog \subseteq [delivery : Delivery, attempt : Nat, outcome : Settled]
  /\ actionState \in [Delivery -> ActionState]
  /\ review \in [Delivery -> Review \cup {NoReview}]
  /\ \A d \in Delivery : status[d] # "none" <=> row[d] \in Row

ConversationTypes ==
  /\ lastEvent \in [Conversations -> Nat]
  /\ pause \in [Conversations -> {"none", "operator", "reconciliation"}]
  /\ convStatus \in [Conversations -> {"open", "pending_review", "resolved"}]
  /\ mode \in Modes

WorkerTypes ==
  /\ pc \in [Workers -> AtRest \cup Busy]
  /\ held \in [Workers -> Delivery \cup {NoDelivery}]
  /\ heldAttempt \in [Workers -> Nat]
  /\ accepted \in [Workers -> BOOLEAN]
  /\ \A w \in Workers : held[w] # NoDelivery <=> pc[w] \in Busy

GhostTypes ==
  /\ requests \in [Delivery -> Nat]
  /\ delivered \in [Delivery -> Nat]
  /\ crashes \in Nat

(* Type invariant: the columns hold what the schema of migration 009       *)
(* allows, a row exists once its status does, and a worker holds a row     *)
(* exactly in the middle of run_once.                                      *)
TypeOK == OutboxTypes /\ ConversationTypes /\ WorkerTypes /\ GhostTypes

(* "Ambiguous transport outcomes are never retried blindly": whatever      *)
(* crashes, leases and late answers do, a delivery is posted to Instagram  *)
(* at most once and the customer gets at most one copy of it.              *)
AtMostOnce ==
  \A d \in Delivery : requests[d] <= 1 /\ delivered[d] <= 1

(* The status an operator reads never contradicts what happened: a sent    *)
(* delivery reached the customer, and a delivery that is pending, failed   *)
(* or suppressed did not, so that only "unknown" needs reconciliation.     *)
StatusIsTrue ==
  \A d \in Delivery :
    /\ status[d] = "sent" => delivered[d] = 1
    /\ status[d] \in {"none", "pending", "suppressed", "failed"} => delivered[d] = 0

(* delivery_attempts tells the same story as deliveries.status: a result   *)
(* in the log is the result in the row, also when two workers report on    *)
(* the same attempt.  Only a recovered delivery can be found suppressed.   *)
LogAgrees ==
  /\ \A a, b \in attemptLog : a.delivery = b.delivery => a = b
  /\ \A a \in attemptLog :
       \/ status[a.delivery] = a.outcome
       \/ status[a.delivery] = "suppressed" /\ a.outcome = "unknown"
  /\ \A d \in Delivery :
       status[d] \in {"sent", "failed", "unknown"} => \E a \in attemptLog : a.delivery = d

(* Nothing that did not reach the customer for certain disappears: a       *)
(* failed or unknown delivery and a suppressed bot answer have a review in *)
(* the queue of the operators; one that was sent has none, so that nobody  *)
(* is asked to send it again.                                              *)
UnsentIsReviewed ==
  \A d \in Delivery :
    /\ status[d] \in {"failed", "unknown"} => review[d] # NoReview
    /\ status[d] = "suppressed" /\ row[d].author = "bot" => review[d] # NoReview
    /\ status[d] = "sent" => review[d] = NoReview /\ actionState[d] = "sent"

(* An outcome is final: no retry, recovery, late answer or operator moves  *)
(* a settled delivery again; the only exception is the worker that had not *)
(* posted it yet when its lease was recovered, and suppresses it.          *)
OutcomeIsFinal ==
  [][\A d \in Delivery :
       status[d] \in Settled =>
         \/ status'[d] = status[d]
         \/ status[d] = "unknown" /\ status'[d] = "suppressed" /\ delivered[d] = 0]_vars

(* "Ambiguous results pause the bot for reconciliation": from the moment a *)
(* delivery of a conversation failed or became unknown no bot message is   *)
(* posted to that conversation until an operator resumes the bot.          *)
NoBotPostWhileReconciling ==
  [][\A d \in Delivery :
       requests'[d] > requests[d] /\ row[d].author = "bot" =>
         pause[row[d].conversation] # "reconciliation"]_vars

-----------------------------------------------------------------------------
(* The outbox implements OutboundIntent.                                   *)

outcomeBar == [d \in Delivery |->
  CASE status[d] = "none" -> "none"
    [] status[d] \in {"pending", "sending"} -> "open"
    [] status[d] = "sent" -> "delivered"
    [] status[d] = "failed" -> "rejected"
    [] status[d] = "suppressed" -> "withheld"
    [] status[d] = "unknown" -> "uncertain"]

Intents == INSTANCE OutboundIntent
             WITH Intent <- Delivery, outcome <- outcomeBar, copies <- delivered

(* The workers, their leases and crashes keep the promise of               *)
(* OutboundIntent about every delivery.                                    *)
ImplementsIntents == Intents!Spec
=============================================================================
