-------------------------- MODULE DeliveryProofs --------------------------
(***************************************************************************)
(* Proofs about Delivery for any number of workers, conversations,         *)
(* deliveries and crashes.                                                 *)
(***************************************************************************)
EXTENDS Delivery, TLAPS

-----------------------------------------------------------------------------
(* The inductive invariant.                                                *)

Holding(w) == held[w] # NoDelivery

(* A row is in the hands of one worker only, which read it back with the   *)
(* attempt it has now; it is being sent or was given up meanwhile.         *)
OneHolder ==
  \A v, w \in Workers : Holding(v) /\ held[v] = held[w] => v = w

HeldIsCurrent ==
  \A w \in Workers : Holding(w) =>
    /\ status[held[w]] \in {"sending", "unknown"}
    /\ heldAttempt[w] = attempts[held[w]]

(* What was posted is known from where the holder is, and from the status  *)
(* once the row was settled.                                               *)
HeldRequests ==
  \A w \in Workers : Holding(w) =>
    IF pc[w] = "waiting"
      THEN /\ requests[held[w]] = 1
           /\ delivered[held[w]] = IF accepted[w] THEN 1 ELSE 0
      ELSE requests[held[w]] = 0

RequestsBounded ==
  \A d \in Delivery :
    /\ requests[d] <= 1
    /\ delivered[d] <= requests[d]
    /\ status[d] \in {"none", "pending", "suppressed"} => requests[d] = 0

(* A row of delivery_attempts belongs to the present attempt and records   *)
(* the outcome the delivery has; a delivery with an outcome has such a row. *)
LogFollowsStatus ==
  /\ \A a \in attemptLog :
       /\ a.attempt = attempts[a.delivery]
       /\ \/ status[a.delivery] = a.outcome
          \/ status[a.delivery] = "suppressed" /\ a.outcome = "unknown"
       /\ a.outcome \in {"sent", "failed", "unknown"}
  /\ \A d \in Delivery :
       status[d] \in {"sent", "failed", "unknown"} => AttemptLogged(d, attempts[d])
  /\ \A a, b \in attemptLog : a.delivery = b.delivery => a = b

Safe == /\ OneHolder
        /\ HeldIsCurrent
        /\ HeldRequests
        /\ RequestsBounded
        /\ LogFollowsStatus
        /\ StatusIsTrue

IInv == TypeOK /\ Safe

-----------------------------------------------------------------------------
(* Typing                                                                  *)

LEMMA Distinct == NoDelivery \notin Delivery /\ NoRow \notin Row /\ NoReview \notin Review
BY DeliveryConstants DEF Delivery, NoDelivery, NoReview, NoRow, Review, Row, Author

LEMMA PendingReviewType == \A k \in {"draft", "escalation"} : PendingReview(k) \in Review
BY DEF PendingReview, Review

LEMMA InitTypeOK == Init => TypeOK
<1> SUFFICES ASSUME Init PROVE TypeOK
  OBVIOUS
<1>1. OutboxTypes
  BY Distinct DEF Init, OutboxTypes, ActionState, Status
<1>2. ConversationTypes
  BY DEF Init, ConversationTypes
<1>3. WorkerTypes
  BY DEF Init, WorkerTypes, NoDelivery, AtRest, Busy
<1>4. GhostTypes
  BY DEF Init, GhostTypes
<1> QED BY <1>1, <1>2, <1>3, <1>4 DEF TypeOK

(* The transitions that end a run_once change one worker and one row.      *)
LEMMA ReturnTypes ==
  ASSUME WorkerTypes, NEW w \in Workers, Return(w)
  PROVE  WorkerTypes'
BY DEF WorkerTypes, Return, NoDelivery, AtRest, Busy

LEMMA DieTypes ==
  ASSUME TypeOK, NEW w \in Workers, Die(w), crashes' \in Nat
  PROVE  TypeOK'
<1> USE DEF TypeOK, Die, outboxVars, conversationVars, wireVars
<1>1. OutboxTypes'
  BY DEF OutboxTypes
<1>2. ConversationTypes'
  BY DEF ConversationTypes
<1>3. WorkerTypes'
  BY DEF WorkerTypes, NoDelivery, AtRest, Busy
<1>4. GhostTypes'
  BY DEF GhostTypes
<1> QED BY <1>1, <1>2, <1>3, <1>4

LEMMA ReleaseTypes ==
  ASSUME OutboxTypes, NEW d \in Delivery, NEW o \in Settled, Release(d, o), row[d] \in Row
  PROVE  /\ status' \in [Delivery -> Status]
         /\ leaseOver' \in [Delivery -> BOOLEAN]
         /\ \A e \in Delivery : status'[e] # "none" <=> row[e] \in Row
BY DEF OutboxTypes, Release, Status, Settled

LEMMA EscalationTypes ==
  ASSUME OutboxTypes, ConversationTypes, NEW D, EnsureEscalation(D)
  PROVE  /\ review' \in [Delivery -> Review \cup {NoReview}]
         /\ pause' \in [Conversations -> {"none", "operator", "reconciliation"}]
         /\ convStatus' \in [Conversations -> {"open", "pending_review", "resolved"}]
BY PendingReviewType DEF OutboxTypes, ConversationTypes, EnsureEscalation

LEMMA HeldTypes ==
  ASSUME TypeOK, HeldIsCurrent, NEW w \in Workers, pc[w] \in Busy
  PROVE  Holding(w) /\ held[w] \in Delivery /\ row[held[w]] \in Row
BY DEF TypeOK, OutboxTypes, WorkerTypes, HeldIsCurrent, Holding

(* A transaction that records the outcome o of the row w holds.            *)
LEMMA RecordTypes ==
  ASSUME TypeOK, HeldIsCurrent, NEW w \in Workers, pc[w] = "waiting",
         NEW o \in {"sent", "failed", "unknown"},
         LogAttempt(w, o), Release(held[w], o), Return(w),
         actionState' \in [Delivery -> ActionState],
         review' \in [Delivery -> Review \cup {NoReview}],
         pause' \in [Conversations -> {"none", "operator", "reconciliation"}],
         convStatus' \in [Conversations -> {"open", "pending_review", "resolved"}],
         UNCHANGED <<row, attempts, lastEvent, mode, wireVars, crashes>>
  PROVE  TypeOK'
<1> USE DEF TypeOK
<1>1. held[w] \in Delivery /\ row[held[w]] \in Row
  BY HeldTypes DEF Busy
<1>2. attemptLog' \subseteq [delivery : Delivery, attempt : Nat, outcome : Settled]
  BY <1>1 DEF OutboxTypes, WorkerTypes, LogAttempt, Attempt, Settled
<1>3. OutboxTypes'
  BY <1>1, <1>2, ReleaseTypes DEF OutboxTypes, Settled
<1>4. ConversationTypes' /\ GhostTypes'
  BY DEF ConversationTypes, GhostTypes, wireVars
<1> QED BY <1>3, <1>4, ReturnTypes

LEMMA RecordSentTypes ==
  ASSUME TypeOK, HeldIsCurrent, NEW w \in Workers, pc[w] = "waiting", RecordSent(w)
  PROVE  TypeOK'
<1>1. /\ actionState' \in [Delivery -> ActionState]
      /\ review' \in [Delivery -> Review \cup {NoReview}]
  BY DEF TypeOK, OutboxTypes, RecordSent, ActionState
<1>2. /\ pause' \in [Conversations -> {"none", "operator", "reconciliation"}]
      /\ convStatus' \in [Conversations -> {"open", "pending_review", "resolved"}]
  BY DEF TypeOK, ConversationTypes, RecordSent
<1> QED BY <1>1, <1>2, RecordTypes DEF RecordSent

LEMMA RecordErrorTypes ==
  ASSUME TypeOK, HeldIsCurrent, NEW w \in Workers, pc[w] = "waiting",
         NEW o \in {"failed", "unknown"}, RecordError(w, o)
  PROVE  TypeOK'
<1>1. actionState' \in [Delivery -> ActionState]
  BY DEF TypeOK, OutboxTypes, RecordError, ActionState
<1>2. /\ review' \in [Delivery -> Review \cup {NoReview}]
      /\ pause' \in [Conversations -> {"none", "operator", "reconciliation"}]
      /\ convStatus' \in [Conversations -> {"open", "pending_review", "resolved"}]
  BY EscalationTypes DEF TypeOK, RecordError
<1> QED BY <1>1, <1>2, RecordTypes DEF RecordError

LEMMA SuppressTypes ==
  ASSUME TypeOK, HeldIsCurrent, NEW w \in Workers, Suppress(w)
  PROVE  TypeOK'
<1> USE DEF TypeOK
<1>1. held[w] \in Delivery /\ row[held[w]] \in Row
  BY HeldTypes DEF Suppress, Busy
<1>2. /\ actionState' \in [Delivery -> ActionState]
      /\ review' \in [Delivery -> Review \cup {NoReview}]
  <2>1. actionState' \in [Delivery -> ActionState]
    BY DEF OutboxTypes, Suppress, ActionState
  <2>2. \/ review' = [review EXCEPT ![held[w]] =
                       IF @ = NoReview THEN PendingReview("draft") ELSE @]
        \/ review' = review
    BY DEF Suppress
  <2>3. review \in [Delivery -> Review \cup {NoReview}]
    BY DEF OutboxTypes
  <2>4. review' \in [Delivery -> Review \cup {NoReview}]
    BY <2>2, <2>3, PendingReviewType
  <2> QED BY <2>1, <2>4
<1>3. OutboxTypes'
  BY <1>1, <1>2, ReleaseTypes DEF OutboxTypes, Suppress, Settled
<1>4. ConversationTypes' /\ GhostTypes'
  BY DEF ConversationTypes, GhostTypes, Suppress, wireVars
<1> QED BY <1>3, <1>4, ReturnTypes DEF Suppress

LEMMA RecoverTypes ==
  ASSUME TypeOK, NEW w \in Workers, RecoverStale(w)
  PROVE  TypeOK'
<1> USE DEF TypeOK
<1>1. attemptLog' \subseteq [delivery : Delivery, attempt : Nat, outcome : Settled]
  BY DEF OutboxTypes, RecoverStale, Stale, Attempt, Settled
<1>2. OutboxTypes' /\ ConversationTypes'
  BY <1>1, EscalationTypes DEF OutboxTypes, ConversationTypes, RecoverStale, Stale, Status
<1>3. WorkerTypes' /\ GhostTypes'
  BY DEF WorkerTypes, GhostTypes, RecoverStale, GoTo, NoDelivery, AtRest, Busy, wireVars
<1> QED BY <1>2, <1>3

LEMMA ClaimTypes ==
  ASSUME TypeOK, NEW w \in Workers, ClaimOldest(w)
  PROVE  TypeOK'
<1> USE DEF TypeOK, ClaimOldest
<1>1. OutboxTypes'
  BY DEF OutboxTypes, OldestPending, Pending, Status
<1>2. WorkerTypes'
  BY Distinct DEF OutboxTypes, WorkerTypes, GoTo, AtRest, Busy
<1>3. ConversationTypes' /\ GhostTypes'
  BY DEF ConversationTypes, GhostTypes, conversationVars, wireVars
<1> QED BY <1>1, <1>2, <1>3

(* A delivery and its queued action are inserted.                          *)
LEMMA InsertTypes ==
  ASSUME OutboxTypes, NEW d \in Delivery, NEW c \in Conversations, NEW author \in Author,
         NEW e \in Nat \ {0}, FreeRowid(d), Insert(d, c, author, e),
         UNCHANGED <<attempts, leaseOver, attemptLog, review>>
  PROVE  OutboxTypes'
<1>1. [conversation |-> c, author |-> author, event |-> e] \in Row
  BY DEF Row
<1>2. row' \in [Delivery -> Row \cup {NoRow}]
  BY <1>1 DEF OutboxTypes, Insert
<1>3. \A x \in Delivery : status'[x] # "none" <=> row'[x] \in Row
  BY <1>1 DEF OutboxTypes, Insert
<1>4. status' \in [Delivery -> Status] /\ actionState' \in [Delivery -> ActionState]
  BY DEF OutboxTypes, Insert, Status, ActionState
<1> QED BY <1>2, <1>3, <1>4 DEF OutboxTypes

LEMMA EnqueueTypes ==
  ASSUME TypeOK, NEW w \in Workers, EnqueueBot(w)
  PROVE  TypeOK'
<1> USE DEF TypeOK, EnqueueBot
<1>1. PICK d \in Delivery, c \in SendableConversations :
        FreeRowid(d) /\ \E e \in 1..lastEvent[c] : Insert(d, c, "bot", e)
  OBVIOUS
<1>2. c \in Conversations /\ \A e \in 1..lastEvent[c] : e \in Nat \ {0}
  BY DeliveryConstants DEF ConversationTypes
<1>3. OutboxTypes'
  BY <1>1, <1>2, InsertTypes DEF Author
<1>4. ConversationTypes' /\ WorkerTypes' /\ GhostTypes'
  BY DEF ConversationTypes, WorkerTypes, GhostTypes, GoTo, AtRest, Busy, NoDelivery,
         conversationVars, wireVars
<1> QED BY <1>3, <1>4

LEMMA HumanReplyTypes ==
  ASSUME TypeOK, NEW c \in Conversations, HumanReply(c)
  PROVE  TypeOK'
<1> USE DEF TypeOK, HumanReply
<1>1. PICK d \in Delivery : FreeRowid(d) /\ Insert(d, c, "human", lastEvent[c])
  OBVIOUS
<1>2. OutboxTypes'
  BY <1>1, InsertTypes DEF ConversationTypes, Author
<1>3. ConversationTypes' /\ WorkerTypes' /\ GhostTypes'
  BY DEF ConversationTypes, WorkerTypes, GhostTypes, workerVars, wireVars
<1> QED BY <1>2, <1>3

LEMMA SendTypes ==
  ASSUME TypeOK, HeldIsCurrent, NEW w \in Workers, Send(w)
  PROVE  TypeOK'
<1> USE DEF TypeOK, Send
<1>1. OutboxTypes' /\ ConversationTypes'
  BY DEF OutboxTypes, ConversationTypes, outboxVars, conversationVars
<1>2. WorkerTypes' /\ GhostTypes'
  BY DEF WorkerTypes, GhostTypes, GoTo, AtRest, Busy, NoDelivery
<1> QED BY <1>1, <1>2

(* The steps of a worker that leave the outbox alone.                      *)
WorkerReads(w) ==
  \/ ClaimNothing(w)
  \/ ReadContext(w)
  \/ ReadMode(w)
  \/ ReadFreshness(w)
  \/ AskOperator(w)
  \/ EnqueueNothing(w)
  \/ Restart(w)

LEMMA WorkerReadsTypes ==
  ASSUME TypeOK, NEW w \in Workers, WorkerReads(w)
  PROVE  TypeOK'
<1> USE DEF TypeOK, WorkerReads, ClaimNothing, ReadContext, ReadMode, ReadFreshness,
            AskOperator, EnqueueNothing, Restart, GoTo
<1>1. WorkerTypes'
  BY DEF WorkerTypes, AtRest, Busy, NoDelivery
<1>2. OutboxTypes' /\ ConversationTypes' /\ GhostTypes'
  BY DEF OutboxTypes, ConversationTypes, GhostTypes, outboxVars, conversationVars, wireVars
<1> QED BY <1>1, <1>2

(* The steps of time, customers and operators that leave the outbox alone  *)
(* but for an expired lease or the state of a review.                      *)
Around ==
  \/ \E d \in Delivery : LeaseExpires(d)
  \/ \E c \in Conversations :
       \/ Inbound(c)
       \/ \E paused \in BOOLEAN : SetBotPaused(c, paused)
       \/ \E s \in {"open", "resolved"} : SetConversationStatus(c, s)
  \/ \E m \in Modes : SetMode(m)
  \/ \E d \in Delivery, target \in {"prepared", "rejected", "resolved"} :
       TransitionReview(d, target)

LEMMA AroundTypes ==
  ASSUME TypeOK, Around
  PROVE  TypeOK'
<1> USE DEF TypeOK
<1>1. ASSUME NEW d \in Delivery, LeaseExpires(d)
      PROVE  TypeOK'
  BY <1>1 DEF LeaseExpires, OutboxTypes, ConversationTypes, WorkerTypes, GhostTypes,
              conversationVars, workerVars, wireVars
<1>2. ASSUME NEW c \in Conversations,
             \/ Inbound(c)
             \/ \E paused \in BOOLEAN : SetBotPaused(c, paused)
             \/ \E s \in {"open", "resolved"} : SetConversationStatus(c, s)
      PROVE  TypeOK'
  <2>1. ConversationTypes'
    BY <1>2 DEF Inbound, SetBotPaused, SetConversationStatus, ConversationTypes
  <2>2. OutboxTypes' /\ WorkerTypes' /\ GhostTypes'
    BY <1>2 DEF Inbound, SetBotPaused, SetConversationStatus, OutboxTypes, WorkerTypes,
                GhostTypes, outboxVars, workerVars, wireVars
  <2> QED BY <2>1, <2>2
<1>3. ASSUME NEW m \in Modes, SetMode(m)
      PROVE  TypeOK'
  BY <1>3 DEF SetMode, OutboxTypes, ConversationTypes, WorkerTypes, GhostTypes,
              outboxVars, conversationVars, workerVars, wireVars
<1>4. ASSUME NEW d \in Delivery, NEW target \in {"prepared", "rejected", "resolved"},
             TransitionReview(d, target)
      PROVE  TypeOK'
  <2>1. review[d] \in Review
    BY <1>4 DEF TransitionReview, OutboxTypes, NoReview
  <2>2. [review[d] EXCEPT !.status = target] \in Review
    BY <2>1 DEF Review
  <2>3. OutboxTypes'
    BY <1>4, <2>2 DEF TransitionReview, OutboxTypes, ActionState
  <2>4. ConversationTypes' /\ WorkerTypes' /\ GhostTypes'
    BY <1>4 DEF TransitionReview, ConversationTypes, WorkerTypes, GhostTypes,
                workerVars, wireVars
  <2> QED BY <2>3, <2>4
<1> QED BY <1>1, <1>2, <1>3, <1>4 DEF Around

-----------------------------------------------------------------------------
(* Safety.  Each lemma takes one kind of step; typing is proved above.     *)

LEMMA InitSafe == Init => Safe
<1> SUFFICES ASSUME Init PROVE Safe
  OBVIOUS
<1>1. OneHolder /\ HeldIsCurrent /\ HeldRequests
  BY DEF Init, OneHolder, HeldIsCurrent, HeldRequests, Holding
<1>2. RequestsBounded /\ LogFollowsStatus /\ StatusIsTrue
  BY DEF Init, RequestsBounded, LogFollowsStatus, StatusIsTrue
<1> QED BY <1>1, <1>2 DEF Safe

(* A step that touches neither the outcome of a delivery nor what a worker *)
(* holds, nor sends.                                                       *)
LEMMA QuietSafe ==
  ASSUME Safe,
         UNCHANGED <<status, attempts, attemptLog, held, heldAttempt, accepted, wireVars>>,
         \A w \in Workers : Holding(w) => (pc'[w] = "waiting" <=> pc[w] = "waiting")
  PROVE  Safe'
<1> USE DEF Safe, wireVars, Holding
<1>1. OneHolder' /\ HeldIsCurrent'
  BY DEF OneHolder, HeldIsCurrent
<1>2. HeldRequests'
  BY DEF HeldRequests
<1>3. RequestsBounded' /\ LogFollowsStatus' /\ StatusIsTrue'
  BY DEF RequestsBounded, LogFollowsStatus, AttemptLogged, StatusIsTrue
<1> QED BY <1>1, <1>2, <1>3

LEMMA WorkerReadsSafe ==
  ASSUME IInv, NEW w \in Workers, WorkerReads(w)
  PROVE  Safe'
<1>1. UNCHANGED <<status, attempts, attemptLog, held, heldAttempt, accepted, wireVars>>
  BY DEF WorkerReads, ClaimNothing, ReadContext, ReadMode, ReadFreshness,
         AskOperator, EnqueueNothing, Restart, outboxVars
<1>2. \A v \in Workers : Holding(v) => (pc'[v] = "waiting" <=> pc[v] = "waiting")
  BY DEF IInv, TypeOK, WorkerTypes, WorkerReads, ClaimNothing, ReadContext, ReadMode,
         ReadFreshness, AskOperator, EnqueueNothing, Restart, GoTo
<1> QED BY <1>1, <1>2, QuietSafe DEF IInv

LEMMA AroundSafe ==
  ASSUME IInv, Around
  PROVE  Safe'
<1>1. /\ UNCHANGED <<status, attempts, attemptLog, held, heldAttempt, accepted, wireVars>>
      /\ UNCHANGED pc
  BY DEF Around, LeaseExpires, Inbound, SetBotPaused, SetConversationStatus, SetMode,
         TransitionReview, outboxVars, workerVars
<1> QED BY <1>1, QuietSafe DEF IInv

(* A worker that lets go of its row without recording anything.            *)
LEMMA DieSafe ==
  ASSUME IInv, NEW w \in Workers, Die(w)
  PROVE  Safe'
<1> USE DEF IInv, Safe, TypeOK, WorkerTypes, Die, Holding, outboxVars, wireVars
<1>1. OneHolder' /\ HeldIsCurrent'
  BY DEF OneHolder, HeldIsCurrent
<1>2. HeldRequests'
  BY DEF HeldRequests
<1>3. RequestsBounded' /\ LogFollowsStatus' /\ StatusIsTrue'
  BY DEF RequestsBounded, LogFollowsStatus, AttemptLogged, StatusIsTrue
<1> QED BY <1>1, <1>2, <1>3

LEMMA InsertSafe ==
  ASSUME IInv, NEW d \in Delivery, status[d] = "none",
         status' = [status EXCEPT ![d] = "pending"],
         UNCHANGED <<attempts, attemptLog, held, heldAttempt, accepted, wireVars>>,
         \A w \in Workers : Holding(w) => (pc'[w] = "waiting" <=> pc[w] = "waiting")
  PROVE  Safe'
<1> USE DEF IInv, Safe, TypeOK, OutboxTypes, WorkerTypes, Holding, wireVars
<1>1. OneHolder' /\ HeldIsCurrent'
  BY DEF OneHolder, HeldIsCurrent
<1>2. HeldRequests'
  BY DEF HeldRequests
<1>3. RequestsBounded' /\ StatusIsTrue'
  BY DEF RequestsBounded, StatusIsTrue
<1>4. LogFollowsStatus'
  BY DEF LogFollowsStatus, AttemptLogged, Settled
<1> QED BY <1>1, <1>2, <1>3, <1>4

LEMMA RecoverSafe ==
  ASSUME IInv, NEW w \in Workers, RecoverStale(w)
  PROVE  Safe'
<1> USE DEF IInv, Safe, TypeOK, OutboxTypes, WorkerTypes, Holding, RecoverStale, GoTo, wireVars
<1>1. OneHolder' /\ HeldIsCurrent'
  BY DEF OneHolder, HeldIsCurrent, Stale
<1>2. HeldRequests'
  BY DEF HeldRequests, AtRest, Busy
<1>3. RequestsBounded' /\ StatusIsTrue'
  BY DEF RequestsBounded, StatusIsTrue, Stale
<1>4. LogFollowsStatus'
  <2>1. \A d \in Stale : ~ \E a \in attemptLog : a.delivery = d
    BY DEF LogFollowsStatus, Stale
  <2>2. attemptLog' = attemptLog \cup {Attempt(d, attempts[d], "unknown") : d \in Stale}
    BY <2>1 DEF AttemptLogged
  <2>3. \A a \in attemptLog : a.delivery \in Delivery /\ a.delivery \notin Stale
    BY <2>1
  <2>4. \A a \in attemptLog' :
          \/ a \in attemptLog /\ status'[a.delivery] = status[a.delivery]
          \/ \E d \in Stale : /\ a = Attempt(d, attempts[d], "unknown")
                              /\ status'[d] = "unknown"
    BY <2>2, <2>3 DEF Stale
  <2>5. \A a \in attemptLog' :
          /\ a.attempt = attempts'[a.delivery]
          /\ \/ status'[a.delivery] = a.outcome
             \/ status'[a.delivery] = "suppressed" /\ a.outcome = "unknown"
          /\ a.outcome \in {"sent", "failed", "unknown"}
    BY <2>4 DEF LogFollowsStatus, Attempt
  <2>6. \A d \in Delivery :
          status'[d] \in {"sent", "failed", "unknown"} => AttemptLogged(d, attempts[d])'
    <3> SUFFICES ASSUME NEW d \in Delivery, status'[d] \in {"sent", "failed", "unknown"}
                 PROVE  \E a \in attemptLog' : a.delivery = d /\ a.attempt = attempts'[d]
      BY DEF AttemptLogged
    <3>1. CASE d \in Stale
      <4>1. Attempt(d, attempts[d], "unknown") \in attemptLog'
        BY <2>2, <3>1
      <4> QED BY <4>1 DEF Attempt
    <3>2. CASE d \notin Stale
      <4>1. AttemptLogged(d, attempts[d])
        BY <3>2 DEF LogFollowsStatus
      <4> QED BY <2>2, <4>1 DEF AttemptLogged
    <3> QED BY <3>1, <3>2
  <2>7. \A a, b \in attemptLog' : a.delivery = b.delivery => a = b
    BY <2>2, <2>3 DEF LogFollowsStatus, Attempt
  <2> QED BY <2>5, <2>6, <2>7 DEF LogFollowsStatus
<1> QED BY <1>1, <1>2, <1>3, <1>4

LEMMA ClaimSafe ==
  ASSUME IInv, NEW w \in Workers, ClaimOldest(w)
  PROVE  Safe'
<1> USE DEF IInv, Safe, TypeOK, OutboxTypes, WorkerTypes, Holding, GoTo, wireVars
<1>1. PICK d \in Delivery :
        /\ status[d] = "pending"
        /\ status' = [status EXCEPT ![d] = "sending"]
        /\ attempts' = [attempts EXCEPT ![d] = @ + 1]
        /\ held' = [held EXCEPT ![w] = d]
        /\ heldAttempt' = [heldAttempt EXCEPT ![w] = attempts[d] + 1]
  BY DEF ClaimOldest, OldestPending, Pending
<1>2. \A v \in Workers : Holding(v) => held[v] # d
  BY <1>1 DEF HeldIsCurrent
<1>3. /\ UNCHANGED <<attemptLog, accepted, requests, delivered>>
      /\ pc' = [pc EXCEPT ![w] = "context"]
      /\ ~Holding(w)
  BY DEF ClaimOldest, AtRest, Busy
<1>4. OneHolder'
  BY <1>1, <1>2 DEF OneHolder
<1>5. HeldIsCurrent'
  BY <1>1, <1>2 DEF HeldIsCurrent
<1>6. HeldRequests'
  BY <1>1, <1>2, <1>3 DEF HeldRequests, RequestsBounded
<1>7. RequestsBounded' /\ StatusIsTrue'
  BY <1>1, <1>3 DEF RequestsBounded, StatusIsTrue
<1>8. LogFollowsStatus'
  <2>1. \A a \in attemptLog : a.delivery # d
    BY <1>1 DEF LogFollowsStatus
  <2> QED BY <1>1, <1>3, <2>1 DEF LogFollowsStatus, AttemptLogged
<1> QED BY <1>4, <1>5, <1>6, <1>7, <1>8

LEMMA SendSafe ==
  ASSUME IInv, NEW w \in Workers, Send(w)
  PROVE  Safe'
<1> USE DEF IInv, Safe, TypeOK, OutboxTypes, WorkerTypes, Holding, Send, GoTo, outboxVars
<1>1. held[w] \in Delivery /\ Holding(w) /\ pc[w] = "send"
  BY DEF Busy
<1>2. requests[held[w]] = 0 /\ delivered[held[w]] = 0
  <2>1. requests[held[w]] = 0
    BY <1>1 DEF HeldRequests
  <2>2. delivered[held[w]] \in Nat /\ delivered[held[w]] <= requests[held[w]]
    BY <1>1 DEF RequestsBounded, GhostTypes
  <2> QED BY <2>1, <2>2
<1>3. OneHolder' /\ HeldIsCurrent'
  BY DEF OneHolder, HeldIsCurrent
<1>4. PICK ok \in BOOLEAN :
        /\ accepted' = [accepted EXCEPT ![w] = ok]
        /\ requests' = [requests EXCEPT ![held[w]] = 1]
        /\ delivered' = [delivered EXCEPT ![held[w]] = IF ok THEN 1 ELSE 0]
  <2>1. PICK ok \in BOOLEAN :
          /\ accepted' = [accepted EXCEPT ![w] = ok]
          /\ requests' = [requests EXCEPT ![held[w]] = @ + 1]
          /\ delivered' = [delivered EXCEPT ![held[w]] = IF ok THEN @ + 1 ELSE @]
    OBVIOUS
  <2>2. requests[held[w]] + 1 = 1 /\ delivered[held[w]] + 1 = 1
    BY <1>2
  <2>3. /\ requests' = [requests EXCEPT ![held[w]] = 1]
        /\ delivered' = [delivered EXCEPT ![held[w]] = IF ok THEN 1 ELSE 0]
    BY <1>2, <2>1, <2>2
  <2> QED BY <2>1, <2>3
<1>5. HeldRequests'
  <2> SUFFICES ASSUME NEW v \in Workers, Holding(v)
               PROVE  IF pc'[v] = "waiting"
                        THEN /\ requests'[held[v]] = 1
                             /\ delivered'[held[v]] = IF accepted'[v] THEN 1 ELSE 0
                        ELSE requests'[held[v]] = 0
    BY DEF HeldRequests
  <2>1. CASE v = w
    BY <1>1, <1>4, <2>1 DEF GhostTypes
  <2>2. CASE v # w
    <3>1. held[v] # held[w] /\ held[v] \in Delivery
      BY <1>1, <2>2 DEF OneHolder
    <3> QED BY <1>1, <1>4, <2>2, <3>1 DEF HeldRequests, GhostTypes
  <2> QED BY <2>1, <2>2
<1>6. RequestsBounded' /\ StatusIsTrue'
  <2>1. status[held[w]] \in {"sending", "unknown"}
    BY <1>1 DEF HeldIsCurrent
  <2> QED BY <1>1, <1>4, <2>1 DEF RequestsBounded, StatusIsTrue, GhostTypes
<1>7. LogFollowsStatus'
  BY DEF LogFollowsStatus, AttemptLogged
<1> QED BY <1>3, <1>5, <1>6, <1>7

(* A worker settles the row it holds and lets go of it.                    *)
LEMMA SettleSafe ==
  ASSUME IInv, NEW w \in Workers, Holding(w), NEW o \in Settled,
         Release(held[w], o), Return(w),
         UNCHANGED <<attempts, wireVars>>, LogFollowsStatus',
         o = "suppressed" => requests[held[w]] = 0,
         o = "sent" => delivered[held[w]] = 1,
         o = "failed" => delivered[held[w]] = 0
  PROVE  Safe'
<1> USE DEF IInv, Safe, TypeOK, OutboxTypes, WorkerTypes, GhostTypes, Holding, Release,
            Return, wireVars
<1>1. held[w] \in Delivery
  OBVIOUS
<1>2. OneHolder'
  BY DEF OneHolder
<1>3. HeldIsCurrent'
  BY <1>1 DEF HeldIsCurrent, OneHolder
<1>4. HeldRequests'
  BY DEF HeldRequests
<1>5. RequestsBounded'
  BY <1>1 DEF RequestsBounded, Settled
<1>6. StatusIsTrue'
  BY <1>1 DEF StatusIsTrue, RequestsBounded, Settled
<1> QED BY <1>2, <1>3, <1>4, <1>5, <1>6

LEMMA SuppressSafe ==
  ASSUME IInv, NEW w \in Workers, Suppress(w)
  PROVE  Safe'
<1> USE DEF IInv, Safe
<1>1. /\ Holding(w) /\ held[w] \in Delivery
      /\ requests[held[w]] = 0
      /\ status[held[w]] \in {"sending", "unknown"}
  BY HeldTypes DEF HeldRequests, HeldIsCurrent, Suppress, Busy
<1>2. LogFollowsStatus'
  BY <1>1 DEF Suppress, Release, LogFollowsStatus, AttemptLogged, TypeOK, OutboxTypes
<1> QED BY <1>1, <1>2, SettleSafe DEF Suppress, Settled

(* A new log row means that the row was still "sending".                   *)
LEMMA LoggedSafe ==
  ASSUME IInv, NEW w \in Workers, Holding(w), NEW o \in {"sent", "failed", "unknown"},
         LogAttempt(w, o), Release(held[w], o), UNCHANGED attempts
  PROVE  LogFollowsStatus'
<1> USE DEF IInv, Safe, TypeOK, OutboxTypes, WorkerTypes, Holding
<1> DEFINE d == held[w]
           new == Attempt(d, attempts[d], o)
<1>1. d \in Delivery /\ heldAttempt[w] = attempts[d] /\ status[d] \in {"sending", "unknown"}
  BY DEF HeldIsCurrent
<1>2. attemptLog' = attemptLog \cup {new}
  BY <1>1 DEF LogAttempt
<1>3. status[d] = "sending"
  BY <1>1 DEF LogAttempt, LogFollowsStatus
<1>4. \A a \in attemptLog : a.delivery # d
  BY <1>3 DEF LogFollowsStatus
<1>5. status' = [status EXCEPT ![d] = o]
  BY DEF Release
<1>6. new.delivery = d /\ new.attempt = attempts[d] /\ new.outcome = o
  BY DEF Attempt
<1> HIDE DEF d, new
<1>7. \A a \in attemptLog' :
        /\ a.attempt = attempts'[a.delivery]
        /\ \/ status'[a.delivery] = a.outcome
           \/ status'[a.delivery] = "suppressed" /\ a.outcome = "unknown"
        /\ a.outcome \in {"sent", "failed", "unknown"}
  BY <1>1, <1>2, <1>4, <1>5, <1>6 DEF LogFollowsStatus
<1>8. \A e \in Delivery :
        status'[e] \in {"sent", "failed", "unknown"} => AttemptLogged(e, attempts[e])'
  BY <1>1, <1>2, <1>5, <1>6 DEF LogFollowsStatus, AttemptLogged
<1>9. \A a, b \in attemptLog' : a.delivery = b.delivery => a = b
  BY <1>2, <1>4, <1>6 DEF LogFollowsStatus
<1> QED BY <1>7, <1>8, <1>9 DEF LogFollowsStatus

LEMMA FinishSafe ==
  ASSUME IInv, NEW w \in Workers,
         FinishSent(w) \/ FinishRejected(w) \/ FinishAmbiguous(w)
  PROVE  IInv'
<1> USE DEF IInv, Safe
<1>1. /\ Holding(w) /\ pc[w] = "waiting"
      /\ delivered[held[w]] = IF accepted[w] THEN 1 ELSE 0
  BY HeldTypes DEF HeldRequests, FinishSent, FinishRejected, FinishAmbiguous, Busy
<1>2. CASE LogConflict(w)
  <2>1. Die(w) /\ crashes' \in Nat
    BY <1>2 DEF LogConflict, TypeOK, GhostTypes
  <2> QED BY <2>1, DieTypes, DieSafe
<1>3. CASE accepted[w] /\ RecordSent(w)
  <2>1. LogFollowsStatus'
    BY <1>1, <1>3, LoggedSafe DEF RecordSent
  <2> QED BY <1>1, <1>3, <2>1, SettleSafe, RecordSentTypes DEF RecordSent, Settled
<1>4. ASSUME NEW o \in {"failed", "unknown"}, o = "failed" => ~accepted[w],
             RecordError(w, o)
      PROVE  IInv'
  <2>1. LogFollowsStatus'
    BY <1>1, <1>4, LoggedSafe DEF RecordError
  <2> QED BY <1>1, <1>4, <2>1, SettleSafe, RecordErrorTypes DEF RecordError, Settled
<1> QED BY <1>2, <1>3, <1>4 DEF FinishSent, FinishRejected, FinishAmbiguous

(***************************************************************************)
(* Every step preserves the invariant.                                     *)
(***************************************************************************)
LEMMA InsertedSafe ==
  ASSUME IInv, \/ \E w \in Workers : EnqueueBot(w)
               \/ \E c \in Conversations : HumanReply(c)
  PROVE  Safe'
<1>1. CASE \E w \in Workers : EnqueueBot(w)
  <2>1. PICK w \in Workers : EnqueueBot(w)
    BY <1>1
  <2>2. PICK d \in Delivery : status[d] = "none" /\ status' = [status EXCEPT ![d] = "pending"]
    BY <2>1 DEF EnqueueBot, FreeRowid, Insert
  <2>3. \A v \in Workers : Holding(v) => (pc'[v] = "waiting" <=> pc[v] = "waiting")
    BY <2>1 DEF EnqueueBot, GoTo, IInv, TypeOK, WorkerTypes
  <2>4. UNCHANGED <<attempts, attemptLog, held, heldAttempt, accepted, wireVars>>
    BY <2>1 DEF EnqueueBot
  <2> QED BY <2>2, <2>3, <2>4, InsertSafe
<1>2. CASE \E c \in Conversations : HumanReply(c)
  <2>1. PICK c \in Conversations : HumanReply(c)
    BY <1>2
  <2>2. PICK d \in Delivery : status[d] = "none" /\ status' = [status EXCEPT ![d] = "pending"]
    BY <2>1 DEF HumanReply, FreeRowid, Insert
  <2>3. UNCHANGED <<attempts, attemptLog, held, heldAttempt, accepted, wireVars, pc>>
    BY <2>1 DEF HumanReply, workerVars
  <2> QED BY <2>2, <2>3, InsertSafe
<1> QED BY <1>1, <1>2

LEMMA StutterInvariant == ASSUME IInv, UNCHANGED vars PROVE IInv'
<1> USE DEF IInv, vars, outboxVars, conversationVars, workerVars, wireVars
<1>1. TypeOK'
  BY DEF TypeOK, OutboxTypes, ConversationTypes, WorkerTypes, GhostTypes
<1>2. Safe'
  BY QuietSafe DEF IInv
<1> QED BY <1>1, <1>2

LEMMA StepInvariant == ASSUME IInv, [Next]_vars PROVE IInv'
<1>1. TypeOK /\ HeldIsCurrent
  BY DEF IInv, Safe
<1>2. ASSUME NEW w \in Workers, WorkerStep(w) PROVE IInv'
  <2>1. CASE RecoverStale(w)
    BY <1>1, <2>1, RecoverTypes, RecoverSafe DEF IInv
  <2>2. CASE ClaimOldest(w)
    BY <1>1, <2>2, ClaimTypes, ClaimSafe DEF IInv
  <2>3. CASE WorkerReads(w)
    BY <1>1, <2>3, WorkerReadsTypes, WorkerReadsSafe DEF IInv
  <2>4. CASE Suppress(w)
    BY <1>1, <2>4, SuppressTypes, SuppressSafe DEF IInv
  <2>5. CASE Send(w)
    BY <1>1, <2>5, SendTypes, SendSafe DEF IInv
  <2>6. CASE FinishSent(w) \/ FinishRejected(w) \/ FinishAmbiguous(w)
    BY <2>6, FinishSafe
  <2>7. CASE EnqueueBot(w)
    BY <1>1, <2>7, EnqueueTypes, InsertedSafe DEF IInv
  <2> QED BY <1>2, <2>1, <2>2, <2>3, <2>4, <2>5, <2>6, <2>7 DEF WorkerStep, WorkerReads
<1>3. ASSUME NEW w \in Workers, Crash(w) PROVE IInv'
  <2>1. Die(w) /\ crashes' \in Nat
    BY <1>1, <1>3 DEF Crash, TypeOK, GhostTypes
  <2> QED BY <1>1, <2>1, DieTypes, DieSafe DEF IInv
<1>4. CASE Around
  BY <1>1, <1>4, AroundTypes, AroundSafe DEF IInv
<1>5. ASSUME NEW c \in Conversations, HumanReply(c) PROVE IInv'
  BY <1>1, <1>5, HumanReplyTypes, InsertedSafe DEF IInv
<1>6. CASE UNCHANGED vars
  BY <1>6, StutterInvariant
<1>7. Next => \/ \E w \in Workers : WorkerStep(w) \/ Crash(w)
              \/ Around
              \/ \E c \in Conversations : HumanReply(c)
  BY DEF Next, Operator, Around
<1> QED BY <1>2, <1>3, <1>4, <1>5, <1>6, <1>7

(* The inductive invariant holds: the outbox of rrpp_bridge/delivery.py    *)
(* keeps one holder per row, and every status follows what was posted.     *)
THEOREM Invariance == Spec => []IInv
<1>1. Init => IInv
  BY InitTypeOK, InitSafe DEF IInv
<1>2. IInv /\ [Next]_vars => IInv'
  BY StepInvariant
<1> QED BY <1>1, <1>2, PTL DEF Spec

(* The columns of migration 009 keep their types.  TypeOK is not inductive *)
(* by itself: that a worker holds an existing row needs HeldIsCurrent.     *)
THEOREM TypeCorrect == Spec => []TypeOK
<1>1. IInv => TypeOK
  BY DEF IInv
<1> QED BY <1>1, Invariance, PTL

(* No delivery is posted, or reaches the customer, twice.                  *)
THEOREM SentAtMostOnce == Spec => []AtMostOnce
<1>1. IInv => AtMostOnce
  <2> SUFFICES ASSUME IInv, NEW d \in Delivery
               PROVE  requests[d] <= 1 /\ delivered[d] <= 1
    BY DEF AtMostOnce
  <2>1. /\ requests[d] <= 1 /\ delivered[d] <= requests[d]
        /\ requests[d] \in Nat /\ delivered[d] \in Nat
    BY DEF IInv, TypeOK, GhostTypes, Safe, RequestsBounded
  <2> QED BY <2>1
<1> QED BY <1>1, Invariance, PTL

(* deliveries.status never contradicts what the customer got.              *)
THEOREM StatusCorrect == Spec => []StatusIsTrue
<1>1. IInv => StatusIsTrue
  BY DEF IInv, Safe
<1> QED BY <1>1, Invariance, PTL

(* delivery_attempts and deliveries.status tell the same story.            *)
THEOREM LogCorrect == Spec => []LogAgrees
<1>1. IInv => LogAgrees
  BY DEF IInv, Safe, LogFollowsStatus, LogAgrees, AttemptLogged
<1> QED BY <1>1, Invariance, PTL

-----------------------------------------------------------------------------
(* Who is asked to look at a delivery.                                     *)

(* A delivery on its way, or sent, was never brought to the operators.     *)
Reviewed ==
  /\ \A d \in Delivery : status[d] \in {"none", "pending", "sending"} => review[d] = NoReview
  /\ UnsentIsReviewed

LEMMA PendingReviewIsReview == \A k \in {"draft", "escalation"} : PendingReview(k) # NoReview
  BY PendingReviewType, Distinct

LEMMA ReviewedAround ==
  ASSUME TypeOK, Reviewed,
         \/ Around
         \/ \E w \in Workers : WorkerReads(w) \/ Send(w) \/ Die(w)
         \/ UNCHANGED vars
  PROVE  Reviewed'
<1>1. CASE UNCHANGED <<row, status, review, actionState>>
  BY <1>1 DEF Reviewed, UnsentIsReviewed
<1>2. ASSUME NEW d \in Delivery, NEW target \in {"prepared", "rejected", "resolved"},
             TransitionReview(d, target)
      PROVE  Reviewed'
  <2>1. /\ review[d] # NoReview
        /\ review' = [review EXCEPT ![d].status = target]
        /\ actionState' = [actionState EXCEPT ![d] = target]
        /\ UNCHANGED <<row, status>>
    BY <1>2, Distinct DEF TransitionReview, NoReview
  <2>2. review'[d] # NoReview
    <3>1. review[d] \in Review
      BY <2>1 DEF TypeOK, OutboxTypes
    <3>2. [review[d] EXCEPT !.status = target] \in Review
      BY <3>1 DEF Review
    <3> QED BY <2>1, <3>2, Distinct DEF TypeOK, OutboxTypes
  <2>3. status[d] \notin {"none", "pending", "sending", "sent"}
    BY <2>1 DEF Reviewed, UnsentIsReviewed
  <2>4. \A e \in Delivery \ {d} : review'[e] = review[e] /\ actionState'[e] = actionState[e]
    BY <2>1 DEF TypeOK, OutboxTypes
  <2> QED BY <2>1, <2>2, <2>3, <2>4 DEF Reviewed, UnsentIsReviewed
<1>3. \/ UNCHANGED <<row, status, review, actionState>>
      \/ \E d \in Delivery, target \in {"prepared", "rejected", "resolved"} :
            TransitionReview(d, target)
  BY DEF Around, LeaseExpires, Inbound, SetBotPaused, SetConversationStatus, SetMode,
         WorkerReads, ClaimNothing, ReadContext, ReadMode, ReadFreshness, AskOperator,
         EnqueueNothing, Restart, Send, Die, vars, outboxVars
<1> QED BY <1>1, <1>2, <1>3

(* A new delivery, and one that is claimed: nobody has to look at it.      *)
LEMMA ReviewedOnItsWay ==
  ASSUME TypeOK, Reviewed, NEW d \in Delivery,
         status[d] \in {"none", "pending"}, status'[d] \in {"pending", "sending"},
         UNCHANGED review,
         \A e \in Delivery \ {d} : /\ status'[e] = status[e] /\ row'[e] = row[e]
                                   /\ actionState'[e] = actionState[e]
  PROVE  Reviewed'
<1>1. review'[d] = NoReview
  BY DEF Reviewed
<1> QED BY <1>1 DEF Reviewed, UnsentIsReviewed

(* The outcome of one delivery.                                            *)
LEMMA ReviewedSettled ==
  ASSUME TypeOK, Reviewed, NEW d \in Delivery, UNCHANGED row,
         \A e \in Delivery \ {d} : /\ status'[e] = status[e] /\ review'[e] = review[e]
                                   /\ actionState'[e] = actionState[e],
         \/ status'[d] \in {"failed", "unknown"} /\ review'[d] # NoReview
         \/ status'[d] = "suppressed" /\ (row[d].author = "bot" => review'[d] # NoReview)
         \/ status'[d] = "sent" /\ review'[d] = NoReview /\ actionState'[d] = "sent"
  PROVE  Reviewed'
  BY DEF Reviewed, UnsentIsReviewed

LEMMA EscalationIsReview ==
  ASSUME TypeOK, NEW D \in SUBSET Delivery, EnsureEscalation(D)
  PROVE  /\ \A d \in D : review'[d] # NoReview
         /\ \A e \in Delivery \ D : review'[e] = review[e]
  BY PendingReviewIsReview DEF EnsureEscalation

LEMMA ReviewedFinished ==
  ASSUME IInv, Reviewed, NEW w \in Workers,
         FinishSent(w) \/ FinishRejected(w) \/ FinishAmbiguous(w)
  PROVE  Reviewed'
<1> USE DEF IInv, Safe
<1> DEFINE d == held[w]
<1>1. Holding(w) /\ d \in Delivery
  BY HeldTypes DEF FinishSent, FinishRejected, FinishAmbiguous, Busy
<1>2. CASE LogConflict(w)
  BY <1>2, ReviewedAround DEF LogConflict
<1>3. CASE RecordSent(w)
  <2>1. status[d] = "sending"
    BY <1>1, <1>3 DEF RecordSent, LogAttempt, LogFollowsStatus, HeldIsCurrent
  <2>2. review[d] = NoReview
    BY <1>1, <2>1 DEF Reviewed
  <2>3. /\ status' = [status EXCEPT ![d] = "sent"]
        /\ actionState' = [actionState EXCEPT ![d] = "sent"]
        /\ UNCHANGED <<row, review>>
    BY <1>3 DEF RecordSent, Release
  <2> HIDE DEF d
  <2>4. /\ status'[d] = "sent" /\ actionState'[d] = "sent" /\ review'[d] = NoReview
        /\ \A e \in Delivery \ {d} : status'[e] = status[e] /\ actionState'[e] = actionState[e]
    BY <1>1, <2>2, <2>3 DEF TypeOK, OutboxTypes
  <2> QED BY <1>1, <2>3, <2>4, ReviewedSettled
<1>4. ASSUME NEW o \in {"failed", "unknown"}, RecordError(w, o) PROVE Reviewed'
  <2>1. /\ status' = [status EXCEPT ![d] = o]
        /\ actionState' = [actionState EXCEPT ![d] = "delivery_failed"]
        /\ EnsureEscalation({d}) /\ UNCHANGED row
    BY <1>4 DEF RecordError, Release
  <2> HIDE DEF d
  <2>2. /\ status'[d] = o
        /\ \A e \in Delivery \ {d} : status'[e] = status[e] /\ actionState'[e] = actionState[e]
    BY <1>1, <2>1 DEF TypeOK, OutboxTypes
  <2>3. review'[d] # NoReview /\ \A e \in Delivery \ {d} : review'[e] = review[e]
    BY <1>1, <2>1, EscalationIsReview
  <2> QED BY <1>1, <2>1, <2>2, <2>3, ReviewedSettled
<1> QED BY <1>2, <1>3, <1>4 DEF FinishSent, FinishRejected, FinishAmbiguous

LEMMA ReviewedSuppressed ==
  ASSUME TypeOK, Reviewed, NEW w \in Workers, Suppress(w)
  PROVE  Reviewed'
<1>a. held[w] \in Delivery
  BY Distinct DEF Suppress, Busy, TypeOK, WorkerTypes
<1>1. PICK d \in Delivery : d = held[w]
  BY <1>a
<1>2. /\ status' = [status EXCEPT ![d] = "suppressed"]
      /\ actionState' = [actionState EXCEPT ![d] = "suppressed"]
      /\ UNCHANGED row
      /\ IF row[d].author = "bot"
           THEN review' = [review EXCEPT ![d] =
                  IF @ = NoReview THEN PendingReview("draft") ELSE @]
           ELSE UNCHANGED review
  BY <1>1 DEF Suppress, Release
<1>3. /\ status'[d] = "suppressed"
      /\ \A e \in Delivery \ {d} : /\ status'[e] = status[e] /\ review'[e] = review[e]
                                   /\ actionState'[e] = actionState[e]
      /\ row[d].author = "bot" => review'[d] # NoReview
  BY <1>2, PendingReviewIsReview DEF TypeOK, OutboxTypes
<1> QED BY <1>2, <1>3, ReviewedSettled

LEMMA ReviewedRecovered ==
  ASSUME TypeOK, Reviewed, NEW w \in Workers, RecoverStale(w)
  PROVE  Reviewed'
<1>1. PICK D \in SUBSET Delivery : D = Stale
  BY DEF Stale
<1>2. /\ status' = [d \in Delivery |-> IF d \in D THEN "unknown" ELSE status[d]]
      /\ EnsureEscalation(D) /\ UNCHANGED <<row, actionState>>
  BY <1>1 DEF RecoverStale
<1>3. /\ \A d \in D : review'[d] # NoReview
      /\ \A e \in Delivery \ D : review'[e] = review[e]
  BY <1>2, EscalationIsReview
<1> QED BY <1>2, <1>3 DEF Reviewed, UnsentIsReviewed

LEMMA ReviewedInserted ==
  ASSUME TypeOK, Reviewed, NEW d \in Delivery, NEW c, NEW author, NEW event,
         FreeRowid(d), Insert(d, c, author, event), UNCHANGED review
  PROVE  Reviewed'
<1>1. status[d] = "none" /\ status'[d] = "pending"
  BY DEF FreeRowid, Insert, TypeOK, OutboxTypes
<1>2. \A e \in Delivery \ {d} : /\ status'[e] = status[e] /\ row'[e] = row[e]
                                /\ actionState'[e] = actionState[e]
  BY DEF Insert, TypeOK, OutboxTypes
<1> QED BY <1>1, <1>2, ReviewedOnItsWay

LEMMA ReviewedClaimed ==
  ASSUME TypeOK, Reviewed, NEW w \in Workers, ClaimOldest(w)
  PROVE  Reviewed'
<1>1. PICK d \in Delivery : status[d] = "pending" /\ status' = [status EXCEPT ![d] = "sending"]
  BY DEF ClaimOldest, OldestPending, Pending
<1>2. status'[d] = "sending" /\ \A e \in Delivery \ {d} : status'[e] = status[e]
  BY <1>1 DEF TypeOK, OutboxTypes
<1>3. UNCHANGED <<row, review, actionState>>
  BY DEF ClaimOldest
<1> QED BY <1>1, <1>2, <1>3, ReviewedOnItsWay

LEMMA ReviewedStep == ASSUME IInv, Reviewed, [Next]_vars PROVE Reviewed'
<1>1. TypeOK
  BY DEF IInv
<1>2. ASSUME NEW w \in Workers, WorkerStep(w) PROVE Reviewed'
  <2>1. CASE EnqueueBot(w)
    <3>1. PICK d \in Delivery, c \in SendableConversations :
            FreeRowid(d) /\ \E e \in 1 .. lastEvent[c] : Insert(d, c, "bot", e)
      BY <2>1 DEF EnqueueBot
    <3>2. UNCHANGED review
      BY <2>1 DEF EnqueueBot
    <3> QED BY <1>1, <3>1, <3>2, ReviewedInserted
  <2> QED
    BY <1>1, <1>2, <2>1, ReviewedAround, ReviewedFinished, ReviewedSuppressed,
       ReviewedRecovered, ReviewedClaimed
       DEF WorkerStep, WorkerReads
<1>3. ASSUME NEW c \in Conversations, HumanReply(c) PROVE Reviewed'
  <2>1. PICK d \in Delivery : FreeRowid(d) /\ Insert(d, c, "human", lastEvent[c])
    BY <1>3 DEF HumanReply
  <2>2. UNCHANGED review
    BY <1>3 DEF HumanReply
  <2> QED BY <1>1, <2>1, <2>2, ReviewedInserted
<1>4. ASSUME NEW w \in Workers, Crash(w) PROVE Reviewed'
  BY <1>1, <1>4, ReviewedAround DEF Crash
<1>5. CASE Around \/ UNCHANGED vars
  BY <1>1, <1>5, ReviewedAround
<1>6. Next => \/ \E w \in Workers : WorkerStep(w) \/ Crash(w)
              \/ Around
              \/ \E c \in Conversations : HumanReply(c)
  BY DEF Next, Operator, Around
<1> QED BY <1>2, <1>3, <1>4, <1>5, <1>6

(* Whatever did not reach the customer for certain is in front of the      *)
(* operators, and what did is not: _suppress, _finish_error, recover_stale *)
(* and transition_review agree on it.                                      *)
THEOREM UnsentIsBrought == Spec => []UnsentIsReviewed
<1>1. Init => Reviewed
  BY DEF Init, Reviewed, UnsentIsReviewed
<1>2. IInv /\ Reviewed /\ [Next]_vars => Reviewed'
  BY ReviewedStep
<1>3. Reviewed => UnsentIsReviewed
  BY DEF Reviewed
<1> QED BY <1>1, <1>2, <1>3, Invariance, PTL DEF Spec

-----------------------------------------------------------------------------
(* One worker.  Reconciliation is imposed by the worker itself, so between *)
(* its look at the conversation and its request nobody else imposes it.    *)

OneWorker == \A v, w \in Workers : v = w

Cleared ==
  \A w \in Workers :
    pc[w] \in {"mode", "freshness", "send"} /\ row[held[w]].author = "bot" =>
      pause[row[held[w]].conversation] # "reconciliation"

LEMMA ClearedWorker ==
  ASSUME OneWorker, TypeOK, HeldIsCurrent, Cleared, NEW w \in Workers, WorkerStep(w)
  PROVE  Cleared'
<1>1. \A v \in Workers : v = w
  BY DEF OneWorker
<1>2. CASE pc'[w] \notin {"mode", "freshness", "send"}
  BY <1>1, <1>2 DEF Cleared
<1>3. CASE pc'[w] \in {"mode", "freshness", "send"}
  <2>1. ReadContext(w) \/ ReadMode(w) \/ ReadFreshness(w)
    BY <1>3 DEF WorkerStep, RecoverStale, ClaimOldest, ClaimNothing, Suppress, Send, FinishSent,
                FinishRejected, FinishAmbiguous, LogConflict, Die, RecordSent, RecordError, Return,
                EnqueueBot, AskOperator, EnqueueNothing, Restart, GoTo, TypeOK, WorkerTypes
  <2>2. UNCHANGED <<held, row, pause>>
    BY <2>1 DEF ReadContext, ReadMode, ReadFreshness, outboxVars, conversationVars
  <2>3. ReadContext(w) => pc'[w] = "suppress"
                          \/ row[held[w]].author # "bot"
                          \/ pause[row[held[w]].conversation] = "none"
    BY DEF ReadContext, GoTo, TypeOK, WorkerTypes
  <2>4. ReadMode(w) \/ ReadFreshness(w) => pc[w] \in {"mode", "freshness"}
    BY DEF ReadMode, ReadFreshness
  <2> QED BY <1>1, <1>3, <2>1, <2>2, <2>3, <2>4 DEF Cleared
<1> QED BY <1>2, <1>3

(* Customers, operators and time impose no reconciliation, and what they   *)
(* insert is not the row a worker holds.                                   *)
LEMMA ClearedAround ==
  ASSUME TypeOK, HeldIsCurrent, Cleared,
         Around \/ UNCHANGED vars \/ \E c \in Conversations : HumanReply(c)
  PROVE  Cleared'
<1>1. UNCHANGED <<pc, held>>
  BY DEF Around, LeaseExpires, Inbound, SetBotPaused, SetConversationStatus, SetMode,
         TransitionReview, HumanReply, vars, workerVars
<1>2. \A c \in Conversations : pause'[c] = "reconciliation" => pause[c] = "reconciliation"
  BY DEF Around, LeaseExpires, Inbound, SetBotPaused, SetConversationStatus, SetMode,
         TransitionReview, HumanReply, vars, conversationVars, TypeOK, ConversationTypes
<1>3. \A d \in Delivery : status[d] # "none" => row'[d] = row[d]
  BY DEF Around, LeaseExpires, Inbound, SetBotPaused, SetConversationStatus, SetMode,
         TransitionReview, HumanReply, FreeRowid, Insert, vars, outboxVars, TypeOK, OutboxTypes
<1>4. ASSUME NEW w \in Workers, pc[w] \in {"mode", "freshness", "send"}
      PROVE  /\ row'[held[w]] = row[held[w]]
             /\ row[held[w]].conversation \in Conversations
  <2>1. Holding(w) /\ held[w] \in Delivery /\ row[held[w]] \in Row
    BY <1>4, HeldTypes DEF Busy
  <2> QED BY <1>3, <2>1 DEF HeldIsCurrent, Row
<1> QED BY <1>1, <1>2, <1>4 DEF Cleared

LEMMA ClearedStep ==
  ASSUME OneWorker, IInv, Cleared, [Next]_vars
  PROVE  Cleared'
<1>1. TypeOK /\ HeldIsCurrent
  BY DEF IInv, Safe
<1>2. ASSUME NEW w \in Workers, Crash(w) PROVE Cleared'
  <2>1. \A v \in Workers : v = w
    BY DEF OneWorker
  <2>2. pc'[w] = "down"
    BY <1>1, <1>2 DEF Crash, Die, TypeOK, WorkerTypes
  <2> QED BY <2>1, <2>2 DEF Cleared
<1>3. Next => \/ \E w \in Workers : WorkerStep(w) \/ Crash(w)
              \/ Around
              \/ \E c \in Conversations : HumanReply(c)
  BY DEF Next, Operator, Around
<1> QED BY <1>1, <1>2, <1>3, ClearedWorker, ClearedAround

NoBotPostStep ==
  \A d \in Delivery :
    requests'[d] > requests[d] /\ row[d].author = "bot" =>
      pause[row[d].conversation] # "reconciliation"

LEMMA PostIsCleared ==
  ASSUME IInv, Cleared, [Next]_vars
  PROVE  NoBotPostStep
<1> USE DEF IInv, TypeOK
<1>1. ASSUME NEW w \in Workers, Send(w) PROVE NoBotPostStep
  <2>1. pc[w] = "send" /\ held[w] \in Delivery
    BY <1>1, Distinct DEF Send, WorkerTypes, Busy
  <2>2. \A d \in Delivery : d # held[w] => requests'[d] = requests[d]
    BY <1>1, <2>1 DEF Send, GhostTypes
  <2>3. \A d \in Delivery : requests[d] \in Nat
    BY DEF GhostTypes
  <2>4. \A d \in Delivery : requests'[d] > requests[d] => d = held[w]
    BY <2>2, <2>3
  <2> QED BY <2>1, <2>4 DEF Cleared, NoBotPostStep
<1>2. CASE UNCHANGED requests
  BY <1>2 DEF NoBotPostStep, GhostTypes
<1>3. UNCHANGED requests \/ \E w \in Workers : Send(w)
  <2>1. Next => \/ \E w \in Workers : WorkerStep(w) \/ Crash(w)
                \/ Around
                \/ \E c \in Conversations : HumanReply(c)
    BY DEF Next, Operator, Around
  <2>2. ASSUME NEW w \in Workers, WorkerStep(w) PROVE UNCHANGED requests \/ Send(w)
    BY <2>2
       DEF WorkerStep, RecoverStale, ClaimOldest, ClaimNothing, ReadContext, ReadMode,
           ReadFreshness, Suppress, FinishSent, FinishRejected, FinishAmbiguous, LogConflict, Die,
           RecordSent, RecordError, EnqueueBot, AskOperator, EnqueueNothing, Restart, wireVars
  <2>3. (\E w \in Workers : Crash(w)) \/ (\E c \in Conversations : HumanReply(c)) \/ UNCHANGED vars
          => UNCHANGED requests
    BY DEF Crash, Die, HumanReply, vars, wireVars
  <2>4. Around => UNCHANGED requests
    BY DEF Around, LeaseExpires, Inbound, SetBotPaused, SetConversationStatus, SetMode,
           TransitionReview, wireVars
  <2> QED BY <2>1, <2>2, <2>3, <2>4
<1> QED BY <1>1, <1>2, <1>3

(* "Ambiguous results pause the bot for reconciliation" is true of the     *)
(* deployment of docs/: one worker process.  With two, the other one may   *)
(* impose the pause between _permission_reason and send_text.              *)
THEOREM ReconciliationHolds ==
  ASSUME OneWorker
  PROVE  Spec => NoBotPostWhileReconciling
<1>1. Init => Cleared
  BY DEF Init, Cleared
<1>2. IInv /\ Cleared /\ [Next]_vars => Cleared'
  BY ClearedStep
<1>3. IInv /\ Cleared /\ [Next]_vars => [NoBotPostStep]_vars
  BY PostIsCleared
<1> QED BY <1>1, <1>2, <1>3, Invariance, PTL DEF Spec, NoBotPostWhileReconciling, NoBotPostStep

-----------------------------------------------------------------------------
(* How the status of a delivery moves, and the refinement.                 *)

OutcomeOf(s) ==
  CASE s = "none" -> "none"
    [] s \in {"pending", "sending"} -> "open"
    [] s = "sent" -> "delivered"
    [] s = "failed" -> "rejected"
    [] s = "suppressed" -> "withheld"
    [] s = "unknown" -> "uncertain"

LEMMA OutcomeBar == outcomeBar = [d \in Delivery |-> OutcomeOf(status[d])]
BY DEF outcomeBar, OutcomeOf

LEMMA OutcomeBarPrimed == outcomeBar' = [d \in Delivery |-> OutcomeOf(status'[d])]
BY DEF outcomeBar, OutcomeOf

(* The steps as the outbox sees them: nothing, one insertion, one claim,   *)
(* one request, one outcome, or the recovery of every stale row.           *)
Inserted(d) == status[d] = "none" /\ status' = [status EXCEPT ![d] = "pending"]

Claimed(d) == status[d] = "pending" /\ status' = [status EXCEPT ![d] = "sending"]

Posted(d) ==
  /\ UNCHANGED status
  /\ status[d] \in {"sending", "unknown"}
  /\ \/ UNCHANGED delivered
     \/ delivered[d] = 0 /\ delivered' = [delivered EXCEPT ![d] = 1]

Concluded(d, o) ==
  /\ status' = [status EXCEPT ![d] = o]
  /\ \/ status[d] = "sending"
     \/ status[d] = "unknown" /\ o = "suppressed"
  /\ o = "sent" => delivered[d] = 1
  /\ o \in {"failed", "suppressed"} => delivered[d] = 0

Recovered ==
  status' = [d \in Delivery |-> IF d \in Stale THEN "unknown" ELSE status[d]]

OutboxStep ==
  \/ UNCHANGED <<status, delivered>>
  \/ \E d \in Delivery : Inserted(d) /\ UNCHANGED delivered
  \/ \E d \in Delivery : Claimed(d) /\ UNCHANGED delivered
  \/ \E d \in Delivery : Posted(d)
  \/ \E d \in Delivery, o \in Settled : Concluded(d, o) /\ UNCHANGED delivered
  \/ Recovered /\ UNCHANGED delivered

LEMMA FinishSteps ==
  ASSUME IInv, NEW w \in Workers,
         FinishSent(w) \/ FinishRejected(w) \/ FinishAmbiguous(w)
  PROVE  \/ UNCHANGED <<status, delivered>>
         \/ \E d \in Delivery, o \in Settled : Concluded(d, o) /\ UNCHANGED delivered
<1> USE DEF IInv, Safe
<1>1. /\ Holding(w) /\ held[w] \in Delivery
      /\ delivered[held[w]] = IF accepted[w] THEN 1 ELSE 0
      /\ status[held[w]] \in {"sending", "unknown"}
      /\ heldAttempt[w] = attempts[held[w]]
  BY HeldTypes DEF HeldRequests, HeldIsCurrent, FinishSent, FinishRejected,
                   FinishAmbiguous, Busy
<1>2. CASE LogConflict(w)
  BY <1>2 DEF LogConflict, Die, outboxVars, wireVars
<1>3. ASSUME NEW o \in {"sent", "failed", "unknown"},
             LogAttempt(w, o), Release(held[w], o), UNCHANGED wireVars,
             o = "sent" => accepted[w], o = "failed" => ~accepted[w]
      PROVE  \E d \in Delivery, x \in Settled : Concluded(d, x) /\ UNCHANGED delivered
  <2>1. status[held[w]] = "sending"
    BY <1>1, <1>3 DEF LogAttempt, LogFollowsStatus
  <2>2. Concluded(held[w], o) /\ UNCHANGED delivered
    BY <1>1, <1>3, <2>1 DEF Concluded, Release, wireVars
  <2> QED BY <1>1, <2>2 DEF Settled
<1>4. CASE accepted[w] /\ RecordSent(w)
  BY <1>3, <1>4 DEF RecordSent
<1>5. CASE ~accepted[w] /\ RecordError(w, "failed")
  BY <1>3, <1>5 DEF RecordError
<1>6. CASE RecordError(w, "unknown")
  BY <1>3, <1>6 DEF RecordError
<1> QED BY <1>2, <1>4, <1>5, <1>6 DEF FinishSent, FinishRejected, FinishAmbiguous

LEMMA WorkerSteps ==
  ASSUME IInv, NEW w \in Workers, WorkerStep(w) \/ Crash(w)
  PROVE  OutboxStep
<1> USE DEF IInv, Safe
<1>1. CASE RecoverStale(w)
  BY <1>1 DEF RecoverStale, Recovered, OutboxStep, wireVars
<1>2. CASE ClaimOldest(w)
  BY <1>2 DEF ClaimOldest, OldestPending, Pending, Claimed, OutboxStep, wireVars
<1>3. CASE WorkerReads(w)
  BY <1>3 DEF WorkerReads, ClaimNothing, ReadContext, ReadMode, ReadFreshness,
              AskOperator, EnqueueNothing, Restart, OutboxStep, outboxVars, wireVars
<1>4. CASE Suppress(w)
  <2>1. /\ held[w] \in Delivery /\ requests[held[w]] = 0
        /\ status[held[w]] \in {"sending", "unknown"}
    BY <1>4, HeldTypes DEF HeldRequests, HeldIsCurrent, Suppress, Busy
  <2>2. delivered[held[w]] = 0
    BY <2>1 DEF RequestsBounded, TypeOK, GhostTypes
  <2>3. Concluded(held[w], "suppressed") /\ UNCHANGED delivered
    BY <1>4, <2>1, <2>2 DEF Suppress, Release, Concluded, wireVars
  <2> QED BY <2>1, <2>3 DEF OutboxStep, Settled
<1>5. CASE Send(w)
  <2>1. /\ held[w] \in Delivery /\ requests[held[w]] = 0
        /\ status[held[w]] \in {"sending", "unknown"}
    BY <1>5, HeldTypes DEF HeldRequests, HeldIsCurrent, Send, Busy
  <2>2. delivered[held[w]] = 0
    BY <2>1 DEF RequestsBounded, TypeOK, GhostTypes
  <2>3. delivered[held[w]] + 1 = 1
    BY <2>2
  <2>4. \/ UNCHANGED delivered
        \/ delivered' = [delivered EXCEPT ![held[w]] = 1]
    BY <1>5, <2>1, <2>2, <2>3 DEF Send, TypeOK, GhostTypes
  <2>5. Posted(held[w])
    BY <1>5, <2>1, <2>2, <2>4 DEF Send, Posted, outboxVars
  <2> QED BY <2>1, <2>5 DEF OutboxStep
<1>6. CASE FinishSent(w) \/ FinishRejected(w) \/ FinishAmbiguous(w)
  BY <1>6, FinishSteps DEF OutboxStep
<1>7. CASE EnqueueBot(w)
  BY <1>7 DEF EnqueueBot, FreeRowid, Insert, Inserted, OutboxStep, wireVars
<1>8. CASE Crash(w)
  BY <1>8 DEF Crash, Die, OutboxStep, outboxVars, wireVars
<1> QED BY <1>1, <1>2, <1>3, <1>4, <1>5, <1>6, <1>7, <1>8 DEF WorkerStep, WorkerReads

LEMMA OutboxSteps == ASSUME IInv, [Next]_vars PROVE OutboxStep
<1>1. ASSUME NEW w \in Workers, WorkerStep(w) \/ Crash(w) PROVE OutboxStep
  BY <1>1, WorkerSteps
<1>2. CASE Around
  BY <1>2 DEF Around, LeaseExpires, Inbound, SetBotPaused, SetConversationStatus, SetMode,
              TransitionReview, OutboxStep, outboxVars, wireVars
<1>3. ASSUME NEW c \in Conversations, HumanReply(c) PROVE OutboxStep
  BY <1>3 DEF HumanReply, FreeRowid, Insert, Inserted, OutboxStep, wireVars
<1>4. CASE UNCHANGED vars
  BY <1>4 DEF vars, OutboxStep, outboxVars, wireVars
<1>5. Next => \/ \E w \in Workers : WorkerStep(w) \/ Crash(w)
              \/ Around
              \/ \E c \in Conversations : HumanReply(c)
  BY DEF Next, Operator, Around
<1> QED BY <1>1, <1>2, <1>3, <1>4, <1>5

(* A settled delivery never moves again, except from unknown to suppressed *)
(* when it was never posted.                                               *)
THEOREM OutcomesAreFinal == Spec => OutcomeIsFinal
<1> DEFINE Final ==
      \A d \in Delivery :
        status[d] \in Settled =>
          \/ status'[d] = status[d]
          \/ status[d] = "unknown" /\ status'[d] = "suppressed" /\ delivered[d] = 0
<1>1. ASSUME IInv, [Next]_vars PROVE Final
  <2>1. OutboxStep
    BY <1>1, OutboxSteps
  <2>2. status \in [Delivery -> Status]
    BY <1>1 DEF IInv, TypeOK, OutboxTypes
  <2> QED BY <2>1, <2>2 DEF OutboxStep, Inserted, Claimed, Posted, Concluded, Recovered,
                            Stale, Settled
<1>2. IInv /\ [Next]_vars => [Final]_vars
  BY <1>1
<1> QED BY <1>2, Invariance, PTL DEF Spec, OutcomeIsFinal

LEMMA IntentInit == Init => Intents!Init
BY OutcomeBar DEF Init, Intents!Init, OutcomeOf

LEMMA IntentStep ==
  ASSUME IInv, [Next]_vars
  PROVE  [Intents!Next]_(Intents!vars)
<1> USE OutcomeBar, OutcomeBarPrimed
<1>1. OutboxStep
  BY OutboxSteps
<1>2. /\ status \in [Delivery -> Status]
      /\ delivered \in [Delivery -> Nat]
  BY DEF IInv, TypeOK, OutboxTypes, GhostTypes
<1>3. CASE UNCHANGED <<status, delivered>>
  BY <1>3 DEF Intents!vars
<1>4. ASSUME NEW d \in Delivery, Inserted(d), UNCHANGED delivered PROVE Intents!Next
  <2>1. outcomeBar' = [outcomeBar EXCEPT ![d] = OutcomeOf("pending")]
    BY <1>2, <1>4 DEF Inserted
  <2>2. outcomeBar[d] = "none" /\ OutcomeOf("pending") = "open"
    BY <1>4 DEF Inserted, OutcomeOf
  <2>3. Intents!Accept(d)
    BY <1>4, <2>1, <2>2 DEF Intents!Accept
  <2> QED BY <2>3 DEF Intents!Next, Intents!Step
<1>5. ASSUME NEW d \in Delivery, Claimed(d), UNCHANGED delivered
      PROVE  UNCHANGED Intents!vars
  <2>1. \A e \in Delivery : OutcomeOf(status'[e]) = OutcomeOf(status[e])
    BY <1>2, <1>5 DEF Claimed, OutcomeOf
  <2> QED BY <1>5, <2>1 DEF Intents!vars
<1>6. ASSUME NEW d \in Delivery, Posted(d) PROVE [Intents!Next]_(Intents!vars)
  <2>1. CASE UNCHANGED delivered
    BY <1>6, <2>1 DEF Posted, Intents!vars
  <2>2. CASE delivered[d] = 0 /\ delivered' = [delivered EXCEPT ![d] = 1]
    <3>1. outcomeBar[d] \in {"open", "uncertain"}
      BY <1>6 DEF Posted, OutcomeOf
    <3>2. Intents!Transmit(d)
      BY <1>6, <2>2, <3>1 DEF Intents!Transmit, Posted
    <3> QED BY <3>2 DEF Intents!Next, Intents!Step
  <2> QED BY <1>6, <2>1, <2>2 DEF Posted
<1>7. ASSUME NEW d \in Delivery, NEW o \in Settled, Concluded(d, o), UNCHANGED delivered
      PROVE  Intents!Next
  <2>1. outcomeBar' = [outcomeBar EXCEPT ![d] = OutcomeOf(o)]
    BY <1>2, <1>7 DEF Concluded
  <2>2. CASE status[d] = "sending"
    <3>1. OutcomeOf(o) \in {"delivered", "rejected", "withheld", "uncertain"}
      BY DEF OutcomeOf, Settled
    <3>2. Intents!Conclude(d, OutcomeOf(o))
      BY <1>7, <2>1, <2>2 DEF Intents!Conclude, Concluded, OutcomeOf, Settled
    <3> QED BY <3>1, <3>2 DEF Intents!Next, Intents!Step
  <2>3. CASE status[d] = "unknown" /\ o = "suppressed"
    <3>1. Intents!Withdraw(d)
      BY <1>7, <2>1, <2>3 DEF Intents!Withdraw, Concluded, OutcomeOf
    <3> QED BY <3>1 DEF Intents!Next, Intents!Step
  <2> QED BY <1>7, <2>2, <2>3 DEF Concluded
<1>8. ASSUME Recovered, UNCHANGED delivered PROVE [Intents!Next]_(Intents!vars)
  <2>1. outcomeBar' = [d \in Delivery |-> IF d \in Stale THEN "uncertain" ELSE outcomeBar[d]]
    <3>1. OutcomeOf("unknown") = "uncertain"
      BY DEF OutcomeOf
    <3>2. \A d \in Delivery : status'[d] = IF d \in Stale THEN "unknown" ELSE status[d]
      BY <1>8 DEF Recovered
    <3> QED BY <3>1, <3>2
  <2>2. CASE Stale = {}
    BY <1>8, <2>1, <2>2 DEF Intents!vars
  <2>3. CASE Stale # {}
    <3>1. Stale \in SUBSET Delivery /\ \A d \in Stale : outcomeBar[d] = "open"
      BY DEF Stale, OutcomeOf
    <3>2. Intents!GiveUp(Stale)
      BY <1>8, <2>1, <2>3, <3>1 DEF Intents!GiveUp
    <3> QED BY <3>1, <3>2 DEF Intents!Next
  <2> QED BY <2>2, <2>3
<1> QED BY <1>1, <1>3, <1>4, <1>5, <1>6, <1>7, <1>8 DEF OutboxStep

(* Workers, leases, crashes and operators keep the promise of              *)
(* OutboundIntent: the outbox of delivery.py implements it.                *)
THEOREM Refinement == Spec => ImplementsIntents
<1>1. Init => Intents!Init
  BY IntentInit
<1>2. IInv /\ [Next]_vars => [Intents!Next]_(Intents!vars)
  BY IntentStep
<1> QED BY <1>1, <1>2, Invariance, PTL DEF Spec, ImplementsIntents, Intents!Spec
=============================================================================
