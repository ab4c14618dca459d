----------------------------- MODULE ReviewDesk -----------------------------
(***************************************************************************)
(* What people do with the bot's work: rrpp_bridge/workspace.py (reviews   *)
(* and the state of a conversation), the handlers of web.py that call it,  *)
(* create_human_reply of delivery.py, and the writes of the worker that    *)
(* meet them (the action it inserts, its local execution, the outcome of a *)
(* delivery).                                                              *)
(*                                                                         *)
(* An action, its review and its delivery are created together or refer to *)
(* each other one to one, so a row number of "actions" names all three.    *)
(* The dashboard serves requests on several threads.  A request is one     *)
(* transaction, except "send": it reads the draft, queues a human reply in *)
(* one transaction and marks the review prepared in another.  The worker   *)
(* reads an action's review before the transaction that executes it, and   *)
(* after a crash does so again for the same action.                        *)
(*                                                                         *)
(* Text is abstract: a draft is known by its review and its version.  One  *)
(* delivery outcome is one step here; module Delivery has its details.     *)
(***************************************************************************)
EXTENDS Naturals, Sequences

CONSTANTS
  Threads,        \* threads of the dashboard
  Conversations,  \* conversations with at least one message
  MaxActions,     \* bound: rows of actions
  MaxEdits,       \* bound: version of a draft
  MaxCrashes      \* bound: dashboard requests or executions cut short

ASSUME ReviewDeskConstants ==
  /\ MaxActions \in Nat
  /\ MaxEdits \in Nat \ {0}
  /\ MaxCrashes \in Nat

VARIABLES
  status,     \* conversations.status
  paused,     \* conversations.bot_paused
  actions,    \* rows of actions: conversation, author, state, draft sent
  review,     \* the action_reviews row of an action, NoReview if none
  delivery,   \* deliveries.status of an action, "none" without a row
  executed,   \* an action_executions row exists
  worker,     \* the local execution in progress: action and state to write
  request,    \* the "send" request each thread is in
  crashes     \* crashes so far

vars == <<status, paused, actions, review, delivery, executed, worker, request, crashes>>

Row == 1..MaxActions
NoReview == [kind |-> "none", status |-> "none", version |-> 0]
NoDraft == [review |-> 0, version |-> 0]
NoWork == [action |-> 0, write |-> "none"]
Written == {"pending_review", "executed_simulated", "suppressed"}
NoRequest == [step |-> "none", draft |-> NoDraft]

Init ==
  /\ status = [c \in Conversations |-> "open"]
  /\ paused = [c \in Conversations |-> FALSE]
  /\ actions = <<>>
  /\ review = [a \in Row |-> NoReview]
  /\ delivery = [a \in Row |-> "none"]
  /\ executed = [a \in Row |-> FALSE]
  /\ worker = NoWork
  /\ request = [t \in Threads |-> NoRequest]
  /\ crashes = 0

-----------------------------------------------------------------------------
Rows == 1..Len(actions)

Pending(a) == review[a].status = "pending"

PendingDraft(a) == Pending(a) /\ review[a].kind = "draft"

PendingIn(c) == {a \in Rows : actions[a].conversation = c /\ Pending(a)}

(* Mutant: a review starts without a revision.                             *)
NewReviewUnversioned(kind) == [kind |-> kind, status |-> "pending", version |-> 0]

(* create_review: the first revision of a draft is version 1.              *)
NewReview(kind) == [kind |-> kind, status |-> "pending", version |-> 1]

NewAction(c, author, state, draft) ==
  [conversation |-> c, author |-> author, state |-> state, draft |-> draft]

SetState(a, state) == actions' = [actions EXCEPT ![a].state = state]

SetStatus(c, value) == status' = [status EXCEPT ![c] = value]

-----------------------------------------------------------------------------
(* Customers: ensure_conversation for a new message.                       *)

Message(c) ==
  /\ status[c] = "resolved"
  /\ SetStatus(c, IF paused[c] THEN "pending_review" ELSE "open")
  /\ UNCHANGED <<paused, actions, review, delivery, executed, worker, request, crashes>>

-----------------------------------------------------------------------------
(* The worker.  Every policy outcome but "allowed" with a sender, and      *)
(* "ignored", becomes a review.                                            *)

Answer(c) ==
  /\ worker = NoWork
  /\ Len(actions) < MaxActions
  /\ actions' = Append(actions, NewAction(c, "bot", "queued_delivery", NoDraft))
  /\ delivery' = [delivery EXCEPT ![Len(actions) + 1] = "pending"]
  /\ UNCHANGED <<status, paused, review, executed, worker, request, crashes>>

AskForReview(c, kind) ==
  /\ worker = NoWork
  /\ Len(actions) < MaxActions
  /\ actions' = Append(actions, NewAction(c, "bot", "pending_review", NoDraft))
  /\ review' = [review EXCEPT ![Len(actions) + 1] = NewReview(kind)]
  /\ SetStatus(c, "pending_review")
  /\ UNCHANGED <<paused, delivery, executed, worker, request, crashes>>

(* execute: the state to write depends on the policy outcome, on the mode  *)
(* and on the review as it is now; a pending one forces "pending_review".  *)
ReadReview(a) ==
  /\ worker = NoWork
  /\ actions[a].author = "bot" /\ review[a] # NoReview /\ delivery[a] = "none"
  /\ ~executed[a]
  /\ \E write \in Written :
       /\ Pending(a) => write = "pending_review"
       /\ worker' = [action |-> a, write |-> write]
  /\ UNCHANGED <<status, paused, actions, review, delivery, executed, request, crashes>>

WriteExecution ==
  /\ worker # NoWork
  /\ executed' = [executed EXCEPT ![worker.action] = TRUE]
  /\ SetState(worker.action, worker.write)
  /\ worker' = NoWork
  /\ UNCHANGED <<status, paused, review, delivery, request, crashes>>

(* The outcome of a delivery: the success transaction, _suppress,          *)
(* _finish_error.                                                          *)
Deliver(a) ==
  /\ delivery[a] = "pending"
  /\ delivery' = [delivery EXCEPT ![a] = "sent"]
  /\ SetState(a, "sent")
  /\ SetStatus(actions[a].conversation, "resolved")
  /\ UNCHANGED <<paused, review, executed, worker, request, crashes>>

Suppress(a) ==
  /\ delivery[a] = "pending"
  /\ delivery' = [delivery EXCEPT ![a] = "suppressed"]
  /\ SetState(a, "suppressed")
  /\ IF actions[a].author = "bot"
       THEN /\ SetStatus(actions[a].conversation, "pending_review")
            /\ review' = IF review[a] = NoReview
                           THEN [review EXCEPT ![a] = NewReview("draft")]
                           ELSE review
       ELSE UNCHANGED <<status, review>>
  /\ UNCHANGED <<paused, executed, worker, request, crashes>>

FailDelivery(a) ==
  /\ delivery[a] = "pending"
  /\ \E outcome \in {"failed", "unknown"} : delivery' = [delivery EXCEPT ![a] = outcome]
  /\ SetState(a, "delivery_failed")
  /\ review' = IF review[a] = NoReview
                 THEN [review EXCEPT ![a] = NewReview("escalation")]
                 ELSE review
  /\ SetStatus(actions[a].conversation, "pending_review")
  /\ paused' = [paused EXCEPT ![actions[a].conversation] = TRUE]
  /\ UNCHANGED <<executed, worker, request, crashes>>

-----------------------------------------------------------------------------
(* Operators: the conversation.                                            *)

SetConversation(c) ==
  /\ \E value \in {"open", "resolved"} : SetStatus(c, value)
  /\ UNCHANGED <<paused, actions, review, delivery, executed, worker, request, crashes>>

SetPaused(c) ==
  /\ \E value \in BOOLEAN :
       /\ paused' = [paused EXCEPT ![c] = value]
       /\ SetStatus(c, IF value THEN "pending_review" ELSE "open")
  /\ UNCHANGED <<actions, review, delivery, executed, worker, request, crashes>>

(* create_human_reply, for a reply that was typed or for a draft.          *)
Reply(c, draft) ==
  /\ Len(actions) < MaxActions
  /\ actions' = Append(actions, NewAction(c, "human", "queued_delivery", draft))
  /\ delivery' = [delivery EXCEPT ![Len(actions) + 1] = "pending"]
  /\ SetStatus(c, "pending_review")

HumanReply(c) ==
  /\ Reply(c, NoDraft)
  /\ UNCHANGED <<paused, review, executed, worker, request, crashes>>

-----------------------------------------------------------------------------
(* Operators: the reviews.                                                 *)

(* Mutant: a draft can be edited after it was decided.                     *)
EditDecided(a) ==
  /\ review[a].kind = "draft"
  /\ review[a].version < MaxEdits
  /\ review' = [review EXCEPT ![a].version = @ + 1]
  /\ UNCHANGED <<status, paused, actions, delivery, executed, worker, request, crashes>>

Edit(a) ==
  /\ PendingDraft(a)
  /\ review[a].version < MaxEdits
  /\ review' = [review EXCEPT ![a].version = @ + 1]
  /\ UNCHANGED <<status, paused, actions, delivery, executed, worker, request, crashes>>

(* Mutant: the review being decided still counts as pending.               *)
TransitionCountingItself(a, target) ==
  LET c == actions[a].conversation IN
    /\ Pending(a)
    /\ target = "resolved" <=> review[a].kind = "escalation"
    /\ review' = [review EXCEPT ![a].status = target]
    /\ SetState(a, target)
    /\ SetStatus(c, "pending_review")

(* transition_review: drafts are prepared or rejected, escalations are     *)
(* resolved; the conversation waits for the reviews still pending.         *)
Transition(a, target) ==
  LET c == actions[a].conversation IN
    /\ Pending(a)
    /\ target = "resolved" <=> review[a].kind = "escalation"
    /\ review' = [review EXCEPT ![a].status = target]
    /\ SetState(a, target)
    /\ SetStatus(c, IF PendingIn(c) \ {a} = {} THEN "open" ELSE "pending_review")

Decide(a) ==
  /\ \E target \in {"rejected", "resolved"} : Transition(a, target)
  /\ UNCHANGED <<paused, delivery, executed, worker, request, crashes>>

(* Mutant: the review is prepared before its reply is queued.              *)
SendReadPreparing(t, a) ==
  /\ request[t] = NoRequest
  /\ PendingDraft(a)
  /\ Transition(a, "prepared")
  /\ request' = [request EXCEPT ![t] =
       [step |-> "reply", draft |-> [review |-> a, version |-> review[a].version]]]
  /\ UNCHANGED <<paused, delivery, executed, worker, crashes>>

(* "send": the draft is read outside any transaction.                      *)
SendRead(t, a) ==
  /\ request[t] = NoRequest
  /\ PendingDraft(a)
  /\ request' = [request EXCEPT ![t] =
       [step |-> "reply", draft |-> [review |-> a, version |-> review[a].version]]]
  /\ UNCHANGED <<status, paused, actions, review, delivery, executed, worker, crashes>>

SendReply(t) ==
  /\ request[t].step = "reply"
  /\ Reply(actions[request[t].draft.review].conversation, request[t].draft)
  /\ request' = [request EXCEPT ![t].step = "prepare"]
  /\ UNCHANGED <<paused, review, executed, worker, crashes>>

(* The draft is too long for a message, or the database is busy: 400.      *)
SendRefused(t) ==
  /\ request[t].step = "reply"
  /\ request' = [request EXCEPT ![t] = NoRequest]
  /\ UNCHANGED <<status, paused, actions, review, delivery, executed, worker, crashes>>

(* transition_review comes last, unless the review was decided meanwhile.  *)
SendPrepare(t) ==
  LET a == request[t].draft.review IN
    /\ request[t].step = "prepare"
    /\ Pending(a)
    /\ Transition(a, "prepared")
    /\ request' = [request EXCEPT ![t] = NoRequest]
    /\ UNCHANGED <<paused, delivery, executed, worker, crashes>>

(* Someone else decided the review in the meantime: 409.                   *)
SendTooLate(t) ==
  /\ request[t].step = "prepare"
  /\ ~Pending(request[t].draft.review)
  /\ request' = [request EXCEPT ![t] = NoRequest]
  /\ UNCHANGED <<status, paused, actions, review, delivery, executed, worker, crashes>>

(* The dashboard stops between the two transactions of "send", or the      *)
(* worker between its read and its write.                                  *)
Crash ==
  /\ crashes < MaxCrashes
  /\ crashes' = crashes + 1
  /\ \/ request' = [t \in Threads |-> NoRequest] /\ UNCHANGED worker
     \/ worker' = NoWork /\ UNCHANGED request
  /\ UNCHANGED <<status, paused, actions, review, delivery, executed>>

-----------------------------------------------------------------------------

Send(t) ==
  \/ \E a \in Rows : SendRead(t, a)
  \/ SendReply(t) \/ SendRefused(t) \/ SendPrepare(t) \/ SendTooLate(t)

Next ==
  \/ \E c \in Conversations :
       \/ Message(c) \/ Answer(c) \/ \E kind \in {"draft", "escalation"} : AskForReview(c, kind)
       \/ SetConversation(c) \/ SetPaused(c) \/ HumanReply(c)
  \/ \E a \in Rows :
       ReadReview(a) \/ Deliver(a) \/ Suppress(a) \/ FailDelivery(a) \/ Edit(a) \/ Decide(a)
  \/ \E t \in Threads : Send(t)
  \/ WriteExecution
  \/ Crash

Spec == Init /\ [][Next]_vars

-----------------------------------------------------------------------------
(* Properties                                                              *)

Draft == [review : Row, version : 1..MaxEdits]
ActionState == {"queued_delivery", "pending_review", "suppressed", "sent", "delivery_failed",
                "executed_simulated", "prepared", "rejected", "resolved"}
ActionRow == [conversation : Conversations, author : {"bot", "human"}, state : ActionState,
              draft : Draft \cup {NoDraft}]
ReviewRow == [kind : {"draft", "escalation"}, version : 1..MaxEdits,
              status : {"pending", "prepared", "rejected", "resolved"}]

(* Type invariant: the columns hold what the schema allows, and a review   *)
(* or a delivery belongs to an action.                                     *)
TypeOK ==
  /\ status \in [Conversations -> {"open", "pending_review", "resolved"}]
  /\ paused \in [Conversations -> BOOLEAN]
  /\ actions \in Seq(ActionRow) /\ Len(actions) <= MaxActions
  /\ review \in [Row -> ReviewRow \cup {NoReview}]
  /\ delivery \in [Row -> {"none", "pending", "sent", "suppressed", "failed", "unknown"}]
  /\ executed \in [Row -> BOOLEAN]
  /\ worker \in [action : Row, write : Written] \cup {NoWork}
  /\ request \in [Threads -> [step : {"reply", "prepare"}, draft : Draft] \cup {NoRequest}]
  /\ crashes \in Nat
  /\ \A a \in Row \ Rows : review[a] = NoReview /\ delivery[a] = "none"

SentFrom(a) == {b \in Rows : actions[b].draft.review = a}

(* Whoever sees a review "prepared" may rely on a reply made from it: some *)
(* version of its draft was queued, whatever happened between the steps.   *)
PreparedWasSent ==
  \A a \in Rows : review[a].status = "prepared" => SentFrom(a) # {}

(* A conversation waits for a person only while there is something to see  *)
(* to: a pending review, a paused bot, or a human reply that is not out.   *)
WaitsForAReason ==
  \A c \in Conversations :
    status[c] = "pending_review" =>
      \/ PendingIn(c) # {}
      \/ paused[c]
      \/ \E a \in Rows : /\ actions[a].conversation = c
                         /\ actions[a].author = "human"
                         /\ delivery[a] \in {"pending", "suppressed"}

(* A decision is final: neither another operator's edit or decision nor a  *)
(* late step of the worker changes a review that is no longer pending.     *)
DecidedIsFinal ==
  [][\A a \in Row : review[a] # NoReview /\ ~Pending(a) => review'[a] = review[a]]_vars

(* "La revisió ja no està pendent": a reply is queued only from a draft    *)
(* that is pending, otherwise the request is refused.                      *)
DecidedIsNotSent ==
  [][Len(actions') > Len(actions) /\ actions'[Len(actions')].draft # NoDraft =>
       Pending(actions'[Len(actions')].draft.review)]_vars
=============================================================================
