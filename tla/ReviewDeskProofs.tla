-------------------------- MODULE ReviewDeskProofs --------------------------
(***************************************************************************)
(* Proofs about ReviewDesk for any number of threads, conversations,       *)
(* actions, edits and crashes.                                             *)
(***************************************************************************)
EXTENDS ReviewDesk, SequenceTheorems, TLAPS

-----------------------------------------------------------------------------
(* The inductive invariant.                                                *)

(* A request holds the draft of a review that exists; once its reply is    *)
(* queued there is an action made from that draft.                         *)
RequestsRefer ==
  \A t \in Threads : request[t] # NoRequest =>
    /\ request[t].draft.review \in Rows
    /\ request[t].step = "prepare" => SentFrom(request[t].draft.review) # {}

(* What the worker read is about an action that exists.                    *)
WorkRefers == worker # NoWork => worker.action \in Rows

(* A reply that waits to be sent has no review: the one it will get when   *)
(* it is suppressed or fails is new.                                       *)
QueuedIsUnreviewed == \A a \in Row : delivery[a] = "pending" => review[a] = NoReview

IInv == TypeOK /\ RequestsRefer /\ WorkRefers /\ QueuedIsUnreviewed /\ PreparedWasSent /\ WaitsForAReason

-----------------------------------------------------------------------------
(* Rows of actions: appended to, or changed in their state.                *)

LEMMA NoReviewIsNone == NoReview \notin ReviewRow /\ NoDraft \notin Draft /\ NoRequest.step = "none"
  BY ReviewDeskConstants DEF NoReview, ReviewRow, NoDraft, Draft, NoRequest, Row

LEMMA RowFields ==
  ASSUME TypeOK, NEW a \in Rows
  PROVE  actions[a].conversation \in Conversations /\ actions[a].author \in {"bot", "human"}
<1>1. actions[a] \in ActionRow
  BY DEF TypeOK, Rows
<1> QED BY <1>1 DEF ActionRow

(* What every step keeps of the rows there are.                            *)
RowsKept ==
  /\ Rows \subseteq Rows' /\ Rows' \subseteq Row
  /\ \A a \in Rows : /\ actions'[a].conversation = actions[a].conversation
                     /\ actions'[a].author = actions[a].author
                     /\ actions'[a].draft = actions[a].draft

LEMMA SameRows == ASSUME TypeOK, UNCHANGED actions PROVE RowsKept /\ Rows' = Rows
  BY ReviewDeskConstants DEF TypeOK, RowsKept, Rows, Row

LEMMA StateRows ==
  ASSUME TypeOK, NEW a \in Rows, NEW s \in ActionState, SetState(a, s)
  PROVE  /\ actions' \in Seq(ActionRow) /\ Len(actions') = Len(actions)
         /\ RowsKept /\ Rows' = Rows
<1>1. actions \in Seq(ActionRow) /\ Len(actions) <= MaxActions
  BY DEF TypeOK
<1> DEFINE row == [actions[a] EXCEPT !.state = s]
<1>a. actions[a] \in ActionRow
  BY <1>1 DEF Rows
<1>b. /\ row \in ActionRow /\ row.conversation = actions[a].conversation
      /\ row.author = actions[a].author /\ row.draft = actions[a].draft
  BY <1>a DEF ActionRow
<1>2. actions' = [actions EXCEPT ![a] = row]
  BY DEF SetState
<1> HIDE DEF row
<1>3. /\ actions' \in Seq(ActionRow) /\ Len(actions') = Len(actions)
      /\ \A b \in Rows : actions'[b] = IF b = a THEN row ELSE actions[b]
  BY <1>1, <1>2, <1>b, ExceptSeq DEF Rows
<1>4. Rows' = Rows /\ Rows \subseteq Row
  BY <1>1, <1>3, ReviewDeskConstants DEF Rows, Row
<1>5. \A b \in Rows : /\ actions'[b].conversation = actions[b].conversation
                      /\ actions'[b].author = actions[b].author
                      /\ actions'[b].draft = actions[b].draft
  BY <1>3, <1>b
<1> QED BY <1>3, <1>4, <1>5 DEF RowsKept

LEMMA AppendRows ==
  ASSUME TypeOK, Len(actions) < MaxActions, NEW row \in ActionRow,
         actions' = Append(actions, row)
  PROVE  /\ actions' \in Seq(ActionRow) /\ Len(actions') = Len(actions) + 1
         /\ RowsKept /\ Rows' = Rows \cup {Len(actions) + 1}
         /\ Len(actions) + 1 \in Row \ Rows /\ actions'[Len(actions) + 1] = row
<1>1. actions \in Seq(ActionRow) /\ Len(actions) \in Nat
  BY DEF TypeOK
<1>2. /\ actions' \in Seq(ActionRow) /\ Len(actions') = Len(actions) + 1
      /\ actions'[Len(actions) + 1] = row
      /\ \A a \in 1 .. Len(actions) : actions'[a] = actions[a]
  BY <1>1
<1>3. /\ Rows' = Rows \cup {Len(actions) + 1} /\ Rows' \subseteq Row
      /\ Len(actions) + 1 \in Row \ Rows
  BY <1>1, <1>2, ReviewDeskConstants DEF Rows, Row
<1> QED BY <1>2, <1>3 DEF RowsKept, Rows

(* Replies queued from a review stay.                                      *)
LEMMA SentStays == ASSUME RowsKept, NEW a PROVE SentFrom(a) \subseteq SentFrom(a)'
  BY DEF RowsKept, SentFrom

(* A pending review stays one that its conversation waits for, as long as  *)
(* the step does not decide it.                                            *)
LEMMA PendingStays ==
  ASSUME RowsKept, NEW c, NEW a \in PendingIn(c), Pending(a)'
  PROVE  a \in PendingIn(c)'
  BY DEF RowsKept, PendingIn

-----------------------------------------------------------------------------
(* The four safety parts after a step, from what the step does to them.    *)

LEMMA RequestsKept ==
  ASSUME RequestsRefer, RowsKept, UNCHANGED request
  PROVE  RequestsRefer'
  BY SentStays DEF RequestsRefer, RowsKept

LEMMA PreparedKept ==
  ASSUME PreparedWasSent, RowsKept,
         \A a \in Rows' : review'[a].status = "prepared" =>
            a \in Rows /\ review[a].status = "prepared"
  PROVE  PreparedWasSent'
<1> SUFFICES ASSUME NEW a \in Rows', review'[a].status = "prepared" PROVE SentFrom(a)' # {}
  BY DEF PreparedWasSent
<1>1. SentFrom(a) # {}
  BY DEF PreparedWasSent
<1> QED BY <1>1, SentStays

Unsettled(c, a) ==
  actions[a].conversation = c /\ actions[a].author = "human" /\ delivery[a] \in {"pending", "suppressed"}

(* A conversation that keeps its reason keeps waiting rightly.             *)
LEMMA ReasonStays ==
  ASSUME WaitsForAReason, RowsKept, NEW c \in Conversations,
         status[c] = "pending_review",
         paused[c] => paused'[c],
         \A a \in PendingIn(c) : Pending(a)',
         \A a \in Rows : Unsettled(c, a) => delivery'[a] \in {"pending", "suppressed"}
  PROVE  PendingIn(c)' # {} \/ paused'[c] \/ \E a \in Rows' : Unsettled(c, a)'
<1>1. CASE PendingIn(c) # {}
  BY <1>1, PendingStays
<1>2. CASE paused[c]
  BY <1>2
<1>3. CASE \E a \in Rows : Unsettled(c, a)
  BY <1>3 DEF RowsKept, Unsettled
<1> QED BY <1>1, <1>2, <1>3 DEF WaitsForAReason, Unsettled

LEMMA ReasonsKept ==
  ASSUME WaitsForAReason, RowsKept, UNCHANGED <<status, paused>>,
         \A a \in Rows : Pending(a) => Pending(a)',
         \A a \in Rows : delivery[a] \in {"pending", "suppressed"} =>
            delivery'[a] \in {"pending", "suppressed"}
  PROVE  WaitsForAReason'
<1>1. \A c \in Conversations : status'[c] = "pending_review" =>
        PendingIn(c)' # {} \/ paused'[c] \/ \E a \in Rows' : Unsettled(c, a)'
  BY ReasonStays DEF PendingIn, Unsettled
<1> QED BY <1>1 DEF WaitsForAReason, Unsettled

(* A step that touches the status of one conversation.                     *)
LEMMA ReasonsElsewhere ==
  ASSUME TypeOK, WaitsForAReason, RowsKept, NEW c \in Conversations, NEW value, SetStatus(c, value),
         \A d \in Conversations \ {c} : paused[d] => paused'[d],
         \A d \in Conversations \ {c} : \A a \in PendingIn(d) : Pending(a)',
         \A d \in Conversations \ {c} : \A a \in Rows :
            Unsettled(d, a) => delivery'[a] \in {"pending", "suppressed"},
         value = "pending_review" =>
            PendingIn(c)' # {} \/ paused'[c] \/ \E a \in Rows' : Unsettled(c, a)'
  PROVE  WaitsForAReason'
<1>1. \A d \in Conversations : status'[d] = IF d = c THEN value ELSE status[d]
  BY DEF SetStatus, TypeOK
<1>2. \A d \in Conversations \ {c} : status'[d] = "pending_review" =>
        PendingIn(d)' # {} \/ paused'[d] \/ \E a \in Rows' : Unsettled(d, a)'
  BY <1>1, ReasonStays
<1>3. \A d \in Conversations : status'[d] = "pending_review" =>
        PendingIn(d)' # {} \/ paused'[d] \/ \E a \in Rows' : Unsettled(d, a)'
  BY <1>1, <1>2
<1> QED BY <1>3 DEF WaitsForAReason, Unsettled

-----------------------------------------------------------------------------
LEMMA InitIInv == Init => IInv
<1> SUFFICES ASSUME Init PROVE IInv
  OBVIOUS
<1>1. Rows = {}
  BY DEF Init, Rows
<1>2. TypeOK
  BY <1>1, ReviewDeskConstants DEF Init, TypeOK, NoWork, NoRequest
<1> QED
  BY <1>1, <1>2
     DEF Init, IInv, RequestsRefer, WorkRefers, QueuedIsUnreviewed, PreparedWasSent,
         WaitsForAReason, NoWork, NoRequest

-----------------------------------------------------------------------------
(* Customers and operators change the status or the pause of a             *)
(* conversation.                                                           *)
LEMMA ConversationKeeps ==
  ASSUME IInv, NEW c \in Conversations, Message(c) \/ SetConversation(c) \/ SetPaused(c)
  PROVE  IInv'
<1>0. TypeOK
  BY DEF IInv
<1>1. UNCHANGED <<actions, review, delivery, executed, worker, request, crashes>>
  BY DEF Message, SetConversation, SetPaused
<1>2. RowsKept /\ Rows' = Rows
  BY <1>0, <1>1, SameRows
<1>3. PICK value \in {"open", "pending_review", "resolved"} :
        SetStatus(c, value) /\ (value = "pending_review" => paused'[c])
  BY <1>0 DEF Message, SetConversation, SetPaused, TypeOK
<1>4. /\ paused' \in [Conversations -> BOOLEAN]
      /\ \A d \in Conversations \ {c} : paused'[d] = paused[d]
  BY <1>0 DEF Message, SetConversation, SetPaused, TypeOK
<1>5. TypeOK'
  BY <1>0, <1>1, <1>2, <1>3, <1>4 DEF TypeOK, SetStatus
<1>6. RequestsRefer' /\ WorkRefers' /\ QueuedIsUnreviewed'
  BY <1>1, <1>2, RequestsKept DEF IInv, WorkRefers, QueuedIsUnreviewed
<1>7. PreparedWasSent'
  BY <1>1, <1>2, PreparedKept DEF IInv
<1>8. WaitsForAReason'
  BY <1>0, <1>1, <1>2, <1>3, <1>4, ReasonsElsewhere DEF IInv, Pending, PendingIn, Unsettled
<1> QED BY <1>5, <1>6, <1>7, <1>8 DEF IInv

-----------------------------------------------------------------------------
(* New rows.                                                               *)

LEMMA NewRowType ==
  ASSUME NEW c \in Conversations, NEW author \in {"bot", "human"},
         NEW state \in ActionState, NEW draft \in Draft \cup {NoDraft}
  PROVE  /\ NewAction(c, author, state, draft) \in ActionRow
         /\ NewAction(c, author, state, draft).conversation = c
         /\ NewAction(c, author, state, draft).author = author
         /\ NewAction(c, author, state, draft).draft = draft
  BY DEF NewAction, ActionRow

LEMMA NewReviewType ==
  ASSUME NEW kind \in {"draft", "escalation"}
  PROVE  NewReview(kind) \in ReviewRow /\ NewReview(kind).status = "pending"
  BY ReviewDeskConstants DEF NewReview, ReviewRow

LEMMA AnswerKeeps ==
  ASSUME IInv, NEW c \in Conversations, Answer(c)
  PROVE  IInv'
<1> DEFINE a == Len(actions) + 1
           row == NewAction(c, "bot", "queued_delivery", NoDraft)
<1>0. TypeOK
  BY DEF IInv
<1>1. /\ Len(actions) < MaxActions /\ actions' = Append(actions, row)
      /\ delivery' = [delivery EXCEPT ![a] = "pending"]
      /\ UNCHANGED <<status, paused, review, executed, worker, request, crashes>>
  BY DEF Answer
<1>2. row \in ActionRow
  BY NewRowType DEF ActionState
<1> HIDE DEF row
<1>3. /\ actions' \in Seq(ActionRow) /\ Len(actions') = Len(actions) + 1
      /\ RowsKept /\ Rows' = Rows \cup {a} /\ a \in Row \ Rows
  BY <1>0, <1>1, <1>2, AppendRows
<1>4. review[a] = NoReview /\ Len(actions') <= MaxActions
  BY <1>0, <1>3 DEF TypeOK, RowsKept, Rows, Row
<1> HIDE DEF a
<1>5. /\ delivery' \in [Row -> {"none", "pending", "sent", "suppressed", "failed", "unknown"}]
      /\ \A b \in Row \ {a} : delivery'[b] = delivery[b]
  BY <1>0, <1>1 DEF TypeOK
<1>6. TypeOK'
  BY <1>0, <1>1, <1>3, <1>4, <1>5 DEF TypeOK
<1>7. RequestsRefer' /\ WorkRefers' /\ QueuedIsUnreviewed'
  BY <1>1, <1>3, <1>4, <1>5, RequestsKept DEF IInv, WorkRefers, QueuedIsUnreviewed
<1>8. PreparedWasSent'
  BY <1>1, <1>3, <1>4, PreparedKept DEF IInv, NoReview
<1>9. \A b \in Rows : b \in Row \ {a}
  BY <1>3 DEF RowsKept
<1>10. WaitsForAReason'
  BY <1>1, <1>3, <1>5, <1>9, ReasonsKept DEF IInv, Pending
<1> QED BY <1>6, <1>7, <1>8, <1>10 DEF IInv

LEMMA AskForReviewKeeps ==
  ASSUME IInv, NEW c \in Conversations, NEW kind \in {"draft", "escalation"}, AskForReview(c, kind)
  PROVE  IInv'
<1> DEFINE a == Len(actions) + 1
           row == NewAction(c, "bot", "pending_review", NoDraft)
<1>0. TypeOK
  BY DEF IInv
<1>1. /\ Len(actions) < MaxActions /\ actions' = Append(actions, row)
      /\ review' = [review EXCEPT ![a] = NewReview(kind)]
      /\ SetStatus(c, "pending_review")
      /\ UNCHANGED <<paused, delivery, executed, worker, request, crashes>>
  BY DEF AskForReview
<1>2. row \in ActionRow /\ row.conversation = c
  BY NewRowType DEF ActionState
<1> HIDE DEF row
<1>3. /\ actions' \in Seq(ActionRow) /\ Len(actions') = Len(actions) + 1
      /\ RowsKept /\ Rows' = Rows \cup {a} /\ a \in Row \ Rows /\ actions'[a] = row
  BY <1>0, <1>1, <1>2, AppendRows
<1>4. delivery[a] = "none" /\ Len(actions') <= MaxActions
  BY <1>0, <1>3 DEF TypeOK, RowsKept, Rows, Row
<1> HIDE DEF a
<1>5. /\ review' \in [Row -> ReviewRow \cup {NoReview}]
      /\ \A b \in Row \ {a} : review'[b] = review[b]
      /\ review'[a].status = "pending"
  BY <1>0, <1>1, <1>3, NewReviewType DEF TypeOK
<1>6. TypeOK'
  BY <1>0, <1>1, <1>3, <1>4, <1>5 DEF TypeOK, SetStatus
<1>7. RequestsRefer' /\ WorkRefers' /\ QueuedIsUnreviewed'
  BY <1>1, <1>3, <1>4, <1>5, RequestsKept DEF IInv, WorkRefers, QueuedIsUnreviewed
<1>9. \A b \in Rows : b \in Row \ {a}
  BY <1>3 DEF RowsKept
<1>8. PreparedWasSent'
  BY <1>3, <1>5, <1>9, PreparedKept DEF IInv
<1>10. a \in PendingIn(c)'
  BY <1>2, <1>3, <1>5 DEF PendingIn, Pending
<1>11. WaitsForAReason'
  BY <1>0, <1>1, <1>3, <1>5, <1>9, <1>10, ReasonsElsewhere DEF IInv, Pending, PendingIn, Unsettled
<1> QED BY <1>6, <1>7, <1>8, <1>11 DEF IInv

(* create_human_reply, from whatever request.                              *)
LEMMA ReplyKeeps ==
  ASSUME IInv, NEW c \in Conversations, NEW draft \in Draft \cup {NoDraft}, Reply(c, draft),
         UNCHANGED <<paused, review, executed, worker, crashes>>,
         request' \in [Threads -> [step : {"reply", "prepare"}, draft : Draft] \cup {NoRequest}],
         RequestsRefer'
  PROVE  IInv'
<1> DEFINE a == Len(actions) + 1
           row == NewAction(c, "human", "queued_delivery", draft)
<1>0. TypeOK
  BY DEF IInv
<1>1. /\ Len(actions) < MaxActions /\ actions' = Append(actions, row)
      /\ delivery' = [delivery EXCEPT ![a] = "pending"]
      /\ SetStatus(c, "pending_review")
  BY DEF Reply
<1>2. row \in ActionRow /\ row.conversation = c /\ row.author = "human"
  BY NewRowType DEF ActionState
<1> HIDE DEF row
<1>3. /\ actions' \in Seq(ActionRow) /\ Len(actions') = Len(actions) + 1
      /\ RowsKept /\ Rows' = Rows \cup {a} /\ a \in Row \ Rows /\ actions'[a] = row
  BY <1>0, <1>1, <1>2, AppendRows
<1>4. review[a] = NoReview /\ Len(actions') <= MaxActions
  BY <1>0, <1>3 DEF TypeOK, RowsKept, Rows, Row
<1> HIDE DEF a
<1>5. /\ delivery' \in [Row -> {"none", "pending", "sent", "suppressed", "failed", "unknown"}]
      /\ \A b \in Row \ {a} : delivery'[b] = delivery[b]
      /\ delivery'[a] = "pending"
  BY <1>0, <1>1, <1>3 DEF TypeOK
<1>6. TypeOK'
  BY <1>0, <1>1, <1>3, <1>4, <1>5 DEF TypeOK, SetStatus
<1>7. WorkRefers' /\ QueuedIsUnreviewed'
  BY <1>3, <1>4, <1>5 DEF IInv, WorkRefers, QueuedIsUnreviewed
<1>8. PreparedWasSent'
  BY <1>3, <1>4, PreparedKept DEF IInv, NoReview
<1>9. \A b \in Rows : b \in Row \ {a}
  BY <1>3 DEF RowsKept
<1>10. \E b \in Rows' : Unsettled(c, b)'
  BY <1>2, <1>3, <1>5 DEF Unsettled
<1>11. WaitsForAReason'
  BY <1>0, <1>1, <1>3, <1>5, <1>9, <1>10, ReasonsElsewhere DEF IInv, Pending, PendingIn, Unsettled
<1> QED BY <1>6, <1>7, <1>8, <1>11 DEF IInv

-----------------------------------------------------------------------------
(* The worker.                                                             *)

LEMMA WorkKeeps ==
  ASSUME IInv, WriteExecution \/ \E a \in Rows : ReadReview(a)
  PROVE  IInv'
<1>0. TypeOK /\ WorkRefers
  BY DEF IInv
<1>1. UNCHANGED <<status, paused, review, delivery, request, crashes>>
  BY DEF WriteExecution, ReadReview
<1>2. /\ actions' \in Seq(ActionRow) /\ Len(actions') = Len(actions)
      /\ RowsKept /\ Rows' = Rows
  <2>1. CASE WriteExecution
    <3>1. /\ worker.action \in Rows /\ worker.write \in ActionState
          /\ SetState(worker.action, worker.write)
      BY <1>0, <2>1 DEF WriteExecution, WorkRefers, TypeOK, Written, ActionState
    <3> QED BY <1>0, <3>1, StateRows
  <2>2. CASE \E a \in Rows : ReadReview(a)
    BY <1>0, <2>2, SameRows DEF ReadReview, TypeOK
  <2> QED BY <2>1, <2>2
<1>3. /\ executed' \in [Row -> BOOLEAN]
      /\ worker' \in [action : Row, write : Written] \cup {NoWork}
      /\ WorkRefers'
  <2>1. CASE WriteExecution
    BY <1>0, <2>1 DEF WriteExecution, TypeOK, WorkRefers
  <2>2. CASE \E a \in Rows : ReadReview(a)
    <3>1. PICK a \in Rows, write \in Written : worker' = [action |-> a, write |-> write]
      BY <2>2 DEF ReadReview
    <3>2. a \in Row
      BY <1>2 DEF RowsKept
    <3> QED BY <1>0, <1>2, <2>2, <3>1, <3>2 DEF ReadReview, TypeOK, WorkRefers
  <2> QED BY <2>1, <2>2
<1>4. TypeOK'
  BY <1>0, <1>1, <1>2, <1>3 DEF TypeOK
<1>5. RequestsRefer' /\ QueuedIsUnreviewed'
  BY <1>1, <1>2, RequestsKept DEF IInv, QueuedIsUnreviewed
<1>6. PreparedWasSent' /\ WaitsForAReason'
  BY <1>1, <1>2, PreparedKept, ReasonsKept DEF IInv, Pending
<1> QED BY <1>3, <1>4, <1>5, <1>6 DEF IInv

(* The outcome of a delivery.  The review it may create is new.            *)
LEMMA OutcomeKeeps ==
  ASSUME IInv, NEW a \in Rows, Deliver(a) \/ Suppress(a) \/ FailDelivery(a)
  PROVE  IInv'
<1>0. TypeOK /\ a \in Row /\ review[a] = NoReview /\ actions[a].author \in {"bot", "human"}
  <2>1. TypeOK
    BY DEF IInv
  <2>2. a \in Row
    BY <2>1, ReviewDeskConstants DEF TypeOK, Rows, Row
  <2>3. actions[a].author \in {"bot", "human"}
    BY <2>1, RowFields
  <2> QED
    BY <2>1, <2>2, <2>3
       DEF IInv, QueuedIsUnreviewed, Deliver, Suppress, FailDelivery
<1>c. PICK c \in Conversations : c = actions[a].conversation
  BY <1>0, RowFields
<1>1. UNCHANGED <<executed, worker, request, crashes>>
  BY DEF Deliver, Suppress, FailDelivery
<1>2. PICK state \in ActionState : SetState(a, state)
  BY DEF Deliver, Suppress, FailDelivery, ActionState
<1>3. /\ actions' \in Seq(ActionRow) /\ Len(actions') = Len(actions)
      /\ RowsKept /\ Rows' = Rows
  BY <1>0, <1>2, StateRows
<1>4. PICK outcome \in {"sent", "suppressed", "failed", "unknown"} :
        delivery' = [delivery EXCEPT ![a] = outcome]
  BY DEF Deliver, Suppress, FailDelivery
<1>5. /\ delivery' \in [Row -> {"none", "pending", "sent", "suppressed", "failed", "unknown"}]
      /\ \A b \in Row \ {a} : delivery'[b] = delivery[b]
      /\ delivery'[a] = outcome
  BY <1>0, <1>4 DEF TypeOK
<1>6. review' = review \/ \E kind \in {"draft", "escalation"} :
        review' = [review EXCEPT ![a] = NewReview(kind)]
  BY <1>0 DEF Deliver, Suppress, FailDelivery
<1>7. /\ review' \in [Row -> ReviewRow \cup {NoReview}]
      /\ \A b \in Row \ {a} : review'[b] = review[b]
      /\ review'[a].status # "prepared"
      /\ review' # review => review'[a].status = "pending"
  BY <1>0, <1>6, NewReviewType DEF TypeOK, NoReview
<1>8. /\ status' \in [Conversations -> {"open", "pending_review", "resolved"}]
      /\ paused' \in [Conversations -> BOOLEAN]
      /\ \A d \in Conversations : paused[d] => paused'[d]
  BY <1>0 DEF Deliver, Suppress, FailDelivery, SetStatus, TypeOK
<1>9. TypeOK'
  BY <1>0, <1>1, <1>3, <1>5, <1>7, <1>8 DEF TypeOK
<1>10. RequestsRefer' /\ WorkRefers' /\ QueuedIsUnreviewed'
  BY <1>0, <1>1, <1>3, <1>5, <1>7, RequestsKept DEF IInv, WorkRefers, QueuedIsUnreviewed
<1>11. Rows \subseteq Row
  BY <1>3 DEF RowsKept
<1>12. PreparedWasSent'
  BY <1>3, <1>7, <1>11, PreparedKept DEF IInv
<1>13. \A b \in Rows : Pending(b) => Pending(b)'
  BY <1>0, <1>7, <1>11 DEF Pending, NoReview
<1>14. \A d \in Conversations \ {c} : \A b \in Rows :
         Unsettled(d, b) => delivery'[b] \in {"pending", "suppressed"}
  BY <1>5, <1>11, <1>c DEF Unsettled
<1>15. WaitsForAReason'
  <2>1. CASE Deliver(a)
    <3>1. SetStatus(c, "resolved")
      BY <1>c, <2>1 DEF Deliver
    <3> QED
      BY <1>0, <1>3, <1>8, <1>13, <1>14, <3>1, ReasonsElsewhere DEF IInv, PendingIn
  <2>2. CASE FailDelivery(a)
    <3>1. SetStatus(c, "pending_review") /\ paused'[c]
      BY <1>0, <1>c, <2>2 DEF FailDelivery, TypeOK
    <3> QED
      BY <1>0, <1>3, <1>8, <1>13, <1>14, <3>1, ReasonsElsewhere DEF IInv, PendingIn
  <2>3. CASE Suppress(a) /\ actions[a].author = "bot"
    <3>1. SetStatus(c, "pending_review") /\ review' = [review EXCEPT ![a] = NewReview("draft")]
      BY <1>0, <1>c, <2>3 DEF Suppress
    <3>2. review'[a].status = "pending"
      BY <1>0, <3>1, NewReviewType DEF TypeOK
    <3>3. a \in PendingIn(c)'
      BY <1>3, <1>c, <3>2 DEF PendingIn, Pending, RowsKept
    <3> QED
      BY <1>0, <1>3, <1>8, <1>13, <1>14, <3>1, <3>3, ReasonsElsewhere DEF IInv, PendingIn
  <2>4. CASE Suppress(a) /\ actions[a].author # "bot"
    <3>1. UNCHANGED <<status, review, paused>> /\ delivery'[a] = "suppressed"
      BY <1>0, <2>4 DEF Suppress, TypeOK
    <3>2. \A b \in Rows : delivery[b] \in {"pending", "suppressed"} =>
            delivery'[b] \in {"pending", "suppressed"}
      BY <1>5, <1>11, <3>1
    <3> QED
      BY <1>3, <1>13, <3>1, <3>2, ReasonsKept DEF IInv
  <2> QED BY <2>1, <2>2, <2>3, <2>4
<1> QED BY <1>9, <1>10, <1>12, <1>15 DEF IInv

-----------------------------------------------------------------------------
(* The reviews.                                                            *)

LEMMA EditKeeps ==
  ASSUME IInv, NEW a \in Rows, Edit(a)
  PROVE  IInv'
<1>0. TypeOK
  BY DEF IInv
<1>1. /\ review' = [review EXCEPT ![a].version = @ + 1]
      /\ Pending(a) /\ review[a].version < MaxEdits
      /\ UNCHANGED <<status, paused, actions, delivery, executed, worker, request, crashes>>
  BY DEF Edit, PendingDraft
<1>2. RowsKept /\ Rows' = Rows /\ Rows \subseteq Row
  BY <1>0, <1>1, SameRows DEF RowsKept
<1>3. review[a] \in ReviewRow
  BY <1>0, <1>1, <1>2 DEF TypeOK, Pending, NoReview
<1>4. [review[a] EXCEPT !.version = @ + 1] \in ReviewRow
      /\ [review[a] EXCEPT !.version = @ + 1].status = "pending"
  BY <1>1, <1>3, ReviewDeskConstants DEF ReviewRow, Pending
<1>5. /\ review' \in [Row -> ReviewRow \cup {NoReview}]
      /\ \A b \in Row \ {a} : review'[b] = review[b]
      /\ review'[a].status = "pending"
  BY <1>0, <1>1, <1>2, <1>4 DEF TypeOK
<1>6. TypeOK'
  BY <1>0, <1>1, <1>2, <1>5 DEF TypeOK
<1>7. review[a] # NoReview
  BY <1>1 DEF Pending, NoReview
<1>8. RequestsRefer' /\ WorkRefers' /\ QueuedIsUnreviewed'
  BY <1>1, <1>2, <1>5, <1>7, RequestsKept DEF IInv, WorkRefers, QueuedIsUnreviewed
<1>9. PreparedWasSent' /\ WaitsForAReason'
  BY <1>1, <1>2, <1>5, PreparedKept, ReasonsKept DEF IInv, Pending
<1> QED BY <1>6, <1>8, <1>9 DEF IInv

(* Every decision, whatever request it comes from.                         *)
LEMMA TransitionKeeps ==
  ASSUME IInv, NEW a \in Rows, NEW target \in {"prepared", "rejected", "resolved"},
         Transition(a, target), target = "prepared" => SentFrom(a) # {},
         UNCHANGED <<paused, delivery, executed, worker, crashes>>,
         request' \in [Threads -> [step : {"reply", "prepare"}, draft : Draft] \cup {NoRequest}],
         \A t \in Threads : request'[t] # NoRequest => request'[t] = request[t]
  PROVE  IInv'
<1>0. TypeOK
  BY DEF IInv
<1>c. PICK c \in Conversations : c = actions[a].conversation
  BY <1>0, RowFields
<1>v. PICK value \in {"open", "pending_review"} :
        value = IF PendingIn(c) \ {a} = {} THEN "open" ELSE "pending_review"
  OBVIOUS
<1>1. /\ Pending(a) /\ review' = [review EXCEPT ![a].status = target]
      /\ SetState(a, target) /\ SetStatus(c, value)
  BY <1>c, <1>v DEF Transition
<1>2. /\ actions' \in Seq(ActionRow) /\ Len(actions') = Len(actions)
      /\ RowsKept /\ Rows' = Rows /\ Rows \subseteq Row
  BY <1>0, <1>1, StateRows DEF RowsKept, ActionState
<1>3. review[a] \in ReviewRow /\ review[a] # NoReview
  BY <1>0, <1>1, <1>2 DEF TypeOK, Pending, NoReview
<1>4. [review[a] EXCEPT !.status = target] \in ReviewRow
  BY <1>3 DEF ReviewRow
<1>5. /\ review' \in [Row -> ReviewRow \cup {NoReview}]
      /\ \A b \in Row \ {a} : review'[b] = review[b]
      /\ review'[a].status = target
  BY <1>0, <1>1, <1>2, <1>3, <1>4 DEF TypeOK, ReviewRow
<1>a. value = "pending_review" => PendingIn(c)' # {}
  BY <1>2, <1>5, <1>v, PendingStays DEF PendingIn, Pending
<1>b. \A d \in Conversations \ {c} : \A b \in PendingIn(d) : Pending(b)'
  BY <1>2, <1>5, <1>c DEF PendingIn, Pending
<1>8. TypeOK'
  <2>1. status' \in [Conversations -> {"open", "pending_review", "resolved"}]
    BY <1>0, <1>1 DEF TypeOK, SetStatus
  <2> QED BY <1>0, <1>2, <1>5, <2>1 DEF TypeOK
<1>9. RequestsRefer'
  BY <1>2, SentStays DEF IInv, RequestsRefer
<1>10. WorkRefers' /\ QueuedIsUnreviewed'
  BY <1>2, <1>3, <1>5 DEF IInv, WorkRefers, QueuedIsUnreviewed
<1>11. PreparedWasSent'
  BY <1>2, <1>5, SentStays DEF IInv, PreparedWasSent
<1>12. WaitsForAReason'
  BY <1>0, <1>1, <1>2, <1>a, <1>b, ReasonsElsewhere DEF IInv, Unsettled
<1> QED BY <1>8, <1>9, <1>10, <1>11, <1>12 DEF IInv

LEMMA DecideKeeps == ASSUME IInv, NEW a \in Rows, Decide(a) PROVE IInv'
<1>1. PICK target \in {"rejected", "resolved"} : Transition(a, target)
  BY DEF Decide
<1>2. UNCHANGED <<paused, delivery, executed, worker, request, crashes>>
  BY DEF Decide
<1>3. request' \in [Threads -> [step : {"reply", "prepare"}, draft : Draft] \cup {NoRequest}]
  BY <1>2 DEF IInv, TypeOK
<1> QED BY <1>1, <1>2, <1>3, TransitionKeeps

-----------------------------------------------------------------------------
(* Sending a draft.                                                        *)

(* The steps that touch nothing but the request.                           *)
LEMMA RequestKeeps ==
  ASSUME IInv,
         UNCHANGED <<status, paused, actions, review, delivery, executed, worker, crashes>>,
         request' \in [Threads -> [step : {"reply", "prepare"}, draft : Draft] \cup {NoRequest}],
         RequestsRefer'
  PROVE  IInv'
<1>1. TypeOK
  BY DEF IInv
<1>2. RowsKept /\ Rows' = Rows
  BY <1>1, SameRows
<1>3. TypeOK'
  BY <1>1, <1>2 DEF TypeOK
<1>4. WorkRefers' /\ QueuedIsUnreviewed' /\ PreparedWasSent' /\ WaitsForAReason'
  BY <1>2, PreparedKept, ReasonsKept DEF IInv, WorkRefers, QueuedIsUnreviewed, Pending
<1> QED BY <1>3, <1>4 DEF IInv

LEMMA SendReadKeeps == ASSUME IInv, NEW t \in Threads, NEW a \in Rows, SendRead(t, a) PROVE IInv'
<1> DEFINE reading == [step |-> "reply", draft |-> [review |-> a, version |-> review[a].version]]
<1>0. TypeOK
  BY DEF IInv
<1>1. /\ Pending(a) /\ request' = [request EXCEPT ![t] = reading]
      /\ UNCHANGED <<status, paused, actions, review, delivery, executed, worker, crashes>>
  BY DEF SendRead, PendingDraft
<1>2. RowsKept /\ Rows' = Rows /\ a \in Row
  BY <1>0, <1>1, SameRows DEF RowsKept
<1>3. review[a] \in ReviewRow
  BY <1>0, <1>1, <1>2 DEF TypeOK, Pending, NoReview
<1>4. /\ reading \in [step : {"reply", "prepare"}, draft : Draft]
      /\ reading.step = "reply" /\ reading.draft.review = a
  BY <1>2, <1>3 DEF ReviewRow, Draft
<1> HIDE DEF reading
<1>5. request' \in [Threads -> [step : {"reply", "prepare"}, draft : Draft] \cup {NoRequest}]
  BY <1>0, <1>1, <1>4 DEF TypeOK
<1>6. RequestsRefer'
  <2> SUFFICES ASSUME NEW u \in Threads, request'[u] # NoRequest,
                      NEW b, b = request'[u].draft.review
               PROVE  b \in Rows /\ (request'[u].step = "prepare" => SentFrom(b)' # {})
    BY <1>2 DEF RequestsRefer
  <2>1. CASE u = t
    BY <1>0, <1>1, <1>4, <2>1 DEF TypeOK
  <2>2. CASE u # t
    <3>1. request'[u] = request[u]
      BY <1>0, <1>1, <2>2 DEF TypeOK
    <3> QED BY <1>2, <3>1, SentStays DEF IInv, RequestsRefer
  <2> QED BY <2>1, <2>2
<1> QED BY <1>1, <1>5, <1>6, RequestKeeps

LEMMA SendEndsKeeps == ASSUME IInv, NEW t \in Threads, SendRefused(t) \/ SendTooLate(t) PROVE IInv'
<1>0. TypeOK
  BY DEF IInv
<1>1. /\ request' = [request EXCEPT ![t] = NoRequest]
      /\ UNCHANGED <<status, paused, actions, review, delivery, executed, worker, crashes>>
  BY DEF SendRefused, SendTooLate
<1>2. request' \in [Threads -> [step : {"reply", "prepare"}, draft : Draft] \cup {NoRequest}]
  BY <1>0, <1>1 DEF TypeOK
<1>3. RowsKept
  BY <1>0, <1>1, SameRows
<1>4. \A u \in Threads : request'[u] # NoRequest => request'[u] = request[u]
  BY <1>0, <1>1 DEF TypeOK
<1>5. RequestsRefer'
  BY <1>3, <1>4, SentStays DEF IInv, RequestsRefer, RowsKept
<1> QED BY <1>1, <1>2, <1>5, RequestKeeps

(* The reply that was queued is the one PreparedWasSent asks for.          *)
LEMMA SendReplyKeeps == ASSUME IInv, NEW t \in Threads, SendReply(t) PROVE IInv'
<1>0. TypeOK
  BY DEF IInv
<1>1. PICK draft \in Draft : request[t] = [step |-> "reply", draft |-> draft]
  BY <1>0, NoReviewIsNone DEF SendReply, TypeOK
<1>2. draft.review \in Rows /\ request[t].draft = draft
  BY <1>1, NoReviewIsNone DEF IInv, RequestsRefer
<1>3. PICK c \in Conversations : c = actions[draft.review].conversation
  BY <1>0, <1>2, RowFields
<1>4. /\ Reply(c, draft)
      /\ request' = [request EXCEPT ![t].step = "prepare"]
      /\ UNCHANGED <<paused, review, executed, worker, crashes>>
  BY <1>2, <1>3 DEF SendReply
<1>5. /\ request' \in [Threads -> [step : {"reply", "prepare"}, draft : Draft] \cup {NoRequest}]
      /\ request'[t].draft = draft
      /\ \A u \in Threads \ {t} : request'[u] = request[u]
  <2>1. [request[t] EXCEPT !.step = "prepare"] = [step |-> "prepare", draft |-> draft]
    BY <1>1
  <2>2. [step |-> "prepare", draft |-> draft] \in [step : {"reply", "prepare"}, draft : Draft]
    OBVIOUS
  <2> QED BY <1>0, <1>4, <2>1, <2>2 DEF TypeOK
<1>6. RowsKept /\ SentFrom(draft.review)' # {}
  <2> DEFINE row == NewAction(c, "human", "queued_delivery", draft)
  <2>1. row \in ActionRow /\ row.draft = draft
    BY NewRowType DEF ActionState
  <2>2. Len(actions) < MaxActions /\ actions' = Append(actions, row)
    BY <1>4 DEF Reply
  <2> HIDE DEF row
  <2>3. /\ RowsKept /\ Rows' = Rows \cup {Len(actions) + 1}
        /\ actions'[Len(actions) + 1] = row
    BY <1>0, <2>1, <2>2, AppendRows
  <2> QED BY <1>2, <2>1, <2>3 DEF SentFrom, RowsKept
<1>7. RequestsRefer'
  BY <1>2, <1>5, <1>6, SentStays DEF IInv, RequestsRefer, RowsKept
<1> QED BY <1>4, <1>5, <1>7, ReplyKeeps

LEMMA SendPrepareKeeps == ASSUME IInv, NEW t \in Threads, SendPrepare(t) PROVE IInv'
<1>0. TypeOK
  BY DEF IInv
<1>1. PICK a \in Rows : a = request[t].draft.review /\ SentFrom(a) # {}
  BY NoReviewIsNone DEF SendPrepare, IInv, RequestsRefer
<1>2. /\ Transition(a, "prepared")
      /\ request' = [request EXCEPT ![t] = NoRequest]
      /\ UNCHANGED <<paused, delivery, executed, worker, crashes>>
  BY <1>1 DEF SendPrepare
<1>3. /\ request' \in [Threads -> [step : {"reply", "prepare"}, draft : Draft] \cup {NoRequest}]
      /\ \A u \in Threads : request'[u] # NoRequest => request'[u] = request[u]
  BY <1>0, <1>2 DEF TypeOK
<1> QED BY <1>1, <1>2, <1>3, TransitionKeeps

LEMMA HumanReplyKeeps == ASSUME IInv, NEW c \in Conversations, HumanReply(c) PROVE IInv'
<1>0. TypeOK
  BY DEF IInv
<1>1. /\ Reply(c, NoDraft)
      /\ UNCHANGED <<paused, review, executed, worker, request, crashes>>
  BY DEF HumanReply
<1>2. request' \in [Threads -> [step : {"reply", "prepare"}, draft : Draft] \cup {NoRequest}]
  BY <1>0, <1>1 DEF TypeOK
<1> DEFINE row == NewAction(c, "human", "queued_delivery", NoDraft)
<1>3. row \in ActionRow
  BY NewRowType DEF ActionState
<1>4. Len(actions) < MaxActions /\ actions' = Append(actions, row)
  BY <1>1 DEF Reply
<1> HIDE DEF row
<1>5. RowsKept
  BY <1>0, <1>3, <1>4, AppendRows
<1>6. RequestsRefer'
  BY <1>1, <1>5, RequestsKept DEF IInv
<1> QED BY <1>1, <1>2, <1>6, ReplyKeeps

(* A crash forgets the requests or what the worker read.                   *)
LEMMA CrashKeeps == ASSUME IInv, Crash PROVE IInv'
<1>0. TypeOK
  BY DEF IInv
<1>1. /\ UNCHANGED <<status, paused, actions, review, delivery, executed>>
      /\ crashes' \in Nat
      /\ request' = request \/ request' = [t \in Threads |-> NoRequest]
      /\ worker' = worker \/ worker' = NoWork
  BY <1>0 DEF Crash, TypeOK
<1>2. RowsKept /\ Rows' = Rows
  BY <1>0, <1>1, SameRows
<1>3. TypeOK'
  BY <1>0, <1>1, <1>2 DEF TypeOK
<1>4. RequestsRefer'
  BY <1>1, <1>2, RequestsKept DEF IInv, RequestsRefer
<1>5. WorkRefers' /\ QueuedIsUnreviewed' /\ PreparedWasSent' /\ WaitsForAReason'
  BY <1>1, <1>2, PreparedKept, ReasonsKept DEF IInv, WorkRefers, QueuedIsUnreviewed, Pending
<1> QED BY <1>3, <1>4, <1>5 DEF IInv

LEMMA StutterKeeps == IInv /\ UNCHANGED vars => IInv'
  BY DEF IInv, TypeOK, RequestsRefer, WorkRefers, QueuedIsUnreviewed, PreparedWasSent,
         WaitsForAReason, SentFrom, Pending, PendingIn, Rows, vars

LEMMA NextIInv == IInv /\ [Next]_vars => IInv'
<1> SUFFICES ASSUME IInv, [Next]_vars PROVE IInv'
  OBVIOUS
<1>1. ASSUME NEW c \in Conversations,
             \/ Message(c) \/ Answer(c) \/ \E kind \in {"draft", "escalation"} : AskForReview(c, kind)
             \/ SetConversation(c) \/ SetPaused(c) \/ HumanReply(c)
      PROVE  IInv'
  BY <1>1, ConversationKeeps, AnswerKeeps, AskForReviewKeeps, HumanReplyKeeps
<1>2. ASSUME NEW a \in Rows,
             ReadReview(a) \/ Deliver(a) \/ Suppress(a) \/ FailDelivery(a) \/ Edit(a) \/ Decide(a)
      PROVE  IInv'
  BY <1>2, WorkKeeps, OutcomeKeeps, EditKeeps, DecideKeeps
<1>3. ASSUME NEW t \in Threads, Send(t) PROVE IInv'
  BY <1>3, SendReadKeeps, SendReplyKeeps, SendEndsKeeps, SendPrepareKeeps DEF Send
<1> QED BY <1>1, <1>2, <1>3, WorkKeeps, CrashKeeps, StutterKeeps DEF Next

LEMMA Invariance == Spec => []IInv
<1> QED BY InitIInv, NextIInv, PTL DEF Spec

-----------------------------------------------------------------------------
(* Theorems                                                                *)

(* The tables hold what the schema allows, however the dashboard's         *)
(* threads, the worker and their crashes interleave.                       *)
THEOREM TypeCorrect == Spec => []TypeOK
<1>1. IInv => TypeOK
  BY DEF IInv
<1> QED BY <1>1, Invariance, PTL

(* web.py marks a draft prepared only after its reply is in the outbox.    *)
THEOREM PreparedCorrect == Spec => []PreparedWasSent
<1>1. IInv => PreparedWasSent
  BY DEF IInv
<1> QED BY <1>1, Invariance, PTL

(* workspace.py and delivery.py leave no conversation in pending_review    *)
(* without something for a person to do.                                   *)
THEOREM WaitingCorrect == Spec => []WaitsForAReason
<1>1. IInv => WaitsForAReason
  BY DEF IInv
<1> QED BY <1>1, Invariance, PTL

DecisionStep == \A a \in Row : review[a] # NoReview /\ ~Pending(a) => review'[a] = review[a]

LEMMA DecisionKept == ASSUME IInv, [Next]_vars PROVE DecisionStep
<1>0. TypeOK /\ Rows \subseteq Row
  BY SameRows, ReviewDeskConstants DEF IInv, TypeOK, Rows, Row
<1>1. CASE UNCHANGED review
  BY <1>1 DEF DecisionStep
<1>2. ASSUME NEW c \in Conversations, NEW kind \in {"draft", "escalation"}, AskForReview(c, kind)
      PROVE  DecisionStep
  <2>1. Len(actions) + 1 \in Row \ Rows \/ Len(actions) + 1 \notin Row
    BY <1>0 DEF TypeOK, Rows
  <2> QED BY <1>0, <1>2, <2>1 DEF DecisionStep, AskForReview, TypeOK
<1>3. ASSUME NEW a \in Rows, Suppress(a) \/ FailDelivery(a) PROVE DecisionStep
  BY <1>0, <1>3 DEF DecisionStep, Suppress, FailDelivery, TypeOK
<1>4. ASSUME NEW a \in Rows, Pending(a),
             review' = [review EXCEPT ![a].version = @ + 1]
             \/ \E target : review' = [review EXCEPT ![a].status = target]
      PROVE  DecisionStep
  BY <1>0, <1>4 DEF DecisionStep, TypeOK
<1>5. ASSUME NEW a \in Rows, Edit(a) \/ Decide(a) PROVE DecisionStep
  BY <1>4, <1>5 DEF Edit, PendingDraft, Decide, Transition
<1>6. ASSUME NEW t \in Threads, SendPrepare(t) PROVE DecisionStep
  <2>1. request[t].draft.review \in Rows
    BY <1>6, NoReviewIsNone DEF SendPrepare, IInv, RequestsRefer
  <2> QED BY <1>4, <1>6, <2>1 DEF SendPrepare, Transition
<1>7. ASSUME NEW t \in Threads, Send(t) PROVE DecisionStep
  BY <1>1, <1>6, <1>7 DEF Send, SendRead, SendReply, SendRefused, SendTooLate
<1>8. ASSUME NEW c \in Conversations,
             Message(c) \/ Answer(c) \/ SetConversation(c) \/ SetPaused(c) \/ HumanReply(c)
      PROVE  DecisionStep
  BY <1>1, <1>8 DEF Message, Answer, SetConversation, SetPaused, HumanReply
<1>9. ASSUME NEW a \in Rows, ReadReview(a) \/ Deliver(a) PROVE DecisionStep
  BY <1>1, <1>9 DEF ReadReview, Deliver
<1>10. CASE WriteExecution \/ Crash \/ UNCHANGED vars
  BY <1>1, <1>10 DEF WriteExecution, Crash, vars
<1> QED BY <1>2, <1>3, <1>5, <1>7, <1>8, <1>9, <1>10 DEF Next

(* No edit, decision, delivery or late write of the worker changes a       *)
(* review that is decided.                                                 *)
THEOREM DecisionsAreFinal == Spec => DecidedIsFinal
<1>1. IInv /\ [Next]_vars => [DecisionStep]_vars
  BY DecisionKept
<1> QED BY <1>1, Invariance, PTL DEF Spec, DecidedIsFinal, DecisionStep
=============================================================================
