------------------------------ MODULE Webhook ------------------------------
(***************************************************************************)
(* rrpp_bridge/instagram_webhook.py, adapters/instagram.py and the         *)
(* idempotent half of queue.enqueue_in_transaction: how a signed Instagram *)
(* webhook becomes events, once each, however often Meta repeats it.       *)
(*                                                                         *)
(* Meta posts a body until it is answered with 200 and may repeat one that *)
(* was; a message may come again in another body.  The threads of the WSGI *)
(* server take bodies concurrently; each ingests a body in one immediate   *)
(* transaction, message by message, and then answers.  A thread may fail   *)
(* or die at any message, before the commit or between the commit and the  *)
(* answer, and the transaction may be refused.                             *)
(*                                                                         *)
(* A body is a name; Items gives its messages in order.  The signature is  *)
(* valid or not; which ignored reason is counted is left out.              *)
(***************************************************************************)
EXTENDS Naturals, Sequences, SequencesExt, Functions

CONSTANTS
  Threads,        \* threads of the ingress server
  Bodies,         \* request bodies Meta signs
  Items,          \* [Bodies -> Seq(Item)]: the messaging items of a body
  Mids,           \* message ids
  Accounts,       \* receiver ids of the business, configured or not
  Customers,      \* ids of everybody else
  Configurations, \* the values INSTAGRAM_ACCOUNTS_JSON takes, one at a time
  MaxFailures     \* bound: transactions refused and threads killed

NoBody == "none"

Item ==
  [mid : Mids, kind : {"text", "invalid", "other"}, sender : Accounts \cup Customers,
   entry : Accounts \cup Customers, recipient : Accounts \cup Customers]

ASSUME WebhookConstants ==
  /\ NoBody \notin Bodies
  /\ DOMAIN Items = Bodies /\ \A b \in Bodies : Items[b] \in Seq(Item)
  /\ Configurations \subseteq SUBSET Accounts
  /\ MaxFailures \in Nat

VARIABLES
  allowed,    \* instagram_webhook_account_ids() of the running process
  events,     \* external_message_id of the events, in the order of their rowid
  receipts,   \* inbound_webhook_receipts by body, NoReceipt if there is none
  draft,      \* the open transaction: the events it sees, the items it has passed, its counters
  pc,         \* where each thread is in _post
  body,       \* the body a thread is handling
  answered,   \* bodies Meta has seen answered with 200
  failures    \* failures so far

vars == <<allowed, events, receipts, draft, pc, body, answered, failures>>

NoDraft == [events |-> <<>>, passed |-> 0, accepted |-> 0, duplicates |-> 0]
NoReceipt == [stored |-> FALSE, accepted |-> 0, duplicates |-> 0, ignored |-> 0, under |-> {}]

Init ==
  /\ allowed \in Configurations
  /\ events = <<>>
  /\ receipts = [b \in Bodies |-> NoReceipt]
  /\ draft = NoDraft
  /\ pc = [t \in Threads |-> "idle"]
  /\ body = [t \in Threads |-> NoBody]
  /\ answered = {}
  /\ failures = 0

-----------------------------------------------------------------------------
(* normalize.  An item is [mid, kind, sender, entry, recipient]; its kind  *)
(* is "text", "invalid" (a text over the limits or without a timestamp) or *)
(* "other" (no message, an echo, no sender, no mid, or no text).           *)

(* _receiver_account: the configured ids among the two routing fields.     *)
Matches(item, config) == {item.entry, item.recipient} \cap config

Routed(item, config) ==
  \E account \in config :
    /\ Matches(item, config) = {account}
    /\ item.sender \notin config \cup {account}

Ingestible(item, config) == item.kind = "text" /\ Routed(item, config)

(* A ValueError of normalize refuses the whole body.                       *)
Refused(b, config) ==
  \E i \in 1..Len(Items[b]) : Items[b][i].kind = "invalid" /\ Routed(Items[b][i], config)

Goto(t, label) == pc' = [pc EXCEPT ![t] = label]

-----------------------------------------------------------------------------
(* Meta posts a body, perhaps one it was answered already.                 *)

Post(t, b) ==
  /\ pc[t] = "idle"
  /\ body' = [body EXCEPT ![t] = b]
  /\ Goto(t, "normalize")
  /\ UNCHANGED <<allowed, events, receipts, draft, answered, failures>>

(* A bad signature, a body that is no JSON object, or a malformed item.    *)
Refuse(t) ==
  /\ pc[t] = "normalize"
  /\ Refused(body[t], allowed)
  /\ Goto(t, "idle")
  /\ body' = [body EXCEPT ![t] = NoBody]
  /\ UNCHANGED <<allowed, events, receipts, draft, answered, failures>>

Normalize(t) ==
  /\ pc[t] = "normalize"
  /\ ~Refused(body[t], allowed)
  /\ Goto(t, "begin")
  /\ UNCHANGED <<allowed, events, receipts, draft, body, answered, failures>>

-----------------------------------------------------------------------------
(* The transaction.  BEGIN IMMEDIATE waits for the write lock of the       *)
(* database, which one thread holds from "ingest" to its commit.           *)

Unlocked == \A t \in Threads : pc[t] # "ingest"

(* Mutant: a body that has a receipt is answered with an error.            *)
DuplicateRefused(t) ==
  /\ pc[t] = "begin"
  /\ Unlocked
  /\ receipts[body[t]].stored
  /\ Goto(t, "idle")
  /\ body' = [body EXCEPT ![t] = NoBody]
  /\ UNCHANGED <<allowed, events, receipts, draft, answered, failures>>

(* A body that has a receipt: nothing but an audit record is written.      *)
Duplicate(t) ==
  /\ pc[t] = "begin"
  /\ Unlocked
  /\ receipts[body[t]].stored
  /\ Goto(t, "answer")
  /\ UNCHANGED <<allowed, events, receipts, draft, body, answered, failures>>

Begin(t) ==
  /\ pc[t] = "begin"
  /\ Unlocked
  /\ ~receipts[body[t]].stored
  /\ draft' = [NoDraft EXCEPT !.events = events]
  /\ Goto(t, "ingest")
  /\ UNCHANGED <<allowed, events, receipts, body, answered, failures>>

(* Mutant: the message id is not looked up.                                *)
EnqueueAlways(stored, item) == Append(stored, item.mid)

(* enqueue_in_transaction: the event of a message unless there is one.     *)
Enqueue(stored, item) ==
  IF item.mid \in ToSet(stored) THEN stored ELSE Append(stored, item.mid)

(* The next item of the body: normalize dropped it or it is enqueued.      *)
TakeItem(t) ==
  LET item == Items[body[t]][draft.passed + 1]
      wanted == Ingestible(item, allowed)
      after == IF wanted THEN Enqueue(draft.events, item) ELSE draft.events
      created == after # draft.events
  IN /\ pc[t] = "ingest"
     /\ draft.passed < Len(Items[body[t]])
     /\ draft' = [events |-> after, passed |-> draft.passed + 1,
                  accepted |-> draft.accepted + (IF created THEN 1 ELSE 0),
                  duplicates |-> draft.duplicates + (IF wanted /\ ~created THEN 1 ELSE 0)]
     /\ UNCHANGED <<allowed, events, receipts, pc, body, answered, failures>>

(* The receipt and the commit: the draft becomes the database.             *)
Commit(t) ==
  /\ pc[t] = "ingest"
  /\ draft.passed = Len(Items[body[t]])
  /\ events' = draft.events
  /\ receipts' = [receipts EXCEPT ![body[t]] =
       [stored |-> TRUE, accepted |-> draft.accepted, duplicates |-> draft.duplicates,
        ignored |-> Len(Items[body[t]]) - draft.accepted - draft.duplicates, under |-> allowed]]
  /\ draft' = NoDraft
  /\ Goto(t, "answer")
  /\ UNCHANGED <<allowed, body, answered, failures>>

-----------------------------------------------------------------------------
(* Mutant: the thread keeps the body it has answered.                      *)
AnswerHolding(t) ==
  /\ pc[t] = "answer"
  /\ answered' = answered \cup {body[t]}
  /\ Goto(t, "idle")
  /\ UNCHANGED <<allowed, events, receipts, draft, body, failures>>

Answer(t) ==
  /\ pc[t] = "answer"
  /\ answered' = answered \cup {body[t]}
  /\ Goto(t, "idle")
  /\ body' = [body EXCEPT ![t] = NoBody]
  /\ UNCHANGED <<allowed, events, receipts, draft, failures>>

(* transaction() rolls back: the draft of the thread that had it is gone.  *)
RollBack(t) == draft' = IF pc[t] = "ingest" THEN NoDraft ELSE draft

(* Mutant: the answer goes out although the transaction was rolled back.   *)
FailWithOk(t) ==
  /\ pc[t] # "idle"
  /\ failures < MaxFailures
  /\ failures' = failures + 1
  /\ RollBack(t)
  /\ answered' = answered \cup {body[t]}
  /\ Goto(t, "idle")
  /\ body' = [body EXCEPT ![t] = NoBody]
  /\ UNCHANGED <<allowed, events, receipts>>

(* 500 after a rollback, or the thread dies, perhaps after the commit.     *)
Failure(t) ==
  /\ pc[t] # "idle"
  /\ failures < MaxFailures
  /\ failures' = failures + 1
  /\ RollBack(t)
  /\ Goto(t, "idle")
  /\ body' = [body EXCEPT ![t] = NoBody]
  /\ UNCHANGED <<allowed, events, receipts, answered>>

(* The server is started again with another account registry.              *)
Reconfigure(config) ==
  /\ config # allowed
  /\ failures < MaxFailures
  /\ failures' = failures + 1
  /\ allowed' = config
  /\ draft' = NoDraft
  /\ pc' = [t \in Threads |-> "idle"]
  /\ body' = [t \in Threads |-> NoBody]
  /\ UNCHANGED <<events, receipts, answered>>

Handle(t) ==
  \/ Refuse(t) \/ Normalize(t) \/ Duplicate(t)
  \/ Begin(t) \/ TakeItem(t) \/ Commit(t) \/ Answer(t)

Next ==
  \/ \E t \in Threads : Handle(t) \/ Failure(t) \/ \E b \in Bodies : Post(t, b)
  \/ \E config \in Configurations : Reconfigure(config)

Spec == Init /\ [][Next]_vars

(* Meta repeats a body until it is answered, to whichever thread is free,  *)
(* and a thread does not stop in the middle of a request.                  *)
FairSpec ==
  /\ Spec
  /\ \A t \in Threads : WF_vars(Handle(t))
  /\ \A b \in Bodies : SF_vars(b \notin answered /\ \E t \in Threads : Post(t, b))

-----------------------------------------------------------------------------
(* Properties                                                              *)

Receipt ==
  [stored : BOOLEAN, accepted : Nat, duplicates : Nat, ignored : Nat, under : SUBSET Accounts]

(* Type invariant: a thread holds a body exactly while it handles one, and *)
(* there is a draft only while a thread holds the write lock.              *)
TypeOK ==
  /\ allowed \in Configurations
  /\ events \in Seq(Mids)
  /\ receipts \in [Bodies -> Receipt]
  /\ draft \in [events : Seq(Mids), passed : Nat, accepted : Nat, duplicates : Nat]
  /\ draft.accepted + draft.duplicates <= draft.passed
  /\ pc \in [Threads -> {"idle", "normalize", "begin", "ingest", "answer"}]
  /\ body \in [Threads -> Bodies \cup {NoBody}]
  /\ \A t \in Threads : body[t] = NoBody <=> pc[t] = "idle"
  /\ Unlocked => draft = NoDraft
  /\ answered \subseteq Bodies
  /\ failures \in Nat

(* A message becomes one event, though its body is posted again, lands on  *)
(* two threads at once, or comes again inside another body.                *)
StoredOnce == IsInjective(events)

(* The answer 200 ends Meta's retries, so it is given only when every      *)
(* message the receipt's configuration routes is stored.                   *)
AnsweredIsStored ==
  \A b \in answered :
    /\ receipts[b].stored
    /\ \A i \in 1..Len(Items[b]) :
         Ingestible(Items[b][i], receipts[b].under) => Items[b][i].mid \in ToSet(events)

(* A body that is well formed in every configuration is answered in the    *)
(* end: failures and lost answers delay it, nothing makes Meta give up.    *)
EveryBodyAnswered ==
  \A b \in Bodies :
    (\A config \in Configurations : ~Refused(b, config)) => <>(b \in answered)
=============================================================================
