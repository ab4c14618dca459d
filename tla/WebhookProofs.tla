--------------------------- MODULE WebhookProofs ---------------------------
(***************************************************************************)
(* Theorems about Webhook, for any bodies, threads and account registries. *)
(***************************************************************************)
EXTENDS Webhook, TLAPS

(* The write lock has one holder.                                          *)
OneWriter == \A t, u \in Threads : pc[t] = "ingest" /\ pc[u] = "ingest" => t = u

Stored(sequence, b, config, count) ==
  \A i \in 1..count :
    Ingestible(Items[b][i], config) => Items[b][i].mid \in ToSet(sequence)

(* The draft of an open transaction keeps what is in the database, has     *)
(* nothing twice, and has every wanted message of the items it has passed. *)
DraftIsSound ==
  \A t \in Threads :
    pc[t] = "ingest" =>
      /\ IsInjective(draft.events)
      /\ ToSet(events) \subseteq ToSet(draft.events)
      /\ draft.passed <= Len(Items[body[t]])
      /\ Stored(draft.events, body[t], allowed, draft.passed)

(* A receipt stands for messages that are stored.                          *)
ReceiptsHold ==
  \A b \in Bodies :
    receipts[b].stored => Stored(events, b, receipts[b].under, Len(Items[b]))

(* Who is about to answer, or has answered, has a receipt.                 *)
AnswersHaveReceipts ==
  /\ \A t \in Threads : pc[t] = "answer" => receipts[body[t]].stored
  /\ \A b \in answered : receipts[b].stored

Safe == OneWriter /\ StoredOnce /\ DraftIsSound /\ ReceiptsHold /\ AnswersHaveReceipts

IInv == TypeOK /\ Safe

-----------------------------------------------------------------------------
(* Enqueue appends a message at most, and never one that is there.         *)

LEMMA EnqueueAdds ==
  ASSUME NEW stored \in Seq(Mids), NEW item \in Item
  PROVE  /\ Enqueue(stored, item) \in Seq(Mids)
         /\ ToSet(stored) \subseteq ToSet(Enqueue(stored, item))
         /\ item.mid \in ToSet(Enqueue(stored, item))
         /\ IsInjective(stored) => IsInjective(Enqueue(stored, item))
<1>1. item.mid \in Mids
  BY DEF Item
<1>2. CASE item.mid \in ToSet(stored)
  BY <1>2 DEF Enqueue
<1>3. CASE item.mid \notin ToSet(stored)
  <2> DEFINE longer == Append(stored, item.mid)
  <2>1. Enqueue(stored, item) = longer
    BY <1>3 DEF Enqueue
  <2>2. /\ longer \in Seq(Mids)
        /\ Len(longer) = Len(stored) + 1
        /\ \A i \in 1..Len(stored) : longer[i] = stored[i]
        /\ longer[Len(stored) + 1] = item.mid
        /\ DOMAIN longer = 1..(Len(stored) + 1)
        /\ DOMAIN stored = 1..Len(stored)
        /\ Len(stored) \in Nat
    BY <1>1
  <2> HIDE DEF longer
  <2>3. ToSet(stored) \subseteq ToSet(longer)
    BY <2>2 DEF ToSet
  <2>4. item.mid \in ToSet(longer)
    BY <2>2 DEF ToSet
  <2>5. ASSUME IsInjective(stored), NEW i \in DOMAIN longer, NEW j \in DOMAIN longer, longer[i] = longer[j]
        PROVE  i = j
    <3>1. \A k \in 1..Len(stored) : stored[k] # item.mid
      BY <1>3, <2>2 DEF ToSet
    <3>2. \A k, l \in 1..Len(stored) : stored[k] = stored[l] => k = l
      BY <2>5, <2>2 DEF IsInjective
    <3> QED BY <3>1, <3>2, <2>5, <2>2
  <2> QED BY <2>1, <2>2, <2>3, <2>4, <2>5 DEF IsInjective
<1> QED BY <1>2, <1>3

LEMMA EmptyIsInjective == IsInjective(<<>>)
  BY DEF IsInjective

-----------------------------------------------------------------------------
LEMMA InitIInv == Init => IInv
<1> SUFFICES ASSUME Init PROVE IInv
  OBVIOUS
<1> USE WebhookConstants
<1>1. TypeOK
  BY DEF Init, TypeOK, NoDraft, NoReceipt, Receipt, NoBody
<1>2. Safe
  BY EmptyIsInjective
     DEF Init, Safe, OneWriter, StoredOnce, DraftIsSound, ReceiptsHold, AnswersHaveReceipts, NoReceipt
<1> QED BY <1>1, <1>2 DEF IInv

LEMMA PostInv == ASSUME IInv, NEW t \in Threads, NEW b \in Bodies, Post(t, b) PROVE IInv'
<1> USE WebhookConstants DEF IInv, Post, Goto
<1>1. TypeOK'
  BY DEF TypeOK, Unlocked
<1>2. Safe'
  BY DEF TypeOK, Safe, OneWriter, StoredOnce, DraftIsSound, ReceiptsHold, AnswersHaveReceipts, Stored
<1> QED BY <1>1, <1>2

LEMMA RefuseInv == ASSUME IInv, NEW t \in Threads, Refuse(t) PROVE IInv'
<1> USE WebhookConstants DEF IInv, Refuse, Goto
<1>1. TypeOK'
  BY DEF TypeOK, Unlocked
<1>2. OneWriter' /\ DraftIsSound'
  BY DEF TypeOK, Safe, OneWriter, DraftIsSound, Stored
<1>3. StoredOnce' /\ ReceiptsHold' /\ AnswersHaveReceipts'
  BY DEF TypeOK, Safe, StoredOnce, ReceiptsHold, AnswersHaveReceipts, Stored
<1> QED BY <1>1, <1>2, <1>3 DEF Safe

LEMMA NormalizeInv == ASSUME IInv, NEW t \in Threads, Normalize(t) PROVE IInv'
<1> USE WebhookConstants DEF IInv, Normalize, Goto
<1>1. TypeOK'
  BY DEF TypeOK, Unlocked
<1>2. Safe'
  BY DEF TypeOK, Safe, OneWriter, StoredOnce, DraftIsSound, ReceiptsHold, AnswersHaveReceipts, Stored
<1> QED BY <1>1, <1>2

LEMMA DuplicateInv == ASSUME IInv, NEW t \in Threads, Duplicate(t) PROVE IInv'
<1> USE WebhookConstants DEF IInv, Duplicate, Goto
<1>1. TypeOK'
  BY DEF TypeOK, Unlocked
<1>2. Safe'
  BY DEF TypeOK, Safe, OneWriter, StoredOnce, DraftIsSound, ReceiptsHold, AnswersHaveReceipts, Stored
<1> QED BY <1>1, <1>2

LEMMA BeginInv == ASSUME IInv, NEW t \in Threads, Begin(t) PROVE IInv'
<1> USE WebhookConstants DEF IInv, Begin, Goto
<1>1. TypeOK'
  BY DEF TypeOK, Unlocked, NoDraft
<1>2. OneWriter'
  BY DEF TypeOK, OneWriter, Unlocked
<1>3. StoredOnce' /\ ReceiptsHold' /\ AnswersHaveReceipts'
  BY DEF TypeOK, Safe, StoredOnce, ReceiptsHold, AnswersHaveReceipts, Stored
<1>4. DraftIsSound'
  <2> SUFFICES ASSUME NEW u \in Threads, pc'[u] = "ingest"
               PROVE  /\ IsInjective(draft'.events)
                      /\ ToSet(events') \subseteq ToSet(draft'.events)
                      /\ draft'.passed <= Len(Items[body'[u]])
                      /\ Stored(draft'.events, body'[u], allowed', draft'.passed)
    BY DEF DraftIsSound, Stored
  <2>1. u = t /\ body'[t] \in Bodies
    BY DEF TypeOK, Unlocked
  <2>2. draft'.events = events /\ draft'.passed = 0
    BY DEF NoDraft
  <2>3. Len(Items[body'[t]]) \in Nat
    BY <2>1
  <2> QED BY <2>1, <2>2, <2>3 DEF Safe, StoredOnce, Stored
<1> QED BY <1>1, <1>2, <1>3, <1>4 DEF Safe

LEMMA CountsAdd ==
  ASSUME NEW p \in Nat, NEW a \in Nat, NEW d \in Nat, NEW f \in Nat, NEW g \in Nat,
         a + d <= p, f + g <= 1
  PROVE  p + 1 \in Nat /\ a + f \in Nat /\ d + g \in Nat /\ (a + f) + (d + g) <= p + 1
  OBVIOUS

(* The transaction goes on: see EnqueueAdds.                               *)
LEMMA TakeItemInv == ASSUME IInv, NEW t \in Threads, TakeItem(t) PROVE IInv'
<1> USE WebhookConstants
<1> DEFINE item == Items[body[t]][draft.passed + 1]
<1>1. /\ pc[t] = "ingest" /\ pc' = pc /\ body' = body /\ allowed' = allowed
      /\ events' = events /\ receipts' = receipts
      /\ answered' = answered /\ failures' = failures
      /\ draft.passed < Len(Items[body[t]])
  BY DEF TakeItem
<1>2. /\ body[t] \in Bodies /\ draft.passed \in Nat /\ draft.events \in Seq(Mids)
      /\ draft.accepted \in Nat /\ draft.duplicates \in Nat
      /\ draft.accepted + draft.duplicates <= draft.passed
  BY <1>1 DEF IInv, TypeOK
<1>3. item \in Item
  BY <1>1, <1>2
<1>4. /\ draft'.passed = draft.passed + 1
      /\ draft' \in [events : Seq(Mids), passed : Nat, accepted : Nat, duplicates : Nat]
      /\ draft'.accepted + draft'.duplicates <= draft'.passed
      /\ draft'.events = IF Ingestible(item, allowed) THEN Enqueue(draft.events, item) ELSE draft.events
  <2> DEFINE wanted == Ingestible(item, allowed)
             after == IF wanted THEN Enqueue(draft.events, item) ELSE draft.events
             created == after # draft.events
  <2>1. after \in Seq(Mids)
    BY <1>2, <1>3, EnqueueAdds
  <2>2. draft' = [events |-> after, passed |-> draft.passed + 1,
                  accepted |-> draft.accepted + (IF created THEN 1 ELSE 0),
                  duplicates |-> draft.duplicates + (IF wanted /\ ~created THEN 1 ELSE 0)]
    BY DEF TakeItem
  <2> HIDE DEF wanted, after, created
  <2>3. /\ draft'.events = after
        /\ draft'.passed = draft.passed + 1
        /\ draft' \in [events : Seq(Mids), passed : Nat, accepted : Nat, duplicates : Nat]
        /\ draft'.accepted + draft'.duplicates <= draft'.passed
    <3> DEFINE fresh == IF created THEN 1 ELSE 0
               again == IF wanted /\ ~created THEN 1 ELSE 0
    <3>1. fresh \in Nat /\ again \in Nat /\ fresh + again <= 1
      OBVIOUS
    <3>2. draft' = [events |-> after, passed |-> draft.passed + 1,
                    accepted |-> draft.accepted + fresh, duplicates |-> draft.duplicates + again]
      BY <2>2
    <3> HIDE DEF fresh, again
    <3>3. /\ draft'.events = after /\ draft'.passed = draft.passed + 1
          /\ draft'.accepted = draft.accepted + fresh
          /\ draft'.duplicates = draft.duplicates + again
      BY <3>2
    <3>4. /\ draft.passed + 1 \in Nat /\ draft.accepted + fresh \in Nat
          /\ draft.duplicates + again \in Nat
          /\ (draft.accepted + fresh) + (draft.duplicates + again) <= draft.passed + 1
      BY <1>2, <3>1, CountsAdd
    <3>5. draft' \in [events : Seq(Mids), passed : Nat, accepted : Nat, duplicates : Nat]
      BY <2>1, <3>2, <3>4
    <3> QED BY <3>3, <3>4, <3>5
  <2> QED BY <2>3 DEF after, wanted
<1>5. /\ ToSet(draft.events) \subseteq ToSet(draft'.events)
      /\ IsInjective(draft.events) => IsInjective(draft'.events)
      /\ Ingestible(item, allowed) => item.mid \in ToSet(draft'.events)
  BY <1>2, <1>3, <1>4, EnqueueAdds
<1>6. TypeOK'
  BY <1>1, <1>4 DEF IInv, TypeOK, Unlocked
<1>7. OneWriter' /\ StoredOnce' /\ ReceiptsHold' /\ AnswersHaveReceipts'
  BY <1>1 DEF IInv, Safe, OneWriter, StoredOnce, ReceiptsHold, AnswersHaveReceipts, Stored
<1>8. DraftIsSound'
  <2> SUFFICES ASSUME NEW u \in Threads, pc[u] = "ingest"
               PROVE  /\ IsInjective(draft'.events)
                      /\ ToSet(events) \subseteq ToSet(draft'.events)
                      /\ draft'.passed <= Len(Items[body[u]])
                      /\ Stored(draft'.events, body[u], allowed, draft'.passed)
    BY <1>1 DEF DraftIsSound, Stored
  <2>1. u = t
    BY <1>1 DEF IInv, Safe, OneWriter
  <2>2. /\ IsInjective(draft.events)
        /\ ToSet(events) \subseteq ToSet(draft.events)
        /\ Stored(draft.events, body[t], allowed, draft.passed)
    BY <1>1 DEF IInv, Safe, DraftIsSound
  <2>3. ASSUME NEW i \in 1..draft'.passed, Ingestible(Items[body[t]][i], allowed)
        PROVE  Items[body[t]][i].mid \in ToSet(draft'.events)
    <3>1. CASE i = draft.passed + 1
      BY <3>1, <2>3, <1>5
    <3>2. CASE i # draft.passed + 1
      <4>1. i \in 1..draft.passed
        BY <3>2, <1>2, <1>4
      <4> QED BY <4>1, <2>2, <2>3, <1>5 DEF Stored
    <3> QED BY <3>1, <3>2
  <2>4. draft'.passed <= Len(Items[body[t]])
    BY <1>1, <1>2, <1>4
  <2> QED BY <2>1, <2>2, <2>3, <2>4, <1>5 DEF Stored
<1> QED BY <1>6, <1>7, <1>8 DEF IInv, Safe

(* The draft becomes the database with everything its body asks for.       *)
LEMMA CommitInv == ASSUME IInv, NEW t \in Threads, Commit(t) PROVE IInv'
<1> USE WebhookConstants
<1>1. /\ pc[t] = "ingest" /\ body' = body /\ allowed' = allowed
      /\ pc' = [pc EXCEPT ![t] = "answer"]
      /\ events' = draft.events /\ draft' = NoDraft
      /\ answered' = answered /\ failures' = failures
      /\ draft.passed = Len(Items[body[t]])
  BY DEF Commit, Goto
<1>2. /\ body[t] \in Bodies /\ draft.passed \in Nat /\ draft.events \in Seq(Mids)
      /\ draft.accepted \in Nat /\ draft.duplicates \in Nat
      /\ draft.accepted + draft.duplicates <= draft.passed
      /\ allowed \in SUBSET Accounts
  BY <1>1 DEF IInv, TypeOK
<1>3. /\ IsInjective(draft.events)
      /\ ToSet(events) \subseteq ToSet(draft.events)
      /\ Stored(draft.events, body[t], allowed, Len(Items[body[t]]))
  BY <1>1 DEF IInv, Safe, DraftIsSound
<1>4. /\ receipts' \in [Bodies -> Receipt]
      /\ receipts'[body[t]].stored
      /\ receipts'[body[t]].under = allowed
      /\ \A b \in Bodies : b # body[t] => receipts'[b] = receipts[b]
  <2> DEFINE ignored == Len(Items[body[t]]) - draft.accepted - draft.duplicates
             receipt == [stored |-> TRUE, accepted |-> draft.accepted,
                         duplicates |-> draft.duplicates, ignored |-> ignored, under |-> allowed]
  <2>1. receipts' = [receipts EXCEPT ![body[t]] = receipt]
    BY DEF Commit
  <2>2. ignored \in Nat
    BY <1>1, <1>2
  <2> HIDE DEF ignored
  <2>3. receipt \in Receipt /\ receipt.stored /\ receipt.under = allowed
    BY <1>2, <2>2 DEF Receipt
  <2>4. receipts \in [Bodies -> Receipt]
    BY DEF IInv, TypeOK
  <2> HIDE DEF receipt
  <2> QED BY <1>2, <2>1, <2>3, <2>4
<1>5. \A u \in Threads : pc'[u] # "ingest"
  BY <1>1 DEF IInv, Safe, OneWriter, TypeOK
<1>6. TypeOK'
  BY <1>1, <1>2, <1>4 DEF IInv, TypeOK, Unlocked, NoDraft
<1>7. OneWriter' /\ StoredOnce' /\ DraftIsSound'
  BY <1>1, <1>3, <1>5 DEF OneWriter, StoredOnce, DraftIsSound
<1>8. ReceiptsHold'
  <2> SUFFICES ASSUME NEW b \in Bodies, receipts'[b].stored
               PROVE  Stored(draft.events, b, receipts'[b].under, Len(Items[b]))
    BY <1>1 DEF ReceiptsHold, Stored
  <2>1. CASE b = body[t]
    BY <2>1, <1>3, <1>4
  <2>2. CASE b # body[t]
    BY <2>2, <1>3, <1>4 DEF IInv, Safe, ReceiptsHold, Stored
  <2> QED BY <2>1, <2>2
<1>9. AnswersHaveReceipts'
  BY <1>1, <1>2, <1>4 DEF IInv, Safe, AnswersHaveReceipts, TypeOK
<1> QED BY <1>6, <1>7, <1>8, <1>9 DEF IInv, Safe

LEMMA AnswerInv == ASSUME IInv, NEW t \in Threads, Answer(t) PROVE IInv'
<1> USE WebhookConstants DEF IInv, Answer, Goto
<1>1. TypeOK'
  BY DEF TypeOK, Unlocked
<1>2. Safe'
  BY DEF TypeOK, Safe, OneWriter, StoredOnce, DraftIsSound, ReceiptsHold, AnswersHaveReceipts, Stored
<1> QED BY <1>1, <1>2

LEMMA FailureInv == ASSUME IInv, NEW t \in Threads, Failure(t) PROVE IInv'
<1> USE WebhookConstants DEF IInv, Failure, RollBack, Goto
<1>1. TypeOK'
  BY DEF TypeOK, Unlocked, NoDraft, Safe, OneWriter
<1>2. OneWriter' /\ StoredOnce' /\ ReceiptsHold' /\ AnswersHaveReceipts'
  BY DEF TypeOK, Safe, OneWriter, StoredOnce, ReceiptsHold, AnswersHaveReceipts, Stored
<1>3. DraftIsSound'
  <2>1. ASSUME NEW u \in Threads, pc'[u] = "ingest"
        PROVE  pc[u] = "ingest" /\ body'[u] = body[u] /\ draft' = draft
    BY <2>1 DEF TypeOK, Safe, OneWriter
  <2> QED BY <2>1 DEF Safe, DraftIsSound, Stored
<1> QED BY <1>1, <1>2, <1>3 DEF Safe

LEMMA ReconfigureInv ==
  ASSUME IInv, NEW config \in Configurations, Reconfigure(config)
  PROVE  IInv'
<1> USE WebhookConstants DEF IInv, Reconfigure
<1>1. TypeOK'
  BY DEF TypeOK, Unlocked, NoDraft
<1>2. Safe'
  BY DEF TypeOK, Safe, OneWriter, StoredOnce, DraftIsSound, ReceiptsHold, AnswersHaveReceipts, Stored
<1> QED BY <1>1, <1>2

LEMMA Inductive == IInv /\ [Next]_vars => IInv'
<1> SUFFICES ASSUME IInv, [Next]_vars PROVE IInv'
  OBVIOUS
<1>1. ASSUME NEW t \in Threads, Handle(t) PROVE IInv'
  BY <1>1, RefuseInv, NormalizeInv, DuplicateInv, BeginInv, TakeItemInv, CommitInv, AnswerInv DEF Handle
<1>2. ASSUME NEW t \in Threads, Failure(t) \/ \E b \in Bodies : Post(t, b) PROVE IInv'
  BY <1>2, FailureInv, PostInv
<1>3. ASSUME NEW config \in Configurations, Reconfigure(config) PROVE IInv'
  BY <1>3, ReconfigureInv
<1>4. CASE UNCHANGED vars
  BY <1>4
     DEF vars, IInv, TypeOK, Unlocked, Safe, OneWriter, StoredOnce, DraftIsSound, ReceiptsHold,
         AnswersHaveReceipts, Stored
<1> QED BY <1>1, <1>2, <1>3, <1>4 DEF Next

THEOREM Invariance == Spec => []IInv
  BY InitIInv, Inductive, PTL DEF Spec

-----------------------------------------------------------------------------
(* A thread of _post handles a body exactly while it is not idle, and a    *)
(* transaction is open only under the write lock.                          *)
THEOREM TypeCorrect == Spec => []TypeOK
<1>1. IInv => TypeOK
  BY DEF IInv
<1> QED BY <1>1, Invariance, PTL

(* However often, in whatever company and on however many threads a        *)
(* message arrives, enqueue_in_transaction stores one event for it.        *)
THEOREM StoredOnceOnly == Spec => []StoredOnce
<1>1. IInv => StoredOnce
  BY DEF IInv, Safe
<1> QED BY <1>1, Invariance, PTL

(* No failure, at any message of any transaction, lets 200 go out for a    *)
(* body one of whose routed messages is not stored.                        *)
THEOREM AnsweredCorrect == Spec => []AnsweredIsStored
<1>1. IInv => AnsweredIsStored
  BY DEF IInv, TypeOK, Safe, AnswersHaveReceipts, ReceiptsHold, Stored, AnsweredIsStored
<1> QED BY <1>1, Invariance, PTL
=============================================================================
