----------------------------- MODULE AutoReply -----------------------------
(***************************************************************************)
(* One inbound message on its way to an automatic answer: the gates of     *)
(* executor.py (provider, freshness, policy, mode) and of delivery.py (the *)
(* three reads of _permission_reason and the request), each a step of its  *)
(* own, with the policy of module Policy and everything that may change    *)
(* between two of them: the mode, the pause of the conversation, newer     *)
(* messages, and, when the worker is restarted, the configured senders.    *)
(*                                                                         *)
(* A worker has one job and one delivery here; Delivery and JobQueue have  *)
(* the queues, the leases and the crashes.                                 *)
(***************************************************************************)
EXTENDS Policy

CONSTANTS
  Channels,    \* {"instagram", "local"}
  MaxChanges   \* bound: changes while the message is on its way

ASSUME AutoReplyConstants == Channels # {} /\ MaxChanges \in Nat

VARIABLES
  step,       \* the gate the message is at
  message,    \* its channel, its topics, and the sender's place on the canary list
  decision,   \* the provider's answer
  sawPause,   \* bot_paused as the agent context read it
  outcome,    \* policy_decisions.outcome
  auto,       \* auto_mode as read before the insertion of the action
  result,     \* what became of the message
  mode,       \* runtime execution mode
  paused,     \* conversations.bot_paused
  newer,      \* a later message of the conversation was ingested
  sender,     \* a sender with a token is configured for the account
  standing,   \* history: what has objected to the answer since the claim
  changes     \* changes so far

gates == <<step, message, decision, sawPause, outcome, auto, result>>
world == <<mode, paused, newer, sender>>
vars == <<gates, world, standing, changes>>

NoDecision == Unstructured("empty")

Init ==
  /\ step = "context"
  /\ message \in [channel : Channels, topics : SUBSET Topics, listed : BOOLEAN]
  /\ decision = NoDecision
  /\ sawPause = FALSE
  /\ outcome = "none" /\ auto = FALSE /\ result = "none"
  /\ mode \in Modes
  /\ paused \in BOOLEAN
  /\ newer = FALSE
  /\ sender \in BOOLEAN
  /\ standing = {}
  /\ changes = 0

-----------------------------------------------------------------------------
ReadContext ==
  /\ step = "context"
  /\ sawPause' = paused
  /\ step' = "provider"
  /\ UNCHANGED <<message, decision, outcome, auto, result, world, standing, changes>>

Generate ==
  /\ step = "provider"
  /\ decision' \in Parsed
  /\ step' = "fresh"
  /\ UNCHANGED <<message, sawPause, outcome, auto, result, world, standing, changes>>

Superseded ==
  /\ step = "fresh" /\ newer
  /\ step' = "done" /\ result' = "superseded"
  /\ UNCHANGED <<message, decision, sawPause, outcome, auto, world, standing, changes>>

Fresh ==
  /\ step = "fresh" /\ ~newer
  /\ step' = "policy"
  /\ UNCHANGED <<message, decision, sawPause, outcome, auto, result, world, standing,
                 changes>>

(* Policy.decide on what was read before, and the mode as it is now.       *)
DecidePolicy ==
  /\ step = "policy"
  /\ outcome' =
       Decide(Intended(decision), decision, message.channel, message.topics, sawPause)
  /\ auto' = Automatic(mode, message.listed)
  /\ step' = "insert"
  /\ UNCHANGED <<message, decision, sawPause, result, world, standing, changes>>

(* Mutant: whatever the mode does not let out is dropped.                  *)
InsertDropping ==
  /\ step = "insert"
  /\ IF outcome = "allowed" /\ auto /\ sender
       THEN step' = "queued" /\ UNCHANGED result
       ELSE /\ step' = "done"
            /\ result' = IF outcome = "escalated" THEN "review" ELSE "ignored"
  /\ UNCHANGED <<message, decision, sawPause, outcome, auto, world, standing, changes>>

(* The transaction of _action_for_job: a delivery, nothing, or a review.   *)
Insert ==
  /\ step = "insert"
  /\ IF outcome = "allowed" /\ auto /\ sender
       THEN step' = "queued" /\ UNCHANGED result
       ELSE /\ step' = "done"
            /\ result' = IF Intended(decision) = "no_action" /\ outcome = "ignored"
                           THEN "ignored" ELSE "review"
  /\ UNCHANGED <<message, decision, sawPause, outcome, auto, world, standing, changes>>

-----------------------------------------------------------------------------
(* The delivery.                                                           *)

(* What objects to a bot's answer: a pause, the mode, a missing sender, a  *)
(* newer message.                                                          *)
Objects(o) ==
  CASE o = "pause"  -> paused
    [] o = "mode"   -> ~Automatic(mode, message.listed)
    [] o = "sender" -> ~sender
    [] o = "newer"  -> newer

Objections == {o \in {"pause", "mode", "sender", "newer"} : Objects(o)}

Claim ==
  /\ step = "queued"
  /\ step' = "claimed"
  /\ standing' = Objections
  /\ UNCHANGED <<message, decision, sawPause, outcome, auto, result, world, changes>>

(* The three reads of _permission_reason, each of what is there when it is *)
(* made.                                                                   *)
Gate(at, refused, next) ==
  /\ step = at
  /\ step' = IF refused THEN "refused" ELSE next
  /\ UNCHANGED <<message, decision, sawPause, outcome, auto, result, world, standing,
                 changes>>

PermitContext == Gate("claimed", outcome # "allowed" \/ paused, "mode")

(* Mutant: the mode of the action counts, not the current one.             *)
PermitModeThen == Gate("mode", ~auto \/ ~sender, "newer")

PermitMode == Gate("mode", ~Automatic(mode, message.listed) \/ ~sender, "newer")

PermitNewer == Gate("newer", newer, "post")

(* send_text: the request leaves the worker.                               *)
Post ==
  /\ step = "post"
  /\ step' = "done" /\ result' = "sent"
  /\ UNCHANGED <<message, decision, sawPause, outcome, auto, world, standing, changes>>

(* Mutant: an answer that is not permitted is forgotten.                   *)
SuppressSilently ==
  /\ step = "refused"
  /\ step' = "done"
  /\ UNCHANGED <<message, decision, sawPause, outcome, auto, result, world, standing,
                 changes>>

(* _suppress: the answer becomes a draft for review.                       *)
Suppress ==
  /\ step = "refused"
  /\ step' = "done" /\ result' = "review"
  /\ UNCHANGED <<message, decision, sawPause, outcome, auto, world, standing, changes>>

-----------------------------------------------------------------------------
(* The world changes while the message is on its way: the dashboard sets   *)
(* the mode or the pause, the customer writes again, or the worker, when   *)
(* it has nothing in hand, is restarted with other senders.  What stops    *)
(* objecting has not stood since the claim.                                *)
OnItsWay ==
  /\ step # "done"
  /\ changes < MaxChanges
  /\ changes' = changes + 1
  /\ UNCHANGED gates
  /\ standing' = standing \cap Objections'

SetMode == mode' \in Modes \ {mode} /\ UNCHANGED <<paused, newer, sender>>

SetPaused == paused' = ~paused /\ UNCHANGED <<mode, newer, sender>>

Inbound == ~newer /\ newer' = TRUE /\ UNCHANGED <<mode, paused, sender>>

SetSenders ==
  /\ step \in {"context", "queued"}
  /\ sender' = ~sender
  /\ UNCHANGED <<mode, paused, newer>>

Change == (SetMode \/ SetPaused \/ Inbound \/ SetSenders) /\ OnItsWay

Done == step = "done" /\ UNCHANGED vars

Next ==
  \/ ReadContext \/ Generate \/ Superseded \/ Fresh \/ DecidePolicy \/ Insert
  \/ Claim \/ PermitContext \/ PermitMode \/ PermitNewer \/ Post \/ Suppress
  \/ Change \/ Done

Spec == Init /\ [][Next]_vars

-----------------------------------------------------------------------------
(* Properties                                                              *)

(* Type invariant: the gates are passed in order.                          *)
TypeOK ==
  /\ step \in {"context", "provider", "fresh", "policy", "insert",
               "queued", "claimed", "mode", "newer", "post", "refused", "done"}
  /\ message \in [channel : Channels, topics : SUBSET Topics, listed : BOOLEAN]
  /\ decision \in Parsed
  /\ sawPause \in BOOLEAN /\ auto \in BOOLEAN
  /\ outcome \in Outcomes \cup {"none"}
  /\ result \in {"none", "superseded", "ignored", "review", "sent"}
  /\ result = "none" <=> step # "done"
  /\ mode \in Modes /\ paused \in BOOLEAN /\ newer \in BOOLEAN /\ sender \in BOOLEAN
  /\ standing \subseteq Objections
  /\ changes \in 0..MaxChanges

(* What a customer may get from the bot, whatever the provider answers and *)
(* whenever anything changes: a structured decision on an Instagram        *)
(* message without an incident or a request for an operation, with a text  *)
(* that promises and asks nothing forbidden and with catalog support for a *)
(* controlled topic; and no objection that stood when the delivery was     *)
(* claimed, and ever since, is overlooked.  (One that comes up after its   *)
(* own read may come too late for the request.)                            *)
SentIsSafe ==
  result = "sent" =>
    /\ decision.structured
    /\ message.channel = "instagram"
    /\ message.topics \subseteq {"controlled"}
    /\ decision.text \in {"plain", "controlled"}
    /\ "controlled" \in message.topics \cup {decision.text} =>
         decision.references = "catalog" \/ decision.action = "ask_clarification"
    /\ standing = {}

(* Without a person only spam is dropped: an ignored message was read as   *)
(* spam by a structured answer and touches no topic of the policy.         *)
OnlySpamIsIgnored ==
  result = "ignored" =>
    /\ decision.structured /\ decision.action = "ignore"
    /\ decision.reason = "spam_or_non_message"
    /\ message.topics = {}

(* The order of the policy's checks opens no way around them: had the same *)
(* message shown more topics, or had the bot been paused, nothing would    *)
(* have gone out or been dropped that did not so anyway.                   *)
SuspicionNeverHelps ==
  outcome # "none" =>
    \A topics \in SUBSET Topics : \A pause \in BOOLEAN :
      LET suspected ==
            Decide(Intended(decision), decision, message.channel, topics, pause) IN
        message.topics \subseteq topics /\ (sawPause => pause)
        /\ suspected \in {"allowed", "ignored"} => suspected = outcome
=============================================================================
