------------------------------- MODULE Policy -------------------------------
(***************************************************************************)
(* rrpp_bridge/policy.py: the deterministic policy, with what comes before *)
(* and after it: what _parse_response of openclaw_client.py lets through,  *)
(* the action _intended of executor.py makes of it, and the modes in which *)
(* an allowed answer goes out by itself.                                   *)
(*                                                                         *)
(* Texts are known by what the policy's word lists and patterns find in    *)
(* them.  An inbound text is the set of findings; the answer's text has at *)
(* most one that matters: it is empty, plain, on a controlled topic,       *)
(* prohibited, or one _valid_text refuses (control characters pass the     *)
(* parser).  References are none, the ones of the catalog snapshot, or     *)
(* invalid (repeated: the parser does not refuse those either).            *)
(***************************************************************************)
EXTENDS Naturals

KnownActions ==
  {"send_reply", "human_reply", "draft_reply", "escalate_to_owner", "no_action"}
Topics == {"incident", "restricted", "controlled"}
DecisionActions == {"reply", "ask_clarification", "human_required", "ignore"}
Reasons == {"catalog_answer", "small_talk", "missing_details", "spam_or_non_message", "other"}
Texts == {"empty", "plain", "controlled", "prohibited", "invalid"}
References == {"none", "catalog", "invalid"}
Outcomes == {"allowed", "ignored", "escalated", "pending_approval", "blocked"}
Modes == {"shadow", "dry-run", "canary", "live"}

(* An answer of the provider: AgentDecision and what becomes of it.        *)
Decisions ==
  [action : DecisionActions, reason : Reasons, text : Texts, references : References,
   structured : BOOLEAN]

-----------------------------------------------------------------------------
(* _parse_response: a plain text asks for a human, and an error of the     *)
(* provider does so without a text.                                        *)

Unstructured(text) ==
  [action |-> "human_required", reason |-> "other", text |-> text, references |-> "none",
   structured |-> FALSE]

Structured ==
  {d \in Decisions :
     /\ d.structured
     /\ d.action \in {"reply", "ask_clarification"} => d.text # "empty"
     /\ d.action = "ignore" => d.text = "empty"}

(* legacy_action_to_decision: what a provider of the old contract ignores. *)
LegacyIgnore ==
  [action |-> "ignore", reason |-> "spam_or_non_message", text |-> "empty",
   references |-> "none", structured |-> FALSE]

Parsed == Structured \cup {Unstructured(text) : text \in Texts} \cup {LegacyIgnore}

(* _intended: the type of the action.                                      *)
Intended(d) ==
  CASE d.action \in {"reply", "ask_clarification"} -> "send_reply"
    [] d.action = "ignore" -> "no_action"
    [] OTHER -> "escalate_to_owner"

-----------------------------------------------------------------------------
(* Policy.decide.                                                          *)

ValidText(text) == text \notin {"empty", "invalid"}

ValidPayload(d) == ValidText(d.text) /\ d.references # "invalid"

(* Policy.decide of an ignore decision.                                    *)
DecideIgnore(d, topics) ==
  IF "controlled" \in topics THEN "escalated"
  ELSE IF ~d.structured THEN "pending_approval"
  ELSE IF /\ d.action = "ignore" /\ d.reason = "spam_or_non_message"
          /\ d.text = "empty" /\ d.references = "none"
    THEN "ignored"
    ELSE "escalated"

IsClarification(d) == d.action = "ask_clarification" /\ d.reason = "missing_details"

IsSafeReply(d) == d.action = "reply" /\ d.reason \in {"catalog_answer", "small_talk"}

ControlledTopic(d, topics) == "controlled" \in topics \/ d.text = "controlled"

(* Mutant: catalog answers are for controlled topics only.                 *)
SupportedIfControlled(d, topics) ==
  IF IsClarification(d) THEN d.references = "none"
  ELSE /\ IsSafeReply(d)
       /\ ControlledTopic(d, topics) <=> d.reason = "catalog_answer"
       /\ d.reason = "catalog_answer" <=> d.references # "none"

(* A clarification and small talk claim nothing, a catalog answer and any  *)
(* answer on a controlled topic name what they rest on.                    *)
Supported(d, topics) ==
  IF IsClarification(d) THEN d.references = "none"
  ELSE /\ IsSafeReply(d)
       /\ ControlledTopic(d, topics) => d.reason = "catalog_answer"
       /\ d.reason = "catalog_answer" <=> d.references # "none"

DecideReply(d, channel, topics) ==
  IF channel # "instagram" \/ ~d.structured THEN "pending_approval"
  ELSE IF ValidPayload(d) /\ d.text # "prohibited" /\ Supported(d, topics)
    THEN "allowed"
    ELSE "escalated"

DecideHuman(d, channel) ==
  IF channel = "instagram" /\ ValidText(d.text) THEN "allowed" ELSE "blocked"

(* The checks of decide in their order; the first that applies decides.    *)
Decide(type, d, channel, topics, paused) ==
  IF type \notin KnownActions THEN "blocked"
  ELSE IF type = "escalate_to_owner" THEN "escalated"
  ELSE IF type = "draft_reply" THEN "pending_approval"
  ELSE IF type = "human_reply" THEN DecideHuman(d, channel)
  ELSE IF paused \/ topics \cap {"incident", "restricted"} # {} THEN "escalated"
  ELSE IF type = "no_action" THEN DecideIgnore(d, topics)
  ELSE DecideReply(d, channel, topics)

-----------------------------------------------------------------------------
(* The mode: which answers go out by themselves (auto_mode of              *)
(* _action_for_job and the mode part of _permission_reason).               *)

Automatic(mode, listed) == mode = "live" \/ (mode = "canary" /\ listed)
=============================================================================
