-------------------------- MODULE AutoReplyProofs --------------------------
(***************************************************************************)
(* The theorems about Policy and AutoReply, for every set of channels and  *)
(* any number of changes on the way.                                       *)
(***************************************************************************)
EXTENDS AutoReply, TLAPS

-----------------------------------------------------------------------------
(* The policy is monotone: for a message with more topics, or with the bot *)
(* paused, Policy.decide lets out or drops nothing it would not let out or *)
(* drop anyway.                                                            *)
THEOREM PolicyIsMonotone ==
  ASSUME NEW type, NEW d, NEW channel,
         NEW small, NEW big, small \subseteq big,
         NEW before \in BOOLEAN, NEW after \in BOOLEAN, before => after,
         Decide(type, d, channel, big, after) \in {"allowed", "ignored"}
  PROVE  Decide(type, d, channel, small, before) = Decide(type, d, channel, big, after)
<1>1. ASSUME type = "no_action", ~after
      PROVE  DecideIgnore(d, big) \in {"allowed", "ignored"}
               => DecideIgnore(d, small) = DecideIgnore(d, big)
  BY DEF DecideIgnore
<1>2. Supported(d, big) => Supported(d, small)
  BY DEF Supported, ControlledTopic
<1>3. DecideReply(d, channel, big) \in {"allowed", "ignored"}
        => DecideReply(d, channel, small) = DecideReply(d, channel, big)
  BY <1>2 DEF DecideReply
<1>4. big \cap {"incident", "restricted"} = {} => small \cap {"incident", "restricted"} = {}
  OBVIOUS
<1>5. CASE type \notin KnownActions \/ type \in {"escalate_to_owner", "draft_reply", "human_reply"}
  BY <1>5 DEF Decide, KnownActions
<1>6. CASE type \in {"no_action", "send_reply"}
  <2>1. ~after /\ ~before /\ big \cap {"incident", "restricted"} = {}
    BY <1>6 DEF Decide, KnownActions
  <2> QED
    BY <1>1, <1>3, <1>4, <1>6, <2>1 DEF Decide, KnownActions
<1> QED
  BY <1>5, <1>6 DEF KnownActions

(* What Policy.decide lets out for an answer of the provider: a structured *)
(* decision for Instagram, nothing suspicious, and support for whatever    *)
(* topic it controls.                                                      *)
LEMMA AllowedIsSafe ==
  ASSUME NEW d \in Parsed, NEW channel, NEW topics \in SUBSET Topics, NEW pause \in BOOLEAN,
         Decide(Intended(d), d, channel, topics, pause) = "allowed"
  PROVE  /\ d.structured
         /\ channel = "instagram"
         /\ topics \subseteq {"controlled"}
         /\ d.text \in {"plain", "controlled"}
         /\ "controlled" \in topics \cup {d.text} =>
              d.references = "catalog" \/ d.action = "ask_clarification"
<1>1. d.action \in DecisionActions /\ d.text \in Texts /\ d.references \in References
  BY DEF Parsed, Structured, Unstructured, LegacyIgnore, Decisions, DecisionActions, Texts, References
<1>2. Intended(d) \in {"send_reply", "no_action", "escalate_to_owner"}
  BY <1>1 DEF Intended, DecisionActions
<1>3. Intended(d) = "send_reply" /\ DecideReply(d, channel, topics) = "allowed"
  BY <1>2 DEF Decide, KnownActions, DecideIgnore
<1>4. topics \cap {"incident", "restricted"} = {}
  BY <1>2, <1>3 DEF Decide, KnownActions
<1>5. /\ channel = "instagram" /\ d.structured
      /\ ValidPayload(d) /\ d.text # "prohibited" /\ Supported(d, topics)
  BY <1>3 DEF DecideReply
<1>6. d.text \in {"plain", "controlled"} /\ d.references \in {"none", "catalog"}
  BY <1>1, <1>5 DEF ValidPayload, ValidText, Texts, References
<1>7. ControlledTopic(d, topics) => d.references = "catalog" \/ d.action = "ask_clarification"
  BY <1>5, <1>6 DEF Supported, IsClarification
<1>8. topics \subseteq {"controlled"}
  BY <1>4 DEF Topics
<1> QED
  BY <1>5, <1>6, <1>7, <1>8 DEF ControlledTopic

(* Only a structured ignore decision about spam is dropped, and only if    *)
(* the message touches no topic.                                           *)
LEMMA IgnoredIsSpam ==
  ASSUME NEW d \in Parsed, NEW channel, NEW topics \in SUBSET Topics, NEW pause \in BOOLEAN,
         Decide(Intended(d), d, channel, topics, pause) = "ignored"
  PROVE  /\ d.structured /\ d.action = "ignore" /\ d.reason = "spam_or_non_message"
         /\ topics = {}
<1>1. d.action \in DecisionActions
  BY DEF Parsed, Structured, Unstructured, LegacyIgnore, Decisions, DecisionActions
<1>2. Intended(d) \in {"send_reply", "no_action", "escalate_to_owner"}
  BY <1>1 DEF Intended, DecisionActions
<1>3. DecideIgnore(d, topics) = "ignored"
  BY <1>2 DEF Decide, KnownActions, DecideReply
<1>4. topics \cap {"incident", "restricted"} = {}
  BY <1>2 DEF Decide, KnownActions
<1>5. d.structured /\ d.action = "ignore" /\ d.reason = "spam_or_non_message" /\ "controlled" \notin topics
  BY <1>3 DEF DecideIgnore
<1> QED
  BY <1>4, <1>5 DEF Topics

-----------------------------------------------------------------------------
(* The inductive invariant.  Between the policy and the end the decision,  *)
(* the message and the pause that was read do not change, so the recorded  *)
(* outcome stays the policy's answer about them; a delivery exists only    *)
(* for an allowed one.  A read that lets the answer pass shows that what   *)
(* it looks for does not object, hence has not stood since the claim, and  *)
(* nothing that comes up later ever joins what stands.                     *)

Recorded ==
  /\ outcome # "none" =>
       outcome = Decide(Intended(decision), decision, message.channel, message.topics, sawPause)
  /\ step \in {"queued", "claimed", "mode", "newer", "post"} => outcome = "allowed"
  /\ step \in {"context", "provider", "fresh", "policy"} => outcome = "none"
  /\ step = "insert" => outcome # "none"

Heeded ==
  /\ step \in {"mode", "newer", "post"} => "pause" \notin standing
  /\ step \in {"newer", "post"} => "mode" \notin standing /\ "sender" \notin standing
  /\ step = "post" => "newer" \notin standing

IInv == TypeOK /\ Recorded /\ Heeded /\ SentIsSafe /\ OnlySpamIsIgnored

LEMMA InitIInv == Init => IInv
<1> SUFFICES ASSUME Init PROVE IInv
  OBVIOUS
<1>1. NoDecision \in Parsed
  BY DEF NoDecision, Parsed, Texts
<1>2. decision \in Parsed /\ changes \in 0..MaxChanges
  BY <1>1, AutoReplyConstants DEF Init
<1>3. TypeOK
  BY <1>2 DEF Init, TypeOK, Outcomes
<1>4. Recorded /\ Heeded /\ SentIsSafe /\ OnlySpamIsIgnored
  BY DEF Init, Recorded, Heeded, SentIsSafe, OnlySpamIsIgnored
<1> QED
  BY <1>3, <1>4 DEF IInv

LEMMA DecideType ==
  ASSUME NEW type, NEW d, NEW channel, NEW topics, NEW pause
  PROVE  Decide(type, d, channel, topics, pause) \in Outcomes
BY DEF Decide, DecideHuman, DecideIgnore, DecideReply, Outcomes

(* What objects depends on the world and the message only.                 *)
LEMMA SameObjections ==
  ASSUME UNCHANGED <<message, world>>
  PROVE  Objections' = Objections
BY DEF Objections, Objects, world

LEMMA Objected ==
  /\ Objections \subseteq {"pause", "mode", "sender", "newer"}
  /\ "pause" \in Objections => paused
  /\ "mode" \in Objections => ~Automatic(mode, message.listed)
  /\ "sender" \in Objections => ~sender
  /\ "newer" \in Objections => newer
BY DEF Objections, Objects

LEMMA NextIInv == IInv /\ [Next]_vars => IInv'
<1> SUFFICES ASSUME IInv, [Next]_vars PROVE IInv'
  OBVIOUS
<1> USE DEF IInv
<1>1. CASE ReadContext
  BY <1>1, SameObjections
  DEF ReadContext, TypeOK, Recorded, Heeded, SentIsSafe, OnlySpamIsIgnored, world
<1>2. CASE Generate
  BY <1>2, SameObjections
  DEF Generate, TypeOK, Recorded, Heeded, SentIsSafe, OnlySpamIsIgnored, world
<1>3. CASE Superseded
  BY <1>3, SameObjections
  DEF Superseded, TypeOK, Recorded, Heeded, SentIsSafe, OnlySpamIsIgnored, world
<1>4. CASE Fresh
  BY <1>4, SameObjections
  DEF Fresh, TypeOK, Recorded, Heeded, SentIsSafe, OnlySpamIsIgnored, world
<1>5. CASE DecidePolicy
  <2>1. outcome' \in Outcomes
    BY <1>5, DecideType DEF DecidePolicy
  <2>2. auto' \in BOOLEAN
    BY <1>5 DEF DecidePolicy, Automatic
  <2>3. outcome' # "none"
    BY <2>1 DEF Outcomes
  <2> QED
    BY <1>5, <2>1, <2>2, <2>3, SameObjections
    DEF DecidePolicy, TypeOK, Recorded, Heeded, SentIsSafe, OnlySpamIsIgnored, world
<1>6. CASE Insert
  <2>1. TypeOK' /\ Recorded' /\ Heeded'
    BY <1>6, SameObjections DEF Insert, TypeOK, Recorded, Heeded, world
  <2>2. SentIsSafe'
    BY <1>6 DEF Insert, SentIsSafe, TypeOK, world
  <2>3. OnlySpamIsIgnored'
    <3> SUFFICES ASSUME result' = "ignored" PROVE OnlySpamIsIgnored'
      BY DEF OnlySpamIsIgnored
    <3>1. outcome = "ignored"
      BY <1>6 DEF Insert, TypeOK
    <3>2. /\ decision \in Parsed /\ message.topics \in SUBSET Topics /\ sawPause \in BOOLEAN
          /\ Decide(Intended(decision), decision, message.channel, message.topics, sawPause)
               = "ignored"
      BY <3>1 DEF Recorded, TypeOK
    <3>3. /\ decision.structured /\ decision.action = "ignore"
          /\ decision.reason = "spam_or_non_message" /\ message.topics = {}
      BY <3>2, IgnoredIsSpam
    <3> QED
      BY <1>6, <3>3 DEF Insert, OnlySpamIsIgnored
  <2> QED
    BY <2>1, <2>2, <2>3
<1>7. CASE Claim
  BY <1>7, SameObjections
  DEF Claim, TypeOK, Recorded, Heeded, SentIsSafe, OnlySpamIsIgnored, world
<1>8. CASE PermitContext
  <2>1. TypeOK' /\ Recorded' /\ SentIsSafe' /\ OnlySpamIsIgnored'
    BY <1>8, SameObjections
    DEF PermitContext, Gate, TypeOK, Recorded, SentIsSafe, OnlySpamIsIgnored, world
  <2>2. Heeded'
    BY <1>8, Objected DEF PermitContext, Gate, TypeOK, Heeded, world
  <2> QED
    BY <2>1, <2>2
<1>9. CASE PermitMode
  <2>1. TypeOK' /\ Recorded' /\ SentIsSafe' /\ OnlySpamIsIgnored'
    BY <1>9, SameObjections
    DEF PermitMode, Gate, TypeOK, Recorded, SentIsSafe, OnlySpamIsIgnored, world
  <2>2. Heeded'
    BY <1>9, Objected DEF PermitMode, Gate, TypeOK, Heeded, world
  <2> QED
    BY <2>1, <2>2
<1>10. CASE PermitNewer
  <2>1. TypeOK' /\ Recorded' /\ SentIsSafe' /\ OnlySpamIsIgnored'
    BY <1>10, SameObjections
    DEF PermitNewer, Gate, TypeOK, Recorded, SentIsSafe, OnlySpamIsIgnored, world
  <2>2. Heeded'
    BY <1>10, Objected DEF PermitNewer, Gate, TypeOK, Heeded, world
  <2> QED
    BY <2>1, <2>2
<1>11. CASE Post
  <2>1. TypeOK' /\ Recorded' /\ Heeded' /\ OnlySpamIsIgnored'
    BY <1>11, SameObjections DEF Post, TypeOK, Recorded, Heeded, OnlySpamIsIgnored, world
  <2>2. /\ decision \in Parsed /\ message.topics \in SUBSET Topics /\ sawPause \in BOOLEAN
        /\ Decide(Intended(decision), decision, message.channel, message.topics, sawPause)
             = "allowed"
    BY <1>11 DEF Post, Recorded, TypeOK
  <2>3. /\ decision.structured /\ message.channel = "instagram"
        /\ message.topics \subseteq {"controlled"} /\ decision.text \in {"plain", "controlled"}
        /\ "controlled" \in message.topics \cup {decision.text} =>
             decision.references = "catalog" \/ decision.action = "ask_clarification"
    BY <2>2, AllowedIsSafe
  <2>4. standing = {}
    BY <1>11, Objected DEF Post, TypeOK, Heeded
  <2>5. SentIsSafe'
    BY <1>11, <2>3, <2>4 DEF Post, SentIsSafe, world
  <2> QED
    BY <2>1, <2>5
<1>12. CASE Suppress
  BY <1>12, SameObjections
  DEF Suppress, TypeOK, Recorded, Heeded, SentIsSafe, OnlySpamIsIgnored, world
<1>13. CASE Change
  <2> USE DEF SetMode, SetPaused, Inbound, SetSenders
  <2>1. mode' \in Modes /\ paused' \in BOOLEAN /\ newer' \in BOOLEAN /\ sender' \in BOOLEAN
    BY <1>13 DEF Change, TypeOK
  <2>2. /\ UNCHANGED gates /\ step # "done" /\ changes' = changes + 1 /\ changes < MaxChanges
        /\ standing' = standing \cap Objections'
    BY <1>13 DEF Change, OnItsWay
  <2>3. changes' \in 0..MaxChanges
    BY <2>2, AutoReplyConstants DEF TypeOK
  <2>4. TypeOK'
    BY <2>1, <2>2, <2>3 DEF TypeOK, gates
  <2>5. result' = "none"
    BY <2>2 DEF TypeOK, gates
  <2>6. Recorded' /\ SentIsSafe' /\ OnlySpamIsIgnored'
    BY <2>2, <2>5 DEF Recorded, SentIsSafe, OnlySpamIsIgnored, gates
  <2>7. Heeded'
    BY <2>2 DEF Heeded, gates
  <2> QED
    BY <2>4, <2>6, <2>7
<1>14. CASE Done \/ UNCHANGED vars
  BY <1>14, SameObjections
  DEF Done, vars, gates, world, TypeOK, Recorded, Heeded, SentIsSafe, OnlySpamIsIgnored
<1> QED
  BY <1>1, <1>2, <1>3, <1>4, <1>5, <1>6, <1>7, <1>8, <1>9, <1>10, <1>11, <1>12, <1>13, <1>14
  DEF Next

LEMMA Invariance == Spec => []IInv
  BY InitIInv, NextIInv, PTL DEF Spec

(* The gates are passed in order and every decision is of its type.        *)
THEOREM TypeCorrect == Spec => []TypeOK
  BY Invariance, PTL DEF IInv

(* Whatever the provider answers and between whichever steps the pause,    *)
(* the mode, the senders and the conversation change, what is sent is a    *)
(* safe answer, and no objection that has stood since the claim of the     *)
(* delivery is overlooked: the gates of executor.py and policy.py and the  *)
(* three reads of _permission_reason of delivery.py together imply it.     *)
THEOREM SentCorrect == Spec => []SentIsSafe
  BY Invariance, PTL DEF IInv

(* Without a person only spam is dropped by _action_for_job.               *)
THEOREM IgnoredCorrect == Spec => []OnlySpamIsIgnored
  BY Invariance, PTL DEF IInv

(* The order of the policy's checks opens no way around them.              *)
THEOREM SuspicionCorrect == Spec => []SuspicionNeverHelps
<1>1. IInv => SuspicionNeverHelps
  <2> SUFFICES ASSUME IInv, outcome # "none",
                      NEW topics \in SUBSET Topics, NEW pause \in BOOLEAN,
                      message.topics \subseteq topics, sawPause => pause,
                      Decide(Intended(decision), decision, message.channel, topics, pause)
                        \in {"allowed", "ignored"}
               PROVE  Decide(Intended(decision), decision, message.channel, topics, pause)
                        = outcome
    BY DEF SuspicionNeverHelps
  <2>1. sawPause \in BOOLEAN
    BY DEF IInv, TypeOK
  <2>2. Decide(Intended(decision), decision, message.channel, message.topics, sawPause)
          = Decide(Intended(decision), decision, message.channel, topics, pause)
    BY <2>1, PolicyIsMonotone
  <2> QED
    BY <2>2 DEF IInv, Recorded
<1> QED
  BY <1>1, Invariance, PTL
=============================================================================
