-------------------------- MODULE JobQueueProofs --------------------------
(***************************************************************************)
(* Proofs about JobQueue for any number of workers, conversations,         *)
(* messages and attempts.                                                  *)
(***************************************************************************)
EXTENDS JobQueue, SequenceTheorems, FiniteSetTheorems, TLAPS

-----------------------------------------------------------------------------
(* The inductive invariant.                                                *)

HeldExists == \A w \in Workers : pc[w] \in Busy => run[w].job \in Inserted

(* The action a worker goes on with is a row of its job, and one that      *)
(* needs the local sink has been there before the job is completed.        *)
ActionChosen ==
  \A w \in Workers :
    /\ pc[w] \in {"check", "execute", "complete"} =>
         run[w].action \in 1..Len(actions[run[w].job])
    /\ pc[w] = "complete" =>
         LET a == actions[run[w].job][run[w].action] IN a.kind # "review" \/ a.executed

(* A worker that sets its job aside has seen a newer one.                  *)
NewerSeen ==
  \A w \in Workers :
    /\ pc[w] = "newest" => Newer(run[w].job) # {}
    /\ pc[w] = "supersede" => run[w].newest \in Newer(run[w].job)

Safe == /\ HeldExists
        /\ ActionChosen
        /\ NewerSeen
        /\ Serialized
        /\ SupersededByLater
        /\ CompletedIsExecuted

IInv == TypeOK /\ Safe

-----------------------------------------------------------------------------
(* Lemmas about the operators of the model.                                *)

LEMMA NoRunIsNoRun == NoRun \notin Run
BY JobQueueConstants DEF NoRun, Run, Job

LEMMA InsertedIsJob == ASSUME JobTypes PROVE Inserted \subseteq Job
BY JobQueueConstants DEF JobTypes, Inserted, Job

LEMMA AfterFailureType ==
  \A n \in Nat : /\ AfterFailure(n) \in {"dead_letter", "queued"}
                 /\ EventAfterFailure(n) \in EventStatus
BY DEF AfterFailure, EventAfterFailure, EventStatus

(* A new message is newer than all the others.                             *)
LEMMA NewerGrows ==
  ASSUME JobTypes, NEW c \in Conversations, jobs' = Append(jobs, c)
  PROVE  /\ Inserted \subseteq Inserted'
         /\ Inserted' = Inserted \cup {Len(jobs) + 1}
         /\ Len(jobs) + 1 \notin Inserted
         /\ \A j \in Inserted : jobs'[j] = jobs[j] /\ Newer(j) \subseteq Newer(j)'
BY DEF JobTypes, Inserted, Newer, JobsOf

LEMMA NewerSame == UNCHANGED jobs => \A j \in Inserted : Newer(j)' = Newer(j)
BY DEF Newer, JobsOf, Inserted

(* The newest other message is newer, once there is a newer one.           *)
LEMMA NewestIsNewer ==
  ASSUME JobTypes, NEW j \in Inserted, Newer(j) # {}, NEW k \in Inserted,
         IsNewest(k, JobsOf(jobs[j]) \ {j})
  PROVE  k \in Newer(j)
<1>1. PICK n \in JobsOf(jobs[j]) : n > j
  BY DEF Newer
<1>2. n \in JobsOf(jobs[j]) \ {j} /\ n \in Nat /\ j \in Nat /\ k \in Nat
  BY <1>1 DEF JobTypes, JobsOf, Inserted
<1>3. n <= k /\ k \in JobsOf(jobs[j])
  BY <1>2 DEF IsNewest
<1> QED BY <1>1, <1>2, <1>3 DEF Newer

LEMMA LeaveTypes ==
  ASSUME JobTypes, NEW j \in Inserted, NEW s \in State \ {"none"}, NEW e \in EventStatus,
         Leave(j, s, e), UNCHANGED jobs
  PROVE  /\ state' \in [Job -> State]
         /\ leaseOver' \in [Job -> BOOLEAN]
         /\ eventStatus' \in [Job -> EventStatus]
         /\ \A k \in Job : state'[k] # "none" <=> k \in Inserted'
BY DEF JobTypes, Leave, Inserted

LEMMA EndRunTypes ==
  ASSUME WorkerTypes, NEW w \in Workers, NEW l \in AtRest, EndRun(w, l)
  PROVE  WorkerTypes'
BY NoRunIsNoRun DEF WorkerTypes, EndRun, GoTo, AtRest, Busy

-----------------------------------------------------------------------------
(* Typing                                                                  *)

LEMMA InitTypeOK == Init => TypeOK
<1> SUFFICES ASSUME Init PROVE TypeOK
  OBVIOUS
<1>1. JobTypes
  BY JobQueueConstants DEF Init, JobTypes, State, EventStatus, Inserted, Job
<1>2. WorkerTypes /\ BoundTypes
  BY NoRunIsNoRun DEF Init, WorkerTypes, BoundTypes, AtRest, Busy
<1> QED BY <1>1, <1>2 DEF TypeOK

LEMMA EnqueueTypes ==
  ASSUME TypeOK, NEW c \in Conversations, Enqueue(c)
  PROVE  TypeOK'
<1> USE DEF TypeOK, Enqueue
<1>1. /\ jobs' = Append(jobs, c) /\ Len(jobs) + 1 \in Job
      /\ jobs' \in Seq(Conversations) /\ Len(jobs') = Len(jobs) + 1
      /\ Len(jobs') <= MaxJobs
  BY JobQueueConstants DEF JobTypes, Job
<1>2. /\ state' \in [Job -> State]
      /\ due' \in [Job -> BOOLEAN]
      /\ eventStatus' \in [Job -> EventStatus]
  BY <1>1, JobQueueConstants DEF JobTypes, State, EventStatus
<1>3. \A j \in Job : state'[j] # "none" <=> j \in Inserted'
  BY <1>1, NewerGrows DEF JobTypes
<1>4. JobTypes'
  BY <1>1, <1>2, <1>3 DEF JobTypes
<1>5. WorkerTypes' /\ BoundTypes'
  BY DEF WorkerTypes, BoundTypes, workerVars, bounds
<1> QED BY <1>4, <1>5

(* Time, the recovery of stale jobs, and the operators.                    *)
LEMMA TimeTypes ==
  ASSUME TypeOK, NEW j \in Job, BecomeDue(j) \/ LeaseExpires(j)
  PROVE  TypeOK'
<1> USE DEF TypeOK, BecomeDue, LeaseExpires
<1>1. JobTypes'
  BY DEF JobTypes, Inserted
<1>2. WorkerTypes' /\ BoundTypes'
  BY DEF WorkerTypes, BoundTypes, workerVars, bounds
<1> QED BY <1>1, <1>2

LEMMA RecoverTypes ==
  ASSUME JobTypes, BoundTypes, Recover
  PROVE  JobTypes' /\ BoundTypes'
<1>1. \A j \in Stale : j \in Inserted /\ state[j] = "processing" /\ attempts[j] \in Nat
  BY InsertedIsJob DEF Stale, JobTypes
<1>2. /\ state' \in [Job -> State]
      /\ eventStatus' \in [Job -> EventStatus]
      /\ \A j \in Job : state'[j] # "none" <=> j \in Inserted'
  BY <1>1, AfterFailureType DEF Recover, JobTypes, State, Inserted
<1>3. due' \in [Job -> BOOLEAN] /\ leaseOver' \in [Job -> BOOLEAN]
  BY DEF Recover, JobTypes
<1> QED BY <1>2, <1>3 DEF Recover, JobTypes, BoundTypes, bounds

LEMMA RecoverStaleTypes ==
  ASSUME TypeOK, NEW w \in Workers, RecoverStale(w)
  PROVE  TypeOK'
<1>1. JobTypes' /\ BoundTypes'
  BY RecoverTypes DEF TypeOK, RecoverStale
<1>2. WorkerTypes'
  BY DEF TypeOK, WorkerTypes, RecoverStale, GoTo, AtRest, Busy
<1> QED BY <1>1, <1>2 DEF TypeOK

LEMMA OperatorTypes ==
  ASSUME TypeOK, Operator
  PROVE  TypeOK'
<1> USE DEF TypeOK
<1>1. ASSUME NEW c \in Conversations, HumanReply(c) PROVE TypeOK'
  <2>1. \A b \in BOOLEAN : Action("human", "delivery", b) \in ActionRow
    BY DEF Action, ActionRow, Kind
  <2>2. JobTypes'
    <3>1. PICK j \in Inserted :
            actions' = [actions EXCEPT ![j] = Append(@, Action("human", "delivery", @ = <<>>))]
      BY <1>1 DEF HumanReply
    <3>2. actions' \in [Job -> Seq(ActionRow)]
      <4>1. j \in Job /\ actions[j] \in Seq(ActionRow)
        BY InsertedIsJob DEF JobTypes
      <4> DEFINE first == actions[j] = <<>>
                 a == Append(actions[j], Action("human", "delivery", first))
      <4>2. first \in BOOLEAN
        OBVIOUS
      <4>3. Action("human", "delivery", first) \in ActionRow
        BY <2>1, <4>2
      <4>4. actions' = [actions EXCEPT ![j] = a]
        BY <3>1
      <4>5. a \in Seq(ActionRow)
        <5> HIDE DEF first
        <5> QED BY <4>1, <4>3
      <4> HIDE DEF a
      <4> QED BY <4>1, <4>4, <4>5 DEF JobTypes
    <3> QED BY <1>1, <3>2 DEF HumanReply, JobTypes, jobVars, Inserted
  <2>3. WorkerTypes' /\ BoundTypes'
    BY <1>1 DEF HumanReply, WorkerTypes, BoundTypes, workerVars
  <2> QED BY <2>2, <2>3
<1>2. ASSUME NEW j \in Job, Retry(j) \/ Dismiss(j) PROVE TypeOK'
  <2>1. j \in Inserted
    BY <1>2 DEF Retry, Dismiss, JobTypes
  <2>2. JobTypes'
    <3>1. CASE Retry(j)
      BY <2>1, <3>1, LeaveTypes DEF Retry, JobTypes, State, EventStatus
    <3>2. CASE Dismiss(j)
      BY <2>1, <3>2, LeaveTypes DEF Dismiss, JobTypes, State, EventStatus
    <3> QED BY <1>2, <3>1, <3>2
  <2>3. WorkerTypes' /\ BoundTypes'
    BY <1>2 DEF Retry, Dismiss, WorkerTypes, BoundTypes, workerVars, bounds
  <2> QED BY <2>2, <2>3
<1>3. CASE RecoverByHand
  <2>1. JobTypes' /\ BoundTypes'
    BY <1>3, RecoverTypes DEF RecoverByHand
  <2>2. WorkerTypes'
    BY <1>3 DEF RecoverByHand, WorkerTypes, workerVars
  <2> QED BY <2>1, <2>2
<1> QED BY <1>1, <1>2, <1>3 DEF Operator

LEMMA ClaimTypes ==
  ASSUME TypeOK, NEW w \in Workers, ClaimNext(w)
  PROVE  TypeOK'
<1> USE DEF TypeOK
<1>1. PICK candidate \in Claimable, j \in Claimable :
        LET older == Due(jobs[candidate]) \ {j} IN
          /\ state' = [k \in Job |->
               IF k = j THEN "processing" ELSE IF k \in older THEN "superseded" ELSE state[k]]
          /\ successor' = [k \in Job |-> IF k \in older THEN j ELSE successor[k]]
          /\ eventStatus' = [k \in Job |-> IF k \in older THEN "batched" ELSE eventStatus[k]]
          /\ attempts' = [attempts EXCEPT ![j] = @ + 1]
          /\ leaseOver' = [leaseOver EXCEPT ![j] = FALSE]
          /\ run' = [run EXCEPT ![w] = [NoRun EXCEPT !.job = j, !.attempts = attempts[j] + 1]]
  BY DEF ClaimNext
<1>2. j \in Job /\ j \in Inserted /\ state[j] = "queued" /\ attempts[j] + 1 \in Nat
  BY <1>1, InsertedIsJob DEF Claimable, Due, Queued, JobTypes
<1>3. \A k \in Due(jobs[candidate]) : k \in Inserted
  BY DEF Due, Queued, JobsOf
<1>4. JobTypes'
  BY <1>1, <1>2, <1>3 DEF ClaimNext, JobTypes, State, EventStatus, Inserted
<1>5. [NoRun EXCEPT !.job = j, !.attempts = attempts[j] + 1] \in Run
  BY <1>2 DEF NoRun, Run
<1>6. WorkerTypes'
  BY <1>1, <1>5 DEF ClaimNext, WorkerTypes, GoTo, AtRest, Busy
<1>7. BoundTypes'
  BY DEF ClaimNext, BoundTypes, bounds
<1> QED BY <1>4, <1>6, <1>7

(* The steps inside a run that change no table.                            *)
Reads(w) ==
  \/ ClaimNothing(w)
  \/ LookForAction(w)
  \/ CheckFresh(w)
  \/ CheckExecution(w)
  \/ FindNewest(w)
  \/ Restart(w)

LEMMA ReadsTypes ==
  ASSUME TypeOK, NEW w \in Workers, Reads(w)
  PROVE  TypeOK'
<1> USE DEF TypeOK
<1>1. UNCHANGED <<jobs, jobVars, actions, bounds>>
  BY DEF Reads, ClaimNothing, LookForAction, CheckFresh, CheckExecution, FindNewest, Restart
<1>2. JobTypes' /\ BoundTypes'
  BY <1>1 DEF JobTypes, BoundTypes, Inserted, jobVars, bounds
<1>3. WorkerTypes'
  <2>1. CASE ClaimNothing(w) \/ CheckExecution(w) \/ Restart(w)
    BY <2>1 DEF ClaimNothing, CheckExecution, Restart, WorkerTypes, GoTo, AtRest, Busy
  <2>2. CASE LookForAction(w)
    <3>1. run[w] \in Run /\ \A i \in Nat : [run[w] EXCEPT !.action = i] \in Run
      BY <2>2 DEF LookForAction, WorkerTypes, Busy, Run
    <3>2. \A kind : AfterAction(kind) \in Busy
      BY DEF AfterAction, Busy
    <3>3. CASE run' = run /\ GoTo(w, "provider")
      BY <3>1, <3>3 DEF WorkerTypes, GoTo, Busy
    <3>4. CASE run' # run \/ ~GoTo(w, "provider")
      <4>1. PICK i \in 1..Len(actions[run[w].job]) :
              /\ GoTo(w, AfterAction(actions[run[w].job][i].kind))
              /\ run' = [run EXCEPT ![w].action = i]
        BY <2>2, <3>4 DEF LookForAction
      <4>2. [run[w] EXCEPT !.action = i] \in Run
        BY <3>1
      <4> QED BY <3>1, <3>2, <4>1, <4>2 DEF WorkerTypes, GoTo, Busy, LookForAction
    <3> QED BY <3>3, <3>4
  <2>3. CASE FindNewest(w)
    <3>1. run[w] \in Run /\ \A k \in Inserted : [run[w] EXCEPT !.newest = k] \in Run
      BY <2>3, InsertedIsJob DEF FindNewest, WorkerTypes, Busy, Run
    <3> QED BY <2>3, <3>1 DEF FindNewest, WorkerTypes, GoTo, AtRest, Busy
  <2>4. CASE CheckFresh(w)
    <3>1. run[w] \in Run /\ actions[run[w].job] \in Seq(ActionRow)
      BY <2>4 DEF CheckFresh, WorkerTypes, JobTypes, Busy, Run
    <3>2. Len(actions[run[w].job]) \in Nat
      BY <3>1
    <3>3. [run[w] EXCEPT !.seen = Len(actions[run[w].job])] \in Run
      BY <3>1, <3>2 DEF Run
    <3> QED BY <2>4, <3>1, <3>3 DEF CheckFresh, WorkerTypes, GoTo, AtRest, Busy
  <2> QED BY <2>1, <2>2, <2>3, <2>4 DEF Reads
<1> QED BY <1>2, <1>3

LEMMA EarlierIsBoolean == \A w \in Workers : MayBeEarlier(w) \subseteq BOOLEAN
BY DEF MayBeEarlier

LEMMA ActionTypes ==
  ASSUME TypeOK, HeldExists, ActionChosen, NEW w \in Workers, InsertAction(w) \/ Execute(w)
  PROVE  TypeOK'
<1> USE DEF TypeOK
<1>1. run[w] \in Run /\ run[w].job \in Job
  BY DEF InsertAction, Execute, WorkerTypes, Busy, Run
<1>2. UNCHANGED <<jobs, jobVars, bounds>>
  BY DEF InsertAction, Execute
<1>3. CASE InsertAction(w)
  <2>1. PICK kind \in Kind, earlier \in BOOLEAN :
          /\ actions' = [actions EXCEPT ![run[w].job] = Append(@, Action("bot", kind, earlier))]
          /\ run' = [run EXCEPT ![w].action = Len(actions[run[w].job]) + 1]
          /\ GoTo(w, AfterAction(kind))
    BY <1>3, EarlierIsBoolean DEF InsertAction
  <2>2. Action("bot", kind, earlier) \in ActionRow /\ AfterAction(kind) \in Busy
    BY DEF Action, ActionRow, AfterAction, Busy
  <2>3. JobTypes'
    BY <1>1, <1>2, <2>1, <2>2 DEF JobTypes, Inserted, jobVars
  <2>4. [run[w] EXCEPT !.action = Len(actions[run[w].job]) + 1] \in Run
    <3>1. actions[run[w].job] \in Seq(ActionRow)
      BY <1>1 DEF JobTypes
    <3>2. Len(actions[run[w].job]) + 1 \in Nat
      BY <3>1
    <3> QED BY <1>1, <3>2 DEF Run
  <2>5. WorkerTypes' /\ BoundTypes'
    BY <1>2, <1>3, <2>1, <2>2, <2>4 DEF InsertAction, WorkerTypes, BoundTypes, GoTo, Busy, bounds
  <2> QED BY <2>3, <2>5
<1>4. CASE Execute(w)
  <2>1. run[w].action \in 1..Len(actions[run[w].job])
    BY <1>4 DEF Execute, ActionChosen
  <2>2. [actions[run[w].job] EXCEPT ![run[w].action].executed = TRUE] \in Seq(ActionRow)
    <3> DEFINE s == actions[run[w].job]
               a == [s[run[w].action] EXCEPT !.executed = TRUE]
    <3>1. s \in Seq(ActionRow)
      BY <1>1 DEF JobTypes
    <3>2. s[run[w].action] \in ActionRow
      BY <2>1, <3>1
    <3>3. a \in ActionRow
      BY <3>2 DEF ActionRow
    <3>4. [s EXCEPT ![run[w].action] = a] \in Seq(ActionRow)
      BY <2>1, <3>1, <3>3, ExceptSeq
    <3> QED BY <3>4
  <2>3. JobTypes'
    BY <1>1, <1>2, <1>4, <2>2 DEF Execute, JobTypes, Inserted, jobVars
  <2>4. WorkerTypes' /\ BoundTypes'
    BY <1>2, <1>4 DEF Execute, WorkerTypes, BoundTypes, GoTo, Busy, AtRest, bounds
  <2> QED BY <2>3, <2>4
<1> QED BY <1>3, <1>4

(* The steps that end a run.                                               *)
LEMMA EndTypes ==
  ASSUME TypeOK, HeldExists, NewerSeen, NEW w \in Workers,
         Complete(w) \/ Supersede(w) \/ Fail(w) \/ Crash(w)
  PROVE  TypeOK'
<1> USE DEF TypeOK
<1>1. WorkerTypes'
  BY EndRunTypes DEF Complete, Supersede, Fail, Crash, AtRest
<1>2. BoundTypes'
  BY DEF Complete, Supersede, Fail, Crash, BoundTypes, bounds
<1>3. JobTypes'
  <2>1. CASE Crash(w)
    BY <2>1 DEF Crash, JobTypes, Inserted, jobVars
  <2>2. CASE Complete(w)
    <3>1. run[w].job \in Inserted
      BY <2>2 DEF Complete, HeldExists, Busy
    <3>2. "completed" \in State \ {"none"} /\ "processed" \in EventStatus
      BY DEF State, EventStatus
    <3> QED BY <2>2, <3>1, <3>2, LeaveTypes DEF Complete, JobTypes
  <2>3. CASE Supersede(w)
    <3>1. run[w].job \in Inserted /\ run[w].newest \in Inserted
      BY <2>3 DEF Supersede, HeldExists, NewerSeen, Newer, JobsOf, Busy
    <3>2. "superseded" \in State \ {"none"} /\ "batched" \in EventStatus
      BY DEF State, EventStatus
    <3>3. successor' \in [Job -> Job \cup {0}]
      BY <2>3, <3>1, InsertedIsJob DEF Supersede, JobTypes
    <3> QED BY <2>3, <3>1, <3>2, <3>3, LeaveTypes DEF Supersede, JobTypes
  <2>4. CASE Fail(w)
    <3>1. run[w].job \in Inserted /\ run[w].attempts \in Nat
      BY <2>4 DEF Fail, HeldExists, WorkerTypes, Busy, Run
    <3>2. /\ AfterFailure(run[w].attempts) \in State \ {"none"}
          /\ EventAfterFailure(run[w].attempts) \in EventStatus
      BY <3>1, AfterFailureType DEF State
    <3> QED BY <2>4, <3>1, <3>2, LeaveTypes DEF Fail, JobTypes
  <2> QED BY <2>1, <2>2, <2>3, <2>4
<1> QED BY <1>1, <1>2, <1>3

-----------------------------------------------------------------------------
(* Safety.  Each lemma takes one kind of step; typing is proved above.     *)

LEMMA InitSafe == Init => Safe
BY DEF Init, Safe, HeldExists, ActionChosen, NewerSeen, Serialized, SupersededByLater,
       CompletedIsExecuted, Inserted, Busy

(* A worker that touches no table and gets where the invariant lets it.    *)
LEMMA ReadsSafe ==
  ASSUME IInv, NEW w \in Workers, Reads(w)
  PROVE  Safe'
<1> USE DEF IInv, TypeOK, Safe
<1>1. UNCHANGED <<jobs, jobVars, actions>>
  BY DEF Reads, ClaimNothing, LookForAction, CheckFresh, CheckExecution, FindNewest, Restart
<1>2. Serialized' /\ SupersededByLater' /\ CompletedIsExecuted'
  BY <1>1 DEF Serialized, SupersededByLater, CompletedIsExecuted, Newer, JobsOf, Inserted,
              jobVars
<1>3. \A v \in Workers : v # w => pc'[v] = pc[v] /\ run'[v] = run[v]
  BY DEF Reads, ClaimNothing, LookForAction, CheckFresh, CheckExecution, FindNewest, Restart,
         GoTo, WorkerTypes
<1>4. run'[w].job = run[w].job
  BY DEF Reads, ClaimNothing, LookForAction, CheckFresh, CheckExecution, FindNewest, Restart,
         WorkerTypes, NoRun, Run
<1>5. HeldExists'
  <2>1. pc'[w] \in Busy => pc[w] \in Busy
    BY DEF Reads, ClaimNothing, LookForAction, CheckFresh, CheckExecution, FindNewest, Restart,
           GoTo, WorkerTypes, Busy
  <2> QED BY <1>1, <1>3, <1>4, <2>1 DEF HeldExists, Inserted
<1>6. ActionChosen'
  <2>1. /\ pc'[w] \in {"check", "execute", "complete"} =>
             run'[w].action \in 1..Len(actions[run[w].job])
        /\ pc'[w] = "complete" =>
             LET a == actions[run[w].job][run'[w].action] IN a.kind # "review" \/ a.executed
    <3>1. CASE LookForAction(w)
      <4>1. /\ run[w] \in Run /\ actions[run[w].job] \in Seq(ActionRow)
            /\ run[w].job \in Job
        BY <3>1 DEF LookForAction, WorkerTypes, Busy, Run, JobTypes
      <4>2. CASE GoTo(w, "provider")
        BY <4>2 DEF GoTo, WorkerTypes
      <4>3. CASE ~GoTo(w, "provider")
        <5>1. PICK i \in 1..Len(actions[run[w].job]) :
                /\ GoTo(w, AfterAction(actions[run[w].job][i].kind))
                /\ run' = [run EXCEPT ![w].action = i]
          BY <3>1, <4>3 DEF LookForAction
        <5>2. run'[w].action = i
          BY <4>1, <5>1 DEF WorkerTypes, Run
        <5>3. pc'[w] = AfterAction(actions[run[w].job][i].kind)
          BY <5>1 DEF GoTo, WorkerTypes
        <5> QED BY <5>1, <5>2, <5>3 DEF AfterAction
      <4> QED BY <4>2, <4>3
    <3>2. CASE CheckExecution(w)
      BY <3>2 DEF CheckExecution, GoTo, WorkerTypes, ActionChosen
    <3>3. CASE ClaimNothing(w) \/ CheckFresh(w) \/ FindNewest(w) \/ Restart(w)
      BY <3>3 DEF ClaimNothing, CheckFresh, FindNewest, Restart, GoTo, WorkerTypes
    <3> QED BY <3>1, <3>2, <3>3 DEF Reads
  <2> QED BY <1>1, <1>3, <1>4, <2>1 DEF ActionChosen
<1>7. NewerSeen'
  <2>1. /\ pc'[w] = "newest" => Newer(run[w].job) # {}
        /\ pc'[w] = "supersede" => run'[w].newest \in Newer(run[w].job)
    <3>1. CASE FindNewest(w)
      <4>1. PICK k \in Inserted :
              /\ IsNewest(k, JobsOf(jobs[run[w].job]) \ {run[w].job})
              /\ run' = [run EXCEPT ![w].newest = k]
        BY <3>1 DEF FindNewest
      <4>2. run[w].job \in Inserted /\ Newer(run[w].job) # {} /\ run[w] \in Run
        BY <3>1 DEF FindNewest, HeldExists, NewerSeen, WorkerTypes, Busy
      <4>3. k \in Newer(run[w].job)
        BY <4>1, <4>2, NewestIsNewer
      <4>4. run'[w].newest = k /\ pc'[w] = "supersede"
        BY <3>1, <4>1, <4>2 DEF FindNewest, GoTo, WorkerTypes, Run
      <4> QED BY <4>3, <4>4
    <3>2. CASE CheckFresh(w)
      BY <3>2 DEF CheckFresh, GoTo, WorkerTypes
    <3>3. CASE ClaimNothing(w) \/ LookForAction(w) \/ CheckExecution(w) \/ Restart(w)
      BY <3>3 DEF ClaimNothing, LookForAction, AfterAction, CheckExecution, Restart, GoTo,
                  WorkerTypes
    <3> QED BY <3>1, <3>2, <3>3 DEF Reads
  <2> QED BY <1>1, <1>3, <1>4, <2>1 DEF NewerSeen, Newer, JobsOf, Inserted
<1> QED BY <1>2, <1>5, <1>6, <1>7

(* A step of the tables that leaves the workers alone, moves no job to     *)
(* processing, superseded or completed, and only adds jobs and actions.    *)
LEMMA TablesSafe ==
  ASSUME IInv, UNCHANGED workerVars,
         Inserted \subseteq Inserted',
         \A j \in Inserted : jobs'[j] = jobs[j] /\ Newer(j) \subseteq Newer(j)',
         \A j \in Inserted' : state'[j] \in {"processing", "superseded", "completed"} =>
           j \in Inserted /\ state[j] = state'[j] /\ successor'[j] = successor[j],
         \A j \in Inserted : /\ Len(actions'[j]) \in Nat /\ Len(actions[j]) \in Nat
                             /\ Len(actions[j]) <= Len(actions'[j])
                             /\ \A i \in 1..Len(actions[j]) : actions'[j][i] = actions[j][i]
  PROVE  Safe'
<1> USE DEF IInv, TypeOK, Safe, workerVars
<1>1. HeldExists'
  BY DEF HeldExists
<1>2. ActionChosen'
  BY DEF ActionChosen, HeldExists, Busy
<1>3. NewerSeen'
  BY DEF NewerSeen, HeldExists, Busy
<1>4. Serialized' /\ SupersededByLater'
  BY DEF Serialized, SupersededByLater
<1>5. CompletedIsExecuted'
  BY DEF CompletedIsExecuted
<1> QED BY <1>1, <1>2, <1>3, <1>4, <1>5

LEMMA EnqueueSafe ==
  ASSUME IInv, NEW c \in Conversations, Enqueue(c)
  PROVE  Safe'
<1> USE DEF IInv, TypeOK
<1>1. /\ Inserted \subseteq Inserted' /\ Inserted' = Inserted \cup {Len(jobs) + 1}
      /\ Len(jobs) + 1 \notin Inserted
      /\ \A j \in Inserted : jobs'[j] = jobs[j] /\ Newer(j) \subseteq Newer(j)'
  BY NewerGrows DEF Enqueue
<1>2. Len(jobs) + 1 \in Job
  BY JobQueueConstants DEF Enqueue, JobTypes, Job
<1>3. \A j \in Inserted' : state'[j] \in {"processing", "superseded", "completed"} =>
        j \in Inserted /\ state[j] = state'[j] /\ successor'[j] = successor[j]
  BY <1>1, <1>2, InsertedIsJob DEF Enqueue, JobTypes
<1>4. UNCHANGED <<actions, workerVars>>
  BY DEF Enqueue
<1>5. \A j \in Inserted : Len(actions[j]) \in Nat
  BY InsertedIsJob DEF JobTypes
<1> QED BY <1>1, <1>3, <1>4, <1>5, TablesSafe

(* The steps that leave the workers and the messages alone.                *)
LEMMA AroundSafe ==
  ASSUME IInv,
         \/ \E j \in Job : BecomeDue(j) \/ LeaseExpires(j)
         \/ Operator
  PROVE  Safe'
<1> USE DEF IInv, TypeOK
<1>1. UNCHANGED <<jobs, successor, workerVars>>
  BY DEF BecomeDue, LeaseExpires, Operator, HumanReply, Retry, Dismiss, RecoverByHand, Recover,
         jobVars
<1>2. Inserted' = Inserted /\ \A j \in Inserted : Newer(j)' = Newer(j)
  BY <1>1 DEF Inserted, Newer, JobsOf
<1>3. \A j \in Inserted : j \in Job /\ Len(actions[j]) \in Nat
  BY InsertedIsJob DEF JobTypes
<1>4. ASSUME NEW c \in Conversations, HumanReply(c) PROVE Safe'
  <2>1. PICK k \in Inserted :
          actions' = [actions EXCEPT ![k] = Append(@, Action("human", "delivery", @ = <<>>))]
    BY <1>4 DEF HumanReply
  <2>2. k \in Job /\ actions[k] \in Seq(ActionRow)
    BY InsertedIsJob DEF JobTypes
  <2>3. \A a : LET s == Append(actions[k], a) IN
          /\ Len(s) = Len(actions[k]) + 1
          /\ \A i \in 1..Len(actions[k]) : s[i] = actions[k][i]
    BY <2>2
  <2>4. \A j \in Inserted :
          /\ Len(actions'[j]) \in Nat /\ Len(actions[j]) \in Nat
          /\ Len(actions[j]) <= Len(actions'[j])
          /\ \A i \in 1..Len(actions[j]) : actions'[j][i] = actions[j][i]
    BY <1>3, <2>1, <2>2, <2>3 DEF JobTypes
  <2>5. UNCHANGED state
    BY <1>4 DEF HumanReply, jobVars
  <2> QED BY <1>1, <1>2, <2>4, <2>5, TablesSafe
<1>5. ASSUME UNCHANGED actions,
             \A j \in Job : state'[j] = state[j] \/ state'[j] \in {"queued", "dead_letter", "dismissed"}
      PROVE  Safe'
  BY <1>1, <1>2, <1>3, <1>5, TablesSafe
<1>6. CASE \E j \in Job : BecomeDue(j) \/ LeaseExpires(j)
  BY <1>5, <1>6 DEF BecomeDue, LeaseExpires
<1>7. CASE RecoverByHand
  <2>1. \A j \in Stale : attempts[j] \in Nat
    BY InsertedIsJob DEF Stale, JobTypes
  <2> QED BY <1>5, <1>7, <2>1, AfterFailureType DEF RecoverByHand, Recover
<1>8. CASE \E j \in Job : Retry(j) \/ Dismiss(j)
  BY <1>5, <1>8 DEF Retry, Dismiss, Leave, JobTypes
<1> QED BY <1>4, <1>6, <1>7, <1>8 DEF Operator

LEMMA RecoverStaleSafe ==
  ASSUME IInv, NEW w \in Workers, RecoverStale(w)
  PROVE  Safe'
<1> USE DEF IInv, TypeOK, Safe
<1>1. \A j \in Stale : attempts[j] \in Nat
  BY InsertedIsJob DEF Stale, JobTypes
<1>2. \A j \in Job : state'[j] = state[j] \/ state'[j] \in {"queued", "dead_letter"}
  BY <1>1, AfterFailureType DEF RecoverStale, Recover
<1>3. UNCHANGED <<jobs, successor, actions, run>>
  BY DEF RecoverStale, Recover
<1>4. \A v \in Workers : pc'[v] = pc[v] \/ pc'[v] = "claim"
  BY DEF RecoverStale, GoTo, WorkerTypes
<1>5. Inserted' = Inserted /\ \A j \in Inserted : j \in Job /\ Newer(j)' = Newer(j)
  BY <1>3, InsertedIsJob DEF Inserted, Newer, JobsOf
<1>6. HeldExists' /\ ActionChosen'
  BY <1>3, <1>4, <1>5 DEF HeldExists, ActionChosen, Busy
<1>7. NewerSeen'
  BY <1>3, <1>4, <1>5 DEF NewerSeen, HeldExists, Busy
<1>8. Serialized' /\ SupersededByLater' /\ CompletedIsExecuted'
  BY <1>2, <1>3, <1>5 DEF Serialized, SupersededByLater, CompletedIsExecuted
<1> QED BY <1>6, <1>7, <1>8

LEMMA ClaimSafe ==
  ASSUME IInv, NEW w \in Workers, ClaimNext(w)
  PROVE  Safe'
<1> USE DEF IInv, TypeOK, Safe
<1>1. PICK candidate \in Claimable, j \in Claimable :
        LET older == Due(jobs[candidate]) \ {j} IN
          /\ IsNewest(j, Due(jobs[candidate]))
          /\ state' = [k \in Job |->
               IF k = j THEN "processing" ELSE IF k \in older THEN "superseded" ELSE state[k]]
          /\ successor' = [k \in Job |-> IF k \in older THEN j ELSE successor[k]]
          /\ run' = [run EXCEPT ![w] = [NoRun EXCEPT !.job = j, !.attempts = attempts[j] + 1]]
  BY DEF ClaimNext
<1>2. /\ UNCHANGED <<jobs, actions>>
      /\ pc' = [pc EXCEPT ![w] = "look"]
  BY DEF ClaimNext, GoTo
<1>3. Inserted' = Inserted /\ \A k \in Inserted : k \in Job /\ k \in Nat /\ Newer(k)' = Newer(k)
  BY <1>2, InsertedIsJob DEF Inserted, Newer, JobsOf, Job
<1>4. /\ j \in Inserted
      /\ \A k \in JobsOf(jobs[j]) : state[k] # "processing"
      /\ j \in Due(jobs[candidate])
      /\ \A k \in Due(jobs[candidate]) : k <= j
  BY <1>1 DEF Claimable, IsNewest
<1>5. \A k \in Due(jobs[candidate]) : k \in Inserted /\ jobs[k] = jobs[candidate]
  BY DEF Due, Queued, JobsOf
<1>6. HeldExists'
  BY <1>1, <1>2, <1>3, <1>4 DEF HeldExists, WorkerTypes, NoRun
<1>7. ActionChosen'
  BY <1>1, <1>2 DEF ActionChosen, WorkerTypes
<1>8. NewerSeen'
  BY <1>1, <1>2, <1>3 DEF NewerSeen, HeldExists, WorkerTypes, Busy
<1>9. Serialized'
  BY <1>1, <1>2, <1>3, <1>4 DEF Serialized, JobsOf
<1>10. SupersededByLater'
  <2>1. \A k \in Due(jobs[candidate]) \ {j} : j \in Newer(k)
    BY <1>3, <1>4, <1>5 DEF Newer, JobsOf
  <2> QED BY <1>1, <1>3, <2>1 DEF SupersededByLater
<1>11. CompletedIsExecuted'
  BY <1>1, <1>2, <1>3 DEF CompletedIsExecuted
<1> QED BY <1>6, <1>7, <1>8, <1>9, <1>10, <1>11

LEMMA ActionSafe ==
  ASSUME IInv, NEW w \in Workers, InsertAction(w) \/ Execute(w)
  PROVE  Safe'
<1> USE DEF IInv, TypeOK, Safe
<1> DEFINE j == run[w].job
<1>1. /\ run[w] \in Run /\ j \in Job /\ j \in Inserted
      /\ actions[j] \in Seq(ActionRow) /\ Len(actions[j]) \in Nat
  BY DEF InsertAction, Execute, HeldExists, WorkerTypes, JobTypes, Busy, Run
<1>2. UNCHANGED <<jobs, state, successor>>
  BY DEF InsertAction, Execute, jobVars
<1>3. Inserted' = Inserted /\ \A k \in Inserted : k \in Job /\ Newer(k)' = Newer(k)
  BY <1>2, InsertedIsJob DEF Inserted, Newer, JobsOf
<1>4. /\ \A v \in Workers : v # w => run'[v] = run[v] /\ pc'[v] = pc[v]
      /\ run'[w].job = j
      /\ pc'[w] \in {"check", "complete"}
  BY <1>1 DEF InsertAction, Execute, GoTo, AfterAction, WorkerTypes, Run
<1>5. /\ \A k \in Job :
           /\ Len(actions[k]) <= Len(actions'[k]) /\ Len(actions'[k]) \in Nat
           /\ Len(actions[k]) \in Nat
           /\ \A i \in 1..Len(actions[k]) :
                /\ actions'[k][i].kind = actions[k][i].kind
                /\ actions[k][i].executed => actions'[k][i].executed
      /\ run'[w].action \in 1..Len(actions'[j])
      /\ pc'[w] = "complete" =>
           LET a == actions'[j][run'[w].action] IN a.kind # "review" \/ a.executed
  <2>0. \A k \in Job : actions[k] \in Seq(ActionRow) /\ Len(actions[k]) \in Nat
    BY DEF JobTypes
  <2>1. CASE InsertAction(w)
    <3>1. PICK kind \in Kind, earlier \in BOOLEAN :
            /\ actions' = [actions EXCEPT ![j] = Append(@, Action("bot", kind, earlier))]
            /\ run' = [run EXCEPT ![w].action = Len(actions[j]) + 1]
            /\ GoTo(w, AfterAction(kind))
      BY <2>1, EarlierIsBoolean DEF InsertAction
    <3> DEFINE s == Append(actions[j], Action("bot", kind, earlier))
    <3>2. /\ Len(s) = Len(actions[j]) + 1
          /\ \A i \in 1..Len(actions[j]) : s[i] = actions[j][i]
          /\ s[Len(actions[j]) + 1] = Action("bot", kind, earlier)
      BY <1>1
    <3>3. actions'[j] = s /\ \A k \in Job : k # j => actions'[k] = actions[k]
      BY <1>1, <3>1 DEF JobTypes
    <3>4. run'[w].action = Len(actions[j]) + 1
      BY <1>1, <3>1 DEF WorkerTypes, Run
    <3>5. pc'[w] = "complete" => kind # "review"
      BY <3>1 DEF GoTo, AfterAction, WorkerTypes
    <3>6. Action("bot", kind, earlier).kind = kind
      BY DEF Action
    <3> HIDE DEF s, j
    <3>7. \A k \in Job :
           /\ Len(actions[k]) <= Len(actions'[k]) /\ Len(actions'[k]) \in Nat
           /\ \A i \in 1..Len(actions[k]) : actions'[k][i] = actions[k][i]
      BY <1>1, <2>0, <3>2, <3>3
    <3> QED BY <1>1, <2>0, <3>2, <3>3, <3>4, <3>5, <3>6, <3>7
  <2>2. CASE Execute(w)
    <3> DEFINE i == run[w].action
    <3>1. i \in 1..Len(actions[j])
      BY <2>2 DEF Execute, ActionChosen
    <3>2. actions[j][i] \in ActionRow
      BY <1>1, <3>1
    <3>3. actions' = [actions EXCEPT ![j] =
                        [actions[j] EXCEPT ![i] = [actions[j][i] EXCEPT !.executed = TRUE]]]
      <4>1. actions' = [actions EXCEPT ![j][i].executed = TRUE]
        BY <2>2 DEF Execute
      <4> HIDE DEF i, j
      <4> QED BY <1>1, <3>1, <4>1 DEF JobTypes
    <3>4. /\ Len(actions'[j]) = Len(actions[j])
          /\ \A x \in 1..Len(actions[j]) :
               actions'[j][x] = IF x = i THEN [actions[j][i] EXCEPT !.executed = TRUE]
                                ELSE actions[j][x]
      <4>1. [actions[j][i] EXCEPT !.executed = TRUE] \in ActionRow
        BY <3>2 DEF ActionRow
      <4> HIDE DEF i, j
      <4>2. actions'[j] = [actions[j] EXCEPT ![i] = [actions[j][i] EXCEPT !.executed = TRUE]]
        BY <1>1, <3>1, <3>3 DEF JobTypes
      <4> QED BY <1>1, <3>1, <4>1, <4>2, ExceptSeq
    <3>5. \A k \in Job : k # j => actions'[k] = actions[k]
      BY <3>3 DEF JobTypes
    <3>6. /\ [actions[j][i] EXCEPT !.executed = TRUE].kind = actions[j][i].kind
          /\ [actions[j][i] EXCEPT !.executed = TRUE].executed
      BY <3>2 DEF ActionRow
    <3>7. run'[w].action = i
      BY <2>2 DEF Execute
    <3> HIDE DEF i, j
    <3>8. \A k \in Job :
            /\ Len(actions[k]) = Len(actions'[k])
            /\ \A x \in 1..Len(actions[k]) :
                 /\ actions'[k][x].kind = actions[k][x].kind
                 /\ actions[k][x].executed => actions'[k][x].executed
      <4> SUFFICES ASSUME NEW k \in Job
                   PROVE  /\ Len(actions[k]) = Len(actions'[k])
                          /\ \A x \in 1..Len(actions[k]) :
                               /\ actions'[k][x].kind = actions[k][x].kind
                               /\ actions[k][x].executed => actions'[k][x].executed
        OBVIOUS
      <4>1. CASE k = j
        BY <3>4, <3>6, <4>1
      <4>2. CASE k # j
        BY <3>5, <4>2
      <4> QED BY <4>1, <4>2
    <3>9. actions'[j][i].executed /\ i \in 1..Len(actions'[j])
      BY <3>1, <3>4, <3>6
    <3> QED BY <2>0, <3>7, <3>8, <3>9
  <2> QED BY <2>1, <2>2
<1> HIDE DEF j
<1>6. HeldExists'
  BY <1>1, <1>3, <1>4 DEF HeldExists
<1>7. ActionChosen'
  <2>1. \A v \in Workers : pc[v] \in {"check", "execute", "complete"} => run[v].job \in Job
    BY <1>3 DEF HeldExists, Busy
  <2>2. run'[w].job = j /\ j \in Job
    BY <1>1, <1>4
  <2> SUFFICES ASSUME NEW v \in Workers
               PROVE  /\ pc'[v] \in {"check", "execute", "complete"} =>
                           run'[v].action \in 1..Len(actions'[run'[v].job])
                      /\ pc'[v] = "complete" =>
                           LET a == actions'[run'[v].job][run'[v].action]
                           IN a.kind # "review" \/ a.executed
    BY DEF ActionChosen
  <2>3. CASE v = w
    BY <1>5, <2>2, <2>3
  <2>4. CASE v # w
    <3>1. run'[v] = run[v] /\ pc'[v] = pc[v]
      BY <1>4, <2>4
    <3>2. CASE pc[v] \in {"check", "execute", "complete"}
      <4> DEFINE k == run[v].job
                 x == run[v].action
      <4>1. k \in Job /\ x \in 1..Len(actions[k])
        BY <2>1, <3>2 DEF ActionChosen
      <4>2. pc[v] = "complete" => actions[k][x].kind # "review" \/ actions[k][x].executed
        BY DEF ActionChosen
      <4> HIDE DEF k, x
      <4>3. /\ x \in 1..Len(actions'[k])
            /\ actions'[k][x].kind = actions[k][x].kind
            /\ actions[k][x].executed => actions'[k][x].executed
        BY <1>5, <4>1
      <4> QED BY <3>1, <4>2, <4>3 DEF k, x
    <3> QED BY <3>1, <3>2
  <2> QED BY <2>3, <2>4
<1>8. NewerSeen'
  BY <1>3, <1>4 DEF NewerSeen, HeldExists, Busy
<1>9. Serialized' /\ SupersededByLater'
  BY <1>2, <1>3 DEF Serialized, SupersededByLater
<1>10. CompletedIsExecuted'
  BY <1>2, <1>3, <1>5 DEF CompletedIsExecuted
<1> QED BY <1>6, <1>7, <1>8, <1>9, <1>10

LEMMA EndSafe ==
  ASSUME IInv, NEW w \in Workers, Complete(w) \/ Supersede(w) \/ Fail(w) \/ Crash(w)
  PROVE  Safe'
<1> USE DEF IInv, TypeOK, Safe
<1> DEFINE j == run[w].job
<1>1. UNCHANGED <<jobs, actions>>
  BY DEF Complete, Supersede, Fail, Crash
<1>2. Inserted' = Inserted /\ \A k \in Inserted : k \in Job /\ Newer(k)' = Newer(k)
  BY <1>1, InsertedIsJob DEF Inserted, Newer, JobsOf
<1>3. /\ \A v \in Workers : v # w => run'[v] = run[v] /\ pc'[v] = pc[v]
      /\ pc'[w] \in {"idle", "down"}
  BY DEF Complete, Supersede, Fail, Crash, EndRun, GoTo, WorkerTypes
<1>4. HeldExists' /\ ActionChosen'
  BY <1>1, <1>2, <1>3 DEF HeldExists, ActionChosen, Busy
<1>5. NewerSeen'
  BY <1>2, <1>3 DEF NewerSeen, HeldExists, Busy
<1>6. CASE Crash(w)
  BY <1>2, <1>4, <1>5, <1>6 DEF Crash, jobVars, Serialized, SupersededByLater,
                                CompletedIsExecuted
<1>7. CASE Complete(w)
  <2>1. /\ j \in Inserted /\ state' = [state EXCEPT ![j] = "completed"]
        /\ UNCHANGED successor
        /\ \E i \in 1..Len(actions[j]) : actions[j][i].kind # "review" \/ actions[j][i].executed
    BY <1>7 DEF Complete, Leave, HeldExists, ActionChosen, Busy
  <2> HIDE DEF j
  <2>2. Serialized' /\ SupersededByLater' /\ CompletedIsExecuted'
    BY <1>1, <1>2, <2>1 DEF Serialized, SupersededByLater, CompletedIsExecuted, JobTypes
  <2> QED BY <1>4, <1>5, <2>2
<1>8. CASE Supersede(w)
  <2>1. /\ j \in Inserted /\ state' = [state EXCEPT ![j] = "superseded"]
        /\ successor' = [successor EXCEPT ![j] = run[w].newest]
        /\ run[w].newest \in Newer(j)
    BY <1>8 DEF Supersede, Leave, HeldExists, NewerSeen, Busy
  <2> HIDE DEF j
  <2>2. Serialized' /\ SupersededByLater' /\ CompletedIsExecuted'
    BY <1>1, <1>2, <2>1 DEF Serialized, SupersededByLater, CompletedIsExecuted, JobTypes
  <2> QED BY <1>4, <1>5, <2>2
<1>9. CASE Fail(w)
  <2>1. j \in Inserted /\ run[w].attempts \in Nat
    BY <1>9 DEF Fail, HeldExists, WorkerTypes, Busy, Run
  <2>2. /\ state' = [state EXCEPT ![j] = AfterFailure(run[w].attempts)]
        /\ AfterFailure(run[w].attempts) \in {"dead_letter", "queued"}
        /\ UNCHANGED successor
    BY <1>9, <2>1, AfterFailureType DEF Fail, Leave
  <2> HIDE DEF j
  <2>3. Serialized' /\ SupersededByLater' /\ CompletedIsExecuted'
    BY <1>1, <1>2, <2>1, <2>2 DEF Serialized, SupersededByLater, CompletedIsExecuted, JobTypes
  <2> QED BY <1>4, <1>5, <2>3
<1> QED BY <1>6, <1>7, <1>8, <1>9

-----------------------------------------------------------------------------
(* Every step preserves the invariant.                                     *)

LEMMA StepInvariant == ASSUME IInv, [Next]_vars PROVE IInv'
<1>1. TypeOK /\ HeldExists /\ ActionChosen /\ NewerSeen
  BY DEF IInv, Safe
<1>2. ASSUME NEW w \in Workers, WorkerStep(w) \/ Crash(w) PROVE IInv'
  <2>1. CASE RecoverStale(w)
    BY <1>1, <2>1, RecoverStaleTypes, RecoverStaleSafe DEF IInv
  <2>2. CASE ClaimNext(w)
    BY <1>1, <2>2, ClaimTypes, ClaimSafe DEF IInv
  <2>3. CASE Reads(w)
    BY <1>1, <2>3, ReadsTypes, ReadsSafe DEF IInv
  <2>4. CASE InsertAction(w) \/ Execute(w)
    BY <1>1, <2>4, ActionTypes, ActionSafe DEF IInv
  <2>5. CASE Complete(w) \/ Supersede(w) \/ Fail(w) \/ Crash(w)
    BY <1>1, <2>5, EndTypes, EndSafe DEF IInv
  <2> QED BY <1>2, <2>1, <2>2, <2>3, <2>4, <2>5 DEF WorkerStep, Reads
<1>3. ASSUME NEW c \in Conversations, Enqueue(c) PROVE IInv'
  BY <1>1, <1>3, EnqueueTypes, EnqueueSafe DEF IInv
<1>4. CASE Operator
  BY <1>1, <1>4, OperatorTypes, AroundSafe DEF IInv
<1>5. ASSUME NEW j \in Job, BecomeDue(j) \/ LeaseExpires(j) PROVE IInv'
  BY <1>1, <1>5, TimeTypes, AroundSafe DEF IInv
<1>6. CASE UNCHANGED vars
  <2>1. TypeOK'
    BY <1>1, <1>6 DEF vars, jobVars, workerVars, bounds, TypeOK, JobTypes, WorkerTypes,
                      BoundTypes, Inserted
  <2>2. Safe'
    BY <1>6 DEF IInv, vars, jobVars, workerVars, Safe, HeldExists, ActionChosen, NewerSeen,
                Serialized, SupersededByLater, CompletedIsExecuted, Newer, JobsOf, Inserted
  <2> QED BY <2>1, <2>2 DEF IInv
<1> QED BY <1>2, <1>3, <1>4, <1>5, <1>6 DEF Next

(* The inductive invariant of the job queue.                               *)
THEOREM Invariance == Spec => []IInv
<1>1. Init => IInv
  BY InitTypeOK, InitSafe DEF IInv
<1>2. IInv /\ [Next]_vars => IInv'
  BY StepInvariant
<1> QED BY <1>1, <1>2, PTL DEF Spec

(* The columns of events and jobs keep their types.                        *)
THEOREM TypeCorrect == Spec => []TypeOK
<1>1. IInv => TypeOK
  BY DEF IInv
<1> QED BY <1>1, Invariance, PTL

(* At most one job of a conversation is processed at a time, for any       *)
(* number of workers and whatever leases expire.                           *)
THEOREM SerializedCorrect == Spec => []Serialized
<1>1. IInv => Serialized
  BY DEF IInv, Safe
<1> QED BY <1>1, Invariance, PTL

(* superseded_by_job_id always leads to a later message of the same        *)
(* conversation: there are no cycles.                                      *)
THEOREM SupersededCorrect == Spec => []SupersededByLater
<1>1. IInv => SupersededByLater
  BY DEF IInv, Safe
<1> QED BY <1>1, Invariance, PTL

(* A completed job has an action, executed if it needed the local sink.    *)
THEOREM CompletedCorrect == Spec => []CompletedIsExecuted
<1>1. IInv => CompletedIsExecuted
  BY DEF IInv, Safe
<1> QED BY <1>1, Invariance, PTL

(* The newest message of a conversation is open, has an action, or is in   *)
(* the hands of the operators.                                             *)
THEOREM NothingIsForgotten == Spec => []NothingForgotten
<1>1. IInv => NothingForgotten
  <2> SUFFICES ASSUME IInv, NEW j \in Inserted,
                      IsNewest(j, JobsOf(jobs[j])), state[j] \notin Open
               PROVE  \/ state[j] = "completed" /\ actions[j] # <<>>
                      \/ state[j] \in {"dead_letter", "dismissed"}
    BY DEF NothingForgotten
  <2>1. j \in Job /\ j \in Nat /\ state[j] \in State \ {"none"}
    BY InsertedIsJob DEF IInv, TypeOK, JobTypes, Job
  <2>2. state[j] # "superseded"
    <3>1. Newer(j) = {}
      BY <2>1 DEF IsNewest, Newer, JobsOf, Inserted
    <3> QED BY <3>1 DEF IInv, Safe, SupersededByLater
  <2>3. state[j] = "completed" => actions[j] # <<>>
    BY <2>1 DEF IInv, Safe, CompletedIsExecuted
  <2> QED BY <2>1, <2>2, <2>3 DEF State, Open
<1> QED BY <1>1, Invariance, PTL

-----------------------------------------------------------------------------
(* One worker: the deployment of docs/, one process of one thread.         *)

OneWorker == \A v, w \in Workers : v = w

(* A queued job has a try left, and a worker that reports on its job knows *)
(* of at least as many tries as the table: an operator may have reset them *)
(* meanwhile, nobody else has claimed the job.                             *)
Budget ==
  /\ \A j \in Job : attempts[j] <= MaxAttempts
  /\ \A j \in Job : state[j] \in {"none", "queued"} => attempts[j] < MaxAttempts
  /\ \A w \in Workers : pc[w] \in Busy => attempts[run[w].job] <= run[w].attempts

LEMMA BudgetKept ==
  ASSUME IInv, Budget,
         \A j \in Job : \/ attempts'[j] = attempts[j]
                           /\ (state'[j] \in {"none", "queued"} => attempts[j] < MaxAttempts)
                        \/ attempts'[j] = 0,
         \A w \in Workers : pc'[w] \in Busy => /\ pc[w] \in Busy
                                               /\ run'[w].job = run[w].job
                                               /\ run'[w].attempts = run[w].attempts
  PROVE  Budget'
<1>1. \A w \in Workers : pc[w] \in Busy => run[w].job \in Job /\ run[w].attempts \in Nat
  BY DEF IInv, TypeOK, WorkerTypes, Run
<1>2. \A j \in Job : attempts[j] \in Nat
  BY DEF IInv, TypeOK, JobTypes
<1> QED BY <1>1, <1>2, JobQueueConstants DEF Budget

LEMMA BudgetRecovered ==
  ASSUME IInv, Budget, Recover,
         \A w \in Workers : pc'[w] \in Busy => pc[w] \in Busy /\ run'[w] = run[w]
  PROVE  Budget'
<1>1. \A j \in Job : state'[j] \in {"none", "queued"} => attempts[j] < MaxAttempts
  <2> SUFFICES ASSUME NEW j \in Job, state'[j] \in {"none", "queued"}
               PROVE  attempts[j] < MaxAttempts
    OBVIOUS
  <2>1. attempts[j] \in Nat
    BY DEF IInv, TypeOK, JobTypes
  <2>2. CASE j \in Stale
    BY <2>1, <2>2, JobQueueConstants DEF Recover, AfterFailure
  <2>3. CASE j \notin Stale
    BY <2>3 DEF Recover, Budget
  <2> QED BY <2>2, <2>3
<1>2. UNCHANGED attempts
  BY DEF Recover
<1> QED BY <1>1, <1>2, BudgetKept

LEMMA BudgetClaimed ==
  ASSUME OneWorker, IInv, Budget, NEW w \in Workers, ClaimNext(w)
  PROVE  Budget'
<1> USE DEF IInv, TypeOK
<1>1. PICK j \in Claimable :
        /\ attempts' = [attempts EXCEPT ![j] = @ + 1]
        /\ run' = [run EXCEPT ![w] = [NoRun EXCEPT !.job = j, !.attempts = attempts[j] + 1]]
        /\ \A k \in Job : state'[k] = state[k] \/ state'[k] \in {"processing", "superseded"}
        /\ state'[j] = "processing"
  <2>1. PICK candidate \in Claimable, j \in Claimable :
          /\ attempts' = [attempts EXCEPT ![j] = @ + 1]
          /\ run' = [run EXCEPT ![w] = [NoRun EXCEPT !.job = j, !.attempts = attempts[j] + 1]]
          /\ state' = [k \in Job |->
               IF k = j THEN "processing"
               ELSE IF k \in Due(jobs[candidate]) \ {j} THEN "superseded" ELSE state[k]]
    BY DEF ClaimNext
  <2>2. j \in Job
    BY InsertedIsJob DEF Claimable
  <2> QED BY <2>1, <2>2 DEF JobTypes
<1>2. j \in Job /\ state[j] = "queued" /\ attempts[j] \in Nat
  BY InsertedIsJob DEF Claimable, Due, Queued, JobTypes
<1>3. /\ attempts'[j] = attempts[j] + 1
      /\ \A k \in Job \ {j} : attempts'[k] = attempts[k]
  BY <1>1, <1>2 DEF JobTypes
<1>4. run'[w].job = j /\ run'[w].attempts = attempts[j] + 1
  BY <1>1 DEF WorkerTypes, NoRun
<1>5. \A v \in Workers : v = w
  BY DEF OneWorker
<1>6. \A k \in Job : attempts'[k] <= MaxAttempts
  BY <1>2, <1>3, JobQueueConstants DEF Budget
<1>7. \A k \in Job : state'[k] \in {"none", "queued"} => attempts'[k] < MaxAttempts
  BY <1>1, <1>3 DEF Budget
<1> QED BY <1>2, <1>3, <1>4, <1>5, <1>6, <1>7 DEF Budget

LEMMA BudgetStep ==
  ASSUME OneWorker, IInv, Budget, [Next]_vars
  PROVE  Budget'
<1>0. TypeOK
  BY DEF IInv
<1>a. \A j \in Job : state[j] \in {"none", "queued"} => attempts[j] < MaxAttempts
  BY DEF Budget
<1>1. ASSUME NEW w \in Workers, WorkerStep(w) \/ Crash(w) PROVE Budget'
  <2>1. CASE RecoverStale(w)
    BY <1>0, <2>1, BudgetRecovered DEF RecoverStale, GoTo, TypeOK, WorkerTypes, Busy
  <2>2. CASE ClaimNext(w)
    BY <2>2, BudgetClaimed
  <2>3. CASE Reads(w)
    <3>1. UNCHANGED <<state, attempts>>
      BY <2>3 DEF Reads, ClaimNothing, LookForAction, CheckFresh, CheckExecution, FindNewest,
                  Restart, jobVars
    <3>2. pc'[w] \in Busy => pc[w] \in Busy
      BY <1>0, <2>3 DEF Reads, ClaimNothing, LookForAction, CheckFresh, CheckExecution,
                        FindNewest, Restart, GoTo, TypeOK, WorkerTypes, Busy
    <3>3. run'[w].job = run[w].job /\ run'[w].attempts = run[w].attempts
      BY <1>0, <2>3 DEF Reads, ClaimNothing, LookForAction, CheckFresh, CheckExecution,
                        FindNewest, Restart, TypeOK, WorkerTypes, NoRun, Run
    <3>4. \A v \in Workers : v = w
      BY DEF OneWorker
    <3> QED BY <1>a, <3>1, <3>2, <3>3, <3>4, BudgetKept
  <2>4. CASE InsertAction(w) \/ Execute(w)
    <3>1. UNCHANGED <<state, attempts>> /\ pc[w] \in Busy
      BY <2>4 DEF InsertAction, Execute, jobVars, Busy
    <3>2. run'[w].job = run[w].job /\ run'[w].attempts = run[w].attempts
      BY <1>0, <3>1, <2>4 DEF InsertAction, Execute, TypeOK, WorkerTypes, Run
    <3>3. \A v \in Workers : v = w
      BY DEF OneWorker
    <3> QED BY <1>a, <3>1, <3>2, <3>3, BudgetKept
  <2>5. CASE Complete(w) \/ Supersede(w) \/ Fail(w) \/ Crash(w)
    <3>1. \A v \in Workers : pc'[v] \notin Busy
      <4>1. pc'[w] \in {"idle", "down"}
        BY <1>0, <2>5 DEF Complete, Supersede, Fail, Crash, EndRun, GoTo, TypeOK, WorkerTypes
      <4> QED BY <4>1 DEF OneWorker, Busy
    <3>2. UNCHANGED attempts
      BY <2>5 DEF Complete, Supersede, Fail, Crash, jobVars
    <3>3. \A j \in Job : state'[j] \in {"none", "queued"} => attempts[j] < MaxAttempts
      <4>1. CASE Crash(w)
        BY <1>a, <4>1 DEF Crash, jobVars
      <4>2. CASE Complete(w) \/ Supersede(w)
        BY <1>0, <1>a, <4>2 DEF Complete, Supersede, Leave, TypeOK, JobTypes
      <4>3. CASE Fail(w)
        <5>1. /\ attempts[run[w].job] <= run[w].attempts /\ run[w].attempts \in Nat
              /\ run[w].job \in Job /\ attempts[run[w].job] \in Nat
          BY <1>0, <4>3 DEF Fail, Budget, Busy, TypeOK, WorkerTypes, JobTypes, Run
        <5>2. state' = [state EXCEPT ![run[w].job] = AfterFailure(run[w].attempts)]
          BY <4>3 DEF Fail, Leave
        <5>3. AfterFailure(run[w].attempts) \in {"none", "queued"} =>
                attempts[run[w].job] < MaxAttempts
          BY <5>1, JobQueueConstants DEF AfterFailure
        <5> QED BY <1>0, <1>a, <5>1, <5>2, <5>3 DEF TypeOK, JobTypes
      <4> QED BY <2>5, <4>1, <4>2, <4>3
    <3> QED BY <3>1, <3>2, <3>3, BudgetKept
  <2> QED BY <1>1, <2>1, <2>2, <2>3, <2>4, <2>5 DEF WorkerStep, Reads
<1>2. ASSUME NEW c \in Conversations, Enqueue(c) PROVE Budget'
  <2>1. UNCHANGED <<attempts, workerVars>>
    BY <1>2 DEF Enqueue
  <2>2. Len(jobs) + 1 \in Job /\ state[Len(jobs) + 1] = "none"
    <3>1. Len(jobs) + 1 \in Job \ Inserted
      BY <1>0, <1>2, JobQueueConstants DEF Enqueue, TypeOK, JobTypes, Job, Inserted
    <3> QED BY <1>0, <3>1 DEF TypeOK, JobTypes
  <2>3. \A j \in Job : state'[j] \in {"none", "queued"} => attempts[j] < MaxAttempts
    BY <1>0, <1>a, <1>2, <2>2 DEF Enqueue, TypeOK, JobTypes
  <2> QED BY <2>1, <2>3, BudgetKept DEF workerVars
<1>3. ASSUME NEW j \in Job, BecomeDue(j) \/ LeaseExpires(j) PROVE Budget'
  BY <1>a, <1>3, BudgetKept DEF BecomeDue, LeaseExpires, workerVars
<1>4. CASE Operator
  <2>1. UNCHANGED workerVars
    BY <1>4 DEF Operator, HumanReply, Retry, Dismiss, RecoverByHand
  <2>2. CASE RecoverByHand
    BY <2>1, <2>2, BudgetRecovered DEF RecoverByHand, workerVars
  <2>3. ASSUME NEW j \in Job, Retry(j) \/ Dismiss(j) PROVE Budget'
    BY <1>0, <1>a, <2>1, <2>3, BudgetKept
       DEF Retry, Dismiss, Leave, TypeOK, JobTypes, workerVars
  <2>4. ASSUME NEW c \in Conversations, HumanReply(c) PROVE Budget'
    BY <1>a, <2>1, <2>4, BudgetKept DEF HumanReply, jobVars, workerVars
  <2> QED BY <1>4, <2>2, <2>3, <2>4 DEF Operator
<1>5. CASE UNCHANGED vars
  BY <1>a, <1>5, BudgetKept DEF vars, jobVars, workerVars
<1> QED BY <1>1, <1>2, <1>3, <1>4, <1>5 DEF Next

(* "Bounded retry": with one worker no job is tried more than max_attempts *)
(* times before an operator asks for more, whatever leases expire and      *)
(* whenever recover-stale is run by hand.                                  *)
THEOREM RetriesAreBounded ==
  ASSUME OneWorker
  PROVE  Spec => []RetriesBounded
<1>1. Init => Budget
  BY JobQueueConstants DEF Init, Budget, Busy
<1>2. IInv /\ Budget /\ [Next]_vars => Budget'
  BY BudgetStep
<1>3. IInv /\ Budget => RetriesBounded
  BY InsertedIsJob DEF IInv, TypeOK, Budget, RetriesBounded
<1> QED BY <1>1, <1>2, <1>3, Invariance, PTL DEF Spec

-----------------------------------------------------------------------------
(* One worker answers once.                                                *)

BotRows(s) == {i \in 1..Len(s) : s[i].author = "bot"}

(* The worker that is about to insert an action has seen that its job had  *)
(* none; since then only people have added theirs.                         *)
AnsweredOnce ==
  /\ \A w \in Workers : pc[w] \in {"provider", "insert"} => BotRows(actions[run[w].job]) = {}
  /\ \A j \in Job : \A i, k \in BotRows(actions[j]) : i = k

(* A step that adds no row of the bot.                                     *)
LEMMA AnsweredKept ==
  ASSUME IInv, AnsweredOnce,
         \A j \in Job : BotRows(actions'[j]) = BotRows(actions[j]),
         \A w \in Workers : pc'[w] \in {"provider", "insert"} =>
            /\ run'[w].job = run[w].job /\ run[w].job \in Job
            /\ pc[w] \in {"provider", "insert"} \/ BotRows(actions[run[w].job]) = {}
  PROVE  AnsweredOnce'
<1>1. \A w \in Workers : pc'[w] \in {"provider", "insert"} =>
        BotRows(actions'[run'[w].job]) = {}
  BY DEF AnsweredOnce
<1>2. \A j \in Job : \A i, k \in BotRows(actions'[j]) : i = k
  BY DEF AnsweredOnce
<1> QED BY <1>1, <1>2 DEF AnsweredOnce, BotRows

LEMMA BotRowsAppended ==
  ASSUME NEW s \in Seq(ActionRow), NEW author, NEW kind, NEW earlier
  PROVE  /\ author # "bot" => BotRows(Append(s, Action(author, kind, earlier))) = BotRows(s)
         /\ BotRows(Append(s, Action(author, kind, earlier))) \subseteq BotRows(s) \cup {Len(s) + 1}
<1> DEFINE row == Action(author, kind, earlier)
<1>1. row.author = author
  BY DEF Action
<1> HIDE DEF row
<1>2. /\ Len(Append(s, row)) = Len(s) + 1 /\ Len(s) \in Nat
      /\ \A i \in 1..Len(s) : Append(s, row)[i] = s[i]
      /\ Append(s, row)[Len(s) + 1] = row
  OBVIOUS
<1>3. \A i \in 1..Len(s) + 1 : i \in 1..Len(s) \/ i = Len(s) + 1
  BY <1>2
<1>4. 1..Len(s) \subseteq 1..Len(s) + 1
  BY <1>2
<1>5. BotRows(Append(s, row)) \subseteq BotRows(s) \cup {Len(s) + 1}
  BY <1>2, <1>3 DEF BotRows
<1>6. author # "bot" => BotRows(Append(s, row)) = BotRows(s)
  BY <1>1, <1>2, <1>3, <1>4 DEF BotRows
<1> QED BY <1>5, <1>6 DEF row

LEMMA AnsweredInserted ==
  ASSUME OneWorker, IInv, AnsweredOnce, NEW w \in Workers, InsertAction(w)
  PROVE  AnsweredOnce'
<1> USE DEF IInv, TypeOK
<1>0. run[w].job \in Job
  BY DEF InsertAction, WorkerTypes, Busy, Run
<1>1. PICK j \in Job, kind \in Kind, earlier \in MayBeEarlier(w) :
        /\ j = run[w].job
        /\ actions' = [actions EXCEPT ![j] = Append(@, Action("bot", kind, earlier))]
  BY <1>0 DEF InsertAction
<1>2. BotRows(actions[j]) = {} /\ actions[j] \in Seq(ActionRow)
  BY <1>1 DEF InsertAction, AnsweredOnce, JobTypes
<1>3. BotRows(actions'[j]) \subseteq {Len(actions[j]) + 1}
  BY <1>1, <1>2, BotRowsAppended DEF JobTypes
<1>4. \A k \in Job \ {j} : actions'[k] = actions[k]
  BY <1>1 DEF JobTypes
<1>5. \A k \in Job : \A x, y \in BotRows(actions'[k]) : x = y
  <2> SUFFICES ASSUME NEW k \in Job PROVE \A x, y \in BotRows(actions'[k]) : x = y
    OBVIOUS
  <2>1. CASE k = j
    BY <1>3, <2>1
  <2>2. CASE k # j
    BY <1>4, <2>2 DEF AnsweredOnce
  <2> QED BY <2>1, <2>2
<1>6. pc'[w] \in {"check", "complete"}
  BY DEF InsertAction, GoTo, AfterAction, WorkerTypes
<1>7. \A v \in Workers : v = w
  BY DEF OneWorker
<1> QED BY <1>5, <1>6, <1>7 DEF AnsweredOnce, BotRows

LEMMA AnsweredExecuted ==
  ASSUME IInv, NEW w \in Workers, Execute(w)
  PROVE  \A j \in Job : BotRows(actions'[j]) = BotRows(actions[j])
<1> USE DEF IInv, TypeOK
<1>1. PICK j \in Job, i \in 1..Len(actions[run[w].job]) :
        j = run[w].job /\ i = run[w].action
  BY DEF Execute, Safe, ActionChosen, WorkerTypes, Busy, Run
<1>2. actions' = [actions EXCEPT ![j][i].executed = TRUE]
  BY <1>1 DEF Execute
<1> DEFINE row == [actions[j][i] EXCEPT !.executed = TRUE]
<1>3. /\ actions[j] \in Seq(ActionRow) /\ i \in 1..Len(actions[j])
      /\ actions[j][i] \in ActionRow
  BY <1>1 DEF JobTypes
<1>4. row \in ActionRow /\ row.author = actions[j][i].author
  BY <1>3 DEF ActionRow
<1>5. /\ actions'[j] = [actions[j] EXCEPT ![i] = row]
      /\ \A k \in Job \ {j} : actions'[k] = actions[k]
  BY <1>2 DEF JobTypes
<1> HIDE DEF row
<1>6. /\ Len(actions'[j]) = Len(actions[j])
      /\ \A x \in 1..Len(actions[j]) : actions'[j][x] = IF x = i THEN row ELSE actions[j][x]
  BY <1>3, <1>4, <1>5, ExceptSeq
<1>7. BotRows(actions'[j]) = BotRows(actions[j])
  BY <1>4, <1>6 DEF BotRows
<1> QED BY <1>5, <1>7

LEMMA AnsweredStep ==
  ASSUME OneWorker, IInv, AnsweredOnce, [Next]_vars
  PROVE  AnsweredOnce'
<1>0. TypeOK
  BY DEF IInv
<1>a. \A w \in Workers : pc[w] \in {"look", "provider", "insert"} => run[w].job \in Job
  BY <1>0 DEF TypeOK, WorkerTypes, Busy, Run
<1>1. ASSUME NEW w \in Workers, WorkerStep(w) \/ Crash(w) PROVE AnsweredOnce'
  <2>0. \A v \in Workers : v = w
    BY DEF OneWorker
  <2>1. CASE LookForAction(w)
    <3>a. pc[w] = "look" /\ UNCHANGED actions
      BY <2>1 DEF LookForAction
    <3>b. run[w].job \in Job /\ run[w] \in Run
      BY <1>0, <1>a, <3>a DEF TypeOK, WorkerTypes, Busy
    <3>1. run'[w].job = run[w].job /\ run[w].job \in Job /\ UNCHANGED actions
      BY <1>0, <2>1, <3>a, <3>b DEF LookForAction, TypeOK, WorkerTypes, Run
    <3>2. pc'[w] = "provider" => actions[run[w].job] = <<>>
      BY <1>0, <2>1 DEF LookForAction, GoTo, AfterAction, TypeOK, WorkerTypes
    <3>3. pc'[w] # "insert"
      BY <1>0, <2>1 DEF LookForAction, GoTo, AfterAction, TypeOK, WorkerTypes
    <3>4. BotRows(<<>>) = {}
      BY DEF BotRows
    <3> QED BY <2>0, <3>1, <3>2, <3>3, <3>4, AnsweredKept
  <2>2. CASE CheckFresh(w)
    BY <1>a, <2>0, <2>2, AnsweredKept DEF CheckFresh
  <2>3. CASE InsertAction(w)
    BY <2>3, AnsweredInserted
  <2>4. CASE Execute(w)
    <3>1. pc'[w] \notin {"provider", "insert"}
      BY <1>0, <2>4 DEF Execute, GoTo, TypeOK, WorkerTypes
    <3> QED BY <2>0, <2>4, <3>1, AnsweredExecuted, AnsweredKept
  <2>5. CASE \/ RecoverStale(w) \/ ClaimNext(w) \/ ClaimNothing(w) \/ CheckExecution(w)
             \/ Complete(w) \/ FindNewest(w) \/ Supersede(w) \/ Fail(w) \/ Restart(w)
             \/ Crash(w)
    <3>1. UNCHANGED actions
      BY <2>5 DEF RecoverStale, Recover, ClaimNext, ClaimNothing, CheckExecution, Complete,
                  FindNewest, Supersede, Fail, Restart, Crash
    <3>2. pc'[w] \notin {"provider", "insert"}
      BY <1>0, <2>5 DEF RecoverStale, ClaimNext, ClaimNothing, CheckExecution, Complete,
                        FindNewest, Supersede, Fail, Restart, Crash, EndRun, GoTo, TypeOK,
                        WorkerTypes
    <3> QED BY <2>0, <3>1, <3>2, AnsweredKept
  <2> QED BY <1>1, <2>1, <2>2, <2>3, <2>4, <2>5 DEF WorkerStep
<1>2. ASSUME NEW c \in Conversations, HumanReply(c) PROVE AnsweredOnce'
  <2>1. PICK j \in Job : actions' = [actions EXCEPT ![j] = Append(@, Action("human", "delivery", @ = <<>>))]
    BY <1>0, <1>2, InsertedIsJob DEF HumanReply, TypeOK
  <2>2. BotRows(actions'[j]) = BotRows(actions[j])
    BY <1>0, <2>1, BotRowsAppended DEF TypeOK, JobTypes
  <2>3. \A k \in Job \ {j} : actions'[k] = actions[k]
    BY <1>0, <2>1 DEF TypeOK, JobTypes
  <2>4. UNCHANGED workerVars
    BY <1>2 DEF HumanReply
  <2> QED BY <1>a, <2>2, <2>3, <2>4, AnsweredKept DEF workerVars
<1>3. CASE \/ \E c \in Conversations : Enqueue(c)
           \/ \E j \in Job : BecomeDue(j) \/ LeaseExpires(j) \/ Retry(j) \/ Dismiss(j)
           \/ RecoverByHand \/ UNCHANGED vars
  <2>1. UNCHANGED <<actions, workerVars>>
    BY <1>3 DEF Enqueue, BecomeDue, LeaseExpires, Retry, Dismiss, RecoverByHand, Recover, vars
  <2> QED BY <1>a, <2>1, AnsweredKept DEF workerVars
<1> QED BY <1>1, <1>2, <1>3 DEF Next, Operator

LEMMA AtMostOneRow ==
  ASSUME NEW S, \A i, k \in S : i = k
  PROVE  Cardinality(S) <= 1
<1>1. CASE S = {}
  BY <1>1, FS_EmptySet
<1>2. CASE S # {}
  <2>1. PICK x \in S : TRUE
    BY <1>2
  <2>2. S = {x}
    BY <2>1
  <2> QED BY <2>2, FS_Singleton
<1> QED BY <1>1, <1>2

(* "One answer": with one worker the bot inserts one action for a message, *)
(* and so at most one delivery, whatever fails, is retried or recovered.   *)
THEOREM AnsweredOnceOnly ==
  ASSUME OneWorker
  PROVE  Spec => []OneBotAnswer
<1>1. Init => AnsweredOnce
  BY DEF Init, AnsweredOnce, BotRows
<1>2. IInv /\ AnsweredOnce /\ [Next]_vars => AnsweredOnce'
  BY AnsweredStep
<1>3. IInv /\ AnsweredOnce => OneBotAnswer
  <2> SUFFICES ASSUME IInv, AnsweredOnce, NEW j \in Inserted
               PROVE  Cardinality({i \in 1..Len(actions[j]) :
                        actions[j][i].author = "bot" /\ actions[j][i].kind = "delivery"}) <= 1
    BY DEF OneBotAnswer
  <2>1. j \in Job
    BY InsertedIsJob DEF IInv, TypeOK
  <2>2. \A i, k \in BotRows(actions[j]) : i = k
    BY <2>1 DEF AnsweredOnce
  <2> QED BY <2>2, AtMostOneRow DEF BotRows
<1> QED BY <1>1, <1>2, <1>3, Invariance, PTL DEF Spec

-----------------------------------------------------------------------------
(* One worker moves no job that is answered or set aside.                  *)

(* Its job may have been recovered, and then dismissed, behind its back.   *)
HeldIsUnanswered ==
  \A w \in Workers : pc[w] \in Busy => state[run[w].job] \notin {"completed", "superseded"}

AnsweredStays ==
  \A j \in Job : state[j] \in {"completed", "superseded"} => state'[j] = state[j]

LEMMA WorkerLeavesAnswered ==
  ASSUME OneWorker, IInv, HeldIsUnanswered, NEW w \in Workers, WorkerStep(w) \/ Crash(w)
  PROVE  HeldIsUnanswered' /\ AnsweredStays
<1>0. TypeOK /\ \A v \in Workers : v = w
  BY DEF IInv, OneWorker
<1>1. CASE Reads(w) \/ InsertAction(w) \/ Execute(w)
  <2>1. UNCHANGED state
    BY <1>1 DEF Reads, ClaimNothing, LookForAction, CheckFresh, CheckExecution, FindNewest,
                Restart, InsertAction, Execute, jobVars
  <2>2. pc'[w] \in Busy => pc[w] \in Busy
    BY <1>0, <1>1 DEF Reads, ClaimNothing, LookForAction, CheckFresh, CheckExecution, FindNewest,
                      Restart, InsertAction, Execute, GoTo, TypeOK, WorkerTypes, Busy
  <2>3. run'[w].job = run[w].job
    <3>1. run[w] \in Run \cup {NoRun} /\ run \in [Workers -> Run \cup {NoRun}]
      BY <1>0 DEF TypeOK, WorkerTypes
    <3>2. CASE ClaimNothing(w) \/ CheckExecution(w) \/ Execute(w) \/ Restart(w)
      BY <3>2 DEF ClaimNothing, CheckExecution, Execute, Restart
    <3>3. CASE LookForAction(w) \/ InsertAction(w)
      <4>1. run' = run \/ \E i : run' = [run EXCEPT ![w].action = i]
        BY <3>3 DEF LookForAction, InsertAction
      <4> QED BY <3>1, <4>1 DEF Run, NoRun
    <3>4. CASE CheckFresh(w)
      <4>1. \E n : run' = [run EXCEPT ![w].seen = n]
        BY <3>4 DEF CheckFresh
      <4> QED BY <3>1, <4>1 DEF Run, NoRun
    <3>5. CASE FindNewest(w)
      <4>1. \E k : run' = [run EXCEPT ![w].newest = k]
        BY <3>5 DEF FindNewest
      <4> QED BY <3>1, <4>1 DEF Run, NoRun
    <3> QED BY <1>1, <3>2, <3>3, <3>4, <3>5 DEF Reads
  <2> QED BY <1>0, <2>1, <2>2, <2>3 DEF HeldIsUnanswered, AnsweredStays
<1>2. CASE Complete(w) \/ Supersede(w) \/ Fail(w) \/ Crash(w)
  <2>1. pc'[w] \in {"idle", "down"}
    BY <1>0, <1>2 DEF Complete, Supersede, Fail, Crash, EndRun, GoTo, TypeOK, WorkerTypes
  <2>2. \/ UNCHANGED state
        \/ pc[w] \in Busy /\ \E s : state' = [state EXCEPT ![run[w].job] = s]
    BY <1>2 DEF Complete, Supersede, Fail, Crash, Leave, Busy, jobVars
  <2>3. AnsweredStays
    BY <1>0, <2>2 DEF AnsweredStays, HeldIsUnanswered, TypeOK, JobTypes
  <2> QED BY <1>0, <2>1, <2>3 DEF HeldIsUnanswered, Busy
<1>3. CASE RecoverStale(w)
  <2>1. pc'[w] = "claim"
    BY <1>0, <1>3 DEF RecoverStale, GoTo, TypeOK, WorkerTypes
  <2>2. AnsweredStays
    BY <1>3 DEF RecoverStale, Recover, Stale, AnsweredStays
  <2> QED BY <1>0, <2>1, <2>2 DEF HeldIsUnanswered, Busy
<1>4. CASE ClaimNext(w)
  <2>1. PICK candidate \in Claimable, j \in Claimable :
          /\ state' = [k \in Job |->
               IF k = j THEN "processing"
               ELSE IF k \in Due(jobs[candidate]) \ {j} THEN "superseded" ELSE state[k]]
          /\ run' = [run EXCEPT ![w] = [NoRun EXCEPT !.job = j, !.attempts = attempts[j] + 1]]
    BY <1>4 DEF ClaimNext
  <2>2. j \in Job /\ state[j] = "queued"
    BY <1>0, InsertedIsJob DEF Claimable, Due, Queued, TypeOK
  <2>3. \A k \in Due(jobs[candidate]) : state[k] = "queued"
    BY DEF Due, Queued
  <2>4. AnsweredStays
    BY <2>1, <2>2, <2>3 DEF AnsweredStays
  <2>5. run'[w].job = j
    BY <1>0, <2>1 DEF TypeOK, WorkerTypes, NoRun
  <2>6. state'[j] = "processing"
    BY <2>1, <2>2
  <2> QED BY <1>0, <2>4, <2>5, <2>6 DEF HeldIsUnanswered
<1> QED BY <1>1, <1>2, <1>3, <1>4 DEF WorkerStep, Reads

LEMMA OthersLeaveAnswered ==
  ASSUME IInv, HeldIsUnanswered,
         \/ \E c \in Conversations : Enqueue(c) \/ HumanReply(c)
         \/ \E j \in Job : BecomeDue(j) \/ LeaseExpires(j) \/ Retry(j) \/ Dismiss(j)
         \/ RecoverByHand \/ UNCHANGED vars
  PROVE  HeldIsUnanswered' /\ AnsweredStays
<1>0. TypeOK
  BY DEF IInv
<1>1. UNCHANGED workerVars
  BY DEF Enqueue, HumanReply, BecomeDue, LeaseExpires, Retry, Dismiss, RecoverByHand, vars
<1>2. \A j \in Job : \/ state'[j] = state[j]
                     \/ /\ state[j] \notin {"completed", "superseded"}
                        /\ state'[j] \notin {"completed", "superseded"}
  <2>1. CASE RecoverByHand
    <3>1. \A j \in Stale : attempts[j] \in Nat /\ state[j] = "processing"
      BY <1>0, InsertedIsJob DEF Stale, TypeOK, JobTypes
    <3> QED BY <2>1, <3>1, AfterFailureType DEF RecoverByHand, Recover
  <2>2. CASE \E c \in Conversations : Enqueue(c)
    <3>1. Len(jobs) + 1 \notin Inserted
      BY <1>0 DEF TypeOK, JobTypes, Inserted
    <3> QED BY <1>0, <2>2, <3>1 DEF Enqueue, TypeOK, JobTypes
  <2>3. CASE \E j \in Job : Retry(j) \/ Dismiss(j)
    BY <1>0, <2>3 DEF Retry, Dismiss, Leave, TypeOK, JobTypes
  <2>4. CASE \/ \E c \in Conversations : HumanReply(c)
             \/ \E j \in Job : BecomeDue(j) \/ LeaseExpires(j)
             \/ UNCHANGED vars
    BY <2>4 DEF HumanReply, BecomeDue, LeaseExpires, vars, jobVars
  <2> QED BY <2>1, <2>2, <2>3, <2>4
<1>3. \A w \in Workers : pc[w] \in Busy => run[w].job \in Job
  BY <1>0 DEF TypeOK, WorkerTypes, Run
<1> QED BY <1>1, <1>2, <1>3 DEF HeldIsUnanswered, AnsweredStays, workerVars

(* With one worker what was answered or set aside is not taken up again:   *)
(* claim_next reads queued jobs only, and no late report meets a job that  *)
(* another worker has completed.                                           *)
THEOREM AnswersAreFinal ==
  ASSUME OneWorker
  PROVE  Spec => AnsweredIsFinal
<1>1. Init => HeldIsUnanswered
  BY DEF Init, HeldIsUnanswered, Busy
<1>2. ASSUME IInv, HeldIsUnanswered, [Next]_vars PROVE HeldIsUnanswered' /\ AnsweredStays
  BY <1>2, WorkerLeavesAnswered, OthersLeaveAnswered DEF Next, Operator
<1>3. IInv /\ HeldIsUnanswered /\ [Next]_vars => HeldIsUnanswered'
  BY <1>2
<1>4. IInv /\ HeldIsUnanswered /\ [Next]_vars => [AnsweredStays]_vars
  BY <1>2
<1> QED BY <1>1, <1>3, <1>4, Invariance, PTL DEF Spec, AnsweredIsFinal, AnsweredStays
=============================================================================
