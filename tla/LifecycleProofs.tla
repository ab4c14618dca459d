-------------------------- MODULE LifecycleProofs --------------------------
(***************************************************************************)
(* The theorems about Lifecycle, for any number of services, migrations,   *)
(* restores and deaths.                                                    *)
(***************************************************************************)
EXTENDS Lifecycle, WellFoundedInduction, SequenceTheorems, TLAPS

-----------------------------------------------------------------------------
(* The version of a schema.                                                *)

(* A set of numbers up to a bound has a greatest one.                      *)
LEMMA GreatestExists ==
  ASSUME NEW n \in Nat, NEW S, S \subseteq 1 .. n, S # {}
  PROVE  \E x \in S : \A y \in S : x >= y
<1> DEFINE Gaps == {g \in Nat : \E x \in S : g = n - x}
<1>1. Gaps # {}
  <2>1. PICK x \in S : TRUE
    OBVIOUS
  <2>2. n - x \in Nat
    BY <2>1
  <2> QED BY <2>1, <2>2
<1>2. PICK g \in Gaps : \A h \in Gaps : ~(<<h, g>> \in OpToRel(<, Nat))
  <2>1. Gaps \subseteq Nat
    OBVIOUS
  <2> HIDE DEF Gaps
  <2> QED BY <1>1, <2>1, NatLessThanWellFounded, WFMin, Zenon
<1>3. \A h \in Gaps : ~(h < g)
  BY <1>2 DEF OpToRel
<1>4. PICK x \in S : g = n - x
  OBVIOUS
<1>5. \A y \in S : x >= y
  <2> TAKE y \in S
  <2>1. n - y \in Nat /\ x \in Nat /\ y \in Nat
    BY <1>4
  <2>2. n - y \in Gaps
    BY <2>1
  <2>3. ~(n - y < n - x)
    BY <1>3, <1>4, <2>2
  <2> QED BY <2>1, <2>3
<1> QED BY <1>5

(* The version is the number of a migration that ran, and the greatest.    *)
LEMMA VersionIsGreatest ==
  ASSUME NEW s \in Seq(1 .. Latest)
  PROVE  /\ current_version(s) \in 0 .. Latest
         /\ \A i \in DOMAIN s : s[i] <= current_version(s)
         /\ s # <<>> => \E i \in DOMAIN s : s[i] = current_version(s)
<1> USE LifecycleAssumption
<1>1. CASE s = <<>>
  BY <1>1 DEF current_version
<1>2. CASE s # <<>>
  <2> DEFINE S == {s[i] : i \in DOMAIN s}
  <2>1. S \subseteq 1 .. Latest /\ S # {}
    <3>1. DOMAIN s = 1 .. Len(s) /\ Len(s) \in Nat \ {0}
      BY <1>2
    <3>2. \A i \in DOMAIN s : s[i] \in 1 .. Latest
      BY <3>1
    <3> QED BY <3>1, <3>2
  <2>2. \E x \in S : \A y \in S : x >= y
    <3> HIDE DEF S
    <3> QED BY <2>1, GreatestExists, LifecycleAssumption
  <2>3. Max(S) \in S /\ \A y \in S : Max(S) >= y
    BY <2>2 DEF Max
  <2>4. current_version(s) = Max(S)
    BY <1>2 DEF current_version
  <2>5. \A i \in DOMAIN s : s[i] \in S
    OBVIOUS
  <2>6. \A x \in S : x \in 1 .. Latest /\ \E i \in DOMAIN s : s[i] = x
    BY <2>1
  <2>7. \A i \in DOMAIN s : s[i] <= current_version(s)
    <3> TAKE i \in DOMAIN s
    <3> HIDE DEF S
    <3>1. s[i] \in Nat /\ current_version(s) \in Nat /\ current_version(s) >= s[i]
      BY <2>3, <2>4, <2>5, <2>6
    <3> QED BY <3>1
  <2> HIDE DEF S
  <2> QED BY <2>3, <2>4, <2>6, <2>7
<1> QED BY <1>1, <1>2

(* The schema a release makes of an empty database.                        *)
Sequential(s) == \E n \in 0 .. Latest : s = Upto(n)

LEMMA VersionOfUpto ==
  ASSUME NEW n \in 0 .. Latest
  PROVE  /\ Upto(n) \in Seq(1 .. Latest) /\ Len(Upto(n)) = n
         /\ current_version(Upto(n)) = n
<1> USE LifecycleAssumption
<1>1. Upto(n) \in Seq(1 .. Latest) /\ Len(Upto(n)) = n
  <2>1. \A i \in 1 .. n : i \in 1 .. Latest
    OBVIOUS
  <2>2. n \in Nat /\ [i \in 1 .. n |-> i] \in [1 .. n -> 1 .. Latest]
    BY <2>1
  <2> QED BY <2>2 DEF Upto
<1>2. CASE n = 0
  <2>1. Upto(n) = <<>>
    BY <1>1, <1>2
  <2> QED BY <1>1, <1>2, <2>1 DEF current_version
<1>3. CASE n # 0
  <2>1. \A i \in DOMAIN Upto(n) : Upto(n)[i] = i /\ i \in 1 .. n
    BY DEF Upto
  <2>2. n \in DOMAIN Upto(n) /\ Upto(n) # <<>>
    BY <1>1, <1>3 DEF Upto
  <2> QED BY <1>1, <2>1, <2>2, VersionIsGreatest
<1> QED BY <1>2, <1>3

LEMMA EmptyIsSequential == Sequential(<<>>)
<1>1. Upto(0) = <<>>
  BY DEF Upto
<1> QED BY <1>1, LifecycleAssumption DEF Sequential

(* A migration appends its number to an older schema and leaves another    *)
(* alone; one that is not too far ahead keeps the schema sequential.       *)
LEMMA MigrationRaises ==
  ASSUME schema \in Seq(1 .. Latest), NEW v \in 1 .. Latest, Migration(v)
  PROVE  /\ schema' \in Seq(1 .. Latest)
         /\ current_version(schema') >= current_version(schema)
         /\ current_version(schema') >= v
         /\ Sequential(schema) /\ v <= current_version(schema) + 1 => Sequential(schema')
<1> USE LifecycleAssumption
<1>0. current_version(schema) \in 0 .. Latest
  BY VersionIsGreatest
<1>1. CASE v <= current_version(schema)
  BY <1>0, <1>1 DEF Migration
<1>2. CASE v > current_version(schema)
  <2>0. schema' = Append(schema, v)
    BY <1>0, <1>2 DEF Migration
  <2>1. schema' = Append(schema, v) /\ schema' \in Seq(1 .. Latest)
    BY <2>0
  <2>2. Len(schema) + 1 \in DOMAIN schema' /\ schema'[Len(schema) + 1] = v
    BY <2>1
  <2>3. current_version(schema') \in 0 .. Latest /\ current_version(schema') >= v
    BY <2>1, <2>2, VersionIsGreatest
  <2>4. ASSUME Sequential(schema), v <= current_version(schema) + 1
        PROVE  Sequential(schema')
    <3>1. PICK n \in 0 .. Latest : schema = Upto(n)
      BY <2>4 DEF Sequential
    <3>2. v = n + 1 /\ n + 1 \in 0 .. Latest
      BY <1>2, <2>4, <3>1, VersionOfUpto
    <3>3. schema' = Upto(n + 1)
      <4>1. Len(schema) = n /\ DOMAIN schema = 1 .. n
        BY <3>1 DEF Upto
      <4>2. DOMAIN schema' = 1 .. n + 1
        BY <2>1, <4>1
      <4>3. \A i \in 1 .. n + 1 : schema'[i] = i
        BY <2>1, <3>1, <3>2, <4>1 DEF Upto
      <4>4. Upto(n + 1) \in Seq(1 .. Latest) /\ Len(Upto(n + 1)) = n + 1
        BY <3>2, VersionOfUpto
      <4>5. \A i \in 1 .. n + 1 : Upto(n + 1)[i] = i
        BY DEF Upto
      <4> QED BY <2>1, <4>2, <4>3, <4>4, <4>5, SeqEqual
    <3> QED BY <3>2, <3>3 DEF Sequential
  <2> QED BY <1>0, <1>2, <2>1, <2>3, <2>4
<1> QED BY <1>0, <1>1, <1>2

-----------------------------------------------------------------------------
(* The inductive invariant.                                                *)

(* While a database is restored nobody holds the lifecycle lock.           *)
Exclusive == Restoring => Holders = {}

SafetyCopies == {c \in copies : c.kind = "pre_restore"}
Saved == UNION {c.content.facts : c \in SafetyCopies}

(* From the safety copy to the end of a restore the copies have it all.    *)
SafetyHasAll == SafetyTaken => written \subseteq Saved

(* What a process has learnt of the schema since it looked at it.          *)
Ready(p) ==
  /\ pc[p] \in {"creating", "migrating"} => next[p] <= current_version(schema) + 1
  /\ pc[p] \in {"prepared", "running"} => current_version(schema) = Latest

(* A restore overtakes no process that takes the lock first, and the other *)
(* processes that it did not overtake are right about the schema.          *)
Current ==
  /\ overtaken \cap LockFirst = {}
  /\ \A p \in Processes \ overtaken : Ready(p)

(* Every database is sequential until a restore overtakes a migration.     *)
Ordered ==
  overtaken = {} =>
    /\ Sequential(schema)
    /\ \A c \in copies : Sequential(c.content.schema)
    /\ Sequential(restore.source.schema) /\ Sequential(restore.safety.schema)

IInv == /\ TypeOK /\ Exclusive /\ SafetyHasAll /\ NothingLost
        /\ Current /\ Ordered /\ StoppedIsTrue

LEMMA Initially == Init => IInv
<1> SUFFICES ASSUME Init PROVE IInv
  OBVIOUS
<1> USE LifecycleAssumption
<1>1. schema \in Seq(1 .. Latest) /\ Sequential(schema) /\ Nothing \in Content
  <2>1. Latest \in 0 .. Latest /\ Upto(Latest) \in Seq(1 .. Latest)
    BY VersionOfUpto
  <2>2. Nothing \in Content
    BY DEF Nothing, Content
  <2>3. schema \in Seq(1 .. Latest) /\ Sequential(schema)
    <3>1. CASE schema = <<>>
      BY <3>1, EmptyIsSequential
    <3>2. CASE schema = Upto(Latest)
      BY <2>1, <3>2 DEF Sequential
    <3> QED BY <3>1, <3>2 DEF Init
  <2> QED BY <2>2, <2>3
<1>2. \A c \in copies : /\ c \in [kind : Kind, content : Content]
                        /\ Sequential(c.content.schema)
  <2>1. PICK release \in 1 .. Latest :
          copies = {[kind |-> "backup", content |-> [schema |-> Upto(release), facts |-> {}]]}
    BY DEF Init
  <2>2. release \in 0 .. Latest /\ Upto(release) \in Seq(1 .. Latest)
    BY VersionOfUpto
  <2> QED BY <2>1, <2>2 DEF Sequential, Kind, Content
<1>3. /\ restore = Idle /\ restore.stage = "idle"
      /\ Sequential(restore.source.schema) /\ Sequential(restore.safety.schema)
  BY EmptyIsSequential DEF Init, Idle, Nothing
<1>4. \A p \in Processes : pc[p] = IF p = Operator THEN "idle" ELSE "down"
  BY DEF Init
<1>5. TypeOK
  BY <1>1, <1>2, <1>3, <1>4
     DEF Init, TypeOK, Row, Idle, SafetyTaken, Processes, Services
<1>6. StoppedIsTrue
  BY <1>4 DEF Init, StoppedIsTrue, Processes, Services
<1> QED
  BY <1>1, <1>2, <1>3, <1>4, <1>5, <1>6
     DEF Init, IInv, Exclusive, Restoring, SafetyHasAll, SafetyTaken, NothingLost, Current,
         Ready, Ordered

-----------------------------------------------------------------------------
(* What the steps have in common.                                          *)

(* Looking at the schema.                                                  *)
LEMMA PreparedIsReady ==
  ASSUME TypeOK, Current, NEW p \in Processes,
         NEW ready \in {"prepared", "running"}, NEW refused \in {"down", "idle"},
         PrepareRuntime(p, ready, refused), UNCHANGED <<schema, overtaken>>
  PROVE  /\ Current'
         /\ next' \in [Processes -> 1 .. Latest + 1]
         /\ \E at \in {"creating", ready, refused} : pc' = [pc EXCEPT ![p] = at]
<1> USE LifecycleAssumption
<1>1. current_version(schema) \in 0 .. Latest
  BY VersionIsGreatest DEF TypeOK
<1>2. next' \in [Processes -> 1 .. Latest + 1]
  BY DEF TypeOK, PrepareRuntime
<1>3. \A q \in Processes \ {p} : Ready(q) => Ready(q)'
  BY DEF TypeOK, PrepareRuntime, Goto, Ready
<1>4. Ready(p)'
  BY <1>1 DEF TypeOK, PrepareRuntime, Goto, Ready
<1> QED
  BY <1>2, <1>3, <1>4 DEF Current, PrepareRuntime, Goto

(* A migration by any of the processes.                                    *)
LEMMA InitializeKeeps ==
  ASSUME TypeOK, Current, Ordered, NEW p \in Processes,
         NEW ready \in {"prepared", "running", "idle"}, Initialize(p, ready)
  PROVE  /\ schema' \in Seq(1 .. Latest)
         /\ next' \in [Processes -> 1 .. Latest + 1]
         /\ pc' = pc \/ pc' = [pc EXCEPT ![p] = ready]
         /\ Current'
         /\ Ordered'
<1> USE LifecycleAssumption
<1>1. current_version(schema) \in 0 .. Latest /\ next[p] \in 1 .. Latest + 1
  BY VersionIsGreatest DEF TypeOK
<1>2. CASE next[p] <= Latest /\ Migration(next[p])
           /\ next' = [next EXCEPT ![p] = @ + 1] /\ UNCHANGED pc
  <2>1. /\ schema' \in Seq(1 .. Latest)
        /\ current_version(schema') \in 0 .. Latest
        /\ current_version(schema') >= current_version(schema)
        /\ current_version(schema') >= next[p]
        /\ Sequential(schema) /\ next[p] <= current_version(schema) + 1 => Sequential(schema')
    <3>1. next[p] \in 1 .. Latest /\ schema \in Seq(1 .. Latest)
      BY <1>1, <1>2 DEF TypeOK
    <3>2. schema' \in Seq(1 .. Latest)
      BY <1>2, <3>1, MigrationRaises
    <3> QED BY <1>2, <3>1, <3>2, MigrationRaises, VersionIsGreatest
  <2>2. next' \in [Processes -> 1 .. Latest + 1]
    BY <1>1, <1>2 DEF TypeOK
  <2>3. \A q \in Processes \ {p} : Ready(q) => Ready(q)'
    <3> SUFFICES ASSUME NEW q \in Processes \ {p}, Ready(q) PROVE Ready(q)'
      OBVIOUS
    <3>1. next'[q] = next[q] /\ pc'[q] = pc[q] /\ next[q] \in Nat
      BY <1>2 DEF TypeOK
    <3> QED BY <1>1, <2>1, <3>1 DEF Ready
  <2>4. Ready(p)'
    <3>1. next'[p] = next[p] + 1 /\ pc'[p] = pc[p] /\ pc[p] \in {"creating", "migrating"}
      BY <1>2 DEF TypeOK, Initialize
    <3> QED BY <1>1, <2>1, <3>1 DEF Ready
  <2>5. overtaken' = overtaken /\ copies' = copies /\ restore' = restore
    BY DEF Initialize, histories
  <2>6. Current'
    BY <2>3, <2>4, <2>5 DEF Current
  <2>7. Ordered'
    <3>1. ASSUME overtaken = {} PROVE next[p] <= current_version(schema) + 1
      BY <3>1 DEF Current, Ready, Initialize
    <3> QED BY <2>1, <2>5, <3>1 DEF Ordered
  <2> QED BY <1>2, <2>1, <2>2, <2>6, <2>7
<1>3. CASE next[p] > Latest /\ Goto(p, ready) /\ next' = [next EXCEPT ![p] = 1]
           /\ UNCHANGED schema
  <2>1. next' \in [Processes -> 1 .. Latest + 1] /\ pc' = [pc EXCEPT ![p] = ready]
    BY <1>3 DEF TypeOK, Goto
  <2>2. \A q \in Processes \ {p} : Ready(q) => Ready(q)'
    BY <1>3, <2>1 DEF TypeOK, Ready
  <2>3. Ready(p) => Ready(p)'
    <3>1. pc'[p] = ready /\ next'[p] = 1 /\ pc[p] \in {"creating", "migrating"}
      BY <1>3, <2>1 DEF TypeOK, Initialize
    <3> QED BY <1>1, <1>3, <3>1 DEF Ready
  <2>4. overtaken' = overtaken /\ copies' = copies /\ restore' = restore
    BY DEF Initialize, histories
  <2> QED BY <1>3, <2>1, <2>2, <2>3, <2>4 DEF TypeOK, Current, Ordered
<1> QED BY <1>2, <1>3 DEF Initialize

(* A restore writes another database over the live one.                    *)
LEMMA OverwriteKeeps ==
  ASSUME TypeOK, Exclusive, Current, Restoring, NEW content \in Content, Overwrite(content),
         UNCHANGED <<pc, next>>
  PROVE  /\ schema' \in Seq(1 .. Latest) /\ facts' \in SUBSET Facts /\ row' \in Row
         /\ overtaken' \subseteq Processes
         /\ Current'
         /\ StoppedIsTrue'
<1> USE LifecycleAssumption
<1>1. /\ schema' \in Seq(1 .. Latest) /\ facts' \in SUBSET Facts /\ row' \in Row
      /\ overtaken' = overtaken \cup
           {p \in Processes : pc[p] \in {"creating", "migrating", "prepared"}}
  BY DEF Overwrite, Content
<1>2. \A p \in Services : pc[p] # "running"
  BY DEF Exclusive, Holders, Services
<1>3. \A p \in LockFirst : pc[p] = "down"
  BY DEF Exclusive, Holders, TypeOK
<1>4. \A p \in Processes \ overtaken' : pc[p] \notin {"creating", "migrating", "prepared", "running"}
  BY <1>1, <1>2 DEF Processes, TypeOK
<1>5. Current'
  BY <1>1, <1>3, <1>4 DEF Current, Ready
<1>6. StoppedIsTrue'
  BY <1>1, <1>2 DEF StoppedIsTrue, Row, Services
<1> QED BY <1>1, <1>5, <1>6 DEF TypeOK

-----------------------------------------------------------------------------
(* The steps preserve the invariant.                                       *)

(* Steps of a process that leave the database, the restore and the copies  *)
(* alone, and do not enter the lock while it is held exclusively.          *)
LEMMA MovesKeep ==
  ASSUME IInv, NEW p \in Processes, NEW at, Goto(p, at), Quiet, TypeOK', Current',
         p \in LockFirst => at = "down" \/ ~Restoring \/ p \in Holders,
         at = "running" => p \in LockFirst
  PROVE  IInv'
<1> USE LifecycleAssumption
<1>1. /\ pc' = [pc EXCEPT ![p] = at]
      /\ schema' = schema /\ facts' = facts /\ row' = row /\ copies' = copies
      /\ restore' = restore /\ written' = written /\ overtaken' = overtaken
  BY DEF Goto, Quiet, database, histories
<1>2. pc \in [Processes -> {"down", "idle", "creating", "migrating", "prepared", "locked", "running"}]
  BY DEF IInv, TypeOK
<1>3. \A q \in Processes : pc'[q] = IF q = p THEN at ELSE pc[q]
  BY <1>1, <1>2
<1>4. Exclusive'
  BY <1>1, <1>3 DEF IInv, Exclusive, Restoring, Holders, Processes, Services
<1>5. StoppedIsTrue'
  <2>1. row.by \in Monitored
    BY DEF IInv, TypeOK, Row
  <2> QED BY <1>1, <1>3, <2>1 DEF IInv, StoppedIsTrue, service_health, Processes, Services
<1>6. SafetyHasAll' /\ NothingLost' /\ Ordered'
  BY <1>1 DEF IInv, SafetyHasAll, SafetyTaken, Saved, SafetyCopies, NothingLost, Ordered
<1> QED BY <1>4, <1>5, <1>6 DEF IInv

LEMMA StartsKeep ==
  ASSUME IInv,
         \/ \E p \in Monitored : OpenMonitored(p)
         \/ \E p \in LockFirst : LockFirstOf(p) \/ OpenLocked(p) \/ StopLockFirst(p)
         \/ OpenCommand
  PROVE  IInv'
<1> USE LifecycleAssumption
<1>0. TypeOK /\ Current
  BY DEF IInv
<1>1. ASSUME NEW p \in Monitored, OpenMonitored(p) PROVE IInv'
  <2>1. /\ PrepareRuntime(p, "prepared", "down") /\ p \in Processes /\ Quiet
        /\ UNCHANGED <<schema, overtaken>>
    BY <1>1 DEF OpenMonitored, Processes, Services, Quiet, database, histories
  <2>2. /\ Current' /\ next' \in [Processes -> 1 .. Latest + 1]
        /\ \E at \in {"creating", "prepared", "down"} : pc' = [pc EXCEPT ![p] = at]
    BY <1>0, <2>1, PreparedIsReady
  <2>3. PICK at \in {"creating", "prepared", "down"} : pc' = [pc EXCEPT ![p] = at]
    BY <2>2
  <2>4. TypeOK'
    BY <1>0, <1>1, <2>1, <2>2, <2>3
       DEF TypeOK, Quiet, database, histories, SafetyTaken, Processes, Services
  <2> QED BY <1>1, <2>1, <2>2, <2>3, <2>4, MovesKeep DEF Goto
<1>2. ASSUME NEW p \in LockFirst, LockFirstOf(p) PROVE IInv'
  <2>1. /\ Goto(p, "locked") /\ ~Restoring /\ UNCHANGED next /\ Quiet
        /\ pc' = [pc EXCEPT ![p] = "locked"]
    BY <1>2 DEF LockFirstOf, Goto
  <2>2. TypeOK' /\ p \in Processes
    BY <1>0, <2>1 DEF TypeOK, Quiet, database, histories, SafetyTaken, Processes, Services
  <2>3. Current'
    BY <1>0, <2>1 DEF Current, Ready, TypeOK, Quiet, database, histories
  <2> QED BY <2>1, <2>2, <2>3, MovesKeep
<1>3. ASSUME NEW p \in LockFirst, OpenLocked(p) PROVE IInv'
  <2>1. /\ PrepareRuntime(p, "running", "down") /\ p \in Processes /\ Quiet
        /\ UNCHANGED <<schema, overtaken>>
    BY <1>3 DEF OpenLocked, Processes, Services, Quiet, database, histories
  <2>2. /\ Current' /\ next' \in [Processes -> 1 .. Latest + 1]
        /\ \E at \in {"creating", "running", "down"} : pc' = [pc EXCEPT ![p] = at]
    BY <1>0, <2>1, PreparedIsReady
  <2>3. PICK at \in {"creating", "running", "down"} : pc' = [pc EXCEPT ![p] = at]
    BY <2>2
  <2>4. TypeOK'
    BY <1>0, <2>1, <2>2, <2>3
       DEF TypeOK, Quiet, database, histories, SafetyTaken, Processes, Services
  <2>5. p \in Holders
    BY <1>3 DEF OpenLocked, Holders
  <2>6. Goto(p, at)
    BY <2>3 DEF Goto
  <2> QED BY <1>3, <2>1, <2>2, <2>4, <2>5, <2>6, MovesKeep
<1>4. ASSUME NEW p \in LockFirst, StopLockFirst(p) PROVE IInv'
  <2>1. /\ Goto(p, "down") /\ UNCHANGED next /\ Quiet /\ pc' = [pc EXCEPT ![p] = "down"]
    BY <1>4 DEF StopLockFirst, Goto
  <2>2. TypeOK' /\ p \in Processes
    BY <1>0, <2>1 DEF TypeOK, Quiet, database, histories, SafetyTaken, Processes, Services
  <2>3. Current'
    BY <1>0, <2>1 DEF Current, Ready, TypeOK, Quiet, database, histories
  <2> QED BY <2>1, <2>2, <2>3, MovesKeep
<1>5. ASSUME OpenCommand PROVE IInv'
  <2>1. /\ PrepareRuntime(Operator, "prepared", "idle") /\ Operator \in Processes /\ Quiet
        /\ UNCHANGED <<schema, overtaken>>
    BY <1>5 DEF OpenCommand, Processes, Quiet, database, histories
  <2>2. /\ Current' /\ next' \in [Processes -> 1 .. Latest + 1]
        /\ \E at \in {"creating", "prepared", "idle"} : pc' = [pc EXCEPT ![Operator] = at]
    BY <1>0, <2>1, PreparedIsReady
  <2>3. PICK at \in {"creating", "prepared", "idle"} : pc' = [pc EXCEPT ![Operator] = at]
    BY <2>2
  <2>4. TypeOK'
    BY <1>0, <2>1, <2>2, <2>3
       DEF TypeOK, Quiet, database, histories, SafetyTaken, Processes, Services
  <2>5. Goto(Operator, at) /\ Operator \notin LockFirst
    BY <2>3 DEF Goto, Services
  <2> QED BY <2>1, <2>2, <2>4, <2>5, MovesKeep
<1> QED BY <1>1, <1>2, <1>3, <1>4, <1>5

LEMMA MigrationsKeep ==
  ASSUME IInv, NEW p \in Processes, NEW ready, Initialize(p, ready),
         \/ p \in Monitored /\ ready = "prepared"
         \/ p \in LockFirst /\ ready = "running"
         \/ p = Operator /\ ready = IF pc[Operator] = "creating" THEN "prepared" ELSE "idle"
  PROVE  IInv'
<1> USE LifecycleAssumption
<1>0. TypeOK /\ Current /\ Ordered
  BY DEF IInv
<1>1. ready \in {"prepared", "running", "idle"}
  OBVIOUS
<1>2. /\ schema' \in Seq(1 .. Latest) /\ next' \in [Processes -> 1 .. Latest + 1]
      /\ pc' = pc \/ pc' = [pc EXCEPT ![p] = ready]
      /\ Current' /\ Ordered'
  BY <1>0, <1>1, InitializeKeeps
<1>3. /\ facts' = facts /\ row' = row /\ copies' = copies /\ restore' = restore
      /\ written' = written /\ overtaken' = overtaken /\ restores' = restores
      /\ deaths' = deaths /\ pc[p] \in {"creating", "migrating"}
  BY DEF Initialize, histories
<1>4. \A q \in Processes : pc'[q] = pc[q] \/ (q = p /\ pc'[q] = ready)
  <2>1. CASE pc' = pc
    BY <2>1
  <2>2. CASE pc' = [pc EXCEPT ![p] = ready]
    BY <1>0, <2>2 DEF TypeOK
  <2> QED BY <1>2, <2>1, <2>2
<1>5. TypeOK'
  <2>1. pc' \in [Processes -> {"down", "idle", "creating", "migrating", "prepared", "locked", "running"}]
    BY <1>0, <1>1, <1>2 DEF TypeOK
  <2>2. /\ \A q \in Monitored : pc'[q] \in {"down", "creating", "prepared", "running"}
        /\ \A q \in LockFirst : pc'[q] \in {"down", "locked", "creating", "running"}
        /\ pc'[Operator] \in {"idle", "creating", "prepared", "migrating"}
    BY <1>0, <1>4 DEF TypeOK, Processes, Services
  <2> QED BY <1>0, <1>2, <1>3, <2>1, <2>2 DEF TypeOK, SafetyTaken
<1>6. Exclusive'
  BY <1>0, <1>3, <1>4 DEF IInv, Exclusive, Restoring, Holders, Processes, Services, TypeOK
<1>7. StoppedIsTrue'
  <2>1. row.by \in Monitored
    BY <1>0 DEF TypeOK, Row
  <2> QED BY <1>3, <1>4, <2>1 DEF IInv, StoppedIsTrue, service_health, Processes, Services
<1>8. SafetyHasAll' /\ NothingLost'
  BY <1>3 DEF IInv, SafetyHasAll, SafetyTaken, Saved, SafetyCopies, NothingLost
<1> QED BY <1>2, <1>5, <1>6, <1>7, <1>8 DEF IInv

LEMMA ServicesKeep ==
  ASSUME IInv,
         \/ \E p \in Monitored : StartService(p) \/ Heartbeat(p) \/ StopService(p)
         \/ \E p \in Services : ServiceWrites(p)
         \/ \E p \in Processes : Die(p)
         \/ TimePasses
  PROVE  IInv'
<1> USE LifecycleAssumption
<1>0. TypeOK /\ Current
  BY DEF IInv
<1>1. ASSUME NEW p \in Monitored, StartService(p) PROVE IInv'
  <2>1. pc' = [pc EXCEPT ![p] = "running"] /\ pc[p] = "prepared" /\ p \in Processes
    BY <1>1 DEF StartService, Goto, Processes, Services
  <2>2. TypeOK'
    BY <1>0, <1>1, <2>1
       DEF TypeOK, StartService, Row, SafetyTaken, histories, Processes, Services
  <2>3. Exclusive' /\ StoppedIsTrue'
    BY <1>1 DEF StartService, Exclusive, Restoring, StoppedIsTrue, service_health
  <2>4. SafetyHasAll' /\ NothingLost' /\ Ordered'
    BY <1>1 DEF StartService, IInv, SafetyHasAll, SafetyTaken, Saved, SafetyCopies, NothingLost,
                Ordered, histories
  <2>5. Current'
    BY <1>0, <1>1, <2>1 DEF StartService, TypeOK, Current, Ready, histories
  <2> QED BY <2>2, <2>3, <2>4, <2>5 DEF IInv
<1>2. ASSUME NEW p \in Monitored, Heartbeat(p) PROVE IInv'
  BY <1>2 DEF Heartbeat, IInv, TypeOK, Row, Exclusive, Restoring, Holders, SafetyHasAll, SafetyTaken,
              Saved, SafetyCopies, NothingLost, Current, Ready, Ordered, StoppedIsTrue,
              service_health, histories
<1>3. ASSUME NEW p \in Monitored, StopService(p) PROVE IInv'
  <2>1. pc' = [pc EXCEPT ![p] = "down"] /\ pc[p] = "running" /\ p \in Processes
    BY <1>3 DEF StopService, Goto, Processes, Services
  <2>2. TypeOK'
    BY <1>0, <1>3, <2>1
       DEF TypeOK, StopService, Row, SafetyTaken, histories, Processes, Services
  <2>3. Exclusive'
    BY <1>0, <1>3, <2>1 DEF StopService, IInv, Exclusive, Restoring, Holders, TypeOK, Processes, Services
  <2>4. StoppedIsTrue'
    BY <1>0, <1>3, <2>1 DEF StopService, IInv, StoppedIsTrue, service_health, TypeOK, Row, Processes, Services
  <2>5. SafetyHasAll' /\ NothingLost' /\ Ordered'
    BY <1>3 DEF StopService, IInv, SafetyHasAll, SafetyTaken, Saved, SafetyCopies, NothingLost,
                Ordered, histories
  <2>6. Current'
    BY <1>0, <1>3, <2>1 DEF StopService, TypeOK, Current, Ready, histories
  <2> QED BY <2>2, <2>3, <2>4, <2>5, <2>6 DEF IInv
<1>4. ASSUME NEW p \in Services, ServiceWrites(p) PROVE IInv'
  <2>1. p \in Holders
    BY <1>4 DEF ServiceWrites, Holders, Services
  <2>2. ~SafetyTaken /\ ~SafetyTaken'
    BY <1>4, <2>1 DEF IInv, Exclusive, Restoring, SafetyTaken, ServiceWrites
  <2>3. TypeOK'
    BY <1>4, <2>2 DEF IInv, TypeOK, ServiceWrites
  <2>4. NothingLost'
    BY <1>4 DEF IInv, NothingLost, ServiceWrites
  <2> QED
    BY <1>4, <2>2, <2>3, <2>4
       DEF IInv, ServiceWrites, Exclusive, Restoring, Holders, SafetyHasAll, Current, Ready,
           Ordered, StoppedIsTrue, service_health
<1>5. ASSUME NEW p \in Processes, Die(p) PROVE IInv'
  <2>1. pc' = [pc EXCEPT ![p] = IF p = Operator THEN "idle" ELSE "down"]
    BY <1>5 DEF Die, Goto
  <2>2. TypeOK'
    BY <1>0, <1>5, <2>1
       DEF TypeOK, Die, SafetyTaken, database, histories, Processes, Services
  <2>3. Exclusive'
    BY <1>0, <1>5, <2>1 DEF Die, IInv, Exclusive, Restoring, Holders, TypeOK, Processes, Services
  <2>4. StoppedIsTrue'
    BY <1>0, <1>5, <2>1 DEF Die, IInv, StoppedIsTrue, service_health, TypeOK, Row, database, Processes, Services
  <2>5. SafetyHasAll' /\ NothingLost' /\ Ordered'
    BY <1>5 DEF Die, IInv, SafetyHasAll, SafetyTaken, Saved, SafetyCopies, NothingLost,
                Ordered, database, histories
  <2>6. Current'
    BY <1>0, <1>5, <2>1 DEF Die, TypeOK, Current, Ready, database, histories
  <2> QED BY <2>2, <2>3, <2>4, <2>5, <2>6 DEF IInv
<1>6. ASSUME TimePasses PROVE IInv'
  BY <1>6 DEF TimePasses, IInv, TypeOK, Row, Exclusive, Restoring, Holders, SafetyHasAll, SafetyTaken,
              Saved, SafetyCopies, NothingLost, Current, Ready, Ordered, StoppedIsTrue,
              service_health, histories
<1> QED BY <1>1, <1>2, <1>3, <1>4, <1>5, <1>6

LEMMA CommandsKeep ==
  ASSUME IInv, CommandWrites \/ MigrateBegin
  PROVE  IInv'
<1> USE LifecycleAssumption
<1>0. TypeOK /\ Current /\ Operator \in Processes
  BY DEF IInv, Processes
<1>1. ASSUME CommandWrites PROVE IInv'
  <2>1. pc' = [pc EXCEPT ![Operator] = "idle"]
    BY <1>1 DEF CommandWrites, Goto
  <2>2. TypeOK'
    BY <1>0, <1>1, <2>1 DEF TypeOK, CommandWrites, SafetyTaken, Processes, Services
  <2>3. Exclusive' /\ StoppedIsTrue'
    BY <1>0, <1>1, <2>1 DEF CommandWrites, IInv, Exclusive, Restoring, Holders, StoppedIsTrue,
                            service_health, TypeOK, Row, Processes, Services
  <2>4. SafetyHasAll' /\ NothingLost'
    BY <1>1 DEF CommandWrites, IInv, SafetyHasAll, SafetyTaken, Saved, SafetyCopies, NothingLost
  <2>5. Current' /\ Ordered'
    BY <1>0, <1>1, <2>1 DEF CommandWrites, IInv, TypeOK, Current, Ready, Ordered
  <2> QED BY <2>2, <2>3, <2>4, <2>5 DEF IInv
<1>2. ASSUME MigrateBegin PROVE IInv'
  <2>1. pc' = [pc EXCEPT ![Operator] = "migrating"] /\ next' = [next EXCEPT ![Operator] = 1]
    BY <1>2 DEF MigrateBegin, Goto
  <2>2. /\ copies \subseteq copies'
        /\ \A c \in copies' : c \in copies \/ c = [kind |-> "pre_migration", content |-> Live]
    BY <1>2 DEF MigrateBegin
  <2>3. TypeOK'
    BY <1>0, <1>2, <2>1, <2>2
       DEF TypeOK, MigrateBegin, SafetyTaken, database, histories, Processes, Services, Kind, Content, Live
  <2>4. Exclusive' /\ StoppedIsTrue'
    BY <1>0, <1>2, <2>1 DEF MigrateBegin, IInv, Exclusive, Restoring, Holders, StoppedIsTrue,
                            service_health, TypeOK, Row, database, Processes, Services
  <2>5. SafetyHasAll' /\ NothingLost'
    BY <1>2, <2>2 DEF MigrateBegin, IInv, SafetyHasAll, SafetyTaken, Saved, SafetyCopies, NothingLost,
                      database, histories
  <2>6. Current'
    <3>1. current_version(schema) \in 0 .. Latest
      BY <1>0, VersionIsGreatest DEF TypeOK
    <3> QED BY <1>0, <1>2, <2>1, <3>1 DEF MigrateBegin, TypeOK, Current, Ready, database, histories
  <2>7. Ordered'
    BY <1>2, <2>2 DEF MigrateBegin, IInv, Ordered, Live, database, histories
  <2> QED BY <2>3, <2>4, <2>5, <2>6, <2>7 DEF IInv
<1> QED BY <1>1, <1>2

LEMMA RestoresKeep ==
  ASSUME IInv, RestoreBegin \/ RestoreStep \/ RestoreDies
  PROVE  IInv'
<1> USE LifecycleAssumption
<1>0. TypeOK /\ Current
  BY DEF IInv
<1>a. Idle.stage = "idle" /\ Idle.source = Nothing /\ Idle.safety = Nothing
      /\ Nothing \in Content /\ Sequential(Nothing.schema)
  <2>1. Nothing \in Content /\ Nothing.schema = <<>>
    BY DEF Nothing, Content
  <2> QED BY <2>1, EmptyIsSequential DEF Idle
<1>b. Idle \in [stage : {"idle", "verified", "saved", "replaced"}, source : Content, safety : Content]
  BY <1>a DEF Idle
<1>1. ASSUME RestoreBegin PROVE IInv'
  <2>1. PICK c \in copies : restore' = [Idle EXCEPT !.stage = "verified", !.source = c.content]
    BY <1>1 DEF RestoreBegin
  <2>2. /\ restore'.stage = "verified" /\ restore'.source = c.content
        /\ restore'.safety = Nothing /\ c.content \in Content
        /\ restore' \in [stage : {"idle", "verified", "saved", "replaced"},
                         source : Content, safety : Content]
    BY <1>0, <1>a, <2>1 DEF Idle, TypeOK
  <2>3. TypeOK'
    <3>1. UNCHANGED <<schema, facts, row, copies, pc, next, written, overtaken, deaths>>
      BY <1>1 DEF RestoreBegin, database, histories
    <3>2. restores' = restores + 1
      BY <1>1 DEF RestoreBegin
    <3>3. restores' \in Nat
      BY <1>0, <3>2 DEF TypeOK
    <3>4. ~SafetyTaken'
      BY <2>2 DEF SafetyTaken
    <3> QED BY <1>0, <2>2, <3>1, <3>3, <3>4 DEF TypeOK
  <2>4. Exclusive' /\ StoppedIsTrue'
    BY <1>1 DEF RestoreBegin, IInv, Exclusive, Holders, StoppedIsTrue, service_health, database
  <2>5. SafetyHasAll' /\ NothingLost'
    BY <1>1, <2>2 DEF RestoreBegin, IInv, SafetyHasAll, SafetyTaken, NothingLost, database, histories
  <2>6. Current' /\ Ordered'
    BY <1>0, <1>a, <1>1, <2>2
       DEF RestoreBegin, IInv, Current, Ready, Ordered, database, histories
  <2> QED BY <2>3, <2>4, <2>5, <2>6 DEF IInv
<1>2. ASSUME SafetyCopy PROVE IInv'
  <2>0. /\ database' = database /\ pc' = pc /\ next' = next /\ histories' = histories
        /\ restores' = restores /\ deaths' = deaths /\ restore.stage = "verified"
    BY <1>2 DEF SafetyCopy
  <2>1. CASE /\ copies' = copies \cup {[kind |-> "pre_restore", content |-> Live]}
             /\ restore' = [restore EXCEPT !.stage = "saved", !.safety = Live]
    <3>1. /\ restore'.stage = "saved" /\ restore'.source = restore.source
          /\ restore'.safety = Live /\ Live \in Content
          /\ restore' \in [stage : {"idle", "verified", "saved", "replaced"},
                           source : Content, safety : Content]
      BY <1>0, <2>1 DEF TypeOK, Live, Content
    <3>2. TypeOK'
      BY <1>0, <2>0, <2>1, <3>1 DEF TypeOK, SafetyTaken, Kind, database, histories
    <3>3. Exclusive' /\ StoppedIsTrue'
      BY <2>0 DEF IInv, Exclusive, Restoring, Holders, StoppedIsTrue, service_health, database
    <3>4. facts \subseteq Saved' /\ Saved \subseteq Saved'
      <4> DEFINE new == [kind |-> "pre_restore", content |-> Live]
      <4>1. new \in SafetyCopies' /\ new.content.facts = facts
        BY <2>1 DEF SafetyCopies, Live
      <4>2. SafetyCopies \subseteq SafetyCopies'
        BY <2>1 DEF SafetyCopies
      <4> HIDE DEF new
      <4> QED BY <4>1, <4>2 DEF Saved
    <3>5. SafetyHasAll' /\ NothingLost'
      BY <2>0, <3>4 DEF IInv, SafetyHasAll, NothingLost, Saved, SafetyCopies, database, histories
    <3>6. Current' /\ Ordered'
      BY <1>0, <2>0, <2>1, <3>1 DEF IInv, Current, Ready, Ordered, Live, database, histories
    <3> QED BY <3>2, <3>3, <3>5, <3>6 DEF IInv
  <2>2. CASE restore' = Idle /\ UNCHANGED copies
    <3>1. TypeOK'
      BY <1>0, <1>a, <1>b, <2>0, <2>2 DEF TypeOK, SafetyTaken, database, histories
    <3>2. Exclusive' /\ StoppedIsTrue'
      BY <1>a, <2>0, <2>2 DEF IInv, Exclusive, Restoring, StoppedIsTrue, service_health, database
    <3>3. SafetyHasAll' /\ NothingLost'
      BY <1>a, <2>0, <2>2 DEF IInv, SafetyHasAll, SafetyTaken, NothingLost, database, histories
    <3>4. Current' /\ Ordered'
      BY <1>0, <1>a, <2>0, <2>2 DEF IInv, Current, Ready, Ordered, database, histories
    <3> QED BY <3>1, <3>2, <3>3, <3>4 DEF IInv
  <2> QED BY <1>2, <2>1, <2>2 DEF SafetyCopy
<1>3. ASSUME Replace PROVE IInv'
  <2>1. /\ Overwrite(restore.source) /\ restore.source \in Content /\ Restoring
        /\ restore' = [restore EXCEPT !.stage = "replaced"]
        /\ restore.stage = "saved" /\ SafetyTaken
        /\ UNCHANGED <<copies, pc, next, written, restores, deaths>>
    BY <1>0, <1>3 DEF Replace, TypeOK, Restoring, SafetyTaken
  <2>2. /\ schema' \in Seq(1 .. Latest) /\ facts' \in SUBSET Facts /\ row' \in Row
        /\ overtaken' \subseteq Processes /\ Current' /\ StoppedIsTrue'
    BY <2>1, OverwriteKeeps DEF IInv
  <2>3. /\ restore'.stage = "replaced" /\ restore'.source = restore.source
        /\ restore'.safety = restore.safety
        /\ restore' \in [stage : {"idle", "verified", "saved", "replaced"},
                         source : Content, safety : Content]
    BY <1>0, <2>1 DEF TypeOK
  <2>4. TypeOK'
    BY <1>0, <2>1, <2>2, <2>3 DEF TypeOK, SafetyTaken
  <2>5. Exclusive' /\ SafetyHasAll' /\ NothingLost'
    BY <2>1 DEF IInv, Exclusive, Holders, SafetyHasAll, Saved, SafetyCopies, NothingLost
  <2>6. Ordered'
    BY <2>1, <2>3 DEF IInv, Ordered, Overwrite
  <2> QED BY <2>2, <2>4, <2>5, <2>6 DEF IInv
<1>4. ASSUME MigrateRestored PROVE IInv'
  <2>0. /\ current_version(schema) \in 0 .. Latest /\ restore.stage = "replaced"
        /\ current_version(schema) < Latest /\ Migration(current_version(schema) + 1)
        /\ UNCHANGED <<facts, row, copies, pc, next, restore, histories, restores, deaths>>
    BY <1>0, <1>4, VersionIsGreatest DEF MigrateRestored, TypeOK
  <2>1. /\ schema' \in Seq(1 .. Latest)
        /\ current_version(schema') >= current_version(schema)
        /\ Sequential(schema) => Sequential(schema')
    <3>1. current_version(schema) + 1 \in 1 .. Latest /\ schema \in Seq(1 .. Latest)
      BY <1>0, <2>0 DEF TypeOK
    <3> QED BY <2>0, <3>1, MigrationRaises
  <2>2. current_version(schema') \in 0 .. Latest
    BY <2>1, VersionIsGreatest
  <2>3. TypeOK'
    BY <1>0, <2>0, <2>1 DEF TypeOK, SafetyTaken, histories
  <2>4. Current'
    <3> SUFFICES ASSUME NEW q \in Processes \ overtaken, Ready(q) PROVE Ready(q)'
      BY <1>0, <2>0 DEF Current, histories
    <3>1. next[q] \in Nat /\ next'[q] = next[q] /\ pc'[q] = pc[q]
      BY <1>0, <2>0 DEF TypeOK
    <3> QED BY <2>0, <2>1, <2>2, <3>1 DEF Ready
  <2>5. Ordered'
    BY <2>0, <2>1 DEF IInv, Ordered, histories
  <2> QED
    BY <2>0, <2>3, <2>4, <2>5
       DEF IInv, Exclusive, Restoring, Holders, SafetyHasAll, SafetyTaken, Saved, SafetyCopies,
           NothingLost, StoppedIsTrue, service_health, histories
<1>5. ASSUME RollBack PROVE IInv'
  <2>1. /\ Overwrite(restore.safety) /\ restore.safety \in Content /\ Restoring
        /\ restore' = Idle /\ SafetyTaken
        /\ UNCHANGED <<copies, pc, next, written, restores, deaths>>
    BY <1>0, <1>5 DEF RollBack, TypeOK, Restoring, SafetyTaken
  <2>2. /\ schema' \in Seq(1 .. Latest) /\ facts' \in SUBSET Facts /\ row' \in Row
        /\ overtaken' \subseteq Processes /\ Current' /\ StoppedIsTrue'
    BY <2>1, OverwriteKeeps DEF IInv
  <2>3. TypeOK'
    BY <1>0, <1>a, <1>b, <2>1, <2>2 DEF TypeOK, SafetyTaken
  <2>4. Exclusive' /\ SafetyHasAll' /\ NothingLost'
    BY <1>a, <2>1 DEF IInv, Exclusive, Restoring, SafetyHasAll, SafetyTaken, Saved, SafetyCopies, NothingLost
  <2>5. Ordered'
    BY <1>a, <2>1 DEF IInv, Ordered, Overwrite
  <2> QED BY <2>2, <2>3, <2>4, <2>5 DEF IInv
<1>6. ASSUME RestoreDone PROVE IInv'
  <2>0. /\ restore.stage = "replaced" /\ row' = [row EXCEPT !.state = "stopped"]
        /\ restore' = Idle
        /\ UNCHANGED <<schema, facts, copies, pc, next, histories, restores, deaths>>
    BY <1>6 DEF RestoreDone
  <2>1. TypeOK'
    BY <1>0, <1>a, <1>b, <2>0 DEF TypeOK, Row, SafetyTaken, histories
  <2>2. StoppedIsTrue'
    BY <1>0, <2>0 DEF IInv, Exclusive, Restoring, Holders, StoppedIsTrue, TypeOK, Row
  <2>3. Exclusive' /\ SafetyHasAll' /\ NothingLost'
    BY <1>a, <2>0 DEF IInv, Exclusive, Restoring, SafetyHasAll, SafetyTaken, NothingLost, histories
  <2>4. Current' /\ Ordered'
    BY <1>0, <1>a, <2>0 DEF IInv, Current, Ready, Ordered, histories
  <2> QED BY <2>1, <2>2, <2>3, <2>4 DEF IInv
<1>7. ASSUME RestoreDies PROVE IInv'
  <2>0. /\ restore' = Idle /\ deaths' \in Nat
        /\ UNCHANGED <<database, copies, pc, next, histories, restores>>
    BY <1>0, <1>7 DEF RestoreDies, TypeOK
  <2>1. TypeOK'
    BY <1>0, <1>a, <1>b, <2>0 DEF TypeOK, SafetyTaken, database, histories
  <2>2. Exclusive' /\ SafetyHasAll' /\ NothingLost' /\ StoppedIsTrue'
    BY <1>a, <2>0 DEF IInv, Exclusive, Restoring, SafetyHasAll, SafetyTaken, NothingLost,
                      StoppedIsTrue, service_health, database, histories
  <2>3. Current' /\ Ordered'
    BY <1>0, <1>a, <2>0 DEF IInv, Current, Ready, Ordered, database, histories
  <2> QED BY <2>1, <2>2, <2>3 DEF IInv
<1> QED BY <1>1, <1>2, <1>3, <1>4, <1>5, <1>6, <1>7 DEF RestoreStep

LEMMA StutterKeeps == IInv /\ UNCHANGED vars => IInv'
  BY DEF IInv, vars, database, histories, TypeOK, Exclusive, Restoring, Holders, SafetyHasAll,
         SafetyTaken, Saved, SafetyCopies, NothingLost, Current, Ready, Ordered, StoppedIsTrue,
         service_health

LEMMA Inductive == IInv /\ [Next]_vars => IInv'
<1> SUFFICES ASSUME IInv, [Next]_vars PROVE IInv'
  OBVIOUS
<1>1. ASSUME NEW p \in Monitored, MonitoredStep(p) \/ StopService(p) PROVE IInv'
  BY <1>1, StartsKeep, MigrationsKeep, ServicesKeep DEF MonitoredStep, Processes, Services
<1>2. ASSUME NEW p \in LockFirst, LockFirstStep(p) \/ StopLockFirst(p) PROVE IInv'
  BY <1>2, StartsKeep, MigrationsKeep DEF LockFirstStep, Processes, Services
<1>3. ASSUME OperatorStep PROVE IInv'
  BY <1>3, MigrationsKeep DEF OperatorStep, Processes
<1> QED
  BY <1>1, <1>2, <1>3, StartsKeep, ServicesKeep, CommandsKeep, RestoresKeep, StutterKeeps DEF Next

THEOREM Invariance == Spec => []IInv
  BY Initially, Inductive, PTL DEF Spec

-----------------------------------------------------------------------------
(* Type correctness: the schema, the status row, the copies and the        *)
(* restore keep their types, and a process is only where its kind may be.  *)
THEOREM TypeCorrect == Spec => []TypeOK
<1>1. IInv => TypeOK
  BY DEF IInv
<1> QED BY <1>1, Invariance, PTL

(* A restore can be undone wherever it fails or is killed: whatever was    *)
(* written is in the live database or in a safety copy.                    *)
THEOREM NothingIsLost == Spec => []NothingLost
<1>1. IInv => NothingLost
  BY DEF IInv
<1> QED BY <1>1, Invariance, PTL

(* A running service runs on the current schema, unless it is a worker     *)
(* that a restore overtook between its check and the lock.                 *)
THEOREM RunningCorrect == Spec => []RunningIsCurrent
<1>1. IInv => RunningIsCurrent
  BY DEF IInv, Current, Ready, RunningIsCurrent, Processes, Services
<1> QED BY <1>1, Invariance, PTL

(* Migrations run once and in their order on every database, as long as no *)
(* restore overtakes a process that runs them.                             *)
THEOREM MigrationsCorrect == Spec => []NoMigrationIsSkipped
<1>1. IInv => NoMigrationIsSkipped
  BY DEF IInv, Ordered, Sequential, NoMigrationIsSkipped
<1> QED BY <1>1, Invariance, PTL

(* A service that is shown as stopped does not run.                        *)
THEOREM StoppedCorrect == Spec => []StoppedIsTrue
<1>1. IInv => StoppedIsTrue
  BY DEF IInv
<1> QED BY <1>1, Invariance, PTL
=============================================================================
