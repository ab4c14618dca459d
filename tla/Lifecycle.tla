----------------------------- MODULE Lifecycle -----------------------------
(***************************************************************************)
(* The life of the database file: creation, migration, restore, and the    *)
(* processes that start and stop around it.  Two kinds of service share a  *)
(* lifecycle lock with the restore command:                                *)
(*   - the monitored ones (worker, maintenance) open the database, look at *)
(*     its schema, then take the lock and report in service_status;        *)
(*   - the others (dashboard, ingress) take the lock first.                *)
(* Commands of the operator (set-mode, recover-stale, backup create,       *)
(* migrate) take no lock at all.  Any process may die at any step.         *)
(*                                                                         *)
(* A database is the sequence of migrations that ran on it and the facts   *)
(* written into it.  Every block under BEGIN IMMEDIATE is one step.        *)
(***************************************************************************)
EXTENDS Naturals, Sequences, FiniteSets, SequencesExt

CONSTANTS Monitored,   \* processes of the worker (they share one status row)
          LockFirst,   \* processes of the dashboard and of the ingress
          Operator,    \* the command line, one command at a time
          Facts,       \* what services and commands write
          Latest,      \* number of the newest migration of this release
          MaxRestores, \* bound: restores that begin
          MaxDeaths    \* bound: processes that are killed

Services == Monitored \cup LockFirst
Processes == Services \cup {Operator}

ASSUME LifecycleAssumption ==
    /\ Latest \in Nat \ {0}
    /\ Operator \notin Services
    /\ Monitored \cap LockFirst = {}

VARIABLES schema,   \* migrations that ran on the live database, in their order
          facts,    \* what the live database holds
          row,      \* the row of service_status of the worker
          copies,   \* the other database files: backups and safety copies
          pc,       \* where a service or the operator's command is
          next,     \* the migration its initialize() looks at next
          restore,  \* the restore command: stage, its source, its safety copy
          written,  \* history: facts of services, and of commands outside a replacement
          overtaken, \* history: processes that had read the schema a restore replaced
          restores, \* counts against MaxRestores
          deaths    \* counts against MaxDeaths

vars == <<schema, facts, row, copies, pc, next, restore, written, overtaken,
          restores, deaths>>
database == <<schema, facts, row>>
histories == <<written, overtaken>>

Upto(n) == [i \in 1 .. n |-> i]
current_version(s) == IF s = <<>> THEN 0 ELSE Max({s[i] : i \in DOMAIN s})

Row == [by : Monitored, state : {"fresh", "stale", "stopped"}]
Content == [schema : Seq(1 .. Latest), facts : SUBSET Facts]
Live == [schema |-> schema, facts |-> facts]
Nothing == [schema |-> <<>>, facts |-> {}]
Kind == {"backup", "pre_migration", "pre_restore"}
Idle == [stage |-> "idle", source |-> Nothing, safety |-> Nothing]

\* The lock is the kernel's: it is held from the step that takes it until the
\* process closes it or dies.
Holders == {p \in Monitored : pc[p] = "running"}
      \cup {p \in LockFirst : pc[p] \in {"locked", "creating", "running"}}
Restoring == restore.stage # "idle"
SafetyTaken == restore.stage \in {"saved", "replaced"}

Goto(p, at) == pc' = [pc EXCEPT ![p] = at]

----------------------------------------------------------------------------
(* connect(), prepare_runtime() and initialize().                           *)

\* Mutant: every schema but the current one is refused.
PrepareRuntimeRefusing(p, ready, refused) ==
    /\ Goto(p, IF current_version(schema) >= Latest THEN ready ELSE refused)
    /\ UNCHANGED next

\* Mutant: an outdated schema is not refused.
PrepareRuntimeTolerant(p, ready, refused) ==
    /\ Goto(p, IF current_version(schema) = 0 THEN "creating" ELSE ready)
    /\ next' = [next EXCEPT ![p] = 1]

\* What a start does about the schema it reads: create an empty database, go
\* on with a current one, refuse an outdated one.
PrepareRuntime(p, ready, refused) ==
    LET version == current_version(schema) IN
    \/ /\ version = 0
       /\ Goto(p, "creating")
       /\ next' = [next EXCEPT ![p] = 1]
    \/ /\ version >= Latest
       /\ Goto(p, ready)
       /\ UNCHANGED next
    \/ /\ version \in 1 .. Latest - 1
       /\ Goto(p, refused)
       /\ UNCHANGED next

\* Mutant: the version is not read again under the write lock.
MigrationUnchecked(version) == schema' = Append(schema, version)

\* One migration: the version is read again under the write lock.
Migration(version) ==
    IF version <= current_version(schema) THEN UNCHANGED schema
    ELSE schema' = Append(schema, version)

\* Mutant: one migration too many.
InitializeBeyond(p, ready) ==
    /\ pc[p] \in {"creating", "migrating"}
    /\ \/ /\ next[p] <= Latest + 1
          /\ Migration(next[p])
          /\ next' = [next EXCEPT ![p] = @ + 1]
          /\ UNCHANGED pc
       \/ /\ next[p] > Latest + 1
          /\ Goto(p, ready)
          /\ next' = [next EXCEPT ![p] = 1]
          /\ UNCHANGED schema
    /\ UNCHANGED <<facts, row, copies, restore, histories, restores, deaths>>

Initialize(p, ready) ==
    /\ pc[p] \in {"creating", "migrating"}
    /\ \/ /\ next[p] <= Latest
          /\ Migration(next[p])
          /\ next' = [next EXCEPT ![p] = @ + 1]
          /\ UNCHANGED pc
       \/ /\ next[p] > Latest
          /\ Goto(p, ready)
          /\ next' = [next EXCEPT ![p] = 1]
          /\ UNCHANGED schema
    /\ UNCHANGED <<facts, row, copies, restore, histories, restores, deaths>>

----------------------------------------------------------------------------
(* The services.                                                            *)

Quiet == UNCHANGED <<database, copies, restore, histories, restores, deaths>>

\* Worker and maintenance: _prepare() comes before the lock ... Its default
\* mode (INSERT OR IGNORE) is left out: it changes nothing once there is a row.
OpenMonitored(p) ==
    /\ pc[p] = "down"
    /\ PrepareRuntime(p, "prepared", "down")
    /\ Quiet

\* Mutant: the lock is not waited for.
StartServiceUnlocked(p) ==
    /\ pc[p] = "prepared"
    /\ Goto(p, "running")
    /\ row' = [by |-> p, state |-> "fresh"]
    /\ UNCHANGED <<schema, facts, copies, next, restore, histories, restores, deaths>>

\* ... which is waited for, and after which the schema is not read again.
\* start_service() follows under the lock: whoever starts takes the row over.
StartService(p) ==
    /\ pc[p] = "prepared"
    /\ ~Restoring
    /\ Goto(p, "running")
    /\ row' = [by |-> p, state |-> "fresh"]
    /\ UNCHANGED <<schema, facts, copies, next, restore, histories, restores, deaths>>

\* heartbeat(): only the instance that owns the row; stopped_at is left alone.
Heartbeat(p) ==
    /\ pc[p] = "running"
    /\ row.by = p
    /\ row.state = "stale"
    /\ row' = [row EXCEPT !.state = "fresh"]
    /\ UNCHANGED <<schema, facts, copies, pc, next, restore, histories, restores, deaths>>

\* stop_service() in the finally of the loop, and then the lock is closed.
StopService(p) ==
    /\ pc[p] = "running"
    /\ Goto(p, "down")
    /\ row' = IF row.by = p THEN [row EXCEPT !.state = "stopped"] ELSE row
    /\ UNCHANGED <<schema, facts, copies, next, restore, histories, restores, deaths>>

\* Dashboard and ingress: the lock first, then the schema.
LockFirstOf(p) ==
    /\ pc[p] = "down"
    /\ ~Restoring
    /\ Goto(p, "locked")
    /\ UNCHANGED next
    /\ Quiet

OpenLocked(p) ==
    /\ pc[p] = "locked"
    /\ PrepareRuntime(p, "running", "down")
    /\ Quiet

StopLockFirst(p) ==
    /\ pc[p] = "running"
    /\ Goto(p, "down")
    /\ UNCHANGED next
    /\ Quiet

\* Anything a running service commits.
ServiceWrites(p) ==
    /\ pc[p] = "running"
    /\ \E f \in Facts \ facts :
          /\ facts' = facts \cup {f}
          /\ written' = written \cup {f}
    /\ UNCHANGED <<schema, row, copies, pc, next, restore, overtaken, restores, deaths>>

\* A heartbeat grows older than the limit: nobody writes it, or a provider call is long.
TimePasses ==
    /\ row.state = "fresh"
    /\ row' = [row EXCEPT !.state = "stale"]
    /\ UNCHANGED <<schema, facts, copies, pc, next, restore, histories, restores, deaths>>

\* service_health() of the row, errors aside.
service_health(r) ==
    CASE r.state = "stopped" -> "stopped"
      [] r.state = "stale"   -> "stale"
      [] OTHER               -> "healthy"

\* A process is killed; the kernel frees its lock, its row stays as it was.
Die(p) ==
    /\ deaths < MaxDeaths
    /\ pc[p] \notin {"down", "idle"}
    /\ Goto(p, IF p = Operator THEN "idle" ELSE "down")
    /\ next' = [next EXCEPT ![p] = 1]
    /\ deaths' = deaths + 1
    /\ UNCHANGED <<database, copies, restore, histories, restores>>

----------------------------------------------------------------------------
(* The operator's commands that take no lock.                               *)

OpenCommand ==
    /\ pc[Operator] = "idle"
    /\ PrepareRuntime(Operator, "prepared", "idle")
    /\ Quiet

\* set-mode, recover-stale: one transaction, on the schema it found earlier.
CommandWrites ==
    /\ pc[Operator] = "prepared"
    /\ Goto(Operator, "idle")
    /\ \E f \in Facts :
          /\ facts' = facts \cup {f}
          /\ written' = IF SafetyTaken THEN written ELSE written \cup {f}
    /\ UNCHANGED <<schema, row, copies, next, restore, overtaken, restores, deaths>>

\* migrate: a copy of an outdated database, then every migration it lacks.
MigrateBegin ==
    /\ pc[Operator] = "idle"
    /\ copies' = IF current_version(schema) \in 1 .. Latest - 1
                 THEN copies \cup {[kind |-> "pre_migration", content |-> Live]} ELSE copies
    /\ Goto(Operator, "migrating")
    /\ next' = [next EXCEPT ![Operator] = 1]
    /\ UNCHANGED <<database, restore, histories, restores, deaths>>

----------------------------------------------------------------------------
(* restore_backup(), under the exclusive lock, which is not waited for.     *)

\* Nobody holds the lock, no row claims a heartbeat of the last minute, and
\* the source is a database of a schema this release knows.
RestoreBegin ==
    /\ ~Restoring
    /\ restores < MaxRestores
    /\ Holders = {}
    /\ row.state # "fresh"
    /\ \E c \in copies :
          /\ current_version(c.content.schema) \in 1 .. Latest
          /\ restore' = [Idle EXCEPT !.stage = "verified", !.source = c.content]
    /\ restores' = restores + 1
    /\ UNCHANGED <<database, copies, pc, next, histories, deaths>>

\* Mutant: the database is replaced although the safety copy failed.
SafetyCopySkipped ==
    /\ restore.stage = "verified"
    /\ restore' = [restore EXCEPT !.stage = "saved", !.safety = Live]
    /\ UNCHANGED <<database, copies, pc, next, histories, restores, deaths>>

\* create_backup(database, "pre_restore"); it raises when the live database is
\* not at the current schema, and nothing has been touched.
SafetyCopy ==
    /\ restore.stage = "verified"
    /\ IF current_version(schema) = Latest
       THEN /\ copies' = copies \cup {[kind |-> "pre_restore", content |-> Live]}
            /\ restore' = [restore EXCEPT !.stage = "saved", !.safety = Live]
       ELSE /\ restore' = Idle
            /\ UNCHANGED copies
    /\ UNCHANGED <<database, pc, next, histories, restores, deaths>>

\* SQLite copies a whole database in one transaction of the target.  The status
\* row is whatever it was when the copy was made.
Overwrite(content) ==
    /\ schema' = content.schema
    /\ facts' = content.facts
    /\ row' \in Row
    /\ overtaken' = overtaken \cup
          {p \in Processes : pc[p] \in {"creating", "migrating", "prepared"}}

Replace ==
    /\ restore.stage = "saved"
    /\ Overwrite(restore.source)
    /\ restore' = [restore EXCEPT !.stage = "replaced"]
    /\ UNCHANGED <<copies, pc, next, written, restores, deaths>>

\* initialize() of the restored copy, one migration after the other.
MigrateRestored ==
    /\ restore.stage = "replaced"
    /\ current_version(schema) < Latest
    /\ Migration(current_version(schema) + 1)
    /\ UNCHANGED <<facts, row, copies, pc, next, restore, histories, restores, deaths>>

\* A migration or the verification raises: back to the safety copy.
RollBack ==
    /\ restore.stage = "replaced"
    /\ Overwrite(restore.safety)
    /\ restore' = Idle
    /\ UNCHANGED <<copies, pc, next, written, restores, deaths>>

\* The last transaction: no row claims to be running any more.
RestoreDone ==
    /\ restore.stage = "replaced"
    /\ current_version(schema) = Latest
    /\ row' = [row EXCEPT !.state = "stopped"]
    /\ restore' = Idle
    /\ UNCHANGED <<schema, facts, copies, pc, next, histories, restores, deaths>>

\* The command is killed, interrupted, or the last transaction raises.
RestoreDies ==
    /\ Restoring
    /\ deaths < MaxDeaths
    /\ restore' = Idle
    /\ deaths' = deaths + 1
    /\ UNCHANGED <<database, copies, pc, next, histories, restores>>

----------------------------------------------------------------------------
Init ==
    /\ \/ schema = <<>>
       \/ schema = Upto(Latest)
    /\ facts = {}
    /\ row \in [by : Monitored, state : {"stopped"}]
    /\ \E release \in 1 .. Latest :
          copies = {[kind |-> "backup",
                     content |-> [schema |-> Upto(release), facts |-> {}]]}
    /\ pc = [p \in Processes |-> IF p = Operator THEN "idle" ELSE "down"]
    /\ next = [p \in Processes |-> 1]
    /\ restore = Idle
    /\ written = {} /\ overtaken = {}
    /\ restores = 0 /\ deaths = 0

MonitoredStep(p) ==
    \/ OpenMonitored(p) \/ Initialize(p, "prepared") \/ StartService(p) \/ Heartbeat(p)
LockFirstStep(p) ==
    LockFirstOf(p) \/ OpenLocked(p) \/ Initialize(p, "running")
OperatorStep == Initialize(Operator, IF pc[Operator] = "creating" THEN "prepared" ELSE "idle")
RestoreStep == SafetyCopy \/ Replace \/ MigrateRestored \/ RollBack \/ RestoreDone

Next ==
    \/ \E p \in Monitored : MonitoredStep(p) \/ StopService(p)
    \/ \E p \in LockFirst : LockFirstStep(p) \/ StopLockFirst(p)
    \/ \E p \in Services : ServiceWrites(p)
    \/ \E p \in Processes : Die(p)
    \/ TimePasses
    \/ OperatorStep \/ OpenCommand \/ CommandWrites \/ MigrateBegin
    \/ RestoreBegin \/ RestoreStep \/ RestoreDies

Spec == Init /\ [][Next]_vars

\* Every process goes on; a service that is down is started again (systemd, the
\* restart policy of Compose); an operator who finds the schema outdated runs
\* migrate, as the refusal says and scripts/deploy.sh does.
Outdated == current_version(schema) \in 1 .. Latest - 1
Fairness ==
    /\ \A p \in Monitored : WF_vars(MonitoredStep(p))
    /\ \A p \in LockFirst : WF_vars(LockFirstStep(p))
    /\ WF_vars(OperatorStep) /\ WF_vars(CommandWrites)
    /\ WF_vars(Outdated /\ MigrateBegin)
    /\ WF_vars(RestoreStep)
FairSpec == Spec /\ Fairness

----------------------------------------------------------------------------
(* Properties                                                              *)

(* Type invariant: a schema is made of this release's migrations, a process *)
(* is only where its kind may be, and the restore has a safety copy once   *)
(* it replaces.                                                            *)
TypeOK ==
    /\ schema \in Seq(1 .. Latest)
    /\ facts \in SUBSET Facts
    /\ row \in Row
    /\ copies \subseteq [kind : Kind, content : Content]
    /\ pc \in [Processes -> {"down", "idle", "creating", "migrating", "prepared",
                             "locked", "running"}]
    /\ \A p \in Monitored : pc[p] \in {"down", "creating", "prepared", "running"}
    /\ \A p \in LockFirst : pc[p] \in {"down", "locked", "creating", "running"}
    /\ pc[Operator] \in {"idle", "creating", "prepared", "migrating"}
    /\ next \in [Processes -> 1 .. Latest + 1]
    /\ restore \in [stage : {"idle", "verified", "saved", "replaced"},
                    source : Content, safety : Content]
    /\ SafetyTaken => [kind |-> "pre_restore", content |-> restore.safety] \in copies
    /\ written \in SUBSET Facts /\ overtaken \subseteq Processes
    /\ restores \in Nat /\ deaths \in Nat

(* Restore can be undone: whatever a service wrote, and whatever a command *)
(* wrote before the safety copy, is in the live database or in a safety    *)
(* copy, wherever the restore failed or was killed.                        *)
NothingLost ==
    written \subseteq facts \cup
        UNION {c.content.facts : c \in {d \in copies : d.kind = "pre_restore"}}

(* "Runtime processes refuse pending migrations" also while databases are  *)
(* restored under them.  The exception: worker and maintenance look at the *)
(* schema before they wait for the lock, and not again after a restore     *)
(* that replaced it and died before its migrations.                        *)
RunningIsCurrent ==
    \A p \in Services :
        pc[p] = "running" /\ current_version(schema) # Latest =>
            p \in Monitored \cap overtaken

(* Migrations run once each and in their order, however many processes     *)
(* create or migrate at once and die half way; unless a restore replaces   *)
(* the database while one of them is between two migrations.               *)
NoMigrationIsSkipped ==
    overtaken = {} => \E n \in 0 .. Latest : schema = Upto(n)

(* "stopped" on the status page is true: the instance of the row does not  *)
(* run, whichever instance started, stopped, died or was restored over.    *)
StoppedIsTrue == service_health(row) = "stopped" => pc[row.by] # "running"

(* After a restore that was killed, a crash while the database was created *)
(* or a refused start, every service is up again.                          *)
ComesBack == \A p \in Services : []<>(pc[p] = "running")
=============================================================================
