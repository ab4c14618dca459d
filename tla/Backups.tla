------------------------------ MODULE Backups ------------------------------
(***************************************************************************)
(* The maintenance half of rrpp_bridge/operations.py: the loop that makes  *)
(* a verified copy of the database every day and every month, exports it   *)
(* encrypted, retries failed exports and prunes old copies, next to the    *)
(* command "backup create".                                                *)
(*                                                                         *)
(* A copy is a number, given in the order the files appear.  A file, its   *)
(* encrypted export and its row of backup_records are written and removed  *)
(* in separate steps, and the process may die between any two.  Copies may *)
(* fail their verification and exports may fail; both raise after the row  *)
(* is inserted.  A row is ordered by its created_at, which is read before  *)
(* the transaction that inserts it: the copy read first may be inserted    *)
(* last.  Time is the day of the backup time zone.                         *)
(***************************************************************************)
EXTENDS Naturals, FiniteSets

CONSTANTS
  Recipient,     \* backup_age_recipient is configured
  Keep,          \* [{"daily", "monthly"} -> Nat]: copies retention keeps
  DaysPerMonth,
  CommandKinds,  \* the kinds of copy the command is asked for
  MaxDays,       \* bound: days that pass
  MaxCommands,   \* bound: runs of "backup create"
  MaxFaults      \* bound: failed verifications and crashes

ASSUME BackupsConstants ==
  /\ Recipient \in BOOLEAN
  /\ Keep \in [{"daily", "monthly"} -> Nat \ {0}]
  /\ DaysPerMonth \in Nat \ {0}
  /\ CommandKinds \subseteq {"manual", "daily", "monthly"}
  /\ MaxDays \in Nat \ {0} /\ MaxCommands \in Nat /\ MaxFaults \in Nat

VARIABLES
  day,       \* today
  made,      \* copies made so far
  files,     \* copies in backup_dir
  exports,   \* copies with an .age file in backup_export_dir
  records,   \* rows of backup_records
  stamps,    \* timestamps read so far: the clock that orders the rows
  pc,        \* where the maintenance loop and the command are
  job,       \* what each of them holds in local variables
  faults,    \* failed verifications and crashes so far
  commands   \* runs of the command so far

disk == <<files, exports>>
bounds == <<faults, commands>>
table == <<records, stamps>>
vars == <<day, made, disk, table, pc, job, bounds>>

Processes == {"maintenance", "command"}
Scheduled == {"daily", "monthly"}
NoJob == [now |-> 0, todo |-> {}, kind |-> "none", copy |-> 0, verified |-> FALSE,
          exported |-> FALSE, at |-> 0, day |-> 0, pruning |-> "none"]

Month(d) == d \div DaysPerMonth

Init ==
  /\ day = 1
  /\ made = 0
  /\ files = {} /\ exports = {}
  /\ records = {} /\ stamps = 0
  /\ pc = [p \in Processes |-> "rest"]
  /\ job = [p \in Processes |-> NoJob]
  /\ faults = 0 /\ commands = 0

-----------------------------------------------------------------------------
(* Queries on backup_records.                                              *)

Row == [copy : Nat, kind : {"daily", "monthly", "manual"}, at : Nat, day : Nat,
        verified : BOOLEAN, exported : BOOLEAN]

Oldest(rows) == {row \in rows : \A other \in rows : row.at <= other.at}
Newest(rows) == {row \in rows : \A other \in rows : other.at <= row.at}

(* Mutant: copies that failed their verification count as well.            *)
AllOf(kind) == {row \in records : row.kind = kind}

VerifiedOf(kind) == {row \in records : row.kind = kind /\ row.verified}

(* retry_pending_exports: verified scheduled copies.                       *)
AwaitingExport == {row \in records : row.verified /\ ~row.exported /\ row.kind \in Scheduled}

(* Mutant: a copy that failed its verification counts.                     *)
DueUnlessTried(kind, now) == \A row \in AllOf(kind) : row.day # now

(* _backup_due: the newest verified copy is of another day, or month.      *)
Due(kind, now) ==
  \A row \in Newest(VerifiedOf(kind)) :
    IF kind = "monthly" THEN Month(row.day) # Month(now) ELSE row.day # now

(* The created_at of the verified copies that are newer, or older.         *)
NewerThan(row) == {other.at : other \in {other \in VerifiedOf(row.kind) : other.at > row.at}}
OlderThan(row) == {other.at : other \in {other \in VerifiedOf(row.kind) : other.at < row.at}}

(* Mutant: of the verified copies the oldest are kept.                     *)
DoomedNewest(kind) == {row \in VerifiedOf(kind) : Cardinality(OlderThan(row)) >= Keep[kind]}

(* apply_retention: rows[keep:], newest first.                             *)
Doomed(kind) == {row \in VerifiedOf(kind) : Cardinality(NewerThan(row)) >= Keep[kind]}

Others(rows, copy) == {row \in rows : row.copy # copy}

Goto(p, label) == pc' = [pc EXCEPT ![p] = label]

EndJob(p) == Goto(p, "rest") /\ job' = [job EXCEPT ![p] = NoJob]

-----------------------------------------------------------------------------
(* The loop of run_maintenance.                                            *)

m == "maintenance"

Wake ==
  /\ pc[m] = "rest"
  /\ Goto(m, "retry")
  /\ job' = [job EXCEPT ![m] = [NoJob EXCEPT
       !.now = day, !.todo = IF Recipient THEN AwaitingExport ELSE {}]]
  /\ UNCHANGED <<day, made, disk, table, bounds>>

(* The first export that fails, or whose file is gone, ends the retries;   *)
(* the error is raised after the backup that may be due.                   *)
RetryFails ==
  /\ pc[m] = "retry" /\ job[m].todo # {}
  /\ job' = [job EXCEPT ![m].todo = {}]
  /\ UNCHANGED <<day, made, disk, table, pc, bounds>>

(* The oldest first.                                                       *)
RetryExports ==
  /\ pc[m] = "retry"
  /\ \E row \in Oldest(job[m].todo) :
       /\ row.copy \in files
       /\ exports' = exports \cup {row.copy}
       /\ job' = [job EXCEPT ![m].copy = row.copy]
  /\ Goto(m, "mark")
  /\ UNCHANGED <<day, made, files, table, bounds>>

(* Mutant: every row is marked.                                            *)
MarkAllExported ==
  /\ pc[m] = "mark"
  /\ records' = {[row EXCEPT !.exported = TRUE] : row \in records}
  /\ job' = [job EXCEPT ![m].todo = Others(@, job[m].copy), ![m].copy = 0]
  /\ Goto(m, "retry")
  /\ UNCHANGED <<day, made, disk, stamps, bounds>>

MarkExported ==
  /\ pc[m] = "mark"
  /\ records' = {[row EXCEPT !.exported = @ \/ row.copy = job[m].copy] : row \in records}
  /\ job' = [job EXCEPT ![m].todo = Others(@, job[m].copy), ![m].copy = 0]
  /\ Goto(m, "retry")
  /\ UNCHANGED <<day, made, disk, stamps, bounds>>

(* After the retries: a monthly copy if one is due, else a daily one.  Two *)
(* queries: the command may insert a monthly copy between them.            *)
Choose ==
  /\ pc[m] = "retry" /\ job[m].todo = {}
  /\ job' = [job EXCEPT ![m].kind = IF Due("monthly", job[m].now) THEN "monthly" ELSE "daily"]
  /\ Goto(m, "due")
  /\ UNCHANGED <<day, made, disk, table, bounds>>

Decide ==
  /\ pc[m] = "due"
  /\ IF Due(job[m].kind, job[m].now)
       THEN Goto(m, "copy") /\ job' = [job EXCEPT ![m].now = 0]
       ELSE EndJob(m)
  /\ UNCHANGED <<day, made, disk, table, bounds>>

-----------------------------------------------------------------------------
(* create_backup, in the loop or by the command.                           *)

Command ==
  /\ pc["command"] = "rest"
  /\ commands < MaxCommands
  /\ commands' = commands + 1
  /\ Goto("command", "copy")
  /\ \E kind \in CommandKinds :
       job' = [job EXCEPT !["command"] = [NoJob EXCEPT !.kind = kind]]
  /\ UNCHANGED <<day, made, disk, table, faults>>

Copy(p) ==
  /\ pc[p] = "copy"
  /\ made' = made + 1
  /\ files' = files \cup {made + 1}
  /\ job' = [job EXCEPT ![p].copy = made + 1]
  /\ Goto(p, "verify")
  /\ UNCHANGED <<day, exports, table, bounds>>

(* "insert" is reached with the timestamp of the row.                      *)
Stamped(held) == [held EXCEPT !.at = stamps + 1, !.day = day]

Verify(p) ==
  /\ pc[p] = "verify"
  /\ \/ /\ Recipient
        /\ job' = [job EXCEPT ![p].verified = TRUE]
        /\ Goto(p, "encrypt")
        /\ UNCHANGED <<stamps, faults>>
     \/ /\ ~Recipient
        /\ job' = [job EXCEPT ![p] = Stamped([@ EXCEPT !.verified = TRUE])]
        /\ stamps' = stamps + 1
        /\ Goto(p, "insert")
        /\ UNCHANGED faults
     \/ /\ faults < MaxFaults
        /\ faults' = faults + 1
        /\ job' = [job EXCEPT ![p] = Stamped(@)]
        /\ stamps' = stamps + 1
        /\ Goto(p, "insert")
  /\ UNCHANGED <<day, made, disk, records, commands>>

Encrypt(p) ==
  /\ pc[p] = "encrypt"
  /\ \E works \in BOOLEAN :
       /\ exports' = IF works THEN exports \cup {job[p].copy} ELSE exports
       /\ job' = [job EXCEPT ![p] = Stamped([@ EXCEPT !.exported = works])]
  /\ stamps' = stamps + 1
  /\ Goto(p, "insert")
  /\ UNCHANGED <<day, made, files, records, bounds>>

RowOf(held) ==
  [copy |-> held.copy, kind |-> held.kind, at |-> held.at, day |-> held.day,
   verified |-> held.verified, exported |-> held.exported]

(* The row; then an exception if the verification or the export failed,    *)
(* otherwise the loop goes on to apply_retention.                          *)
Insert(p) ==
  /\ pc[p] = "insert"
  /\ records' = records \cup {RowOf(job[p])}
  /\ IF p = m /\ job[p].verified /\ (Recipient => job[p].exported)
       THEN Goto(p, "select") /\ job' = [job EXCEPT ![p] = NoJob]
       ELSE EndJob(p)
  /\ UNCHANGED <<day, made, disk, stamps, bounds>>

-----------------------------------------------------------------------------
(* apply_retention: daily copies, then monthly ones.                       *)

SelectDaily ==
  /\ pc[m] = "select"
  /\ job' = [job EXCEPT ![m].todo = Doomed("daily"), ![m].pruning = "daily"]
  /\ Goto(m, "unlink")
  /\ UNCHANGED <<day, made, disk, table, bounds>>

(* Either of the two that follow may find nothing to remove (missing_ok).  *)
Unlink ==
  /\ pc[m] = "unlink"
  /\ \E row \in Newest(job[m].todo) :
       /\ files' = files \ {row.copy}
       /\ job' = [job EXCEPT ![m].copy = row.copy]
  /\ Goto(m, "unexport")
  /\ UNCHANGED <<day, made, exports, table, bounds>>

UnlinkExport ==
  /\ pc[m] = "unexport"
  /\ exports' = exports \ {job[m].copy}
  /\ Goto(m, "delete")
  /\ UNCHANGED <<day, made, files, table, job, bounds>>

DeleteRow ==
  /\ pc[m] = "delete"
  /\ records' = Others(records, job[m].copy)
  /\ job' = [job EXCEPT ![m].todo = Others(@, job[m].copy), ![m].copy = 0]
  /\ Goto(m, "unlink")
  /\ UNCHANGED <<day, made, disk, stamps, bounds>>

SelectMonthly ==
  /\ pc[m] = "unlink" /\ job[m].todo = {}
  /\ job[m].pruning = "daily"
  /\ job' = [job EXCEPT ![m].todo = Doomed("monthly"), ![m].pruning = "monthly"]
  /\ UNCHANGED <<day, made, disk, table, pc, bounds>>

Pruned ==
  /\ pc[m] = "unlink" /\ job[m].todo = {}
  /\ job[m].pruning = "monthly"
  /\ EndJob(m)
  /\ UNCHANGED <<day, made, disk, table, bounds>>

-----------------------------------------------------------------------------

Crash(p) ==
  /\ pc[p] # "rest"
  /\ faults < MaxFaults
  /\ faults' = faults + 1
  /\ EndJob(p)
  /\ UNCHANGED <<day, made, disk, table, commands>>

NextDay ==
  /\ day < MaxDays
  /\ day' = day + 1
  /\ UNCHANGED <<made, disk, table, pc, job, bounds>>

CreateBackup(p) == Copy(p) \/ Verify(p) \/ Encrypt(p) \/ Insert(p)

Maintenance ==
  \/ Wake
  \/ RetryFails \/ RetryExports \/ MarkExported
  \/ Choose \/ Decide
  \/ CreateBackup(m)
  \/ SelectDaily \/ SelectMonthly \/ Unlink \/ UnlinkExport \/ DeleteRow \/ Pruned

Next ==
  \/ Maintenance
  \/ Command \/ CreateBackup("command")
  \/ \E p \in Processes : Crash(p)
  \/ NextDay

Spec == Init /\ [][Next]_vars

(* The container restarts the loop, which wakes every 30 seconds.  Exports *)
(* may fail for ever.                                                      *)
FairSpec == Spec /\ WF_vars(Maintenance)

-----------------------------------------------------------------------------
(* Properties                                                              *)

Label == {"rest", "retry", "mark", "due", "copy", "verify", "encrypt", "insert",
          "select", "unlink", "unexport", "delete"}

Job ==
  [now : Nat, todo : SUBSET Row, kind : {"none", "daily", "monthly", "manual"}, copy : Nat,
   verified : BOOLEAN, exported : BOOLEAN, at : Nat, day : Nat,
   pruning : {"none", "daily", "monthly"}]

(* Type invariant: no two rows name one file or have one time, and only a  *)
(* verified copy is marked exported.                                       *)
TypeOK ==
  /\ day \in 1..MaxDays
  /\ made \in Nat /\ stamps \in Nat
  /\ files \subseteq 1..made /\ exports \subseteq 1..made
  /\ records \subseteq Row
  /\ \A row, other \in records : row.copy = other.copy \/ row.at = other.at => row = other
  /\ \A row \in records : row.exported => row.verified
  /\ pc \in [Processes -> Label]
  /\ job \in [Processes -> Job]
  /\ faults \in 0..MaxFaults /\ commands \in 0..MaxCommands

(* The newest copies of a kind, as many as retention keeps.                *)
Kept(kind) == {row \in VerifiedOf(kind) : Cardinality(NewerThan(row)) < Keep[kind]}

(* What an operator would restore is there: of each kind the newest copies *)
(* have their file, and their export if they are marked exported, wherever *)
(* a crash cut the maintenance or the retention short.                     *)
KeptAreThere ==
  \A kind \in Scheduled : \A row \in Kept(kind) :
    row.copy \in files /\ (row.exported => row.copy \in exports)

(* The created_at of the newer copies whose files are there after a step.  *)
StillThere(row) ==
  {other.at : other \in {other \in records :
    /\ other.kind = row.kind /\ other.verified
    /\ other.at > row.at /\ other.copy \in files'}}

(* Retention never takes one of the last copies: a file that is recorded   *)
(* is removed only while Keep newer verified copies of its kind are there. *)
RemovedIsOld ==
  [][\A row \in records :
       row.copy \in files \ files' =>
         /\ row.kind \in Scheduled
         /\ Cardinality(StillThere(row)) >= Keep[row.kind]]_vars

(* Every day is covered by a verified daily copy made on it or later:      *)
(* neither a failed export nor a crash nor a bad copy stops the backups.   *)
EveryDayIsCovered ==
  \A d \in 1..MaxDays :
    day = d ~> \E row \in VerifiedOf("daily") : row.day >= d
=============================================================================
