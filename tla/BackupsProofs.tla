--------------------------- MODULE BackupsProofs ---------------------------
(***************************************************************************)
(* Theorems about Backups, for any retention, bounds and kinds.            *)
(***************************************************************************)
EXTENDS Backups, FiniteSetTheorems, WellFoundedInduction, TLAPS

-----------------------------------------------------------------------------
(* The newest of a set of times.                                           *)

(* A nonempty set of numbers has a least one.                              *)
LEMMA LeastExists ==
  ASSUME NEW S \in SUBSET Nat, S # {}
  PROVE  \E x \in S : \A y \in S : x <= y
<1>1. PICK x \in S : \A y \in S : ~(<<y, x>> \in OpToRel(<, Nat))
  BY NatLessThanWellFounded, WFMin, Zenon
<1>2. \A y \in S : ~(y < x)
  BY <1>1 DEF OpToRel
<1> QED BY <1>2

Above(S, x) == {y \in S : y > x}
Top(S, count) == {x \in S : Cardinality(Above(S, x)) < count}

(* Of a set of at least count times, at least count are newer than all but *)
(* fewer than count of it.                                                 *)
LEMMA TopIsFull ==
  ASSUME NEW n \in Nat, NEW S \in SUBSET (1..n), NEW count \in Nat, Cardinality(S) >= count
  PROVE  Cardinality(Top(S, count)) >= count
<1>1. IsFiniteSet(1..n)
  BY FS_Interval
<1>2. \A T \in SUBSET (1..n) : IsFiniteSet(T) /\ Cardinality(T) \in Nat
  BY <1>1, FS_Subset, FS_CardinalityType
<1>3. \A k : Top(S, k) \in SUBSET (1..n)
  BY DEF Top
<1>4. \A x : Above(S, x) \in SUBSET (1..n)
  BY DEF Above
<1> DEFINE Bad == {k \in Nat : Cardinality(S) >= k /\ ~(Cardinality(Top(S, k)) >= k)}
<1>5. SUFFICES ASSUME Bad # {} PROVE FALSE
  OBVIOUS
<1>6. PICK k \in Bad : \A l \in Bad : k <= l
  <2>1. Bad \in SUBSET Nat
    OBVIOUS
  <2> HIDE DEF Bad
  <2> QED BY <1>5, <2>1, LeastExists
<1>7. k # 0
  BY <1>2, <1>3, <1>6
<1> DEFINE j == k - 1
<1>8. j \in Nat /\ k = j + 1 /\ Cardinality(Top(S, j)) >= j
  <2>1. j \in Nat /\ j < k /\ k = j + 1
    BY <1>6, <1>7
  <2>2. j \notin Bad
    BY <1>6, <2>1
  <2>3. Cardinality(S) \in Nat
    BY <1>2
  <2> QED BY <2>1, <2>2, <2>3, <1>6
<1>9. Top(S, j) \subseteq Top(S, k)
  BY <1>2, <1>4, <1>8 DEF Top
<1>10. Cardinality(Top(S, j)) = j
  <2>1. Cardinality(Top(S, j)) <= Cardinality(Top(S, k))
    BY <1>2, <1>3, <1>9, FS_Subset
  <2>2. ~(Cardinality(Top(S, k)) >= k)
    BY <1>6
  <2> QED BY <1>2, <1>3, <1>8, <2>1, <2>2
<1> DEFINE Rest == S \ Top(S, j)
           Counts == {Cardinality(Above(S, x)) : x \in Rest}
<1>11. Rest # {}
  <2>1. SUFFICES ASSUME Rest = {} PROVE FALSE
    OBVIOUS
  <2>2. S = Top(S, j)
    BY <2>1 DEF Top
  <2> QED BY <2>2, <1>6, <1>8, <1>10
<1>12. PICK x \in Rest : \A y \in Rest : Cardinality(Above(S, x)) <= Cardinality(Above(S, y))
  <2>1. Counts \in SUBSET Nat /\ Counts # {}
    BY <1>2, <1>4, <1>11
  <2>2. PICK c \in Counts : \A d \in Counts : c <= d
    <3> HIDE DEF Counts
    <3> QED BY <2>1, LeastExists
  <2> QED BY <2>2
<1>13. Above(S, x) \subseteq Top(S, j)
  <2> SUFFICES ASSUME NEW y \in Above(S, x), y \notin Top(S, j)
               PROVE  FALSE
    OBVIOUS
  <2>1. y \in Rest /\ y > x /\ x \in Nat /\ y \in Nat
    BY DEF Above
  <2>2. Above(S, y) \subseteq Above(S, x) /\ y \in Above(S, x) /\ y \notin Above(S, y)
    <3>1. y \in S /\ \A z \in S : z \in Nat
      BY DEF Above
    <3>2. ASSUME NEW z \in S, z > y PROVE z > x
      BY <2>1, <3>1, <3>2
    <3>3. Above(S, y) \subseteq Above(S, x)
      BY <3>2 DEF Above
    <3>4. y \notin Above(S, y)
      BY <2>1 DEF Above
    <3> QED BY <3>3, <3>4
  <2>3. Cardinality(Above(S, y)) <= Cardinality(Above(S, x))
        /\ Cardinality(Above(S, y)) # Cardinality(Above(S, x))
    <3>1. Above(S, y) # Above(S, x)
      BY <2>2
    <3> QED BY <3>1, <2>2, <1>2, <1>4, FS_Subset
  <2>4. Cardinality(Above(S, x)) <= Cardinality(Above(S, y))
    BY <1>12, <2>1
  <2> QED BY <2>3, <2>4, <1>2, <1>4
<1>14. Cardinality(Above(S, x)) <= j
  BY <1>2, <1>3, <1>10, <1>13, FS_Subset
<1>15. Top(S, j) \cup {x} \subseteq Top(S, k) /\ x \notin Top(S, j)
  BY <1>2, <1>4, <1>8, <1>9, <1>14 DEF Top
<1>16. Cardinality(Top(S, j) \cup {x}) = j + 1
  BY <1>2, <1>3, <1>10, <1>15, FS_AddElement
<1>17. Cardinality(Top(S, j) \cup {x}) <= Cardinality(Top(S, k))
  BY <1>2, <1>3, <1>15, FS_Subset
<1> QED BY <1>2, <1>3, <1>6, <1>8, <1>16, <1>17

-----------------------------------------------------------------------------
(* The inductive invariant.                                                *)

(* A row is of a copy that was made, with a timestamp that was read.       *)
RowsAreMade == \A row \in records : row.copy \in 1..made /\ row.at \in 1..stamps

(* What a process makes and has not recorded: its file is there, it is of  *)
(* nobody else, and it is exported only if it was verified.                *)
InHand == {"verify", "encrypt", "insert"}

HandsAreSound ==
  \A p \in Processes :
    /\ pc[p] \in InHand =>
         /\ job[p].copy \in files
         /\ job[p].exported => job[p].verified /\ job[p].copy \in exports
         /\ \A row \in records : row.copy # job[p].copy
         /\ \A q \in Processes : q # p /\ pc[q] \in InHand => job[q].copy # job[p].copy
    /\ pc[p] \in {"due", "copy"} \cup InHand => job[p].kind # "none"
    /\ pc[p] \in {"retry", "mark", "due", "copy", "verify"} => ~job[p].exported
    /\ pc[p] = "encrypt" => job[p].verified

StampsAreNew ==
  \A p \in Processes :
    pc[p] = "insert" =>
      /\ job[p].at \in 1..stamps
      /\ \A row \in records : row.at # job[p].at
      /\ \A q \in Processes : q # p /\ pc[q] = "insert" => job[q].at # job[p].at

IsOld(row) == Cardinality(NewerThan(row)) >= Keep[row.kind]

(* The loop works on rows that are in the table.                           *)
TodoIsRecorded ==
  /\ pc[m] \in {"retry", "mark", "unlink", "unexport", "delete"} => job[m].todo \subseteq records
  /\ pc[m] \in {"retry", "mark"} => \A row \in job[m].todo : row.verified
  /\ pc[m] = "mark" => job[m].copy \in exports
  /\ pc[m] \in {"mark", "unexport", "delete"} => \E row \in job[m].todo : row.copy = job[m].copy

(* Retention removes only rows that have enough newer ones.                *)
TodoIsOld ==
  pc[m] \in {"unlink", "unexport", "delete"} =>
    \A row \in job[m].todo : row.kind \in Scheduled /\ row.verified /\ IsOld(row)

(* And only such rows have lost their file or their export.                *)
Missing(row) == row.copy \notin files \/ (row.exported /\ row.copy \notin exports)

MissingIsOld ==
  \A row \in records : row.kind \in Scheduled /\ row.verified /\ Missing(row) => IsOld(row)

Safe ==
  RowsAreMade /\ HandsAreSound /\ StampsAreNew /\ TodoIsRecorded /\ TodoIsOld /\ MissingIsOld

IInv == TypeOK /\ Safe

-----------------------------------------------------------------------------
(* Counting the newer rows.                                                *)

LEMMA NewerFinite ==
  ASSUME TypeOK, RowsAreMade, NEW row
  PROVE  /\ NewerThan(row) \in SUBSET (1..stamps)
         /\ IsFiniteSet(NewerThan(row)) /\ Cardinality(NewerThan(row)) \in Nat
<1>1. NewerThan(row) \in SUBSET (1..stamps)
  BY DEF RowsAreMade, NewerThan, VerifiedOf
<1>2. IsFiniteSet(1..stamps)
  BY FS_Interval DEF TypeOK
<1> QED BY <1>1, <1>2, FS_Subset, FS_CardinalityType

(* A row that is old stays so while no newer row disappears.               *)
LEMMA OldStays ==
  ASSUME TypeOK, TypeOK', RowsAreMade, RowsAreMade', NEW row \in Row, row.kind \in Scheduled,
         IsOld(row), NewerThan(row) \subseteq NewerThan(row)'
  PROVE  IsOld(row)'
<1>1. /\ IsFiniteSet(NewerThan(row)') /\ Cardinality(NewerThan(row)') \in Nat
  <2>1. NewerThan(row)' \subseteq 1..stamps'
    BY DEF RowsAreMade, NewerThan, VerifiedOf
  <2>2. IsFiniteSet(1..stamps')
    BY FS_Interval DEF TypeOK
  <2> QED BY <2>1, <2>2, FS_Subset, FS_CardinalityType
<1>2. Cardinality(NewerThan(row)) <= Cardinality(NewerThan(row)')
  BY <1>1, FS_Subset
<1>3. Cardinality(NewerThan(row)) \in Nat
  BY NewerFinite
<1>4. Keep[row.kind] \in Nat
  BY BackupsConstants DEF Scheduled
<1> QED BY <1>1, <1>2, <1>3, <1>4 DEF IsOld

(* Steps that leave the table alone leave what is old alone.               *)
LEMMA SameRowsSameOld ==
  ASSUME records' = records, NEW row
  PROVE  IsOld(row)' <=> IsOld(row)
  BY DEF IsOld, NewerThan, VerifiedOf

-----------------------------------------------------------------------------
(* A process that makes no copy, and adds no row, disturbs none.           *)
LEMMA OthersGoOn ==
  ASSUME HandsAreSound, StampsAreNew, records' \subseteq records,
         files' = files, exports' = exports, stamps' = stamps,
         NEW p \in Processes, pc'[p] \in {"rest", "select", "unlink", "unexport", "delete"},
         \A q \in Processes : q # p => pc'[q] = pc[q] /\ job'[q] = job[q]
  PROVE  HandsAreSound' /\ StampsAreNew'
<1>1. HandsAreSound'
  BY DEF HandsAreSound, InHand
<1>2. StampsAreNew'
  BY DEF StampsAreNew
<1> QED BY <1>1, <1>2

LEMMA InitIInv == Init => IInv
<1> SUFFICES ASSUME Init PROVE IInv
  OBVIOUS
<1>1. TypeOK
  BY BackupsConstants DEF Init, TypeOK, NoJob, Job, Label, Row
<1>2. Safe
  BY DEF Init, Safe, RowsAreMade, HandsAreSound, StampsAreNew, TodoIsRecorded, TodoIsOld,
         MissingIsOld, InHand, m, Processes
<1> QED BY <1>1, <1>2 DEF IInv

LEMMA WakeInv == ASSUME IInv, Wake PROVE IInv'
<1> USE DEF IInv, Wake, Goto, disk, table, bounds, m, Processes
<1>1. job[m] \in Job /\ AwaitingExport \in SUBSET Row /\ AwaitingExport \subseteq records
  BY DEF TypeOK, AwaitingExport
<1>2. TypeOK'
  <2>1. day \in Nat /\ IF Recipient THEN AwaitingExport \in SUBSET Row ELSE {} \in SUBSET Row
    BY <1>1, BackupsConstants DEF TypeOK
  <2>2. [NoJob EXCEPT !.now = day, !.todo = IF Recipient THEN AwaitingExport ELSE {}] \in Job
    BY <2>1 DEF NoJob, Job
  <2> QED BY <2>2 DEF TypeOK, Label
<1>3. RowsAreMade' /\ HandsAreSound' /\ StampsAreNew'
  BY DEF TypeOK, Safe, RowsAreMade, HandsAreSound, StampsAreNew, InHand, NoJob
<1>4. TodoIsRecorded' /\ TodoIsOld'
  BY <1>1 DEF TypeOK, TodoIsRecorded, TodoIsOld, AwaitingExport, NoJob
<1>5. MissingIsOld'
  BY SameRowsSameOld DEF Safe, MissingIsOld, Missing
<1> QED BY <1>2, <1>3, <1>4, <1>5 DEF Safe

LEMMA RetryFailsInv == ASSUME IInv, RetryFails PROVE IInv'
<1> USE DEF IInv, RetryFails, Goto, disk, table, bounds, m, Processes
<1>1. TypeOK'
  BY DEF TypeOK, Job
<1>2. RowsAreMade' /\ HandsAreSound' /\ StampsAreNew'
  BY DEF TypeOK, Safe, RowsAreMade, HandsAreSound, StampsAreNew, InHand
<1>3. TodoIsRecorded' /\ TodoIsOld'
  BY DEF TypeOK, Safe, TodoIsRecorded, TodoIsOld
<1>4. MissingIsOld'
  BY SameRowsSameOld DEF Safe, MissingIsOld, Missing
<1> QED BY <1>1, <1>2, <1>3, <1>4 DEF Safe

LEMMA RetryExportsInv == ASSUME IInv, RetryExports PROVE IInv'
<1> USE DEF IInv, RetryExports, Goto, disk, table, bounds, m, Processes
<1>1. PICK row \in job[m].todo :
        /\ row.copy \in files /\ exports' = exports \cup {row.copy}
        /\ job' = [job EXCEPT ![m].copy = row.copy]
  BY DEF Oldest
<1>2. row \in Row /\ row.copy \in Nat
  BY DEF TypeOK, Job, Row
<1>3. TypeOK'
  BY <1>1, <1>2 DEF TypeOK, Job, Label
<1>4. RowsAreMade' /\ StampsAreNew'
  BY <1>1 DEF TypeOK, Safe, RowsAreMade, StampsAreNew
<1>5. HandsAreSound'
  <2>1. pc[m] = "retry" /\ pc'[m] = "mark" /\ job'[m].exported = job[m].exported
    BY <1>1 DEF TypeOK, Job
  <2>2. \A q \in Processes : q # m => pc'[q] = pc[q] /\ job'[q] = job[q]
    BY <1>1 DEF TypeOK
  <2>3. exports \subseteq exports' /\ files' = files /\ records' = records
    BY <1>1
  <2> QED BY <2>1, <2>2, <2>3 DEF Safe, HandsAreSound, InHand
<1>6. TodoIsRecorded' /\ TodoIsOld'
  <2>1. /\ pc[m] = "retry" /\ pc'[m] = "mark" /\ job'[m].copy = row.copy
        /\ job'[m].todo = job[m].todo /\ row.copy \in exports' /\ records' = records
    BY <1>1 DEF TypeOK, Job
  <2> QED BY <2>1, <1>1 DEF Safe, TodoIsRecorded, TodoIsOld
<1>7. MissingIsOld'
  BY <1>1, SameRowsSameOld DEF Safe, MissingIsOld, Missing
<1> QED BY <1>3, <1>4, <1>5, <1>6, <1>7 DEF Safe

LEMMA ChooseInv == ASSUME IInv, Choose PROVE IInv'
<1> USE DEF IInv, Choose, Goto, disk, table, bounds, m, Processes
<1>1. TypeOK'
  BY DEF TypeOK, Job, Label
<1>2. RowsAreMade' /\ HandsAreSound' /\ StampsAreNew'
  BY DEF TypeOK, Safe, RowsAreMade, HandsAreSound, StampsAreNew, InHand
<1>3. TodoIsRecorded' /\ TodoIsOld'
  BY DEF TypeOK, TodoIsRecorded, TodoIsOld
<1>4. MissingIsOld'
  BY SameRowsSameOld DEF Safe, MissingIsOld, Missing
<1> QED BY <1>1, <1>2, <1>3, <1>4 DEF Safe

LEMMA DecideInv == ASSUME IInv, Decide PROVE IInv'
<1> USE DEF IInv, Goto, disk, table, bounds, m, Processes
<1>1. /\ pc[m] = "due" /\ job[m] \in Job /\ records' = records /\ stamps' = stamps
      /\ files' = files /\ exports' = exports /\ made' = made /\ day' = day
      /\ faults' = faults /\ commands' = commands
  BY DEF Decide, TypeOK
<1>2. \/ pc' = [pc EXCEPT ![m] = "copy"] /\ job' = [job EXCEPT ![m].now = 0]
      \/ pc' = [pc EXCEPT ![m] = "rest"] /\ job' = [job EXCEPT ![m] = NoJob]
  BY DEF Decide, EndJob
<1>3. TypeOK'
  <2>1. [job[m] EXCEPT !.now = 0] \in Job /\ NoJob \in Job
    BY <1>1 DEF Job, NoJob
  <2> QED BY <1>1, <1>2, <2>1 DEF TypeOK, Label
<1>4. RowsAreMade'
  BY <1>1 DEF Safe, RowsAreMade
<1>5. HandsAreSound' /\ StampsAreNew'
  <2>1. CASE pc' = [pc EXCEPT ![m] = "copy"] /\ job' = [job EXCEPT ![m].now = 0]
    BY <1>1, <2>1 DEF TypeOK, Safe, HandsAreSound, StampsAreNew, InHand
  <2>2. CASE pc' = [pc EXCEPT ![m] = "rest"] /\ job' = [job EXCEPT ![m] = NoJob]
    BY <1>1, <2>2 DEF TypeOK, Safe, HandsAreSound, StampsAreNew, InHand
  <2> QED BY <1>2, <2>1, <2>2
<1>6. TodoIsRecorded' /\ TodoIsOld'
  BY <1>2 DEF TypeOK, TodoIsRecorded, TodoIsOld
<1>7. MissingIsOld'
  BY <1>1, SameRowsSameOld DEF Safe, MissingIsOld, Missing
<1> QED BY <1>3, <1>4, <1>5, <1>6, <1>7 DEF Safe

LEMMA CommandInv == ASSUME IInv, Command PROVE IInv'
<1> USE DEF IInv, Command, Goto, disk, table, bounds, m, Processes
<1>1. PICK kind \in CommandKinds :
        job' = [job EXCEPT !["command"] = [NoJob EXCEPT !.kind = kind]]
  OBVIOUS
<1>2. [NoJob EXCEPT !.kind = kind] \in Job /\ kind # "none"
  BY BackupsConstants DEF NoJob, Job
<1>3. TypeOK'
  BY <1>1, <1>2, BackupsConstants DEF TypeOK, Label
<1>4. RowsAreMade' /\ HandsAreSound' /\ StampsAreNew'
  BY <1>1, <1>2 DEF TypeOK, Safe, RowsAreMade, HandsAreSound, StampsAreNew, InHand, NoJob
<1>5. TodoIsRecorded' /\ TodoIsOld'
  BY SameRowsSameOld DEF TypeOK, Safe, TodoIsRecorded, TodoIsOld
<1>6. MissingIsOld'
  BY SameRowsSameOld DEF Safe, MissingIsOld, Missing
<1> QED BY <1>3, <1>4, <1>5, <1>6 DEF Safe

LEMMA CopyInv == ASSUME IInv, NEW p \in Processes, Copy(p) PROVE IInv'
<1> USE DEF IInv, Copy, Goto, disk, table, bounds, m
<1>1. TypeOK'
  BY DEF TypeOK, Job, Label
<1>2. RowsAreMade' /\ StampsAreNew'
  BY DEF TypeOK, Safe, RowsAreMade, StampsAreNew
<1>3. HandsAreSound'
  BY DEF TypeOK, Safe, RowsAreMade, HandsAreSound, InHand
<1>4. TodoIsRecorded' /\ TodoIsOld'
  BY SameRowsSameOld DEF TypeOK, Safe, TodoIsRecorded, TodoIsOld, Processes
<1>5. MissingIsOld'
  BY SameRowsSameOld DEF Safe, MissingIsOld, Missing
<1> QED BY <1>1, <1>2, <1>3, <1>4, <1>5 DEF Safe

(* In both: a process is at "insert" with a new timestamp.                 *)
LEMMA StampedInv ==
  ASSUME IInv, NEW p \in Processes, pc[p] \in {"verify", "encrypt"}, NEW held \in Job,
         held.copy = job[p].copy, held.kind = job[p].kind,
         held.exported => held.verified /\ held.copy \in exports',
         exports \subseteq exports', exports' \subseteq exports \cup {held.copy},
         job' = [job EXCEPT ![p] = Stamped(held)], stamps' = stamps + 1,
         pc' = [pc EXCEPT ![p] = "insert"], faults' \in 0..MaxFaults,
         UNCHANGED <<day, made, files, records, commands>>
  PROVE  IInv'
<1> USE DEF IInv, m
<1>1. /\ Stamped(held) \in Job /\ Stamped(held).copy = job[p].copy
      /\ Stamped(held).kind = job[p].kind /\ Stamped(held).at = stamps + 1
      /\ Stamped(held).exported = held.exported /\ Stamped(held).verified = held.verified
      /\ stamps \in Nat
  <2>1. stamps \in Nat /\ stamps + 1 \in Nat /\ day \in Nat
    BY BackupsConstants DEF TypeOK
  <2>2. Stamped(held) = [held EXCEPT !.at = stamps + 1, !.day = day]
    BY DEF Stamped
  <2>3. /\ Stamped(held).copy = held.copy /\ Stamped(held).kind = held.kind
        /\ Stamped(held).at = stamps + 1 /\ Stamped(held).exported = held.exported
        /\ Stamped(held).verified = held.verified
    BY <2>2 DEF Job
  <2>4. Stamped(held) \in Job
    BY <2>1, <2>2 DEF Job
  <2> QED BY <2>1, <2>3, <2>4
<1>2. exports' \subseteq 1..made
  BY DEF TypeOK, Safe, HandsAreSound, InHand
<1>3. TypeOK'
  BY <1>1, <1>2 DEF TypeOK, Label
<1>4. RowsAreMade'
  BY DEF TypeOK, Safe, RowsAreMade
<1>5. HandsAreSound'
  <2> SUFFICES ASSUME NEW q \in Processes
               PROVE  /\ pc'[q] \in InHand =>
                           /\ job'[q].copy \in files
                           /\ job'[q].exported => job'[q].verified /\ job'[q].copy \in exports'
                           /\ \A row \in records : row.copy # job'[q].copy
                           /\ \A r \in Processes : r # q /\ pc'[r] \in InHand => job'[r].copy # job'[q].copy
                      /\ pc'[q] \in {"due", "copy"} \cup InHand => job'[q].kind # "none"
                      /\ pc'[q] \in {"retry", "mark", "due", "copy", "verify"} => ~job'[q].exported
                      /\ pc'[q] = "encrypt" => job'[q].verified
    BY DEF HandsAreSound
  <2>1. \A r \in Processes : /\ job'[r].copy = job[r].copy /\ job'[r].kind = job[r].kind
                              /\ pc'[r] \in InHand <=> pc[r] \in InHand
                              /\ r # p => pc'[r] = pc[r] /\ job'[r] = job[r]
    BY <1>1 DEF TypeOK, InHand
  <2>2. /\ pc'[p] = "insert" /\ pc[p] \in InHand
        /\ job'[p].exported => job'[p].verified /\ job'[p].copy \in exports'
    BY <1>1 DEF TypeOK, InHand
  <2>3. CASE q = p
    BY <2>1, <2>2, <2>3 DEF Safe, HandsAreSound, InHand
  <2>4. CASE q # p
    BY <2>1, <2>2, <2>4 DEF Safe, HandsAreSound, InHand
  <2> QED BY <2>3, <2>4
<1>6. StampsAreNew'
  BY <1>1 DEF TypeOK, Safe, RowsAreMade, StampsAreNew
<1>7. TodoIsRecorded' /\ TodoIsOld'
  BY SameRowsSameOld DEF TypeOK, Safe, TodoIsRecorded, TodoIsOld, Processes
<1>8. MissingIsOld'
  BY SameRowsSameOld DEF TypeOK, Safe, MissingIsOld, Missing
<1> QED BY <1>3, <1>4, <1>5, <1>6, <1>7, <1>8 DEF Safe

LEMMA VerifyInv == ASSUME IInv, NEW p \in Processes, Verify(p) PROVE IInv'
<1> USE DEF IInv, Goto, disk, table, bounds, m
<1>1. /\ job[p] \in Job /\ pc[p] = "verify" /\ ~job[p].exported
      /\ UNCHANGED <<day, made, files, exports, records, commands>>
  BY DEF Verify, TypeOK, Safe, HandsAreSound
<1>2. CASE /\ job' = [job EXCEPT ![p].verified = TRUE] /\ pc' = [pc EXCEPT ![p] = "encrypt"]
           /\ UNCHANGED <<stamps, faults>>
  <2>1. TypeOK'
    BY <1>1, <1>2 DEF TypeOK, Job, Label
  <2>2. RowsAreMade' /\ HandsAreSound' /\ StampsAreNew'
    BY <1>1, <1>2 DEF TypeOK, Safe, RowsAreMade, HandsAreSound, StampsAreNew, InHand
  <2>3. TodoIsRecorded' /\ TodoIsOld'
    BY <1>1, <1>2, SameRowsSameOld DEF TypeOK, Safe, TodoIsRecorded, TodoIsOld, Processes
  <2>4. MissingIsOld'
    BY <1>1, SameRowsSameOld DEF Safe, MissingIsOld, Missing
  <2> QED BY <2>1, <2>2, <2>3, <2>4 DEF Safe
<1>3. CASE /\ job' = [job EXCEPT ![p] = Stamped([@ EXCEPT !.verified = TRUE])]
           /\ stamps' = stamps + 1 /\ pc' = [pc EXCEPT ![p] = "insert"] /\ faults' = faults
  <2> DEFINE held == [job[p] EXCEPT !.verified = TRUE]
  <2>1. held \in Job /\ held.copy = job[p].copy /\ held.kind = job[p].kind /\ ~held.exported
    BY <1>1 DEF Job
  <2>2. job' = [job EXCEPT ![p] = Stamped(held)]
    BY <1>3
  <2>3. faults' \in 0..MaxFaults
    BY <1>3 DEF TypeOK
  <2> HIDE DEF held
  <2> QED BY <1>1, <1>3, <2>1, <2>2, <2>3, StampedInv
<1>4. CASE /\ faults < MaxFaults /\ faults' = faults + 1
           /\ job' = [job EXCEPT ![p] = Stamped(@)]
           /\ stamps' = stamps + 1 /\ pc' = [pc EXCEPT ![p] = "insert"]
  <2>1. job' = [job EXCEPT ![p] = Stamped(job[p])]
    BY <1>4
  <2>2. faults' \in 0..MaxFaults
    BY <1>4, BackupsConstants DEF TypeOK
  <2> QED BY <1>1, <1>4, <2>1, <2>2, StampedInv
<1> QED BY <1>2, <1>3, <1>4 DEF Verify

LEMMA EncryptInv == ASSUME IInv, NEW p \in Processes, Encrypt(p) PROVE IInv'
<1> USE DEF IInv, Goto, disk, table, bounds, m
<1>1. /\ job[p] \in Job /\ pc[p] = "encrypt" /\ job[p].verified
  BY DEF Encrypt, TypeOK, Safe, HandsAreSound
<1>2. PICK works \in BOOLEAN :
        /\ exports' = IF works THEN exports \cup {job[p].copy} ELSE exports
        /\ job' = [job EXCEPT ![p] = Stamped([@ EXCEPT !.exported = works])]
  BY DEF Encrypt
<1> DEFINE held == [job[p] EXCEPT !.exported = works]
<1>3. /\ held \in Job /\ held.copy = job[p].copy /\ held.kind = job[p].kind
      /\ held.exported = works /\ held.verified
  BY <1>1 DEF Job
<1>4. job' = [job EXCEPT ![p] = Stamped(held)]
  BY <1>2
<1>5. /\ faults' \in 0..MaxFaults /\ stamps' = stamps + 1 /\ pc' = [pc EXCEPT ![p] = "insert"]
      /\ UNCHANGED <<day, made, files, records, commands>>
  BY DEF Encrypt, TypeOK
<1> HIDE DEF held
<1> QED BY <1>1, <1>2, <1>3, <1>4, <1>5, StampedInv
-----------------------------------------------------------------------------
(* The table.                                                              *)

LEMMA InsertInv == ASSUME IInv, NEW p \in Processes, Insert(p) PROVE IInv'
<1> USE DEF IInv, Goto, disk, table, bounds, m
<1> DEFINE new == RowOf(job[p])
<1>1. /\ job[p] \in Job /\ pc[p] = "insert" /\ records' = records \cup {new}
      /\ UNCHANGED <<day, made, files, exports, stamps, faults, commands>>
  BY DEF Insert, TypeOK
<1>2. /\ job[p].copy \in files /\ job[p].kind # "none"
      /\ job[p].exported => job[p].verified /\ job[p].copy \in exports
      /\ \A row \in records : row.copy # job[p].copy /\ row.at # job[p].at
      /\ job[p].at \in 1..stamps
  BY <1>1 DEF Safe, HandsAreSound, StampsAreNew, InHand
<1>3. /\ new \in Row /\ new.copy = job[p].copy /\ new.at = job[p].at
      /\ new.exported = job[p].exported /\ new.verified = job[p].verified
  BY <1>1, <1>2 DEF RowOf, Row, Job
<1> HIDE DEF new
<1>4. \/ pc' = [pc EXCEPT ![p] = "select"] /\ job' = [job EXCEPT ![p] = NoJob]
      \/ pc' = [pc EXCEPT ![p] = "rest"] /\ job' = [job EXCEPT ![p] = NoJob]
  BY DEF Insert, EndJob
<1>5. NoJob \in Job
  BY DEF NoJob, Job
<1>6. TypeOK'
  BY <1>1, <1>2, <1>3, <1>4, <1>5 DEF TypeOK, Label
<1>7. RowsAreMade'
  BY <1>1, <1>2, <1>3 DEF TypeOK, Safe, RowsAreMade
<1>8. \A q \in Processes :
        /\ q # p => pc'[q] = pc[q] /\ job'[q] = job[q]
        /\ q = p => pc'[q] \in {"select", "rest"}
  BY <1>4 DEF TypeOK
<1>9. HandsAreSound'
  <2> SUFFICES ASSUME NEW q \in Processes, q # p
               PROVE  /\ pc[q] \in InHand =>
                           /\ job[q].copy \in files
                           /\ job[q].exported => job[q].verified /\ job[q].copy \in exports
                           /\ \A row \in records' : row.copy # job[q].copy
                           /\ \A r \in Processes : r # q /\ r # p /\ pc[r] \in InHand => job[r].copy # job[q].copy
                      /\ pc[q] \in {"due", "copy"} \cup InHand => job[q].kind # "none"
                      /\ pc[q] \in {"retry", "mark", "due", "copy", "verify"} => ~job[q].exported
                      /\ pc[q] = "encrypt" => job[q].verified
    BY <1>1, <1>8 DEF HandsAreSound, InHand
  <2>1. pc[q] \in InHand => new.copy # job[q].copy
    BY <1>1, <1>3 DEF Safe, HandsAreSound, InHand
  <2> QED BY <2>1, <1>1 DEF Safe, HandsAreSound
<1>10. StampsAreNew'
  BY <1>1, <1>3, <1>8 DEF Safe, StampsAreNew
<1>11. \A row : NewerThan(row) \subseteq NewerThan(row)'
  BY <1>1 DEF NewerThan, VerifiedOf
<1>12. \A row \in records : row.kind \in Scheduled /\ IsOld(row) => IsOld(row)'
  BY <1>6, <1>7, <1>11, OldStays DEF TypeOK, Safe
<1>13. TodoIsRecorded'
  BY <1>1, <1>8 DEF Safe, TodoIsRecorded, Processes
<1>14. TodoIsOld'
  BY <1>1, <1>8, <1>12 DEF Safe, TodoIsRecorded, TodoIsOld, Processes
<1>15. MissingIsOld'
  BY <1>1, <1>2, <1>3, <1>12 DEF Safe, MissingIsOld, Missing
<1> QED BY <1>6, <1>7, <1>9, <1>10, <1>13, <1>14, <1>15 DEF Safe

Marked(row) == [row EXCEPT !.exported = @ \/ row.copy = job[m].copy]

LEMMA MarkedIsRow ==
  ASSUME NEW row \in Row
  PROVE  /\ Marked(row) \in Row /\ Marked(row).copy = row.copy /\ Marked(row).kind = row.kind
         /\ Marked(row).at = row.at /\ Marked(row).verified = row.verified
         /\ Marked(row).exported = (row.exported \/ row.copy = job[m].copy)
         /\ row.copy # job[m].copy => Marked(row) = row
  BY DEF Marked, Row

LEMMA MarkExportedInv == ASSUME IInv, MarkExported PROVE IInv'
<1> USE DEF IInv, Goto, disk, table, bounds
<1>1. /\ pc[m] = "mark" /\ records' = {Marked(row) : row \in records} /\ m \in Processes
      /\ job' = [job EXCEPT ![m].todo = Others(@, job[m].copy), ![m].copy = 0]
      /\ pc' = [pc EXCEPT ![m] = "retry"]
      /\ UNCHANGED <<day, made, files, exports, stamps, faults, commands>>
  BY DEF MarkExported, Marked, m, Processes
<1>2. /\ job[m] \in Job /\ Others(job[m].todo, job[m].copy) \in SUBSET Row
      /\ records \in SUBSET Row
  BY <1>1 DEF TypeOK, Job, Others
<1>3. /\ job'[m].todo = Others(job[m].todo, job[m].copy)
      /\ job'[m].exported = job[m].exported /\ job'[m] \in Job
      /\ pc'[m] = "retry"
      /\ \A q \in Processes : q # m => pc'[q] = pc[q] /\ job'[q] = job[q]
  BY <1>1, <1>2 DEF TypeOK, Job
<1>4. \A row \in records :
        /\ Marked(row) \in Row /\ Marked(row).copy = row.copy /\ Marked(row).kind = row.kind
        /\ Marked(row).at = row.at /\ Marked(row).verified = row.verified
        /\ Marked(row).exported = (row.exported \/ row.copy = job[m].copy)
        /\ row.copy # job[m].copy => Marked(row) = row
  BY <1>2, MarkedIsRow
<1>5. /\ job[m].copy \in exports /\ job[m].todo \subseteq records
      /\ \E row \in job[m].todo : row.copy = job[m].copy /\ row.verified
      /\ \A row \in job[m].todo : row.verified
  BY <1>1 DEF Safe, TodoIsRecorded
<1>6. TypeOK'
  <2>1. job' \in [Processes -> Job] /\ pc' \in [Processes -> Label]
    BY <1>1, <1>3 DEF TypeOK, Label
  <2>2. records' \subseteq Row
    BY <1>1, <1>4
  <2>3. \A row, other \in records' : row.copy = other.copy \/ row.at = other.at => row = other
    BY <1>1, <1>4 DEF TypeOK
  <2>4. \A row \in records' : row.exported => row.verified
    BY <1>1, <1>4, <1>5 DEF TypeOK
  <2> QED BY <1>1, <2>1, <2>2, <2>3, <2>4 DEF TypeOK
<1>7. RowsAreMade'
  BY <1>1, <1>4 DEF Safe, RowsAreMade
<1>8. HandsAreSound' /\ StampsAreNew'
  <2>1. /\ \A new \in records' : \E old \in records : new.copy = old.copy /\ new.at = old.at
        /\ files' = files /\ exports' = exports /\ stamps' = stamps
    BY <1>1, <1>4
  <2>2. ~job'[m].exported
    BY <1>1, <1>3 DEF Safe, HandsAreSound
  <2>3. HandsAreSound'
    BY <1>3, <2>1, <2>2 DEF Safe, HandsAreSound, InHand
  <2>4. StampsAreNew'
    BY <1>3, <2>1 DEF Safe, StampsAreNew
  <2> QED BY <2>3, <2>4
<1>10. TodoIsRecorded'
  BY <1>1, <1>3, <1>4, <1>5 DEF TodoIsRecorded, Others
<1>11. TodoIsOld'
  BY <1>3 DEF TodoIsOld
<1>12. ASSUME NEW old \in records, NEW new \in records', new.at = old.at, new.kind = old.kind
       PROVE  NewerThan(new)' = NewerThan(old)
  <2>1. NewerThan(new)' \subseteq NewerThan(old)
    BY <1>1, <1>4, <1>12 DEF NewerThan, VerifiedOf
  <2>2. NewerThan(old) \subseteq NewerThan(new)'
    <3> SUFFICES ASSUME NEW other \in VerifiedOf(old.kind), other.at > old.at
                 PROVE  other.at \in NewerThan(new)'
      BY DEF NewerThan
    <3>1. PICK marked \in records' : /\ marked.at = other.at /\ marked.kind = other.kind
                                     /\ marked.verified = other.verified
      BY <1>1, <1>4 DEF VerifiedOf
    <3>2. marked \in VerifiedOf(new.kind)' /\ marked.at > new.at
      BY <1>12, <3>1 DEF VerifiedOf
    <3> QED BY <3>1, <3>2 DEF NewerThan
  <2> QED BY <2>1, <2>2
<1>13. MissingIsOld'
  <2> SUFFICES ASSUME NEW new \in records', new.kind \in Scheduled, new.verified, Missing(new)'
               PROVE  IsOld(new)'
    BY DEF MissingIsOld
  <2>1. PICK old \in records : new = Marked(old)
    BY <1>1
  <2>2. /\ new.copy = old.copy /\ new.kind = old.kind /\ new.at = old.at
        /\ new.verified = old.verified
        /\ new.exported = (old.exported \/ old.copy = job[m].copy)
    BY <1>4, <2>1
  <2>3. Missing(old)
    BY <1>1, <1>5, <2>2 DEF Missing
  <2>4. IsOld(old)
    BY <2>2, <2>3 DEF Safe, MissingIsOld
  <2>5. NewerThan(new)' = NewerThan(old)
    BY <1>12, <2>2
  <2> QED BY <2>2, <2>4, <2>5 DEF IsOld
<1> QED BY <1>6, <1>7, <1>8, <1>10, <1>11, <1>13 DEF Safe

-----------------------------------------------------------------------------
(* Retention.                                                              *)

LEMMA DoomedIsOld ==
  ASSUME IInv, NEW kind \in Scheduled
  PROVE  /\ Doomed(kind) \subseteq records /\ Doomed(kind) \in SUBSET Row
         /\ \A row \in Doomed(kind) : row.kind \in Scheduled /\ row.verified /\ IsOld(row)
  BY DEF IInv, TypeOK, Doomed, VerifiedOf, IsOld

LEMMA SelectInv ==
  ASSUME IInv, NEW kind \in Scheduled, pc[m] \in {"select", "unlink"},
         job' = [job EXCEPT ![m].todo = Doomed(kind), ![m].pruning = kind],
         pc' = [pc EXCEPT ![m] = "unlink"],
         UNCHANGED <<day, made, disk, table, bounds>>
  PROVE  IInv'
<1> USE DEF IInv, disk, table, bounds
<1>1. m \in Processes /\ job[m] \in Job /\ kind \in {"none", "daily", "monthly"}
  BY DEF TypeOK, m, Processes, Scheduled
<1>2. /\ job'[m] \in Job /\ pc'[m] = "unlink" /\ job'[m].todo = Doomed(kind)
      /\ \A q \in Processes : q # m => pc'[q] = pc[q] /\ job'[q] = job[q]
  BY <1>1, DoomedIsOld DEF TypeOK, Job
<1>3. TypeOK'
  BY <1>1, <1>2 DEF TypeOK, Label
<1>4. RowsAreMade' /\ HandsAreSound' /\ StampsAreNew'
  <2>1. RowsAreMade'
    BY DEF Safe, RowsAreMade
  <2> QED BY <1>1, <1>2, <2>1, OthersGoOn DEF Safe
<1>5. TodoIsRecorded'
  BY <1>2, DoomedIsOld DEF TodoIsRecorded
<1>6. TodoIsOld'
  BY <1>2, DoomedIsOld, SameRowsSameOld DEF TodoIsOld
<1>7. MissingIsOld'
  BY SameRowsSameOld DEF Safe, MissingIsOld, Missing
<1> QED BY <1>3, <1>4, <1>5, <1>6, <1>7 DEF Safe

LEMMA SelectDailyInv == ASSUME IInv, SelectDaily PROVE IInv'
<1>1. "daily" \in Scheduled
  BY DEF Scheduled
<1> QED BY <1>1, SelectInv DEF SelectDaily, Goto

LEMMA SelectMonthlyInv == ASSUME IInv, SelectMonthly PROVE IInv'
<1>1. "monthly" \in Scheduled
  BY DEF Scheduled
<1>2. pc' = [pc EXCEPT ![m] = "unlink"]
  BY DEF SelectMonthly, IInv, TypeOK, m, Processes
<1> QED BY <1>1, <1>2, SelectInv DEF SelectMonthly

(* The row in hand has enough newer ones; no other row is of its file.     *)
LEMMA UnlinkInv == ASSUME IInv, Unlink PROVE IInv'
<1> USE DEF IInv, disk, table, bounds
<1>1. PICK row \in job[m].todo :
        /\ files' = files \ {row.copy} /\ exports' = exports
        /\ job' = [job EXCEPT ![m].copy = row.copy]
  BY DEF Unlink, Newest
<1>2. /\ pc[m] = "unlink" /\ pc' = [pc EXCEPT ![m] = "unexport"] /\ m \in Processes
      /\ job[m] \in Job
      /\ UNCHANGED <<day, made, records, stamps, faults, commands>>
  BY DEF Unlink, Goto, TypeOK, m, Processes
<1>3. row \in records /\ row \in Row /\ row.kind \in Scheduled /\ row.verified /\ IsOld(row)
  BY <1>1, <1>2 DEF TypeOK, Safe, TodoIsRecorded, TodoIsOld
<1>4. /\ job'[m] \in Job /\ pc'[m] = "unexport" /\ job'[m].todo = job[m].todo
      /\ job'[m].copy = row.copy
      /\ \A q \in Processes : q # m => pc'[q] = pc[q] /\ job'[q] = job[q]
  BY <1>1, <1>2, <1>3 DEF TypeOK, Job, Row
<1>5. TypeOK'
  BY <1>1, <1>2, <1>4 DEF TypeOK, Label
<1>6. RowsAreMade' /\ StampsAreNew'
  BY <1>2, <1>4 DEF Safe, RowsAreMade, StampsAreNew
<1>7. HandsAreSound'
  BY <1>1, <1>2, <1>3, <1>4 DEF Safe, HandsAreSound, InHand
<1>8. TodoIsRecorded' /\ TodoIsOld'
  BY <1>1, <1>2, <1>4, SameRowsSameOld DEF Safe, TodoIsRecorded, TodoIsOld
<1>9. MissingIsOld'
  <2> SUFFICES ASSUME NEW other \in records, other.kind \in Scheduled, other.verified, Missing(other)'
               PROVE  IsOld(other)
    BY <1>2, SameRowsSameOld DEF MissingIsOld
  <2>1. CASE other = row
    BY <2>1, <1>3
  <2>2. CASE other # row
    <3>1. other.copy # row.copy
      BY <2>2, <1>3 DEF TypeOK
    <3>2. Missing(other)
      BY <3>1, <1>1 DEF Missing
    <3> QED BY <3>2 DEF Safe, MissingIsOld
  <2> QED BY <2>1, <2>2
<1> QED BY <1>5, <1>6, <1>7, <1>8, <1>9 DEF Safe

LEMMA UnlinkExportInv == ASSUME IInv, UnlinkExport PROVE IInv'
<1> USE DEF IInv, disk, table, bounds
<1>1. /\ pc[m] = "unexport" /\ pc' = [pc EXCEPT ![m] = "delete"] /\ m \in Processes
      /\ exports' = exports \ {job[m].copy}
      /\ UNCHANGED <<day, made, files, records, stamps, job, faults, commands>>
  BY DEF UnlinkExport, Goto, m, Processes
<1>2. PICK row \in job[m].todo : row.copy = job[m].copy
  BY <1>1 DEF Safe, TodoIsRecorded
<1>3. row \in records /\ row \in Row /\ row.kind \in Scheduled /\ row.verified /\ IsOld(row)
  BY <1>1, <1>2 DEF TypeOK, Safe, TodoIsRecorded, TodoIsOld
<1>4. pc'[m] = "delete" /\ \A q \in Processes : q # m => pc'[q] = pc[q]
  BY <1>1 DEF TypeOK
<1>5. TypeOK'
  BY <1>1 DEF TypeOK, Label
<1>6. RowsAreMade' /\ StampsAreNew'
  BY <1>1, <1>4 DEF Safe, RowsAreMade, StampsAreNew
<1>7. HandsAreSound'
  <2>1. \A q \in Processes : q # m /\ pc[q] \in InHand => job[q].copy # job[m].copy
    BY <1>2, <1>3 DEF Safe, HandsAreSound
  <2> QED BY <1>1, <1>4, <2>1 DEF Safe, HandsAreSound, InHand
<1>8. TodoIsRecorded' /\ TodoIsOld'
  BY <1>1, <1>4, SameRowsSameOld DEF Safe, TodoIsRecorded, TodoIsOld
<1>9. MissingIsOld'
  <2> SUFFICES ASSUME NEW other \in records, other.kind \in Scheduled, other.verified, Missing(other)'
               PROVE  IsOld(other)
    BY <1>1, SameRowsSameOld DEF MissingIsOld
  <2>1. CASE other = row
    BY <2>1, <1>3
  <2>2. CASE other # row
    <3>1. other.copy # job[m].copy
      BY <2>2, <1>2, <1>3 DEF TypeOK
    <3>2. Missing(other)
      BY <3>1, <1>1 DEF Missing
    <3> QED BY <3>2 DEF Safe, MissingIsOld
  <2> QED BY <2>1, <2>2
<1> QED BY <1>5, <1>6, <1>7, <1>8, <1>9 DEF Safe

(* What is newer than the row that goes is newer than all it was newer     *)
(* than, so nothing that is old needs it.                                  *)
LEMMA DeleteRowInv == ASSUME IInv, DeleteRow PROVE IInv'
<1> USE DEF IInv, disk, table, bounds
<1>1. /\ pc[m] = "delete" /\ records' = Others(records, job[m].copy) /\ m \in Processes
      /\ job' = [job EXCEPT ![m].todo = Others(@, job[m].copy), ![m].copy = 0]
      /\ pc' = [pc EXCEPT ![m] = "unlink"]
      /\ UNCHANGED <<day, made, files, exports, stamps, faults, commands>>
  BY DEF DeleteRow, Goto, m, Processes
<1>2. /\ job[m] \in Job /\ Others(job[m].todo, job[m].copy) \in SUBSET Row
      /\ records' \subseteq records
  BY <1>1 DEF TypeOK, Job, Others
<1>3. /\ job'[m].todo = Others(job[m].todo, job[m].copy)
      /\ job'[m] \in Job /\ pc'[m] = "unlink"
      /\ \A q \in Processes : q # m => pc'[q] = pc[q] /\ job'[q] = job[q]
  BY <1>1, <1>2 DEF TypeOK, Job
<1>4. PICK gone \in job[m].todo : gone.copy = job[m].copy
  BY <1>1 DEF Safe, TodoIsRecorded
<1>5. /\ gone \in records /\ gone.kind \in Scheduled /\ gone.verified /\ IsOld(gone)
      /\ job[m].todo \subseteq records
  BY <1>1, <1>4 DEF Safe, TodoIsRecorded, TodoIsOld
<1>6. records' = records \ {gone}
  BY <1>1, <1>4, <1>5 DEF Others, TypeOK
<1>7. TypeOK'
  BY <1>1, <1>2, <1>3 DEF TypeOK, Label
<1>8. RowsAreMade' /\ StampsAreNew' /\ HandsAreSound'
  <2>1. RowsAreMade'
    BY <1>1, <1>2 DEF Safe, RowsAreMade
  <2> QED BY <1>1, <1>2, <1>3, <2>1, OthersGoOn DEF Safe
<1>9. ASSUME NEW row \in records, row.kind \in Scheduled, IsOld(row)
      PROVE  IsOld(row)'
  <2>1. row \in Row /\ gone \in Row /\ row.at \in Nat /\ gone.at \in Nat
        /\ \A other \in records : other.at \in Nat
    BY <1>5 DEF TypeOK, Row
  <2>2. CASE gone.kind = row.kind /\ gone.at > row.at
    <3>1. NewerThan(gone) \subseteq NewerThan(row)'
      BY <1>6, <2>1, <2>2 DEF NewerThan, VerifiedOf
    <3>2. NewerThan(gone) \subseteq NewerThan(gone)'
      BY <1>6, <2>1 DEF NewerThan, VerifiedOf
    <3>3. /\ Cardinality(NewerThan(gone)) \in Nat
          /\ IsFiniteSet(NewerThan(row)') /\ Cardinality(NewerThan(row)') \in Nat
      <4>1. NewerThan(row)' \subseteq 1..stamps'
        BY <1>8 DEF RowsAreMade, NewerThan, VerifiedOf
      <4>2. IsFiniteSet(1..stamps')
        BY <1>7, FS_Interval DEF TypeOK
      <4>3. Cardinality(NewerThan(gone)) \in Nat
        BY NewerFinite DEF Safe
      <4> QED BY <4>1, <4>2, <4>3, FS_Subset, FS_CardinalityType
    <3>4. Cardinality(NewerThan(gone)) <= Cardinality(NewerThan(row)')
      BY <3>1, <3>3, FS_Subset
    <3>5. Keep[row.kind] \in Nat
      BY <1>9, BackupsConstants DEF Scheduled
    <3> QED BY <1>5, <2>2, <3>3, <3>4, <3>5 DEF IsOld
  <2>3. CASE ~(gone.kind = row.kind /\ gone.at > row.at)
    <3>1. NewerThan(row) \subseteq NewerThan(row)'
      BY <1>6, <2>3 DEF NewerThan, VerifiedOf
    <3> QED BY <3>1, <1>7, <1>8, <1>9, <2>1, OldStays DEF Safe
  <2> QED BY <2>2, <2>3
<1>10. TodoIsRecorded'
  BY <1>1, <1>3, <1>5 DEF TodoIsRecorded, Others
<1>11. TodoIsOld'
  BY <1>1, <1>3, <1>5, <1>9 DEF Safe, TodoIsOld, Others
<1>12. MissingIsOld'
  BY <1>1, <1>2, <1>9 DEF Safe, MissingIsOld, Missing
<1> QED BY <1>7, <1>8, <1>10, <1>11, <1>12 DEF Safe

-----------------------------------------------------------------------------
LEMMA EndJobInv ==
  ASSUME IInv, NEW p \in Processes, EndJob(p), UNCHANGED <<day, made, disk, table, commands>>,
         faults' \in 0..MaxFaults
  PROVE  IInv'
<1> USE DEF IInv, disk, table
<1>1. /\ pc' = [pc EXCEPT ![p] = "rest"] /\ job' = [job EXCEPT ![p] = NoJob] /\ NoJob \in Job
  BY DEF EndJob, Goto, NoJob, Job
<1>2. /\ pc'[p] = "rest"
      /\ \A q \in Processes : q # p => pc'[q] = pc[q] /\ job'[q] = job[q]
  BY <1>1 DEF TypeOK
<1>3. TypeOK'
  BY <1>1 DEF TypeOK, Label
<1>4. RowsAreMade' /\ HandsAreSound' /\ StampsAreNew'
  BY <1>2 DEF Safe, RowsAreMade, HandsAreSound, StampsAreNew, InHand
<1>5. TodoIsRecorded' /\ TodoIsOld'
  BY <1>2, SameRowsSameOld DEF Safe, TodoIsRecorded, TodoIsOld, m, Processes
<1>6. MissingIsOld'
  BY SameRowsSameOld DEF Safe, MissingIsOld, Missing
<1> QED BY <1>3, <1>4, <1>5, <1>6 DEF Safe

LEMMA PrunedInv == ASSUME IInv, Pruned PROVE IInv'
  BY EndJobInv DEF Pruned, IInv, TypeOK, bounds, m, Processes

LEMMA CrashInv == ASSUME IInv, NEW p \in Processes, Crash(p) PROVE IInv'
<1>1. faults' \in 0..MaxFaults
  BY BackupsConstants DEF Crash, IInv, TypeOK
<1> QED BY <1>1, EndJobInv DEF Crash

LEMMA NextDayInv == ASSUME IInv, NextDay PROVE IInv'
<1> USE DEF IInv, NextDay, disk, table, bounds
<1>1. TypeOK'
  BY BackupsConstants DEF TypeOK
<1>2. Safe'
  BY SameRowsSameOld
     DEF Safe, RowsAreMade, HandsAreSound, StampsAreNew, TodoIsRecorded, TodoIsOld, MissingIsOld, Missing
<1> QED BY <1>1, <1>2

LEMMA Inductive == IInv /\ [Next]_vars => IInv'
<1> SUFFICES ASSUME IInv, [Next]_vars PROVE IInv'
  OBVIOUS
<1>1. ASSUME NEW p \in Processes, CreateBackup(p) PROVE IInv'
  BY <1>1, CopyInv, VerifyInv, EncryptInv, InsertInv DEF CreateBackup
<1>2. CASE Maintenance
  <2>1. m \in Processes
    BY DEF m, Processes
  <2> QED BY <1>1, <1>2, <2>1, WakeInv, RetryFailsInv, RetryExportsInv, MarkExportedInv, ChooseInv,
             DecideInv, SelectDailyInv, SelectMonthlyInv, UnlinkInv, UnlinkExportInv, DeleteRowInv,
             PrunedInv
          DEF Maintenance
<1>3. CASE Command \/ CreateBackup("command")
  BY <1>1, <1>3, CommandInv DEF Processes
<1>4. CASE (\E p \in Processes : Crash(p)) \/ NextDay
  BY <1>4, CrashInv, NextDayInv
<1>5. CASE UNCHANGED vars
  BY <1>5, SameRowsSameOld
     DEF vars, disk, table, bounds, IInv, TypeOK, Safe, RowsAreMade, HandsAreSound, StampsAreNew,
         TodoIsRecorded, TodoIsOld, MissingIsOld, Missing
<1> QED BY <1>2, <1>3, <1>4, <1>5 DEF Next

THEOREM Invariance == Spec => []IInv
  BY InitIInv, Inductive, PTL DEF Spec

-----------------------------------------------------------------------------
(* One row per file and per time, whatever the loop and the command do at  *)
(* once, and no export of a copy that was not verified.                    *)
THEOREM TypeCorrect == Spec => []TypeOK
<1>1. IInv => TypeOK
  BY DEF IInv
<1> QED BY <1>1, Invariance, PTL

(* apply_retention, cut short anywhere, leaves the newest copies of a kind *)
(* and their exports where they are.                                       *)
LEMMA KeptFollows == IInv => KeptAreThere
<1> SUFFICES ASSUME IInv, NEW kind \in Scheduled, NEW row \in Kept(kind)
             PROVE  row.copy \in files /\ (row.exported => row.copy \in exports)
  BY DEF KeptAreThere
<1>1. row \in records /\ row.kind = kind /\ row.verified /\ Cardinality(NewerThan(row)) < Keep[kind]
  BY DEF Kept, VerifiedOf
<1>2. Cardinality(NewerThan(row)) \in Nat /\ Keep[kind] \in Nat
  BY NewerFinite, BackupsConstants DEF IInv, Safe, Scheduled
<1> QED BY <1>1, <1>2 DEF IInv, Safe, MissingIsOld, IsOld, Missing

(* apply_retention, cut short anywhere, leaves the newest copies of a kind *)
(* and their exports where they are.                                       *)
THEOREM KeptCorrect == Spec => []KeptAreThere
  BY KeptFollows, Invariance, PTL

(* Of the copies newer than one that is removed the newest are kept, and   *)
(* by TopIsFull they are as many as retention keeps.                       *)
LEMMA UnlinkedIsOld ==
  ASSUME IInv, Unlink, NEW row \in records, row.copy \in files \ files'
  PROVE  row.kind \in Scheduled /\ Cardinality(StillThere(row)) >= Keep[row.kind]
<1>1. PICK gone \in job[m].todo : files' = files \ {gone.copy}
  BY DEF Unlink, Newest
<1>2. /\ row = gone /\ row.kind \in Scheduled /\ IsOld(row)
  BY <1>1 DEF Unlink, IInv, TypeOK, Safe, TodoIsRecorded, TodoIsOld
<1> DEFINE S == NewerThan(row)
           count == Keep[row.kind]
<1>3. /\ S \in SUBSET (1..stamps) /\ stamps \in Nat /\ count \in Nat /\ Cardinality(S) >= count
      /\ row.at \in Nat /\ \A other \in records : other.at \in Nat
  BY <1>2, NewerFinite, BackupsConstants DEF IInv, Safe, TypeOK, Row, Scheduled, IsOld
<1>4. Cardinality(Top(S, count)) >= count
  <2> HIDE DEF S, count
  <2> QED BY <1>3, TopIsFull
<1>5. Top(S, count) \subseteq StillThere(row)
  <2> SUFFICES ASSUME NEW x \in Top(S, count) PROVE x \in StillThere(row)
    OBVIOUS
  <2>1. x \in S /\ Cardinality(Above(S, x)) < count
    BY DEF Top
  <2>2. PICK other \in VerifiedOf(row.kind) : other.at > row.at /\ x = other.at
    BY <2>1 DEF NewerThan
  <2>3. other \in records /\ other.kind = row.kind /\ other.verified
    BY <2>2 DEF VerifiedOf
  <2>4. NewerThan(other) = Above(S, x)
    <3>1. NewerThan(other) \subseteq Above(S, x)
      BY <1>3, <2>2, <2>3 DEF NewerThan, Above, VerifiedOf
    <3>2. Above(S, x) \subseteq NewerThan(other)
      BY <1>3, <2>2, <2>3 DEF NewerThan, Above, VerifiedOf
    <3> QED BY <3>1, <3>2
  <2>5. other.copy \in files
    BY <1>2, <2>1, <2>3, <2>4, KeptFollows DEF KeptAreThere, Kept, VerifiedOf
  <2>6. other.copy # gone.copy
    BY <1>2, <1>3, <2>2, <2>3 DEF IInv, TypeOK
  <2> QED BY <1>1, <2>2, <2>3, <2>5, <2>6 DEF StillThere
<1>6. IsFiniteSet(StillThere(row)) /\ Cardinality(StillThere(row)) \in Nat
  <2>1. StillThere(row) \subseteq 1..stamps
    BY DEF StillThere, IInv, Safe, RowsAreMade
  <2>2. IsFiniteSet(1..stamps)
    BY <1>3, FS_Interval
  <2> QED BY <2>1, <2>2, FS_Subset, FS_CardinalityType
<1>7. Cardinality(Top(S, count)) <= Cardinality(StillThere(row)) /\ Cardinality(Top(S, count)) \in Nat
  BY <1>5, <1>6, FS_Subset, FS_CardinalityType
<1> QED BY <1>2, <1>3, <1>4, <1>6, <1>7

(* apply_retention unlinks the file of a recorded copy only while as many  *)
(* newer ones as it keeps have theirs.                                     *)
THEOREM RemovalCorrect == Spec => RemovedIsOld
<1>1. IInv /\ [Next]_vars =>
        [\A row \in records :
           row.copy \in files \ files' =>
             /\ row.kind \in Scheduled
             /\ Cardinality(StillThere(row)) >= Keep[row.kind]]_vars
  <2> SUFFICES ASSUME IInv, Next, NEW row \in records, row.copy \in files \ files'
               PROVE  row.kind \in Scheduled /\ Cardinality(StillThere(row)) >= Keep[row.kind]
    OBVIOUS
  <2>1. CASE Unlink
    BY <2>1, UnlinkedIsOld
  <2>2. CASE ~Unlink
    BY <2>2
       DEF Next, Maintenance, Wake, RetryFails, RetryExports, MarkExported, Choose, Decide,
           SelectDaily, SelectMonthly, UnlinkExport, DeleteRow, Pruned, Command, CreateBackup, Copy, Verify,
           Encrypt, Insert, Crash, NextDay, disk
  <2> QED BY <2>1, <2>2
<1> QED BY <1>1, Invariance, PTL DEF Spec, RemovedIsOld
=============================================================================
