-------------------------- MODULE Backups_proofs --------------------------
(***************************************************************************)
(* A booted panel serves what it promised: proved from an invariant of the *)
(* restore that relates the flag, the unpacked archive, the database file  *)
(* and the step main() is at, and that a crash at any of them keeps; no    *)
(* database it serves is newer than the panel; its rows and the files      *)
(* agree, from an invariant of the inodes, of the goroutines that make and *)
(* delete backups, and of every table a restore may bring back; and the    *)
(* purge leaves an archive, since it spares a row that has one and is newer *)
(* than all it deletes.                                                    *)
(***************************************************************************)
EXTENDS Backups, FiniteSetTheorems, TLAPS

DataType ==
    /\ db \in Databases \cup {Gone, Torn}
    /\ archives \in [Runs \cup {Upload} -> Databases \cup {None}]
    /\ bytes \in [Runs -> Contents]
    /\ partial \in [Names -> Runs \cup {None}] /\ files \in [Names -> Runs \cup {None}]
    /\ payload \in [Seconds -> Contents]
    /\ flag \in Seconds \cup {None} /\ now \in Seconds
    /\ boot \in {"down", "remove", "copy", "clean", "unflag", "open", "reconcile", "serving"}
    /\ boot \in {"reconcile", "serving"} => db \in Databases
    /\ promised \in Contents /\ last \in Int
    /\ spoiled \in BOOLEAN /\ waived \in BOOLEAN /\ shared \subseteq Names
    /\ counts \in [runs: Nat, edits: Nat, deletes: Nat, restores: Nat, faults: Nat]

ProcType ==
    /\ proc \in [Procs -> Goroutine] /\ \A p \in Procs : Holds(proc[p])
    /\ boot # "serving" => proc = [p \in Procs |-> Idle]

\* The runs whose snapshot exists, and with them every archive that is named.
Known == {Upload} \cup 1 .. counts.runs
KnownData ==
    /\ counts.runs <= MaxRuns
    /\ \A r \in Known : archives[r] \in Databases
    /\ \A i \in Runs : bytes[i] \subseteq Known
    /\ \A s \in Seconds : payload[s] \subseteq Known
    /\ promised \subseteq Known
Knows(g, known) ==
    /\ g.sum \subseteq known
    /\ g.pc \in {"name", "write", "rename"} => g.run \in known
    /\ g.pc \in {"apply", "flag", "exit"} => g.sum # {}
KnownProc == \A p \in Procs : Knows(proc[p], Known)

\* Where main() is says what the disk holds, whatever was spoiled.
BootInv ==
    /\ boot \in {"remove", "copy", "clean"} => flag # None /\ payload[flag] # {}
    /\ boot = "unflag" => flag # None
    /\ boot \in {"clean", "unflag"} => db \in Databases

SafeInv == DataType /\ ProcType /\ KnownData /\ KnownProc /\ BootInv

Unpacked(g) == g.pc \in {"apply", "flag", "exit"}
Pending == flag # None /\ payload[flag] # {}
Wanted  == IF promised = {} THEN last ELSE Source(promised).cfg

\* A pending restore is the promised one; without one, or once it has been
\* copied, the database file is whole and holds what is wanted.
RestoreInv ==
    ~spoiled =>
      /\ Pending => promised # {} /\ payload[flag] = promised
      /\ boot \in {"down", "open", "reconcile", "unflag"} /\ ~Pending
            => db \in Databases /\ db.cfg = Wanted
      /\ boot \in {"open", "reconcile"} => flag = None
      /\ boot = "clean" => db.cfg = Wanted
      /\ boot = "unflag" => payload[flag] = {}
      /\ boot = "serving" => /\ db.cfg = last
                             /\ flag # None => Pending
                             /\ flag = None => promised = {}
      /\ \A p \in Procs : Unpacked(proc[p]) => payload[proc[p].dir] = proc[p].sum

IInv == SafeInv /\ RestoreInv

----------------------------------------------------------------------------
\* Type correctness speaks of the data and of the goroutines.
LEMMA TypeSplit == TypeOK <=> DataType /\ ProcType
  BY DEF TypeOK, DataType, ProcType

\* A goroutine that holds nothing is well typed.
LEMMA IdleType == Idle \in Goroutine /\ Holds(Idle)
<1>1. {} \in SUBSET Entries /\ {} \in Contents /\ "idle" \in Steps
  BY DEF Contents, Steps
<1> QED
  BY <1>1 DEF Idle, Goroutine, Holds

\* A database is still one when a row of its table changes.
LEMMA RowPut ==
    ASSUME NEW d \in Databases, NEW n \in Names, NEW q \in Nat, NEW row \in BackupRow \cup {None}
    PROVE  [d EXCEPT !.seq = q, !.rows[n] = row] \in Databases
  BY DEF Databases

\* ... or goes.
LEMMA RowGone ==
    ASSUME NEW d \in Databases, NEW n \in Names
    PROVE  [d EXCEPT !.rows[n] = None] \in Databases
  BY DEF Databases

\* An archive of snapshots that exist has a database in it.
LEMMA SourceKnown ==
    ASSUME KnownData, NEW c, c \subseteq Known, c # {}
    PROVE  Source(c) \in Databases
<1>1. SourceOf(c) \in c
  BY DEF SourceOf
<1> QED
  BY <1>1 DEF Source, KnownData

\* The goroutines stay well typed when one of them takes a step ...
LEMMA OneSteps ==
    ASSUME ProcType, KnownProc, NEW p \in Procs, NEW g \in Goroutine, Holds(g), Knows(g, Known'),
           proc' = [proc EXCEPT ![p] = g] \/ Stop(p), boot = "serving", boot' = boot,
           Known \subseteq Known'
    PROVE  ProcType' /\ KnownProc'
<1>1. /\ proc' \in [Procs -> Goroutine]
      /\ \A q \in Procs : proc'[q] \in {g, proc[q], Idle}
  BY IdleType DEF ProcType, Stop
<1>2. \A q \in Procs : Holds(proc'[q])
  BY <1>1, IdleType DEF ProcType
<1>3. Knows(Idle, Known') /\ \A q \in Procs : Knows(proc[q], Known')
  BY DEF KnownProc, Knows, Idle
<1>4. ProcType'
  BY <1>1, <1>2 DEF ProcType
<1> QED
  BY <1>1, <1>3, <1>4 DEF KnownProc

\* ... when the process dies ...
LEMMA AllStop ==
    ASSUME proc' = [p \in Procs |-> Idle]
    PROVE  ProcType' /\ KnownProc'
<1>1. \A p \in Procs : proc'[p] = Idle
  OBVIOUS
<1>2. ProcType'
  BY <1>1, IdleType DEF ProcType
<1>3. Knows(Idle, Known')
  BY DEF Idle, Knows
<1> QED
  BY <1>1, <1>2, <1>3 DEF KnownProc

\* ... and when main() takes one.
LEMMA NoneSteps ==
    ASSUME ProcType, KnownProc, UNCHANGED proc, boot # "serving" \/ boot' = boot,
           Known \subseteq Known'
    PROVE  ProcType' /\ KnownProc'
  BY DEF ProcType, KnownProc, Knows

\* A step that is counted adds one to its own count, and to no other.
LEMMA CountedType ==
    ASSUME DataType, NEW f \in {"runs", "edits", "deletes", "restores", "faults"}, Counted(f)
    PROVE  /\ counts' \in [runs: Nat, edits: Nat, deletes: Nat, restores: Nat, faults: Nat]
           /\ counts'.runs = (IF f = "runs" THEN counts.runs + 1 ELSE counts.runs)
  BY DEF DataType, Counted

\* What the steps below do to a map of the disk.
LEMMA MapType ==
    ASSUME NEW S, NEW T, NEW m \in [S -> T], NEW x, NEW y \in T
    PROVE  /\ [m EXCEPT ![x] = y] \in [S -> T]
           /\ \A z \in S : [m EXCEPT ![x] = y][z] \in {m[z], y}
  OBVIOUS

----------------------------------------------------------------------------
\* The data keep their types, and what is on disk stays known.
LEMMA DataStep ==
    ASSUME SafeInv, [Next]_vars
    PROVE  DataType' /\ KnownData' /\ BootInv'
<1> USE DEF SafeInv, DataType, KnownData, BootInv, Known, At, diskVars, restoreVars,
           histVars, createFrame, deleteFrame, prepareFrame, noticeVars, panelFrame, bootFrame, bootHist
<1>1. ASSUME NEW p \in Procs, Vacuum(p)
      PROVE  DataType' /\ KnownData' /\ BootInv'
  <2>1. counts.runs + 1 \in Runs /\ db \in Databases /\ Counted("runs")
    BY <1>1, BackupsAssumption DEF Vacuum, Runs
  <2>2. counts' \in [runs: Nat, edits: Nat, deletes: Nat, restores: Nat, faults: Nat]
        /\ counts'.runs = counts.runs + 1
    BY <2>1, CountedType
  <2>3. archives' \in [Runs \cup {Upload} -> Databases \cup {None}]
        /\ archives'[counts.runs + 1] = db
        /\ \A r \in Known : r # counts.runs + 1 => archives'[r] = archives[r]
    BY <1>1, <2>1 DEF Vacuum
  <2>4. Known' = Known \cup {counts.runs + 1}
    BY <2>1, <2>2 DEF Runs
  <2>5. \A r \in Known' : archives'[r] \in Databases
    BY <2>1, <2>3, <2>4
  <2> HIDE DEF Known
  <2>6. DataType'
    BY <1>1, <2>2, <2>3 DEF Vacuum
  <2>7. KnownData'
    BY <1>1, <2>1, <2>2, <2>4, <2>5 DEF Vacuum, Runs
  <2> QED
    BY <1>1, <2>6, <2>7 DEF Vacuum
<1>2. ASSUME NEW p \in Procs, PickName(p)
      PROVE  DataType' /\ KnownData' /\ BootInv'
  <2>1. PICK k \in Suffixes : OpenPartial(p, <<now, k>>)
    BY <1>2 DEF PickName
  <2> DEFINE n == <<now, k>>
             i == IF partial[n] = None THEN proc[p].run ELSE partial[n]
  <2>2. n \in Names /\ i \in Runs
    BY <1>2, <2>1 DEF PickName, Names, ProcType, Holds
  <2>3. /\ bytes' = [bytes EXCEPT ![i] = {}] /\ partial' = [partial EXCEPT ![n] = i]
        /\ shared' \in {shared, shared \cup {n}}
    BY <2>1 DEF OpenPartial
  <2> HIDE DEF n, i
  <2>4. bytes' \in [Runs -> Contents] /\ \A j \in Runs : bytes'[j] \subseteq Known
    BY <2>3 DEF Contents
  <2>5. partial' \in [Names -> Runs \cup {None}] /\ shared' \subseteq Names
    BY <2>2, <2>3
  <2> QED
    BY <1>2, <2>4, <2>5 DEF PickName
<1>3. ASSUME NEW p \in Procs, WriteArchive(p)
      PROVE  DataType' /\ KnownData' /\ BootInv'
  <2>1. proc[p].inode \in Runs /\ proc[p].run \in Runs /\ proc[p].run \in Known
    BY <1>3 DEF WriteArchive, ProcType, KnownProc, Knows, Holds
  <2>2. bytes' \in [Runs -> Contents] /\ \A j \in Runs : bytes'[j] \subseteq Known
    BY <1>3, <2>1 DEF WriteArchive, Contents
  <2> QED
    BY <1>3, <2>2 DEF WriteArchive
<1>4. ASSUME NEW p \in Procs, WriteFails(p)
      PROVE  DataType' /\ KnownData' /\ BootInv'
  BY <1>4, CountedType DEF WriteFails, Fault
<1>5. ASSUME NEW p \in Procs, Rename(p)
      PROVE  DataType' /\ KnownData' /\ BootInv'
  BY <1>5 DEF Rename
<1>6. ASSUME NEW p \in Procs, statAndSHA(p)
      PROVE  DataType' /\ KnownData' /\ BootInv'
  BY <1>6 DEF statAndSHA
<1>7. ASSUME NEW p \in Procs, InsertRow(p)
      PROVE  DataType' /\ KnownData' /\ BootInv'
  <2>1. db \in Databases /\ proc[p].name \in Names /\ proc[p].sum \in Contents
    BY <1>7 DEF InsertRow, ProcType, Holds, Goroutine
  <2> DEFINE row == [id |-> db.seq + 1, sum |-> proc[p].sum, created |-> now]
  <2>2. db.seq + 1 \in Nat /\ row \in BackupRow
    BY <2>1 DEF Databases, BackupRow
  <2>3. db' = db \/ db' = [db EXCEPT !.seq = db.seq + 1, !.rows[proc[p].name] = row]
    BY <1>7 DEF InsertRow
  <2> HIDE DEF row
  <2>4. [db EXCEPT !.seq = db.seq + 1, !.rows[proc[p].name] = row] \in Databases
    BY <2>1, <2>2, RowPut
  <2>5. db' \in Databases
    BY <2>1, <2>3, <2>4
  <2> QED
    BY <1>7, <2>5 DEF InsertRow
<1>8. ASSUME NEW p \in Procs, InsertFails(p)
      PROVE  DataType' /\ KnownData' /\ BootInv'
  BY <1>8, CountedType DEF InsertFails, Fault
<1>9. ASSUME NEW p \in Procs, List(p)
      PROVE  DataType' /\ KnownData' /\ BootInv'
  BY <1>9 DEF List
<1>10. ASSUME NEW p \in Procs, PurgeNext(p)
      PROVE  DataType' /\ KnownData' /\ BootInv'
  BY <1>10 DEF PurgeNext
<1>11. ASSUME NEW p \in Procs, PurgeDone(p)
      PROVE  DataType' /\ KnownData' /\ BootInv'
  BY <1>11 DEF PurgeDone
<1>12. ASSUME NEW p \in Procs, RemoveFile(p)
      PROVE  DataType' /\ KnownData' /\ BootInv'
  BY <1>12 DEF RemoveFile
<1>13. ASSUME NEW p \in Procs, DeleteRow(p)
      PROVE  DataType' /\ KnownData' /\ BootInv'
  <2>1. db \in Databases /\ proc[p].name \in Names
    BY <1>13 DEF DeleteRow, ProcType, Holds
  <2>2. db' = db \/ db' = [db EXCEPT !.rows[proc[p].name] = None]
    BY <1>13 DEF DeleteRow
  <2>3. [db EXCEPT !.rows[proc[p].name] = None] \in Databases
    BY <2>1, RowGone
  <2>4. db' \in Databases
    BY <2>1, <2>2, <2>3
  <2> QED
    BY <1>13, <2>4 DEF DeleteRow
<1>14. ASSUME NEW p \in Procs, DeleteFails(p)
      PROVE  DataType' /\ KnownData' /\ BootInv'
  BY <1>14, CountedType DEF DeleteFails, Fault
<1>15. ASSUME NEW p \in Procs, CheckSum(p)
      PROVE  DataType' /\ KnownData' /\ BootInv'
  BY <1>15 DEF CheckSum
<1>16. ASSUME NEW p \in Procs, Extract(p)
      PROVE  DataType' /\ KnownData' /\ BootInv'
  <2> DEFINE got == IF proc[p].name = None THEN proc[p].sum
                    ELSE IF files[proc[p].name] = None THEN {} ELSE bytes[files[proc[p].name]]
  <2>1. /\ proc[p].sum \in Contents /\ proc[p].sum \subseteq Known
        /\ proc[p].name \in Names \cup {None}
    BY DEF ProcType, KnownProc, Knows, Goroutine
  <2>2. got \in Contents /\ got \subseteq Known
    BY <2>1 DEF Contents
  <2>3. payload' \in {[payload EXCEPT ![now] = {}], [payload EXCEPT ![now] = got]}
    BY <1>16 DEF Extract
  <2> HIDE DEF got
  <2>4. payload' \in [Seconds -> Contents] /\ \A s \in Seconds : payload'[s] \subseteq Known
    BY <2>2, <2>3 DEF Contents
  <2>5. spoiled' \in BOOLEAN
    BY <1>16, Zenon DEF Extract
  <2> QED
    BY <1>16, <2>4, <2>5 DEF Extract
<1>17. ASSUME NEW p \in Procs, Apply(p)
      PROVE  DataType' /\ KnownData' /\ BootInv'
  BY <1>17 DEF Apply
<1>35. ASSUME NEW p \in Procs, ApplyUnknown(p)
      PROVE  DataType' /\ KnownData' /\ BootInv'
  <2>1. waived' \in BOOLEAN
    BY <1>35, Zenon DEF ApplyUnknown
  <2> QED
    BY <1>35, <2>1, CountedType DEF ApplyUnknown, Fault
<1>18. ASSUME NEW p \in Procs, WriteFlag(p)
      PROVE  DataType' /\ KnownData' /\ BootInv'
  BY <1>18 DEF WriteFlag, ProcType, KnownProc, Knows, Holds, Goroutine
<1>19. ASSUME NEW p \in Procs, Exit(p)
      PROVE  DataType' /\ KnownData' /\ BootInv'
  BY <1>19 DEF Exit, GoesDown
<1>20. ASSUME NEW p \in Procs, UploadAndRestore(p)
      PROVE  DataType' /\ KnownData' /\ BootInv'
  BY <1>20, CountedType DEF UploadAndRestore
<1>21. ASSUME NEW p \in Procs, NEW n \in Names, DeleteBackup(p, n)
      PROVE  DataType' /\ KnownData' /\ BootInv'
  BY <1>21, CountedType DEF DeleteBackup
<1>22. ASSUME NEW p \in Procs, NEW n \in Names, RestoreBackup(p, n)
      PROVE  DataType' /\ KnownData' /\ BootInv'
  BY <1>22, CountedType DEF RestoreBackup
<1>23. CASE ReadFlag
  BY <1>23 DEF ReadFlag
<1>24. CASE RemoveDB
  BY <1>24 DEF RemoveDB
<1>25. CASE CopyDB
  <2>1. Source(payload[flag]) \in Databases
    BY <1>25, SourceKnown DEF CopyDB
  <2> QED
    BY <1>25, <2>1 DEF CopyDB
<1>26. CASE CopyFails
  <2>1. Counted("faults")
    BY <1>26 DEF CopyFails, Fault
  <2> QED
    BY <1>26, <2>1, CountedType DEF CopyFails
<1>27. CASE RemovePayload
  <2>1. payload' \in [Seconds -> Contents] /\ \A s \in Seconds : payload'[s] \subseteq Known
    BY <1>27 DEF RemovePayload, Contents
  <2> QED
    BY <1>27, <2>1 DEF RemovePayload
<1>28. CASE RemoveFlag
  BY <1>28 DEF RemoveFlag
<1>29. CASE OpenDB
  <2>1. Fresh \in Databases
    BY BackupsAssumption DEF Fresh, Databases, NoRows
  <2>2. db \in Databases => [db EXCEPT !.schema = Schema] \in Databases
    BY BackupsAssumption DEF Databases
  <2> QED
    BY <1>29, <2>1, <2>2 DEF OpenDB
<1>30. CASE Reconcile
  <2> DEFINE row(n) == IF files[n] = None THEN None
                       ELSE IF db.rows[n] # None THEN db.rows[n]
                       ELSE [id |-> db.seq + files[n], sum |-> bytes[files[n]], created |-> n[1]]
  <2>1. db \in Databases /\ db.seq \in Nat /\ db.rows \in [Names -> BackupRow \cup {None}]
    BY <1>30 DEF Reconcile, Databases
  <2>2. ASSUME NEW n \in Names PROVE row(n) \in BackupRow \cup {None}
    BY <2>1 DEF BackupRow, Names, Runs
  <2>3. db' = [db EXCEPT !.seq = db.seq + MaxRuns, !.rows = [n \in Names |-> row(n)]]
    BY <1>30 DEF Reconcile
  <2> HIDE DEF row
  <2>4. [n \in Names |-> row(n)] \in [Names -> BackupRow \cup {None}] /\ db.seq + MaxRuns \in Nat
    BY <2>1, <2>2, BackupsAssumption
  <2>5. db' \in Databases /\ db'.cfg \in Int
    BY <2>1, <2>3, <2>4 DEF Databases
  <2> QED
    BY <1>30, <2>5 DEF Reconcile, Contents
<1>31. CASE Edit
  <2>1. Counted("edits") /\ counts.edits + 2 \in Int /\ db \in Databases
    BY <1>31 DEF Edit
  <2>2. db' \in Databases
    BY <1>31, <2>1 DEF Edit, Databases
  <2> QED
    BY <1>31, <2>1, <2>2, CountedType DEF Edit
<1>32. CASE Crash
  <2>1. Counted("faults") /\ db' \in {db, Torn}
    BY <1>32 DEF Crash, Fault
  <2> QED
    BY <1>32, <2>1, CountedType DEF Crash, GoesDown
<1>33. CASE Tick
  <2>1. now' \in Seconds
    BY <1>33, BackupsAssumption DEF Tick, Seconds
  <2> QED
    BY <1>33, <2>1 DEF Tick
<1>34. CASE UNCHANGED vars
  BY <1>34 DEF vars
<1> QED
  BY <1>1, <1>2, <1>3, <1>4, <1>5, <1>6, <1>7, <1>8, <1>9, <1>10, <1>11, <1>12,
     <1>13, <1>14, <1>15, <1>16, <1>17, <1>18, <1>19, <1>20, <1>21, <1>22, <1>23, <1>24,
     <1>25, <1>26, <1>27, <1>28, <1>29, <1>30, <1>31, <1>32, <1>33, <1>34, <1>35
     DEF Next, Create, Delete, Restore, Boot

\* Runs are only ever added.
LEMMA KnownGrows ==
    ASSUME SafeInv, [Next]_vars
    PROVE  Known \subseteq Known'
<1>1. counts' = counts \/ \E f \in {"runs", "edits", "deletes", "restores", "faults"} : Counted(f)
  BY DEF Next, vars, Vacuum, Create, PickName, WriteArchive, WriteFails, Rename, statAndSHA,
         InsertRow, InsertFails, Delete, List, PurgeNext, PurgeDone, RemoveFile, DeleteRow,
         DeleteFails, Restore, CheckSum, Extract, Apply, ApplyUnknown, WriteFlag, Exit, UploadAndRestore,
         DeleteBackup, RestoreBackup, Boot, ReadFlag, RemoveDB, CopyDB, CopyFails, RemovePayload,
         RemoveFlag, OpenDB, Reconcile, Edit, Crash, Tick, Fault
<1> QED
  BY <1>1, CountedType DEF SafeInv, DataType, Known

----------------------------------------------------------------------------
\* What each goroutine holds at its step stays what that step needs.
LEMMA ProcStep ==
    ASSUME SafeInv, [Next]_vars
    PROVE  ProcType' /\ KnownProc'
<1> USE DEF At, Goto, createFrame, deleteFrame, prepareFrame, noticeVars, panelFrame
<1>1. /\ Known \subseteq Known' /\ ProcType /\ KnownProc
      /\ \A p \in Procs : Holds(proc[p]) /\ Knows(proc[p], Known) /\ proc[p] \in Goroutine
  BY KnownGrows DEF SafeInv, ProcType, KnownProc
<1>2. Idle \in Goroutine /\ Holds(Idle) /\ Knows(Idle, Known')
  BY IdleType DEF Idle, Knows
<1>3. ASSUME NEW p \in Procs, Vacuum(p)
      PROVE  ProcType' /\ KnownProc'
  <2> DEFINE g == [Idle EXCEPT !.pc = "name", !.run = counts.runs + 1]
  <2>1. counts.runs + 1 \in Runs /\ counts.runs + 1 \in Known'
    <3>1. counts.runs \in Nat /\ counts.runs < MaxRuns /\ Counted("runs") /\ DataType
      BY <1>3 DEF Vacuum, SafeInv, DataType
    <3>2. counts'.runs = counts.runs + 1
      BY <3>1, CountedType
    <3> QED
      BY <3>1, <3>2, BackupsAssumption DEF Runs, Known
  <2>2. g \in Goroutine
    BY <1>1, <1>3, <2>1, <1>2 DEF Vacuum, Goroutine, Steps, Idle
  <2>3. Holds(g) /\ Knows(g, Known')
    BY <1>1, <1>3, <2>1, <1>2 DEF Vacuum, Goroutine, Holds, Knows, Idle
  <2>4. /\ proc' = [proc EXCEPT ![p] = g] \/ Stop(p)
        /\ boot = "serving" /\ boot' = boot
    BY <1>3 DEF Vacuum
  <2> HIDE DEF g
  <2> QED
    BY <1>1, <2>2, <2>3, <2>4, OneSteps
<1>4. ASSUME NEW p \in Procs, PickName(p)
      PROVE  ProcType' /\ KnownProc'
  <2>1. PICK k \in Suffixes : OpenPartial(p, <<now, k>>)
    BY <1>4 DEF PickName
  <2> DEFINE i == IF partial[<<now, k>>] = None THEN proc[p].run ELSE partial[<<now, k>>]
             g == [proc[p] EXCEPT !.pc = "write", !.name = <<now, k>>, !.inode = i]
  <2>2. k \in Suffixes /\ OpenPartial(p, <<now, k>>) /\ partial \in [Names -> Runs \cup {None}]
    BY <2>1 DEF SafeInv, DataType
  <2>3. <<now, k>> \in Names /\ i \in Runs
    BY <1>1, <1>4, <2>2 DEF PickName, Names, Holds, SafeInv, DataType
  <2>4. g \in Goroutine
    BY <1>1, <1>4, <2>2, <2>3 DEF PickName, Goroutine, Steps, Idle
  <2>5. Holds(g) /\ Knows(g, Known')
    BY <1>1, <1>4, <2>2, <2>3 DEF PickName, Goroutine, Holds, Knows, Idle
  <2>6. /\ proc' = [proc EXCEPT ![p] = g] \/ Stop(p)
        /\ boot = "serving" /\ boot' = boot
    BY <1>4, <2>2 DEF PickName, OpenPartial
  <2> HIDE DEF g
  <2> QED
    BY <1>1, <2>4, <2>5, <2>6, OneSteps
<1>5. ASSUME NEW p \in Procs, WriteArchive(p)
      PROVE  ProcType' /\ KnownProc'
  <2> DEFINE g == [proc[p] EXCEPT !.pc = "rename"]
  <2>1. g \in Goroutine
    BY <1>1, <1>5 DEF WriteArchive, Goroutine, Steps, Idle
  <2>2. Holds(g) /\ Knows(g, Known')
    BY <1>1, <1>5 DEF WriteArchive, Goroutine, Holds, Knows, Idle
  <2>3. /\ proc' = [proc EXCEPT ![p] = g] \/ Stop(p)
        /\ boot = "serving" /\ boot' = boot
    BY <1>5 DEF WriteArchive
  <2> HIDE DEF g
  <2> QED
    BY <1>1, <2>1, <2>2, <2>3, OneSteps
<1>6. ASSUME NEW p \in Procs, WriteFails(p)
      PROVE  ProcType' /\ KnownProc'
  <2>1. Stop(p) /\ boot = "serving" /\ boot' = boot
    BY <1>6 DEF WriteFails
  <2> QED
    BY <1>1, <1>2, <2>1, OneSteps
<1>7. ASSUME NEW p \in Procs, Rename(p)
      PROVE  ProcType' /\ KnownProc'
  <2> DEFINE g == [proc[p] EXCEPT !.pc = "sum"]
  <2>1. g \in Goroutine
    BY <1>1, <1>7 DEF Rename, Goroutine, Steps, Idle
  <2>2. Holds(g) /\ Knows(g, Known')
    BY <1>1, <1>7 DEF Rename, Goroutine, Holds, Knows, Idle
  <2>3. /\ proc' = [proc EXCEPT ![p] = g] \/ Stop(p)
        /\ boot = "serving" /\ boot' = boot
    BY <1>7 DEF Rename
  <2> HIDE DEF g
  <2> QED
    BY <1>1, <2>1, <2>2, <2>3, OneSteps
<1>8. ASSUME NEW p \in Procs, statAndSHA(p)
      PROVE  ProcType' /\ KnownProc'
  <2> DEFINE f == files[proc[p].name]
             g == IF f = None THEN Idle ELSE [proc[p] EXCEPT !.pc = "insert", !.sum = bytes[f]]
  <2>1. f # None => bytes[f] \in Contents /\ bytes[f] \subseteq Known
    BY <1>1, <1>8 DEF statAndSHA, SafeInv, DataType, KnownData, Holds
  <2>2. g \in Goroutine
    BY <1>1, <1>8, <1>2, <2>1 DEF statAndSHA, Goroutine, Steps, Idle
  <2>3. Holds(g) /\ Knows(g, Known')
    BY <1>1, <1>8, <1>2, <2>1 DEF statAndSHA, Goroutine, Holds, Knows, Idle
  <2>4. /\ proc' = [proc EXCEPT ![p] = g] \/ Stop(p)
        /\ boot = "serving" /\ boot' = boot
    BY <1>8 DEF statAndSHA
  <2> HIDE DEF g
  <2> QED
    BY <1>1, <2>2, <2>3, <2>4, OneSteps
<1>9. ASSUME NEW p \in Procs, InsertRow(p)
      PROVE  ProcType' /\ KnownProc'
  <2> DEFINE g == [Idle EXCEPT !.pc = "list"]
  <2>1. g \in Goroutine
    BY <1>1, <1>9, <1>2 DEF InsertRow, Goroutine, Steps, Idle
  <2>2. Holds(g) /\ Knows(g, Known')
    BY <1>1, <1>9, <1>2 DEF InsertRow, Goroutine, Holds, Knows, Idle
  <2>3. /\ proc' = [proc EXCEPT ![p] = g] \/ Stop(p)
        /\ boot = "serving" /\ boot' = boot
    BY <1>9 DEF InsertRow
  <2> HIDE DEF g
  <2> QED
    BY <1>1, <2>1, <2>2, <2>3, OneSteps
<1>10. ASSUME NEW p \in Procs, InsertFails(p)
      PROVE  ProcType' /\ KnownProc'
  <2>1. Stop(p) /\ boot = "serving" /\ boot' = boot
    BY <1>10 DEF InsertFails
  <2> QED
    BY <1>1, <1>2, <2>1, OneSteps
<1>11. ASSUME NEW p \in Procs, List(p)
      PROVE  ProcType' /\ KnownProc'
  <2> DEFINE g == [Idle EXCEPT !.pc = "purge",
                    !.todo = {b \in Listed : /\ \E c \in Listed : Newer(c, b)
                                             /\ Retention <= 0 \/ b.created < now - Retention}]
  <2>1. Listed \subseteq Entries
    BY <1>11 DEF List, SafeInv, DataType, Databases, BackupRow, Listed, Entries
  <2>2. g \in Goroutine
    BY <1>1, <1>11, <1>2, <2>1 DEF List, Goroutine, Steps, Idle
  <2>3. Holds(g) /\ Knows(g, Known')
    BY <1>1, <1>11, <1>2, <2>1 DEF List, Goroutine, Holds, Knows, Idle
  <2>4. /\ proc' = [proc EXCEPT ![p] = g] \/ Stop(p)
        /\ boot = "serving" /\ boot' = boot
    BY <1>11 DEF List
  <2> HIDE DEF g
  <2> QED
    BY <1>1, <2>2, <2>3, <2>4, OneSteps
<1>12. ASSUME NEW p \in Procs, PurgeNext(p)
      PROVE  ProcType' /\ KnownProc'
  <2>1. PICK b \in proc[p].todo :
          IF db.rows[b.name] = None \/ db.rows[b.name].id # b.id THEN Stop(p)
          ELSE proc' = [proc EXCEPT ![p] = [@ EXCEPT !.pc = "remove", !.name = b.name,
                                                      !.id = b.id, !.todo = proc[p].todo \ {b}]]
    BY <1>12 DEF PurgeNext
  <2>2. b \in Entries /\ b.name \in Names /\ b.id \in Nat
    BY <1>1, <2>1 DEF Goroutine, Entries
  <2> DEFINE g == [proc[p] EXCEPT !.pc = "remove", !.name = b.name,
                                         !.id = b.id, !.todo = proc[p].todo \ {b}]
  <2>3. g \in Goroutine
    BY <1>1, <1>12, <2>2 DEF PurgeNext, Goroutine, Steps, Idle
  <2>4. Holds(g) /\ Knows(g, Known')
    BY <1>1, <1>12, <2>2 DEF PurgeNext, Goroutine, Holds, Knows, Idle
  <2>5. boot = "serving" /\ boot' = boot
    BY <1>12 DEF PurgeNext
  <2>6. proc' = [proc EXCEPT ![p] = g] \/ Stop(p)
    BY <2>1 DEF Stop
  <2> HIDE DEF g
  <2> QED
    BY <1>1, <2>3, <2>4, <2>6, <2>5, OneSteps
<1>13. ASSUME NEW p \in Procs, PurgeDone(p)
      PROVE  ProcType' /\ KnownProc'
  <2>1. Stop(p) /\ boot = "serving" /\ boot' = boot
    BY <1>13 DEF PurgeDone
  <2> QED
    BY <1>1, <1>2, <2>1, OneSteps
<1>14. ASSUME NEW p \in Procs, RemoveFile(p)
      PROVE  ProcType' /\ KnownProc'
  <2> DEFINE g == [proc[p] EXCEPT !.pc = "row"]
  <2>1. g \in Goroutine
    BY <1>1, <1>14 DEF RemoveFile, Goroutine, Steps, Idle
  <2>2. Holds(g) /\ Knows(g, Known')
    BY <1>1, <1>14 DEF RemoveFile, Goroutine, Holds, Knows, Idle
  <2>3. /\ proc' = [proc EXCEPT ![p] = g] \/ Stop(p)
        /\ boot = "serving" /\ boot' = boot
    BY <1>14 DEF RemoveFile
  <2> HIDE DEF g
  <2> QED
    BY <1>1, <2>1, <2>2, <2>3, OneSteps
<1>15. ASSUME NEW p \in Procs, DeleteRow(p)
      PROVE  ProcType' /\ KnownProc'
  <2> DEFINE g == [proc[p] EXCEPT !.pc = "purge", !.name = None]
  <2>1. g \in Goroutine
    BY <1>1, <1>15 DEF DeleteRow, Goroutine, Steps, Idle
  <2>2. Holds(g) /\ Knows(g, Known')
    BY <1>1, <1>15 DEF DeleteRow, Goroutine, Holds, Knows, Idle
  <2>3. /\ proc' = [proc EXCEPT ![p] = g] \/ Stop(p)
        /\ boot = "serving" /\ boot' = boot
    BY <1>15 DEF DeleteRow
  <2> HIDE DEF g
  <2> QED
    BY <1>1, <2>1, <2>2, <2>3, OneSteps
<1>16. ASSUME NEW p \in Procs, DeleteFails(p)
      PROVE  ProcType' /\ KnownProc'
  <2>1. Stop(p) /\ boot = "serving" /\ boot' = boot
    BY <1>16 DEF DeleteFails
  <2> QED
    BY <1>1, <1>2, <2>1, OneSteps
<1>17. ASSUME NEW p \in Procs, CheckSum(p)
      PROVE  ProcType' /\ KnownProc'
  <2> DEFINE g == [proc[p] EXCEPT !.pc = "extract"]
  <2>1. g \in Goroutine
    BY <1>1, <1>17 DEF CheckSum, Goroutine, Steps, Idle
  <2>2. Holds(g) /\ Knows(g, Known')
    BY <1>1, <1>17 DEF CheckSum, Goroutine, Holds, Knows, Idle
  <2>3. /\ proc' = [proc EXCEPT ![p] = g] \/ Stop(p)
        /\ boot = "serving" /\ boot' = boot
    BY <1>17 DEF CheckSum
  <2> HIDE DEF g
  <2> QED
    BY <1>1, <2>1, <2>2, <2>3, OneSteps
<1>18. ASSUME NEW p \in Procs, Extract(p)
      PROVE  ProcType' /\ KnownProc'
  <2> DEFINE got == IF proc[p].name = None THEN proc[p].sum
                    ELSE IF files[proc[p].name] = None THEN {} ELSE bytes[files[proc[p].name]]
             g == IF Cardinality(got) # 1 THEN Idle
                  ELSE [proc[p] EXCEPT !.pc = "apply", !.sum = got, !.dir = now]
  <2>1. /\ proc[p].name \in Names \cup {None}
        /\ proc[p].sum \in Contents /\ proc[p].sum \subseteq Known
    BY <1>1 DEF Goroutine, Knows
  <2>2. got \in Contents /\ got \subseteq Known /\ now \in Seconds
    BY <2>1 DEF SafeInv, DataType, KnownData, Contents
  <2> HIDE DEF got
  <2>3. got \in Contents /\ got \subseteq Known /\ now \in Seconds
        /\ (Cardinality(got) = 1 => got # {})
    BY <2>2, FS_EmptySet
  <2>4. g \in Goroutine
    BY <1>1, <1>18, <1>2, <2>3 DEF Extract, Goroutine, Steps, Idle
  <2>5. Holds(g) /\ Knows(g, Known')
    BY <1>1, <1>18, <1>2, <2>3 DEF Extract, Goroutine, Holds, Knows, Idle
  <2>6. /\ proc' = [proc EXCEPT ![p] = g] \/ Stop(p)
        /\ boot = "serving" /\ boot' = boot
    BY <1>18 DEF Extract, got
  <2> HIDE DEF g
  <2> QED
    BY <1>1, <2>4, <2>5, <2>6, OneSteps
<1>19. ASSUME NEW p \in Procs, Apply(p) \/ ApplyUnknown(p)
      PROVE  ProcType' /\ KnownProc'
  <2> DEFINE g == [proc[p] EXCEPT !.pc = "flag"]
  <2>1. g \in Goroutine
    BY <1>1, <1>19 DEF Apply, ApplyUnknown, Goroutine, Steps, Idle
  <2>2. Holds(g) /\ Knows(g, Known')
    BY <1>1, <1>19 DEF Apply, ApplyUnknown, Goroutine, Holds, Knows, Idle
  <2>3. /\ proc' = [proc EXCEPT ![p] = g] \/ Stop(p)
        /\ boot = "serving" /\ boot' = boot
    BY <1>19 DEF Apply, ApplyUnknown
  <2> HIDE DEF g
  <2> QED
    BY <1>1, <2>1, <2>2, <2>3, OneSteps
<1>20. ASSUME NEW p \in Procs, WriteFlag(p)
      PROVE  ProcType' /\ KnownProc'
  <2> DEFINE g == [proc[p] EXCEPT !.pc = "exit"]
  <2>1. g \in Goroutine
    BY <1>1, <1>20 DEF WriteFlag, Goroutine, Steps, Idle
  <2>2. Holds(g) /\ Knows(g, Known')
    BY <1>1, <1>20 DEF WriteFlag, Goroutine, Holds, Knows, Idle
  <2>3. /\ proc' = [proc EXCEPT ![p] = g] \/ Stop(p)
        /\ boot = "serving" /\ boot' = boot
    BY <1>20 DEF WriteFlag
  <2> HIDE DEF g
  <2> QED
    BY <1>1, <2>1, <2>2, <2>3, OneSteps
<1>21. ASSUME NEW p \in Procs, UploadAndRestore(p)
      PROVE  ProcType' /\ KnownProc'
  <2> DEFINE g == [Idle EXCEPT !.pc = "extract", !.sum = {Upload}]
  <2>1. {Upload} \in Contents /\ {Upload} \subseteq Known'
    BY DEF Contents, Known
  <2>2. g \in Goroutine
    BY <1>1, <1>21, <1>2, <2>1 DEF UploadAndRestore, Goroutine, Steps, Idle
  <2>3. Holds(g) /\ Knows(g, Known')
    BY <1>1, <1>21, <1>2, <2>1 DEF UploadAndRestore, Goroutine, Holds, Knows, Idle
  <2>4. /\ proc' = [proc EXCEPT ![p] = g] \/ Stop(p)
        /\ boot = "serving" /\ boot' = boot
    BY <1>21 DEF UploadAndRestore
  <2> HIDE DEF g
  <2> QED
    BY <1>1, <2>2, <2>3, <2>4, OneSteps
<1>22. ASSUME NEW p \in Procs, NEW n \in Names, DeleteBackup(p, n)
      PROVE  ProcType' /\ KnownProc'
  <2> DEFINE g == [Idle EXCEPT !.pc = "remove", !.name = n, !.id = db.rows[n].id]
  <2>1. db.rows[n].id \in Nat
    BY <1>22 DEF DeleteBackup, SafeInv, DataType, Databases, BackupRow
  <2>2. g \in Goroutine
    BY <1>1, <1>22, <1>2, <2>1 DEF DeleteBackup, Goroutine, Steps, Idle
  <2>3. Holds(g) /\ Knows(g, Known')
    BY <1>1, <1>22, <1>2, <2>1 DEF DeleteBackup, Goroutine, Holds, Knows, Idle
  <2>4. /\ proc' = [proc EXCEPT ![p] = g] \/ Stop(p)
        /\ boot = "serving" /\ boot' = boot
    BY <1>22 DEF DeleteBackup
  <2> HIDE DEF g
  <2> QED
    BY <1>1, <2>2, <2>3, <2>4, OneSteps
<1>23. ASSUME NEW p \in Procs, NEW n \in Names, RestoreBackup(p, n)
      PROVE  ProcType' /\ KnownProc'
  <2> DEFINE g == [Idle EXCEPT !.pc = "check", !.name = n, !.id = db.rows[n].id]
  <2>1. db.rows[n].id \in Nat
    BY <1>23 DEF RestoreBackup, SafeInv, DataType, Databases, BackupRow
  <2>2. g \in Goroutine
    BY <1>1, <1>23, <1>2, <2>1 DEF RestoreBackup, Goroutine, Steps, Idle
  <2>3. Holds(g) /\ Knows(g, Known')
    BY <1>1, <1>23, <1>2, <2>1 DEF RestoreBackup, Goroutine, Holds, Knows, Idle
  <2>4. /\ proc' = [proc EXCEPT ![p] = g] \/ Stop(p)
        /\ boot = "serving" /\ boot' = boot
    BY <1>23 DEF RestoreBackup
  <2> HIDE DEF g
  <2> QED
    BY <1>1, <2>2, <2>3, <2>4, OneSteps
<1>24. ASSUME NEW p \in Procs, Exit(p)
      PROVE  ProcType' /\ KnownProc'
  BY <1>24, AllStop DEF Exit, GoesDown
<1>25. CASE Crash
  BY <1>25, AllStop DEF Crash, GoesDown
<1>26. CASE Boot \/ Edit \/ Tick \/ UNCHANGED vars
  <2>1. UNCHANGED proc /\ (boot # "serving" \/ boot' = boot)
    BY <1>26 DEF Boot, ReadFlag, RemoveDB, CopyDB, CopyFails, RemovePayload, RemoveFlag, OpenDB,
       Reconcile, bootFrame, Edit, Tick, vars
  <2> QED
    BY <1>1, <2>1, NoneSteps
<1> QED
  BY <1>3, <1>4, <1>5, <1>6, <1>7, <1>8, <1>9, <1>10, <1>11, <1>12, <1>13, <1>14,
     <1>15, <1>16, <1>17, <1>18, <1>19, <1>20, <1>21, <1>22, <1>23, <1>24, <1>25, <1>26
     DEF Next, Create, Delete, Restore

----------------------------------------------------------------------------
\* A step that leaves the restore alone, and no goroutine newly unpacked.
LEMMA ServesOn ==
    ASSUME RestoreInv, boot = "serving", boot' = boot, db'.cfg = db.cfg,
           UNCHANGED <<payload, flag, promised, last, spoiled>>,
           \A q \in Procs : Unpacked(proc'[q]) =>
               /\ Unpacked(proc[q])
               /\ proc'[q].dir = proc[q].dir /\ proc'[q].sum = proc[q].sum
    PROVE  RestoreInv'
  BY DEF RestoreInv, Pending, Wanted

\* The process ends, and the database is left as it was.
LEMMA GoesDownStep ==
    ASSUME IInv, GoesDown, boot # "down", db' = db
    PROVE  RestoreInv'
<1>1. \A p \in Procs : ~Unpacked(proc'[p])
  BY DEF GoesDown, Idle, Unpacked
<1>2. UNCHANGED <<archives, payload, flag, promised, last, spoiled>> /\ boot' = "down"
  BY DEF GoesDown, restoreVars, histVars
<1>3. Pending' = Pending /\ Wanted' = Wanted
  BY <1>2 DEF Pending, Wanted, Source
<1> SUFFICES ASSUME ~spoiled PROVE RestoreInv'
  BY <1>2 DEF RestoreInv
<1>4. ~Pending => db \in Databases /\ db.cfg = Wanted
  BY DEF IInv, SafeInv, DataType, BootInv, RestoreInv, Pending, Wanted
<1> QED
  BY <1>1, <1>2, <1>3, <1>4 DEF IInv, RestoreInv

\* A step of a creation, of a deletion or of a restore before it unpacks leaves
\* the other goroutines where they are, and its own holds no unpacked archive.
LEMMA StaysPacked ==
    ASSUME SafeInv, NEW p \in Procs,
           \/ Vacuum(p) \/ Create(p) \/ Delete(p) \/ UploadAndRestore(p) \/ CheckSum(p)
           \/ \E n \in Names : DeleteBackup(p, n) \/ RestoreBackup(p, n)
    PROVE  (\A q \in Procs \ {p} : proc'[q] = proc[q]) /\ ~Unpacked(proc'[p])
<1> USE DEF At, Goto, Stop, Idle, Unpacked, Goroutine, ProcType
<1>0. /\ SafeInv /\ proc \in [Procs -> Goroutine]
      /\ \A q \in Procs : proc[q] \in Goroutine /\ Holds(proc[q])
  BY DEF SafeInv
<1>1. CASE Vacuum(p) \/ Create(p)
  <2>1. CASE Vacuum(p)
    BY <1>0, <2>1 DEF Vacuum
  <2>2. CASE PickName(p)
    BY <1>0, <2>2 DEF PickName, OpenPartial
  <2>3. CASE WriteArchive(p)
    BY <1>0, <2>3 DEF WriteArchive
  <2>4. CASE WriteFails(p)
    BY <1>0, <2>4 DEF WriteFails
  <2>5. CASE Rename(p)
    BY <1>0, <2>5 DEF Rename
  <2>6. CASE statAndSHA(p)
    <3>1. PICK x : \/ proc' = [proc EXCEPT ![p] = [@ EXCEPT !.pc = "insert", !.sum = x]]
                   \/ Stop(p)
      BY <2>6 DEF statAndSHA
    <3> DEFINE g == [proc[p] EXCEPT !.pc = "insert", !.sum = x]
    <3>2. g.pc = "insert"
      BY <1>0
    <3>3. proc' = [proc EXCEPT ![p] = g] \/ Stop(p)
      BY <3>1
    <3> HIDE DEF g
    <3> QED
      BY <1>0, <3>2, <3>3
  <2>7. CASE InsertRow(p)
    BY <1>0, <2>7 DEF InsertRow
  <2>8. CASE InsertFails(p)
    BY <1>0, <2>8 DEF InsertFails
  <2> QED
    BY <1>1, <2>1, <2>2, <2>3, <2>4, <2>5, <2>6, <2>7, <2>8 DEF Create
<1>2. CASE Delete(p)
  <2>1. CASE List(p)
    BY <1>0, <2>1 DEF List
  <2>2. CASE PurgeNext(p)
    <3>1. PICK b : \/ Stop(p)
                   \/ proc' = [proc EXCEPT ![p] = [@ EXCEPT !.pc = "remove", !.name = b.name,
                                                      !.id = b.id, !.todo = proc[p].todo \ {b}]]
      BY <2>2 DEF PurgeNext
    <3> DEFINE g == [proc[p] EXCEPT !.pc = "remove", !.name = b.name, !.id = b.id,
                                    !.todo = proc[p].todo \ {b}]
    <3>2. g.pc = "remove"
      BY <1>0
    <3>3. proc' = [proc EXCEPT ![p] = g] \/ Stop(p)
      BY <3>1
    <3> HIDE DEF g
    <3> QED
      BY <1>0, <3>2, <3>3
  <2>3. CASE PurgeDone(p)
    BY <1>0, <2>3 DEF PurgeDone
  <2>4. CASE RemoveFile(p)
    BY <1>0, <2>4 DEF RemoveFile
  <2>5. CASE DeleteRow(p)
    <3>1. \/ Stop(p)
          \/ proc' = [proc EXCEPT ![p] = [@ EXCEPT !.pc = "purge", !.name = None]]
      BY <2>5 DEF DeleteRow
    <3> DEFINE g == [proc[p] EXCEPT !.pc = "purge", !.name = None]
    <3>2. g.pc = "purge"
      BY <1>0
    <3>3. proc' = [proc EXCEPT ![p] = g] \/ Stop(p)
      BY <3>1
    <3> HIDE DEF g
    <3> QED
      BY <1>0, <3>2, <3>3
  <2>6. CASE DeleteFails(p)
    BY <1>0, <2>6 DEF DeleteFails
  <2> QED
    BY <1>2, <2>1, <2>2, <2>3, <2>4, <2>5, <2>6 DEF Delete
<1>3. CASE \/ UploadAndRestore(p) \/ CheckSum(p)
           \/ \E n \in Names : DeleteBackup(p, n) \/ RestoreBackup(p, n)
  <2>1. CASE UploadAndRestore(p)
    BY <1>0, <2>1 DEF UploadAndRestore
  <2>2. CASE CheckSum(p)
    BY <1>0, <2>2 DEF CheckSum
  <2>3. CASE \E n \in Names : DeleteBackup(p, n)
    <3>1. PICK n, i : proc' = [proc EXCEPT ![p] = [Idle EXCEPT !.pc = "remove", !.name = n, !.id = i]]
      BY <2>3 DEF DeleteBackup
    <3> DEFINE g == [Idle EXCEPT !.pc = "remove", !.name = n, !.id = i]
    <3>2. g.pc = "remove" /\ proc' = [proc EXCEPT ![p] = g]
      BY <3>1
    <3> HIDE DEF g
    <3> QED
      BY <1>0, <3>2
  <2>4. CASE \E n \in Names : RestoreBackup(p, n)
    <3>1. PICK n, i : proc' = [proc EXCEPT ![p] = [Idle EXCEPT !.pc = "check", !.name = n, !.id = i]]
      BY <2>4 DEF RestoreBackup
    <3> DEFINE g == [Idle EXCEPT !.pc = "check", !.name = n, !.id = i]
    <3>2. g.pc = "check" /\ proc' = [proc EXCEPT ![p] = g]
      BY <3>1
    <3> HIDE DEF g
    <3> QED
      BY <1>0, <3>2
  <2> QED
    BY <1>3, <2>1, <2>2, <2>3, <2>4
<1> QED
  BY <1>1, <1>2, <1>3

\* A pending restore is the promised one across every step.
LEMMA RestoreStep ==
    ASSUME IInv, [Next]_vars
    PROVE  RestoreInv'
<1> USE DEF At, Goto, createFrame, deleteFrame, prepareFrame, noticeVars, panelFrame, restoreVars, histVars,
           bootFrame, bootHist
<1>1. SafeInv /\ RestoreInv /\ \A p \in Procs : proc[p] \in Goroutine /\ Holds(proc[p])
  BY DEF IInv, SafeInv, ProcType
<1>2. ASSUME NEW p \in Procs, Vacuum(p) \/ Create(p) PROVE RestoreInv'
  <2>1. /\ boot = "serving" /\ boot' = boot /\ db'.cfg = db.cfg
        /\ UNCHANGED <<payload, flag, promised, last, spoiled>>
    BY <1>2, <1>1 DEF Vacuum, Create, PickName, WriteArchive, WriteFails, Rename, statAndSHA,
       InsertRow, InsertFails, SafeInv, DataType, Databases
  <2>2. (\A q \in Procs \ {p} : proc'[q] = proc[q]) /\ ~Unpacked(proc'[p])
    BY <1>1, <1>2, StaysPacked
  <2>3. \A q \in Procs : Unpacked(proc'[q]) => proc'[q] = proc[q]
    BY <2>2
  <2> QED
    BY <1>1, <2>1, <2>3, ServesOn
<1>3. ASSUME NEW p \in Procs, Delete(p) PROVE RestoreInv'
  <2>1. /\ boot = "serving" /\ boot' = boot /\ db'.cfg = db.cfg
        /\ UNCHANGED <<payload, flag, promised, last, spoiled>>
    BY <1>3, <1>1 DEF Delete, List, PurgeNext, PurgeDone, RemoveFile, DeleteRow, DeleteFails,
       SafeInv, DataType, Databases
  <2>2. (\A q \in Procs \ {p} : proc'[q] = proc[q]) /\ ~Unpacked(proc'[p])
    BY <1>1, <1>3, StaysPacked
  <2>3. \A q \in Procs : Unpacked(proc'[q]) => proc'[q] = proc[q]
    BY <2>2
  <2> QED
    BY <1>1, <2>1, <2>3, ServesOn
<1>4. ASSUME NEW p \in Procs, \/ UploadAndRestore(p) \/ CheckSum(p)
                              \/ \E n \in Names : DeleteBackup(p, n) \/ RestoreBackup(p, n)
      PROVE  RestoreInv'
  <2>1. /\ boot = "serving" /\ boot' = boot /\ db' = db
        /\ UNCHANGED <<payload, flag, promised, last, spoiled>>
    BY <1>4 DEF UploadAndRestore, CheckSum, DeleteBackup, RestoreBackup
  <2>2. (\A q \in Procs \ {p} : proc'[q] = proc[q]) /\ ~Unpacked(proc'[p])
    BY <1>1, <1>4, StaysPacked
  <2>3. \A q \in Procs : Unpacked(proc'[q]) => proc'[q] = proc[q]
    BY <2>2
  <2> QED
    BY <1>1, <2>1, <2>3, ServesOn
<1>5. ASSUME NEW p \in Procs, Extract(p) PROVE RestoreInv'
  <2> SUFFICES ASSUME ~spoiled' PROVE RestoreInv'
    BY DEF RestoreInv
  <2>1. ~spoiled /\ payload[now] = {} /\ boot = "serving"
    BY <1>5 DEF Extract
  <2>2. PICK got : \/ payload' = [payload EXCEPT ![now] = {}] /\ Stop(p)
                   \/ /\ payload' = [payload EXCEPT ![now] = got]
                      /\ proc' = [proc EXCEPT ![p] = [@ EXCEPT !.pc = "apply", !.sum = got,
                                                               !.dir = now]]
    BY <1>5 DEF Extract
  <2>3. /\ \A s \in Seconds : payload[s] # {} => payload'[s] = payload[s]
        /\ payload \in [Seconds -> Contents] /\ now \in Seconds /\ flag \in Seconds \cup {None}
    BY <2>1, <2>2, <1>1 DEF SafeInv, DataType
  <2>4. UNCHANGED <<db, flag, promised, last, boot>>
    BY <1>5 DEF Extract
  <2>5. ASSUME NEW q \in Procs, Unpacked(proc'[q]) PROVE payload'[proc'[q].dir] = proc'[q].sum
    <3>1. CASE q # p
      <4>1. proc'[q] = proc[q] /\ proc[q].dir \in Seconds
        BY <3>1, <2>2, <2>5, <1>1 DEF Stop, SafeInv, ProcType, Holds, Unpacked
      <4>2. payload[proc[q].dir] = proc[q].sum /\ proc[q].sum # {}
        BY <4>1, <2>1, <2>5, <1>1 DEF RestoreInv, SafeInv, KnownProc, Knows, Unpacked
      <4> QED
        BY <4>1, <4>2, <2>3
    <3>2. CASE q = p /\ Stop(p)
      BY <3>2, <2>5, <1>1 DEF Stop, Idle, Unpacked, SafeInv, ProcType
    <3>3. CASE q = p /\ ~Stop(p)
      <4>1. proc \in [Procs -> Goroutine] /\ proc[p] \in Goroutine
        BY <1>1 DEF SafeInv, ProcType
      <4>2. proc'[p].sum = got /\ proc'[p].dir = now /\ payload'[now] = got
        BY <3>3, <2>2, <2>3, <4>1 DEF Goroutine
      <4> QED
        BY <3>3, <4>2
    <3> QED
      BY <3>1, <3>2, <3>3
  <2>6. flag # None => Pending /\ payload'[flag] = payload[flag]
    BY <2>1, <2>3, <1>1 DEF RestoreInv, Pending
  <2> QED
    BY <1>1, <2>1, <2>4, <2>5, <2>6 DEF RestoreInv, Pending, Wanted
<1>6. ASSUME NEW p \in Procs, Apply(p) \/ ApplyUnknown(p) PROVE RestoreInv'
  <2>1. /\ boot = "serving" /\ boot' = boot /\ db' = db /\ proc[p].pc = "apply"
        /\ UNCHANGED <<payload, flag, promised, last, spoiled>>
        /\ proc' = [proc EXCEPT ![p].pc = "flag"] \/ proc' = [proc EXCEPT ![p] = Idle]
    BY <1>6 DEF Apply, ApplyUnknown, Stop
  <2>2. \A q \in Procs : Unpacked(proc'[q]) => /\ Unpacked(proc[q]) /\ proc'[q].dir = proc[q].dir
                                               /\ proc'[q].sum = proc[q].sum
    BY <2>1, <1>1 DEF SafeInv, ProcType, Goroutine, Unpacked, Idle
  <2> QED
    BY <1>1, <2>1, <2>2, ServesOn
<1>7. ASSUME NEW p \in Procs, WriteFlag(p) PROVE RestoreInv'
  <2> SUFFICES ASSUME ~spoiled PROVE RestoreInv'
    BY <1>7 DEF RestoreInv, WriteFlag
  <2>1. /\ proc[p].pc = "flag" /\ flag' = proc[p].dir /\ promised' = proc[p].sum
        /\ proc' = [proc EXCEPT ![p].pc = "exit"]
        /\ boot = "serving" /\ UNCHANGED <<boot, payload, db, last>>
    BY <1>7 DEF WriteFlag
  <2>2. \A q \in Procs : Unpacked(proc'[q]) => /\ Unpacked(proc[q]) /\ proc'[q].dir = proc[q].dir
                                               /\ proc'[q].sum = proc[q].sum
    BY <2>1, <1>1 DEF SafeInv, ProcType, Goroutine, Unpacked
  <2>3. payload[proc[p].dir] = proc[p].sum /\ proc[p].sum # {} /\ flag' # None
    BY <2>1, <1>1, BackupsAssumption
       DEF RestoreInv, SafeInv, KnownProc, Knows, ProcType, Holds, Unpacked
  <2> QED
    BY <1>1, <2>1, <2>2, <2>3 DEF RestoreInv, Pending, Wanted
<1>8. ASSUME NEW p \in Procs, Exit(p) PROVE RestoreInv'
  BY <1>8, GoesDownStep DEF Exit
<1>9. CASE ReadFlag \/ RemoveDB \/ CopyDB \/ RemovePayload \/ RemoveFlag \/ OpenDB \/ CopyFails
  <2> SUFFICES ASSUME ~spoiled' PROVE RestoreInv'
    BY DEF RestoreInv
  <2>1. /\ boot # "serving" /\ proc' = proc /\ ~spoiled /\ boot' # "serving"
        /\ UNCHANGED <<promised, last, archives>> /\ ~CopyFails
    BY <1>9 DEF ReadFlag, RemoveDB, CopyDB, RemovePayload, RemoveFlag, OpenDB, CopyFails
  <2>2. \A p \in Procs : ~Unpacked(proc'[p])
    BY <2>1, <1>1 DEF SafeInv, ProcType, Idle, Unpacked
  <2>3. Wanted' = Wanted
    BY <2>1 DEF Wanted, Source
  <2>4. CASE ReadFlag
    BY <2>1, <2>2, <2>3, <2>4, <1>1 DEF ReadFlag, RestoreInv, Pending
  <2>5. CASE RemoveDB
    BY <2>1, <2>2, <2>3, <2>5, <1>1 DEF RemoveDB, RestoreInv, Pending
  <2>6. CASE CopyDB
    BY <2>1, <2>2, <2>3, <2>6, <1>1 DEF CopyDB, RestoreInv, Pending, Wanted, SafeInv, BootInv
  <2>7. CASE RemovePayload
    <3>1. payload'[flag] = {} /\ db \in Databases
      BY <2>7, <1>1 DEF RemovePayload, SafeInv, DataType, BootInv
    <3> QED
      BY <2>1, <2>2, <2>3, <2>7, <3>1, <1>1 DEF RemovePayload, RestoreInv, Pending
  <2>8. CASE RemoveFlag
    BY <2>1, <2>2, <2>3, <2>8, <1>1 DEF RemoveFlag, RestoreInv, Pending
  <2>9. CASE OpenDB
    <3>1. flag = None /\ db \in Databases /\ db.cfg = Wanted
      BY <2>1, <2>9, <1>1 DEF OpenDB, RestoreInv, Pending
    <3>2. db' \in Databases /\ db'.cfg = db.cfg /\ boot' = "reconcile"
      BY <2>9, <3>1, ValuesAssumption, BackupsAssumption DEF OpenDB, Databases
    <3> QED
      BY <2>1, <2>2, <2>3, <2>9, <3>1, <3>2 DEF OpenDB, RestoreInv, Pending
  <2> QED
    BY <1>9, <2>1, <2>4, <2>5, <2>6, <2>7, <2>8, <2>9
<1>10. CASE Reconcile
  <2> SUFFICES ASSUME ~spoiled PROVE RestoreInv'
    BY <1>10 DEF RestoreInv, Reconcile
  <2>1. flag = None /\ flag' = None /\ last' = db'.cfg /\ promised' = {} /\ boot' = "serving"
    BY <1>10, <1>1 DEF Reconcile, RestoreInv
  <2>2. \A p \in Procs : ~Unpacked(proc'[p])
    BY <1>10, <1>1 DEF Reconcile, SafeInv, ProcType, Idle, Unpacked
  <2> QED
    BY <2>1, <2>2 DEF RestoreInv, Pending, Wanted
<1>11. CASE Edit
  <2>1. db' = [db EXCEPT !.cfg = last'] /\ db \in Databases /\ boot = "serving"
        /\ UNCHANGED <<payload, flag, promised, spoiled, boot, proc>>
    BY <1>11, <1>1 DEF Edit, SafeInv, DataType
  <2>2. db'.cfg = last'
    BY <2>1 DEF Databases
  <2> QED
    BY <1>1, <2>1, <2>2 DEF RestoreInv, Pending, Wanted
<1>12. CASE Crash
  <2>1. boot # "down" /\ GoesDown /\ (boot = "copy" \/ db' = db)
    BY <1>12 DEF Crash
  <2>2. CASE db' = db
    BY <2>1, <2>2, GoesDownStep
  <2>3. CASE boot = "copy"
    <3>1. \A p \in Procs : ~Unpacked(proc'[p])
      BY <2>1 DEF GoesDown, Idle, Unpacked
    <3>2. /\ Pending /\ boot' = "down"
          /\ UNCHANGED <<archives, payload, flag, promised, last, spoiled>>
      BY <2>1, <2>3, <1>1 DEF GoesDown, SafeInv, BootInv, Pending
    <3> QED
      BY <1>1, <3>1, <3>2 DEF RestoreInv, Pending
  <2> QED
    BY <2>1, <2>2, <2>3
<1>13. CASE Tick \/ UNCHANGED vars
  <2>1. UNCHANGED <<db, archives, payload, flag, proc, boot, promised, last, spoiled>>
    BY <1>13 DEF Tick, vars
  <2> QED
    BY <1>1, <2>1 DEF RestoreInv, Pending, Wanted, Source
<1> QED
  BY <1>2, <1>3, <1>4, <1>5, <1>6, <1>7, <1>8, <1>9, <1>10, <1>11, <1>12, <1>13
     DEF Next, Restore, Boot

----------------------------------------------------------------------------
\* The invariant holds of a panel that was just installed ...
LEMMA InitInv ==
    ASSUME Init
    PROVE  IInv
<1>1. /\ {} \in Contents /\ -1 \in Int
      /\ NoRows \in [Names -> BackupRow \cup {None}] /\ NoRows \in [Names -> Runs \cup {None}]
  BY DEF Contents, NoRows
<1>2. /\ Fresh \in Databases /\ db \in Databases /\ db.cfg = 1
      /\ [Fresh EXCEPT !.cfg = -1, !.schema = UploadSchema] \in Databases
  <2>1. Fresh \in Databases
    BY <1>1, BackupsAssumption DEF Fresh, Databases
  <2>2. [Fresh EXCEPT !.cfg = 1] \in Databases /\ [Fresh EXCEPT !.cfg = 1].cfg = 1
    BY <2>1 DEF Databases
  <2>3. [Fresh EXCEPT !.cfg = -1, !.schema = UploadSchema] \in Databases
    BY <1>1, <2>1, BackupsAssumption DEF Databases
  <2> QED
    BY <2>1, <2>2, <2>3 DEF Init
<1>3. counts.runs = 0 /\ \A r \in Runs \cup {Upload} : archives[r] \in Databases \cup {None}
  BY <1>2 DEF Init
<1>4. /\ \A p \in Procs : proc[p] = Idle
      /\ Idle \in Goroutine /\ Holds(Idle) /\ Idle.pc = "idle" /\ Idle.sum = {}
  BY IdleType DEF Init, Idle
<1>5. ProcType
  BY <1>4 DEF Init, ProcType
<1>6. KnownProc
  BY <1>4 DEF KnownProc, Knows
<1>7. /\ Known = {Upload} /\ archives[Upload] \in Databases
      /\ archives \in [Runs \cup {Upload} -> Databases \cup {None}]
  BY <1>2, <1>3 DEF Init, Known, Runs, Upload
<1>8. KnownData /\ BootInv
  BY <1>3, <1>7, BackupsAssumption DEF Init, KnownData, BootInv
<1>9. 0 \in Seconds /\ 0 \in Nat
  BY BackupsAssumption DEF Seconds
<1>10. DataType
  <2>1. bytes \in [Runs -> Contents] /\ payload \in [Seconds -> Contents]
    BY <1>1 DEF Init
  <2>2. counts \in [runs: Nat, edits: Nat, deletes: Nat, restores: Nat, faults: Nat]
    BY <1>9 DEF Init
  <2>3. partial \in [Names -> Runs \cup {None}] /\ files \in [Names -> Runs \cup {None}]
    BY <1>1 DEF Init
  <2>4. spoiled \in BOOLEAN /\ waived \in BOOLEAN
    BY Zenon DEF Init
  <2>5. /\ flag \in Seconds \cup {None} /\ now \in Seconds /\ boot = "serving"
        /\ promised \in Contents /\ last \in Int /\ shared \subseteq Names
    BY <1>1, <1>9 DEF Init
  <2> QED
    BY <1>2, <1>7, <2>1, <2>2, <2>3, <2>4, <2>5 DEF DataType
<1>11. RestoreInv
  BY <1>2, <1>4 DEF Init, RestoreInv, Pending, Wanted, Unpacked
<1> QED
  BY <1>5, <1>6, <1>8, <1>10, <1>11 DEF IInv, SafeInv

\* ... is kept by every step ...
LEMMA InvStep ==
    ASSUME IInv, [Next]_vars
    PROVE  IInv'
  BY DataStep, ProcStep, RestoreStep DEF IInv, SafeInv

\* ... and so always holds.
LEMMA Invariance == Spec => []IInv
  BY InitInv, InvStep, PTL DEF Spec

\* Every variable of the backups keeps its type, a goroutine at a step holds
\* what the step needs, and nothing but main() runs before the panel serves.
THEOREM TypeCorrect == Spec => []TypeOK
<1>1. IInv => TypeOK
  BY TypeSplit DEF IInv, SafeInv
<1> QED
  BY Invariance, <1>1, PTL

\* A flag found while the panel serves was written by this session's restore:
\* ApplyPending never leaves one that would be applied again at the next boot.
THEOREM FlagIsFreshHolds == Spec => []FlagIsFresh
<1>1. IInv => FlagIsFresh
  BY DEF IInv, RestoreInv, FlagIsFresh, Pending
<1> QED
  BY Invariance, <1>1, PTL

\* Whatever step the process died at, the panel that main() starts serves the
\* archive the operator was promised, or the configuration it last had.
THEOREM BootServesHolds == Spec => BootServes
<1> DEFINE Served == db'.cfg = IF promised = {} THEN last ELSE Source(promised).cfg
<1>1. ASSUME IInv, [Next]_vars, Booted, ~spoiled
      PROVE  Served
  <2>1. boot # "serving" /\ boot' = "serving"
    BY <1>1 DEF Booted
  <2>2. Reconcile
    BY <1>1, <2>1
       DEF Next, vars, Vacuum, Create, PickName, WriteArchive, WriteFails, Rename, statAndSHA,
           InsertRow, InsertFails, Delete, List, PurgeNext, PurgeDone, RemoveFile, DeleteRow,
           DeleteFails, Restore, CheckSum, Extract, Apply, ApplyUnknown, WriteFlag, Exit, UploadAndRestore,
           DeleteBackup, RestoreBackup, Boot, ReadFlag, RemoveDB, CopyDB, CopyFails,
           RemovePayload, RemoveFlag, OpenDB, Edit, Crash, Tick, GoesDown, At
  <2>3. db \in Databases /\ db.cfg = Wanted /\ boot = "reconcile"
    BY <1>1, <2>2 DEF Reconcile, IInv, RestoreInv, Pending
  <2>4. db'.cfg = db.cfg
    BY <2>2, <2>3 DEF Reconcile, Databases
  <2> QED
    BY <2>3, <2>4 DEF Wanted
<1>2. ASSUME IInv, [Next]_vars
      PROVE  [Booted /\ ~spoiled => Served]_vars
  BY <1>1, <1>2
<1>3. IInv /\ [Next]_vars => [Booted /\ ~spoiled => Served]_vars
  BY <1>2
<1> QED
  BY Invariance, <1>3, PTL DEF Spec, BootServes

----------------------------------------------------------------------------
\* The live database, the archive promised and the one about to be are no newer
\* than the panel.
Old(d) == d.schema <= Schema
AgeInv ==
    ~spoiled /\ ~waived =>
      /\ db \in Databases => Old(db)
      /\ promised # {} => Old(Source(promised))
      /\ \A p \in Procs : proc[p].pc = "flag" => Old(Source(proc[p].sum))

\* An archive that is known stays what it is.
LEMMA SourceStays ==
    ASSUME SafeInv, [Next]_vars, NEW c, c \subseteq Known, c # {}
    PROVE  Source(c)' = Source(c)
<1>1. SourceOf(c) \in c
  BY DEF SourceOf
<1>2. \A r \in Known : archives'[r] = archives[r]
  <2>1. CASE \E p \in Procs : Vacuum(p)
    <3>1. /\ archives' = [archives EXCEPT ![counts.runs + 1] = db]
          /\ archives \in [Runs \cup {Upload} -> Databases \cup {None}] /\ counts.runs \in Nat
      BY <2>1 DEF Vacuum, SafeInv, DataType
    <3>2. counts.runs + 1 \notin Known
      BY <3>1 DEF Known, Upload
    <3> QED
      BY <3>1, <3>2
  <2>2. CASE ~\E p \in Procs : Vacuum(p)
    <3>1. archives' = archives
      BY <2>2 DEF Next, vars, Create, PickName, WriteArchive, WriteFails, Rename, statAndSHA,
           InsertRow, InsertFails, Delete, List, PurgeNext, PurgeDone, RemoveFile, DeleteRow,
           DeleteFails, Restore, CheckSum, Extract, Apply, ApplyUnknown, WriteFlag, Exit, UploadAndRestore,
           DeleteBackup, RestoreBackup, Boot, ReadFlag, RemoveDB, CopyDB, CopyFails,
           RemovePayload, RemoveFlag, OpenDB, Reconcile, Edit, Crash, Tick, GoesDown,
           createFrame, deleteFrame, prepareFrame, noticeVars, bootFrame
    <3> QED
      BY <3>1
  <2> QED
    BY <2>1, <2>2
<1> QED
  BY <1>1, <1>2 DEF Source

\* A step that keeps the schema and the promise keeps the ages, if no goroutine
\* newly holds an archive to promise.
LEMMA SameAge ==
    ASSUME SafeInv, AgeInv, [Next]_vars, spoiled' \/ waived' \/ (~spoiled /\ ~waived),
           db' \in Databases => db \in Databases /\ db'.schema = db.schema,
           promised' \in {promised, {}},
           \A q \in Procs : proc'[q].pc = "flag" => proc[q].pc = "flag" /\ proc'[q].sum = proc[q].sum
    PROVE  AgeInv'
<1> SUFFICES ASSUME ~spoiled', ~waived' PROVE AgeInv'
  BY DEF AgeInv
<1>1. ~spoiled /\ ~waived
  OBVIOUS
<1>2. db' \in Databases => Old(db')
  BY <1>1 DEF AgeInv, Old
<1>3. \A c : c \subseteq Known /\ c # {} => Source(c)' = Source(c)
  BY SourceStays
<1>4. promised' # {} => Old(Source(promised))'
  <2>1. promised' # {} => promised' = promised /\ promised \subseteq Known
    BY DEF SafeInv, KnownData
  <2> QED
    BY <1>1, <1>3, <2>1 DEF AgeInv, Old, Source
<1>5. ASSUME NEW q \in Procs, proc'[q].pc = "flag" PROVE Old(Source(proc[q].sum))'
  <2>1. proc[q].pc = "flag" /\ proc'[q].sum = proc[q].sum
    BY <1>5
  <2>2. proc[q].sum \subseteq Known /\ proc[q].sum # {}
    BY <2>1 DEF SafeInv, KnownProc, Knows
  <2> QED
    BY <1>1, <1>3, <2>1, <2>2 DEF AgeInv, Old, Source
<1> QED
  BY <1>2, <1>4, <1>5 DEF AgeInv, Old

\* Every step keeps the ages: Apply refuses an archive newer than a database that
\* is not newer than the panel, or lets it through and is waived; and what the boot
\* copies is the promised one.
LEMMA AgeStep ==
    ASSUME IInv, AgeInv, [Next]_vars
    PROVE  AgeInv'
<1> USE DEF At, createFrame, deleteFrame, prepareFrame, noticeVars, panelFrame, restoreVars, histVars,
           bootFrame, bootHist
<1>1. /\ SafeInv /\ RestoreInv /\ proc \in [Procs -> Goroutine] /\ db \in Databases \cup {Gone, Torn}
      /\ boot \in {"reconcile", "serving"} => db \in Databases
  BY DEF IInv, SafeInv, ProcType, DataType
<1>2. ASSUME NEW p \in Procs,
             \/ Vacuum(p) \/ Create(p) \/ Delete(p) \/ UploadAndRestore(p) \/ CheckSum(p)
             \/ \E n \in Names : DeleteBackup(p, n) \/ RestoreBackup(p, n)
      PROVE  AgeInv'
  <2>1. \A q \in Procs : proc'[q].pc = "flag" => proc'[q] = proc[q]
    BY <1>1, <1>2, StaysPacked DEF Unpacked
  <2>2. UNCHANGED <<promised, spoiled, waived>> /\ boot = "serving"
    BY <1>2 DEF Vacuum, Create, PickName, WriteArchive, WriteFails, Rename, statAndSHA,
       InsertRow, InsertFails, Delete, List, PurgeNext, PurgeDone, RemoveFile, DeleteRow,
       DeleteFails, UploadAndRestore, CheckSum, DeleteBackup, RestoreBackup
  <2>3. db'.schema = db.schema
    BY <1>1, <1>2, <2>2 DEF Vacuum, Create, PickName, WriteArchive, WriteFails, Rename, statAndSHA,
       InsertRow, InsertFails, Delete, List, PurgeNext, PurgeDone, RemoveFile, DeleteRow,
       DeleteFails, UploadAndRestore, CheckSum, DeleteBackup, RestoreBackup, Databases
  <2>4. CASE spoiled \/ waived
    BY <2>2, <2>4 DEF AgeInv
  <2> QED
    BY <1>1, <2>1, <2>2, <2>3, <2>4, SameAge
<1>3. ASSUME NEW p \in Procs, Extract(p) PROVE AgeInv'
  <2>1. /\ UNCHANGED <<db, promised, waived>> /\ (spoiled' \/ ~spoiled)
        /\ Stop(p) \/ \E got : proc' = [proc EXCEPT ![p] = [@ EXCEPT !.pc = "apply", !.sum = got,
                                                                     !.dir = now]]
    BY <1>3 DEF Extract
  <2>2. (\A q \in Procs \ {p} : proc'[q] = proc[q]) /\ proc'[p].pc # "flag"
    <3>1. CASE Stop(p)
      BY <1>1, <3>1 DEF Stop, Idle
    <3>2. CASE ~Stop(p)
      <4>1. PICK got : proc' = [proc EXCEPT ![p] = [@ EXCEPT !.pc = "apply", !.sum = got, !.dir = now]]
        BY <2>1, <3>2
      <4> DEFINE g == [proc[p] EXCEPT !.pc = "apply", !.sum = got, !.dir = now]
      <4>2. g.pc = "apply" /\ proc' = [proc EXCEPT ![p] = g]
        BY <1>1, <4>1 DEF Goroutine
      <4> HIDE DEF g
      <4> QED
        BY <1>1, <4>2
    <3> QED
      BY <3>1, <3>2
  <2>3. CASE waived
    BY <2>1, <2>3 DEF AgeInv
  <2> QED
    BY <1>1, <2>1, <2>2, <2>3, SameAge
<1>4. ASSUME NEW p \in Procs, Apply(p) \/ ApplyUnknown(p) PROVE AgeInv'
  <2> SUFFICES ASSUME ~waived', ~spoiled' PROVE AgeInv'
    BY DEF AgeInv
  <2>1. /\ UNCHANGED <<db, archives, promised, spoiled>> /\ ~waived /\ proc[p].pc = "apply"
        /\ Stop(p) \/ (Goto(p, "flag") /\ ~IsNewer(p))
    BY <1>4 DEF Apply, ApplyUnknown
  <2>2. CASE Stop(p)
    <3>1. \A q \in Procs : proc'[q].pc = "flag" => proc'[q] = proc[q]
      BY <1>1, <2>2 DEF Stop, Idle
    <3> QED
      BY <1>1, <2>1, <3>1, SameAge
  <2>3. CASE Goto(p, "flag") /\ ~IsNewer(p)
    <3>1. \A q \in Procs : proc'[q].sum = proc[q].sum /\ (q # p => proc'[q] = proc[q])
      BY <1>1, <2>3 DEF Goto, Goroutine
    <3>2. Old(db) /\ db \in Databases
      BY <1>1, <1>4, <2>1 DEF AgeInv, Apply, ApplyUnknown
    <3>3. proc[p].sum \subseteq Known /\ proc[p].sum # {}
      BY <1>1, <2>1 DEF SafeInv, KnownProc, Knows
    <3>4. Source(proc[p].sum) \in Databases
      BY <1>1, <3>3, SourceKnown DEF SafeInv
    <3>5. Old(Source(proc[p].sum))
      BY <2>3, <3>2, <3>4, BackupsAssumption DEF Old, IsNewer, Databases
    <3> QED
      BY <2>1, <2>3, <3>1, <3>5 DEF AgeInv, Old, Source
  <2> QED
    BY <2>1, <2>2, <2>3
<1>5. ASSUME NEW p \in Procs, WriteFlag(p) PROVE AgeInv'
  <2>1. /\ UNCHANGED <<db, archives, spoiled, waived>> /\ promised' = proc[p].sum /\ proc[p].pc = "flag"
        /\ proc' = [proc EXCEPT ![p].pc = "exit"]
    BY <1>5 DEF WriteFlag, Goto
  <2>2. proc'[p].pc = "exit" /\ \A q \in Procs : q # p => proc'[q] = proc[q]
    BY <1>1, <2>1 DEF Goroutine
  <2> QED
    BY <2>1, <2>2 DEF AgeInv, Old, Source
<1>6. ASSUME GoesDown, db' \in Databases => db' = db PROVE AgeInv'
  <2>1. \A q \in Procs : proc'[q].pc # "flag"
    BY <1>6 DEF GoesDown, Idle
  <2>2. CASE spoiled \/ waived
    BY <1>6, <2>2 DEF GoesDown, AgeInv
  <2> QED
    BY <1>1, <1>6, <2>1, <2>2, SameAge DEF GoesDown
<1>7. Torn \notin Databases /\ Gone \notin Databases
  BY ValuesAssumption
<1>8. (\E p \in Procs : Exit(p)) \/ Crash => AgeInv'
  BY <1>6, <1>7 DEF Exit, Crash
<1>9. CASE ReadFlag \/ RemoveDB \/ RemovePayload \/ RemoveFlag \/ CopyFails \/ Reconcile
  <2>1. /\ proc' = proc /\ promised' \in {promised, {}}
        /\ (spoiled => spoiled') /\ waived' = waived
    BY <1>9 DEF ReadFlag, RemoveDB, RemovePayload, RemoveFlag, CopyFails, Reconcile
  <2>2. db' \in Databases => db \in Databases /\ db'.schema = db.schema
    BY <1>1, <1>7, <1>9
       DEF ReadFlag, RemoveDB, RemovePayload, RemoveFlag, CopyFails, Reconcile, Databases
  <2>3. CASE spoiled' \/ waived'
    BY <2>3 DEF AgeInv
  <2>4. CASE ~spoiled' /\ ~waived'
    <3>1. ~spoiled /\ ~waived
      BY <2>1, <2>4
    <3> QED
      BY <1>1, <2>1, <2>2, <3>1, SameAge
  <2> QED
    BY <2>3, <2>4
<1>10. CASE CopyDB
  <2> SUFFICES ASSUME ~spoiled, ~waived PROVE AgeInv'
    BY <1>10 DEF AgeInv, CopyDB
  <2>1. /\ boot = "copy" /\ db' = Source(payload[flag])
        /\ UNCHANGED <<archives, proc, promised, spoiled>>
    BY <1>10 DEF CopyDB
  <2>2. promised # {} /\ payload[flag] = promised
    BY <1>1, <2>1 DEF SafeInv, BootInv, RestoreInv, Pending
  <2> QED
    BY <2>1, <2>2 DEF AgeInv, Old, Source
<1>11. CASE OpenDB
  <2>1. UNCHANGED <<archives, proc, promised, spoiled, waived>>
    BY <1>11 DEF OpenDB
  <2>2. ~spoiled /\ ~waived /\ db' \in Databases => Old(db')
    <3>1. CASE db' = Fresh
      BY <3>1, BackupsAssumption DEF Fresh, Old
    <3>2. CASE db' = db
      BY <3>2 DEF AgeInv, Old
    <3>3. CASE db' = [db EXCEPT !.schema = Schema] /\ db \in Databases
      BY <3>3, BackupsAssumption DEF Old, Databases
    <3> QED
      BY <1>1, <1>11, <3>1, <3>2, <3>3 DEF OpenDB
  <2> QED
    BY <2>1, <2>2 DEF AgeInv, Old, Source
<1>12. CASE Edit
  <2>1. db' = [db EXCEPT !.cfg = counts.edits + 2] /\ db \in Databases
        /\ UNCHANGED <<proc, promised, spoiled, waived>>
    BY <1>1, <1>12 DEF Edit
  <2>2. db'.schema = db.schema
    BY <2>1 DEF Databases
  <2>3. CASE spoiled \/ waived
    BY <2>1, <2>3 DEF AgeInv
  <2> QED
    BY <1>1, <2>1, <2>2, <2>3, SameAge
<1>13. CASE Tick \/ UNCHANGED vars
  BY <1>1, <1>13 DEF Tick, vars, AgeInv, Old, Source
<1> QED
  BY <1>2, <1>3, <1>4, <1>5, <1>8, <1>9, <1>10, <1>11, <1>12, <1>13 DEF Next, Restore, Boot

\* Apply's "downgrade blocked": with no bound on restores and crashes, the panel
\* never serves a database newer than itself, if every version it had to compare
\* was known.
THEOREM NoDowngradeHolds == Spec => []NoDowngrade
<1>1. Init => AgeInv
  <2> SUFFICES ASSUME Init PROVE AgeInv
    OBVIOUS
  <2>1. Fresh \in Databases /\ Fresh.schema = Schema
    BY BackupsAssumption DEF Fresh, Databases, NoRows
  <2>2. db.schema = Schema /\ Schema \in Nat
    BY <2>1, BackupsAssumption DEF Init, Databases
  <2>3. promised = {} /\ \A p \in Procs : proc[p].pc = "idle"
    BY DEF Init, Idle
  <2> QED
    BY <2>2, <2>3 DEF AgeInv, Old
<1>2. IInv /\ AgeInv /\ [Next]_vars => AgeInv'
  BY AgeStep
<1>3. IInv /\ AgeInv => NoDowngrade
  BY DEF IInv, SafeInv, DataType, AgeInv, Old, NoDowngrade
<1> QED
  BY Invariance, <1>1, <1>2, <1>3, PTL DEF Spec
----------------------------------------------------------------------------
\* An inode is one name's: that under which it is found, or being written.
Uses(i, n) == \/ partial[n] = i \/ files[n] = i
              \/ \E p \in Procs : proc[p].pc = "write" /\ proc[p].inode = i /\ proc[p].name = n
InodesInv ==
    /\ \A i \in Runs : \A n, m \in Names : Uses(i, n) /\ Uses(i, m) => n = m
    /\ \A i \in Runs : \A n \in Names : Uses(i, n) => i <= counts.runs
    /\ \A p \in Procs : proc[p].pc = "name" =>
          /\ \A n \in Names : ~Uses(proc[p].run, n)
          /\ \A q \in Procs \ {p} : proc[q].pc = "name" => proc[q].run # proc[p].run

Given  == Names \ shared
Making == {"write", "rename", "sum", "insert"}

\* No table has a row for the name: neither the live one nor that of a snapshot,
\* which a restore may yet bring back.
Unlisted(n) ==
    /\ db \in Databases => db.rows[n] = None
    /\ \A r \in Runs : archives[r] \in Databases => archives[r].rows[n] = None

\* A goroutine that makes a backup has its name for itself, and finds there what
\* it put there.
Makes(p) == proc[p].pc \in Making /\ proc[p].name \in Given =>
    /\ \A q \in Procs \ {p} : proc[q].name # proc[p].name
    /\ Unlisted(proc[p].name)
    /\ proc[p].pc = "write" => partial[proc[p].name] = proc[p].inode
    /\ proc[p].pc = "rename" => partial[proc[p].name] # None
    /\ proc[p].pc \in {"sum", "insert"} => files[proc[p].name] # None
    /\ proc[p].pc = "insert" => proc[p].sum = bytes[files[proc[p].name]]

MakingInv == \A p \in Procs : Makes(p)

\* One that deletes a backup has the id of its row.
DeletingInv == \A p \in Procs : proc[p].pc \in {"remove", "row"} /\ proc[p].name \in Given =>
    (db.rows[proc[p].name] # None => db.rows[proc[p].name].id = proc[p].id)

\* Whichever table is served, its rows vouch for the files.
Matches(row, n) == row # None /\ files[n] # None => row.sum = bytes[files[n]]
VouchInv == \A n \in Given :
    /\ db \in Databases => Matches(db.rows[n], n)
    /\ \A r \in Runs : archives[r] \in Databases => Matches(archives[r].rows[n], n)

FilesInv ==
    /\ archives[Upload] \in Databases /\ archives[Upload].rows = NoRows
    /\ InodesInv /\ MakingInv /\ DeletingInv /\ VouchInv /\ RowsHaveFiles

\* The goroutine that steps changes, and no other.
LEMMA OneMoves ==
    ASSUME ProcType, NEW p \in Procs, NEW g, proc' = [proc EXCEPT ![p] = g]
    PROVE  proc'[p] = g /\ \A q \in Procs \ {p} : proc'[q] = proc[q]
  BY DEF ProcType

\* What the proofs below use of the types.
LEMMA FilesTypes ==
    ASSUME SafeInv
    PROVE  /\ None \notin Runs /\ None \notin Names
           /\ boot = "serving" => db \in Databases
           /\ bytes \in [Runs -> Contents]
           /\ partial \in [Names -> Runs \cup {None}] /\ files \in [Names -> Runs \cup {None}]
           /\ \A p \in Procs : Holds(proc[p]) /\ proc[p] \in Goroutine
           /\ \A p \in Procs : proc[p].pc = "name" => proc[p].run \in Runs /\ proc[p].run <= counts.runs
           /\ proc \in [Procs -> Goroutine] /\ counts.runs \in Nat /\ shared \subseteq Names
<1>1. DataType /\ ProcType /\ KnownProc
  BY DEF SafeInv
<1>2. \A p \in Procs : Holds(proc[p]) /\ Knows(proc[p], Known) /\ proc[p] \in Goroutine
  BY <1>1 DEF ProcType, KnownProc
<1>3. \A p \in Procs : proc[p].pc = "name" => proc[p].run \in Runs /\ proc[p].run \in Known
  BY <1>2 DEF Holds, Knows
<1>4. \A r \in Runs \cap Known : r <= counts.runs
  BY DEF Known, Runs, Upload
<1> QED
  BY <1>1, <1>2, <1>3, <1>4, BackupsAssumption DEF DataType, ProcType

\* The names in use shrink with the maps and the writers.
LEMMA InodesShrink ==
    ASSUME SafeInv, InodesInv,
           \A n \in Names : partial'[n] \in {partial[n], None} /\ files'[n] \in {files[n], partial[n], None},
           \A q \in Procs : proc'[q].pc \in {"name", "write"} => proc'[q] = proc[q],
           counts'.runs = counts.runs
    PROVE  InodesInv'
<1>1. ASSUME NEW i, i # None, NEW n \in Names, Uses(i, n)' PROVE Uses(i, n)
  BY <1>1, BackupsAssumption DEF Uses
<1>2. \A p \in Procs : proc'[p].pc = "name" => proc'[p].run = proc[p].run /\ proc[p].pc = "name"
  BY Zenon
<1> QED
  BY <1>1, <1>2, FilesTypes DEF InodesInv

\* A step that leaves tables, disk and the steps of makers and deleters alone: its
\* goroutine takes no name, but that of a row.
LEMMA QuietFiles ==
    ASSUME SafeInv, FilesInv, NEW p \in Procs, boot = "serving", boot' = boot,
           UNCHANGED <<db, archives, bytes, partial, files, shared>>, counts'.runs = counts.runs,
           \A q \in Procs \ {p} : proc'[q] = proc[q],
           proc'[p].pc \notin {"name", "remove", "row"} \cup Making,
           proc'[p].name \in {proc[p].name, None} \/ db.rows[proc'[p].name] # None,
           proc[p].pc = "row" => "delete" \in Faults
    PROVE  FilesInv'
<1>1. InodesInv'
  BY InodesShrink DEF FilesInv, Making
<1>2. MakingInv'
  BY FilesTypes DEF FilesInv, MakingInv, Makes, Given, Unlisted, Making
<1>3. DeletingInv'
  BY DEF FilesInv, DeletingInv, Given
<1>4. VouchInv'
  BY DEF FilesInv, VouchInv, Matches, Given
<1>5. RowsHaveFiles'
  BY DEF FilesInv, RowsHaveFiles
<1> QED
  BY <1>1, <1>2, <1>3, <1>4, <1>5 DEF FilesInv

\* The process ends, or main() starts: no goroutine is left, and a table that may
\* be served is one that might have been.
LEMMA DownFiles ==
    ASSUME SafeInv, FilesInv, UNCHANGED <<archives, bytes, partial, files, shared>>,
           counts'.runs = counts.runs, boot' # "serving", proc' = [p \in Procs |-> Idle],
           db' \in Databases => \/ db \in Databases /\ db'.rows = db.rows
                                \/ db'.rows = NoRows
                                \/ \E r \in Runs : archives[r] \in Databases /\ db' = archives[r]
    PROVE  FilesInv'
<1>1. \A p \in Procs : proc'[p].pc = "idle"
  BY DEF Idle
<1>2. InodesInv'
  BY <1>1, InodesShrink DEF FilesInv
<1>3. MakingInv' /\ DeletingInv' /\ RowsHaveFiles'
  BY <1>1 DEF MakingInv, Makes, DeletingInv, Making, RowsHaveFiles
<1>4. \A n \in Given : db' \in Databases => Matches(db'.rows[n], n)
  <2>1. \A n \in Given : Matches(NoRows[n], n)
    BY DEF Given, NoRows, Matches
  <2> QED
    BY <2>1 DEF FilesInv, VouchInv
<1>5. VouchInv'
  BY <1>4 DEF FilesInv, VouchInv, Matches, Given
<1> QED
  BY <1>2, <1>3, <1>5 DEF FilesInv

\* A goroutine that makes a backup is not disturbed by what another does to the
\* name that one has.
LEMMA OthersMake ==
    ASSUME SafeInv, MakingInv, NEW p \in Procs, NEW q \in Procs \ {p},
           \A r \in Procs \ {p} : proc'[r] = proc[r],
           shared' = shared, boot = "serving",
           proc'[p].name \in {proc[p].name, None} \/ db.rows[proc'[p].name] # None,
           \A o \in Given : o # proc[p].name =>
               /\ Unlisted(o) => Unlisted(o)'
               /\ partial'[o] = partial[o] /\ files'[o] = files[o]
               /\ files[o] # None => bytes'[files[o]] = bytes[files[o]]
    PROVE  Makes(q)'
<1> SUFFICES ASSUME NEW o \in Given, o = proc[q].name, proc[q].pc \in Making
             PROVE  /\ \A r \in Procs \ {q} : proc'[r].name # o
                    /\ Unlisted(o)'
                    /\ proc[q].pc = "write" => partial'[o] = proc[q].inode
                    /\ proc[q].pc = "rename" => partial'[o] # None
                    /\ proc[q].pc \in {"sum", "insert"} => files'[o] # None
                    /\ proc[q].pc = "insert" => proc[q].sum = bytes'[files'[o]]
  BY DEF Makes, Given, Unlisted
<1>1. /\ \A r \in Procs \ {q} : proc[r].name # o
      /\ Unlisted(o)
      /\ proc[q].pc = "write" => partial[o] = proc[q].inode
      /\ proc[q].pc = "rename" => partial[o] # None
      /\ proc[q].pc \in {"sum", "insert"} => files[o] # None
      /\ proc[q].pc = "insert" => proc[q].sum = bytes[files[o]]
  BY DEF MakingInv, Makes
<1>2. o # proc[p].name /\ o # None /\ db.rows[o] = None
  BY <1>1, FilesTypes DEF Unlisted, Given
<1>3. \A r \in Procs \ {q} : proc'[r].name # o
  BY <1>1, <1>2
<1> QED
  BY <1>1, <1>2, <1>3

\* Making a backup keeps the invariant.
LEMMA CreateFiles ==
    ASSUME SafeInv, FilesInv, NEW p \in Procs, Vacuum(p) \/ Create(p)
    PROVE  FilesInv'
<1> USE DEF At, Goto, createFrame, panelFrame, restoreVars, diskVars
<1>1. InodesInv /\ MakingInv /\ DeletingInv /\ VouchInv /\ RowsHaveFiles
  BY DEF FilesInv
<1>2. CASE Vacuum(p)
  <2> DEFINE g == [Idle EXCEPT !.pc = "name", !.run = counts.runs + 1]
  <2>1. /\ g.pc = "name" /\ g.run = counts.runs + 1 /\ g.name = None
        /\ proc' = [proc EXCEPT ![p] = g] /\ proc[p].pc = "idle"
    BY <1>2 DEF Vacuum, Idle
  <2> HIDE DEF g
  <2>2. proc'[p] = g /\ \A q \in Procs \ {p} : proc'[q] = proc[q]
    BY <2>1, OneMoves DEF SafeInv
  <2>3. /\ archives' = [archives EXCEPT ![counts.runs + 1] = db] /\ Counted("runs")
        /\ UNCHANGED <<db, bytes, partial, files, shared, boot>> /\ boot = "serving"
    BY <1>2 DEF Vacuum
  <2>4. counts'.runs = counts.runs + 1 /\ counts.runs \in Nat
    BY <2>3, CountedType DEF SafeInv, DataType
  <2>5. \A i, n : Uses(i, n)' => Uses(i, n)
    BY <2>1, <2>2, <2>3 DEF Uses
  <2>6. InodesInv'
    <3>1. \A i \in Runs : \A n, m \in Names : Uses(i, n)' /\ Uses(i, m)' => n = m
      BY <1>1, <2>5 DEF InodesInv
    <3>2. \A i \in Runs : \A n \in Names : Uses(i, n)' => i <= counts.runs
      BY <1>1, <2>5 DEF InodesInv
    <3>3. \A i \in Runs : i <= counts.runs => i <= counts.runs + 1 /\ i # counts.runs + 1
      BY <2>4 DEF Runs
    <3>4. counts.runs + 1 \in Runs
      BY <1>2, <2>4, BackupsAssumption DEF Vacuum, Runs
    <3>5. ASSUME NEW q \in Procs, NEW run, proc'[q].pc = "name", run = proc'[q].run
          PROVE  /\ \A n \in Names : ~Uses(run, n)'
                 /\ \A r \in Procs \ {q} : proc'[r].pc = "name" => proc'[r].run # run
      <4>1. q # p => proc'[q] = proc[q] /\ proc[q].pc = "name"
        BY <2>2, <3>5
      <4>2. \A r \in Procs \ {p} : proc'[r].pc = "name" => proc'[r] = proc[r] /\ proc[r].run # counts.runs + 1
        BY <2>2, <3>3, FilesTypes
      <4>3. CASE q = p
        <5>1. run = counts.runs + 1 /\ run \in Runs
          BY <2>1, <2>2, <3>4, <3>5, <4>3
        <5>2. \A n \in Names : ~Uses(run, n)'
          BY <3>2, <3>3, <5>1
        <5> QED
          BY <4>2, <4>3, <5>1, <5>2
      <4>4. CASE q # p
        <5>1. \A n \in Names : ~Uses(run, n)
          BY <1>1, <3>5, <4>1, <4>4 DEF InodesInv
        <5>2. \A n \in Names : ~Uses(run, n)'
          BY <2>5, <5>1
        <5>3. proc'[p].run # run
          BY <2>1, <2>2, <3>5, <4>2, <4>4
        <5> QED
          BY <1>1, <3>5, <4>1, <4>2, <4>4, <5>2, <5>3 DEF InodesInv
      <4> QED
        BY <4>3, <4>4
    <3>6. \A q \in Procs : proc'[q].pc = "name" =>
            /\ \A n \in Names : ~Uses(proc[q].run, n)'
            /\ \A r \in Procs \ {q} : proc'[r].pc = "name" => proc'[r].run # proc'[q].run
      BY <3>5 DEF Uses
    <3> QED
      BY <2>4, <3>1, <3>2, <3>3, <3>6 DEF InodesInv
  <2>7. \A r \in Runs : archives'[r] \in {archives[r], db}
    BY <2>3, SafeInv DEF SafeInv, DataType
  <2>8. \A q \in Procs : proc'[q].pc \in Making \cup {"remove", "row"} => q # p /\ proc'[q] = proc[q]
    BY <2>1, <2>2 DEF Making
  <2>9. db \in Databases
    BY <2>3, FilesTypes
  <2>10. MakingInv'
    <3>1. \A n : Unlisted(n) => Unlisted(n)'
      BY <2>3, <2>7, <2>9 DEF Unlisted
    <3> QED
      BY <1>1, <2>1, <2>2, <2>3, <2>8, <3>1, FilesTypes DEF MakingInv, Makes, Given
  <2>11. DeletingInv'
    BY <1>1, <2>3, <2>8 DEF DeletingInv, Given
  <2>12. VouchInv'
    BY <1>1, <2>3, <2>7, <2>9 DEF VouchInv, Given, Matches
  <2>13. RowsHaveFiles'
    BY <1>1, <2>1, <2>2, <2>3 DEF RowsHaveFiles
  <2>14. archives'[Upload] = archives[Upload]
    BY <2>3, <2>4 DEF SafeInv, DataType, Upload
  <2> QED
    BY <2>6, <2>10, <2>11, <2>12, <2>13, <2>14 DEF FilesInv
<1>3. CASE PickName(p)
  <2>1. PICK k \in Suffixes : files[<<now, k>>] = None /\ OpenPartial(p, <<now, k>>)
    BY <1>3 DEF PickName
  <2> DEFINE n == <<now, k>>
             i == IF partial[n] = None THEN proc[p].run ELSE partial[n]
             g == [proc[p] EXCEPT !.pc = "write", !.name = n, !.inode = i]
  <2>2. /\ n \in Names /\ i \in Runs /\ files[n] = None
        /\ i = proc[p].run \/ partial[n] = i
        /\ proc[p].pc = "name" /\ boot = "serving" /\ db \in Databases
    BY <1>3, <2>1, FilesTypes DEF PickName, Names, SafeInv, DataType
  <2>3. g.pc = "write" /\ g.name = n /\ g.inode = i
    BY FilesTypes DEF Goroutine
  <2>4. /\ bytes' = [bytes EXCEPT ![i] = {}] /\ partial' = [partial EXCEPT ![n] = i]
        /\ proc' = [proc EXCEPT ![p] = g]
        /\ shared' = IF Taken(p, n) THEN shared \cup {n} ELSE shared
        /\ UNCHANGED <<db, archives, files, boot, counts>>
    BY <1>3, <2>1 DEF PickName, OpenPartial
  <2> HIDE DEF g, i, n
  <2>5. proc'[p] = g /\ \A q \in Procs \ {p} : proc'[q] = proc[q]
    BY <2>4, OneMoves DEF SafeInv
  <2>6. n \in Given' => ~Taken(p, n)
    BY <2>4 DEF Given
  <2>7. Given' \subseteq Given
    BY <2>4 DEF Given
  <2>8. /\ \A m \in Names : Uses(i, m) => m = n
        /\ i <= counts.runs
        /\ \A q \in Procs \ {p} : proc[q].pc = "name" => proc[q].run # i
    <3>1. CASE i = proc[p].run
      BY <1>1, <2>2, <3>1, FilesTypes DEF InodesInv
    <3>2. CASE partial[n] = i
      <4>1. Uses(i, n)
        BY <3>2 DEF Uses
      <4> QED
        BY <1>1, <2>2, <4>1 DEF InodesInv
    <3> QED
      BY <2>2, <3>1, <3>2
  <2>9. \A j, m : Uses(j, m)' => Uses(j, m) \/ (j = i /\ m = n)
    BY <2>2, <2>3, <2>4, <2>5, FilesTypes DEF Uses, SafeInv, DataType
  <2>10. InodesInv'
    <3>1. \A j \in Runs : \A m, o \in Names : Uses(j, m)' /\ Uses(j, o)' => m = o
      BY <1>1, <2>8, <2>9 DEF InodesInv
    <3>2. \A j \in Runs : \A m \in Names : Uses(j, m)' => j <= counts'.runs
      BY <1>1, <2>4, <2>8, <2>9 DEF InodesInv
    <3>3. \A q \in Procs : proc'[q].pc = "name" => q # p /\ proc'[q] = proc[q] /\ proc[q].run # i
      BY <2>3, <2>5, <2>8
    <3>4. ASSUME NEW q \in Procs, NEW run, proc'[q].pc = "name", run = proc'[q].run
          PROVE  \A m \in Names : ~Uses(run, m)'
      <4>1. run # i /\ \A m \in Names : ~Uses(run, m)
        BY <1>1, <3>3, <3>4 DEF InodesInv
      <4> QED
        BY <2>9, <4>1
    <3>5. \A q \in Procs : proc'[q].pc = "name" => \A m \in Names : ~Uses(proc[q].run, m)'
      BY <3>4 DEF Uses
    <3> QED
      BY <1>1, <3>1, <3>2, <3>3, <3>5 DEF InodesInv
  <2>11. \A m \in Names : files[m] # i
    <3>1. \A m \in Names : files[m] = i => Uses(i, m)
      BY DEF Uses
    <3>2. i # None
      BY <2>2, FilesTypes
    <3> QED
      BY <2>2, <2>8, <3>1, <3>2
  <2>12. /\ \A m \in Names : files[m] # None => bytes'[files[m]] = bytes[files[m]]
         /\ \A m \in Names \ {n} : partial'[m] = partial[m]
         /\ partial'[n] = i
    BY <2>2, <2>4, <2>11, FilesTypes
  <2>13. VouchInv'
    BY <1>1, <2>4, <2>7, <2>12 DEF VouchInv, Matches, Given
  <2>14. DeletingInv'
    BY <1>1, <2>3, <2>4, <2>5, <2>7 DEF DeletingInv
  <2>15. RowsHaveFiles'
    BY <1>1, <2>2, <2>4, <2>5 DEF RowsHaveFiles
  <2>16. MakingInv'
    <3>1. ASSUME NEW q \in Procs, NEW o, o = proc'[q].name, proc'[q].pc \in Making, o \in Given'
          PROVE  /\ \A r \in Procs \ {q} : proc'[r].name # o
                 /\ Unlisted(o)'
                 /\ proc'[q].pc = "write" => partial'[o] = proc'[q].inode
                 /\ proc'[q].pc = "rename" => partial'[o] # None
                 /\ proc'[q].pc \in {"sum", "insert"} => files'[o] # None
                 /\ proc'[q].pc = "insert" => proc'[q].sum = bytes'[files'[o]]
      <4>1. CASE q = p
        <5>1. ~Taken(p, n) /\ o = n /\ proc'[q] = g
          BY <2>3, <2>5, <2>6, <3>1, <4>1
        <5>2. \A r \in Procs \ {p} : proc'[r].name # n
          BY <2>5, <5>1 DEF Taken
        <5>3. /\ db.rows[n] = None
              /\ \A r \in Runs : archives[r] # None => archives[r].rows[n] = None
          BY <2>2, <5>1 DEF Taken
        <5>4. Unlisted(o)'
          BY <2>4, <5>1, <5>3, ValuesAssumption DEF Unlisted
        <5> QED
          BY <2>3, <2>12, <4>1, <5>1, <5>2, <5>4
      <4>2. CASE q # p
        <5>1. proc'[q] = proc[q] /\ o = proc[q].name /\ o \in Given
          BY <2>5, <2>7, <3>1, <4>2
        <5>2. o # n
          BY <2>6, <3>1, <4>2, <5>1 DEF Taken
        <5>3. o \in Names /\ \A r \in Procs \ {q} : proc'[r].name # o
          BY <1>1, <2>3, <2>5, <3>1, <5>1, <5>2 DEF MakingInv, Makes, Given
        <5>4. Unlisted(o)
          BY <1>1, <3>1, <5>1 DEF MakingInv, Makes
        <5>5. Unlisted(o)'
          BY <2>4, <5>4 DEF Unlisted
        <5>6. /\ proc[q].pc = "write" => partial[o] = proc[q].inode
              /\ proc[q].pc = "rename" => partial[o] # None
              /\ proc[q].pc \in {"sum", "insert"} => files[o] # None
              /\ proc[q].pc = "insert" => proc[q].sum = bytes[files[o]]
          BY <1>1, <3>1, <5>1 DEF MakingInv, Makes
        <5> QED
          BY <2>4, <2>12, <5>1, <5>2, <5>3, <5>5, <5>6
      <4> QED
        BY <4>1, <4>2
    <3> QED
      BY <3>1 DEF MakingInv, Makes, Unlisted
  <2> QED
    BY <2>4, <2>10, <2>13, <2>14, <2>15, <2>16 DEF FilesInv
<1>4. CASE WriteArchive(p) \/ WriteFails(p) \/ Rename(p) \/ statAndSHA(p) \/ InsertRow(p) \/ InsertFails(p)
  <2> DEFINE n == proc[p].name
             i == proc[p].inode
             f == files[n]
  <2>1. /\ proc[p].pc \in Making /\ n \in Names /\ boot = "serving" /\ db \in Databases
        /\ proc[p] \in Goroutine
        /\ boot' = boot /\ counts'.runs = counts.runs /\ UNCHANGED <<archives, shared>>
    BY <1>4, FilesTypes, CountedType
       DEF WriteArchive, WriteFails, Rename, statAndSHA, InsertRow, InsertFails, Making, Holds,
           Fault, SafeInv
  <2>2. ASSUME n \in Given
        PROVE  /\ \A q \in Procs \ {p} : proc[q].name # n
               /\ Unlisted(n) /\ db.rows[n] = None
    BY <1>1, <2>1, <2>2 DEF MakingInv, Makes, Unlisted
  <2>3. CASE WriteArchive(p)
    <3> DEFINE g == [proc[p] EXCEPT !.pc = "rename"]
    <3>1. g.pc = "rename" /\ g.name = n /\ proc' = [proc EXCEPT ![p] = g]
      BY <2>1, <2>3 DEF WriteArchive, Goroutine
    <3>2. /\ bytes' = [bytes EXCEPT ![i] = bytes[i] \cup {proc[p].run}] /\ proc[p].pc = "write"
          /\ i \in Runs /\ UNCHANGED <<db, partial, files>>
      BY <2>3, FilesTypes DEF WriteArchive, Holds
    <3> HIDE DEF g
    <3>3. proc'[p] = g /\ \A q \in Procs \ {p} : proc'[q] = proc[q]
      BY <3>1, OneMoves DEF SafeInv
    <3>4. Uses(i, n)
      BY <3>2 DEF Uses
    <3>5. \A m \in Names : files[m] = i => m = n
      <4>1. \A m \in Names : files[m] = i => Uses(i, m)
        BY DEF Uses
      <4> QED
        BY <1>1, <2>1, <3>2, <3>4, <4>1 DEF InodesInv
    <3>6. \A m \in Names \ {n} : files[m] # None => bytes'[files[m]] = bytes[files[m]]
      BY <3>2, <3>5, FilesTypes
    <3>7. InodesInv'
      BY <1>1, <2>1, <3>1, <3>2, <3>3, InodesShrink
    <3>8. VouchInv'
      <4>1. ASSUME n \in Given
            PROVE  db.rows[n] = None /\ \A r \in Runs : archives[r] \in Databases => archives[r].rows[n] = None
        BY <2>1, <2>2, <4>1 DEF Unlisted
      <4> QED
        BY <1>1, <2>1, <3>2, <3>6, <4>1 DEF VouchInv, Matches, Given
    <3>9. DeletingInv' /\ RowsHaveFiles'
      BY <1>1, <2>1, <3>1, <3>2, <3>3 DEF DeletingInv, RowsHaveFiles, Given
    <3>10. MakingInv'
      <4>1. n \in Given => partial[n] # None
        BY <1>1, <2>1, <3>2, FilesTypes DEF MakingInv, Makes
      <4>2. Makes(p)'
        BY <2>1, <2>2, <3>1, <3>2, <3>3, <4>1 DEF Makes, Given, Unlisted
      <4>3. \A o : Unlisted(o) => Unlisted(o)'
        BY <2>1, <3>2 DEF Unlisted
      <4>4. ASSUME NEW q \in Procs \ {p} PROVE Makes(q)'
        BY <1>1, <2>1, <3>1, <3>2, <3>3, <3>6, <4>3, OthersMake DEF Given
      <4> QED
        BY <4>2, <4>4 DEF MakingInv
    <3> QED
      BY <2>1, <3>7, <3>8, <3>9, <3>10 DEF FilesInv
  <2>4. CASE WriteFails(p) \/ InsertFails(p)
    <3>1. /\ proc' = [proc EXCEPT ![p] = Idle] /\ Idle.pc = "idle" /\ Idle.name = None
          /\ partial' \in {partial, [partial EXCEPT ![n] = None]}
          /\ UNCHANGED <<db, bytes, files>>
      BY <2>4 DEF WriteFails, InsertFails, Stop, Idle
    <3>2. proc'[p] = Idle /\ \A q \in Procs \ {p} : proc'[q] = proc[q]
      BY <3>1, OneMoves DEF SafeInv
    <3>3. \A m \in Names : partial'[m] \in {partial[m], None} /\ (m # n => partial'[m] = partial[m])
      BY <3>1, FilesTypes
    <3>4. InodesInv'
      BY <1>1, <2>1, <3>1, <3>2, <3>3, InodesShrink
    <3>5. VouchInv' /\ DeletingInv' /\ RowsHaveFiles'
      BY <1>1, <2>1, <3>1, <3>2 DEF VouchInv, Matches, DeletingInv, RowsHaveFiles, Given, Making
    <3>6. MakingInv'
      <4>1. \A o : Unlisted(o) => Unlisted(o)'
        BY <2>1, <3>1 DEF Unlisted
      <4>2. Makes(p)'
        BY <3>1, <3>2 DEF Makes, Making
      <4>3. ASSUME NEW q \in Procs \ {p} PROVE Makes(q)'
        BY <1>1, <2>1, <3>1, <3>2, <3>3, <4>1, OthersMake DEF Given
      <4> QED
        BY <4>2, <4>3 DEF MakingInv
    <3> QED
      BY <2>1, <3>1, <3>4, <3>5, <3>6 DEF FilesInv
  <2>5. CASE Rename(p)
    <3>1. /\ UNCHANGED <<db, bytes>> /\ proc[p].pc = "rename"
          /\ \/ /\ partial[n] = None /\ Stop(p) /\ UNCHANGED <<files, partial>>
             \/ /\ partial[n] # None /\ proc' = [proc EXCEPT ![p].pc = "sum"]
                /\ files' = [files EXCEPT ![n] = partial[n]]
                /\ partial' = [partial EXCEPT ![n] = None]
      BY <2>5 DEF Rename
    <3>2. /\ \A q \in Procs \ {p} : proc'[q] = proc[q]
          /\ \/ proc'[p] = Idle /\ partial[n] = None
             \/ proc'[p].pc = "sum" /\ proc'[p].name = n /\ files'[n] # None
      BY <2>1, <3>1, FilesTypes DEF Stop, Goroutine
    <3>3. /\ \A m \in Names : partial'[m] \in {partial[m], None} /\ files'[m] \in {files[m], partial[m]}
          /\ \A m \in Names \ {n} : partial'[m] = partial[m] /\ files'[m] = files[m]
          /\ files'[n] = None => files[n] = None
      BY <2>1, <3>1, FilesTypes
    <3>4. proc'[p].pc \in {"idle", "sum"} /\ proc'[p].name \in {n, None}
      BY <3>2 DEF Idle
    <3>5. InodesInv'
      BY <1>1, <2>1, <3>2, <3>3, <3>4, InodesShrink
    <3>6. VouchInv'
      <4>1. ASSUME n \in Given
            PROVE  db.rows[n] = None /\ \A r \in Runs : archives[r] \in Databases => archives[r].rows[n] = None
        BY <2>1, <2>2, <4>1 DEF Unlisted
      <4> QED
        BY <1>1, <2>1, <3>1, <3>3, <4>1 DEF VouchInv, Matches, Given
    <3>7. DeletingInv'
      BY <1>1, <2>1, <3>1, <3>2, <3>4 DEF DeletingInv, Given
    <3>8. RowsHaveFiles'
      BY <1>1, <2>1, <3>1, <3>2, <3>3 DEF RowsHaveFiles, Given
    <3>9. MakingInv'
      <4>1. \A o : Unlisted(o) => Unlisted(o)'
        BY <2>1, <3>1 DEF Unlisted
      <4>2. Makes(p)'
        <5>1. proc'[p].pc = "idle" \/ (proc'[p].pc = "sum" /\ proc'[p].name = n /\ files'[n] # None)
          BY <3>2 DEF Idle
        <5>2. CASE proc'[p].pc = "idle"
          BY <5>2 DEF Makes, Making
        <5>3. CASE proc'[p].pc = "sum" /\ proc'[p].name = n /\ files'[n] # None
          BY <2>1, <2>2, <3>1, <3>2, <5>3 DEF Makes, Given, Unlisted
        <5> QED
          BY <5>1, <5>2, <5>3
      <4>3. ASSUME NEW q \in Procs \ {p} PROVE Makes(q)'
        BY <1>1, <2>1, <3>1, <3>2, <3>3, <3>4, <4>1, OthersMake DEF Given
      <4> QED
        BY <4>2, <4>3 DEF MakingInv
    <3> QED
      BY <2>1, <3>5, <3>6, <3>7, <3>8, <3>9 DEF FilesInv
  <2>6. CASE statAndSHA(p)
    <3> DEFINE g == [proc[p] EXCEPT !.pc = "insert", !.sum = bytes[f]]
    <3>1. g.pc = "insert" /\ g.name = n /\ g.sum = bytes[f]
      BY <2>1 DEF Goroutine
    <3>2. /\ Stop(p) \/ (f # None /\ proc' = [proc EXCEPT ![p] = g])
          /\ UNCHANGED <<db, bytes, partial, files>> /\ proc[p].pc = "sum"
      BY <2>6 DEF statAndSHA
    <3> HIDE DEF g
    <3>3. /\ \A q \in Procs \ {p} : proc'[q] = proc[q]
          /\ proc'[p] = Idle \/ (proc'[p] = g /\ f # None)
      BY <3>2, FilesTypes DEF Stop
    <3>4. proc'[p].pc \in {"idle", "insert"} /\ proc'[p].name \in {n, None}
      BY <3>1, <3>3 DEF Idle
    <3>5. InodesInv'
      BY <1>1, <2>1, <3>2, <3>3, <3>4, InodesShrink
    <3>6. VouchInv' /\ DeletingInv' /\ RowsHaveFiles'
      BY <1>1, <2>1, <3>2, <3>3, <3>4 DEF VouchInv, Matches, DeletingInv, RowsHaveFiles, Given
    <3>7. MakingInv'
      <4>1. \A o : Unlisted(o) => Unlisted(o)'
        BY <2>1, <3>2 DEF Unlisted
      <4>2. Makes(p)'
        BY <2>1, <2>2, <3>1, <3>2, <3>3, <3>4 DEF Makes, Making, Given, Unlisted, Idle
      <4>3. ASSUME NEW q \in Procs \ {p} PROVE Makes(q)'
        BY <1>1, <2>1, <3>2, <3>3, <3>4, <4>1, OthersMake DEF Given
      <4> QED
        BY <4>2, <4>3 DEF MakingInv
    <3> QED
      BY <2>1, <3>2, <3>5, <3>6, <3>7 DEF FilesInv
  <2>7. CASE InsertRow(p)
    <3> DEFINE row == [id |-> db.seq + 1, sum |-> proc[p].sum, created |-> now]
               next == [db EXCEPT !.seq = db.seq + 1, !.rows[n] = row]
    <3>1. /\ UNCHANGED <<bytes, partial, files>> /\ proc[p].pc = "insert"
          /\ db' = db \/ (db' = next /\ db.rows[n] = None)
          /\ Stop(p) \/ proc' = [proc EXCEPT ![p] = [Idle EXCEPT !.pc = "list"]]
      BY <2>7 DEF InsertRow
    <3>2. /\ \A q \in Procs \ {p} : proc'[q] = proc[q]
          /\ proc'[p].pc \in {"idle", "list"} /\ proc'[p].name = None
      BY <3>1, FilesTypes DEF Stop, Idle
    <3>3. row.sum = proc[p].sum /\ row \in BackupRow
      <4>1. db.seq + 1 \in Nat /\ now \in Seconds /\ proc[p].sum \in Contents
        BY <2>1 DEF SafeInv, DataType, Goroutine, Databases
      <4> QED
        BY <4>1 DEF BackupRow
    <3> HIDE DEF row
    <3>4. next \in Databases /\ next.rows[n] = row /\ \A m \in Names \ {n} : next.rows[m] = db.rows[m]
      <4>1. db.seq + 1 \in Nat
        BY <2>1 DEF Databases
      <4>2. next \in Databases
        BY <2>1, <3>3, <4>1, RowPut
      <4> QED
        BY <2>1, <4>2 DEF Databases
    <3> HIDE DEF next
    <3>5. /\ \A m \in Names \ {n} : db'.rows[m] = db.rows[m]
          /\ db'.rows[n] = db.rows[n] \/ db'.rows[n] = row
          /\ db' \in Databases
      BY <2>1, <3>1, <3>4
    <3>6. InodesInv'
      BY <1>1, <2>1, <3>1, <3>2, InodesShrink
    <3>7. n \in Given => files[n] # None /\ proc[p].sum = bytes[files[n]]
      BY <1>1, <2>1, <3>1 DEF MakingInv, Makes
    <3>8. VouchInv'
      <4>1. ASSUME NEW m \in Given PROVE Matches(db'.rows[m], m)
        BY <1>1, <2>1, <3>3, <3>5, <3>7 DEF VouchInv, Matches, Given
      <4> QED
        BY <1>1, <2>1, <3>1, <4>1 DEF VouchInv, Matches, Given
    <3>9. DeletingInv'
      <4>1. ASSUME NEW q \in Procs, proc'[q].pc \in {"remove", "row"}, proc'[q].name \in Given
            PROVE  q # p /\ proc'[q] = proc[q] /\ db'.rows[proc[q].name] = db.rows[proc[q].name]
        BY <2>2, <3>2, <3>5, <4>1 DEF Given
      <4> QED
        BY <1>1, <2>1, <4>1 DEF DeletingInv, Given
    <3>10. RowsHaveFiles'
      BY <1>1, <2>1, <3>1, <3>2, <3>5, <3>7 DEF RowsHaveFiles, Given
    <3>11. MakingInv'
      <4>1. \A o \in Given : o # n => (Unlisted(o) => Unlisted(o)')
        BY <2>1, <3>5 DEF Unlisted, Given
      <4>2. Makes(p)'
        BY <3>2 DEF Makes, Making
      <4>3. ASSUME NEW q \in Procs \ {p} PROVE Makes(q)'
        BY <1>1, <2>1, <3>1, <3>2, <4>1, OthersMake DEF Given
      <4> QED
        BY <4>2, <4>3 DEF MakingInv
    <3> QED
      BY <2>1, <3>6, <3>8, <3>9, <3>10, <3>11 DEF FilesInv
  <2> QED
    BY <1>4, <2>3, <2>4, <2>5, <2>6, <2>7
<1> QED
  BY <1>2, <1>3, <1>4 DEF Create

\* So does deleting one ...
LEMMA DeleteFiles ==
    ASSUME SafeInv, FilesInv, NEW p \in Procs,
           \/ PurgeNext(p) \/ RemoveFile(p) \/ DeleteRow(p)
           \/ \E n \in Names : DeleteBackup(p, n)
    PROVE  FilesInv'
<1> USE DEF At, Goto, deleteFrame, panelFrame, restoreVars
<1>1. InodesInv /\ MakingInv /\ DeletingInv /\ VouchInv /\ RowsHaveFiles
  BY DEF FilesInv
<1>2. /\ boot = "serving" /\ boot' = boot /\ counts'.runs = counts.runs
      /\ UNCHANGED <<archives, bytes, partial, shared>> /\ db \in Databases
      /\ proc[p] \in Goroutine /\ Holds(proc[p]) /\ None \notin Names
  BY FilesTypes, CountedType DEF PurgeNext, RemoveFile, DeleteRow, DeleteBackup, SafeInv
<1>3. ASSUME NEW n, NEW id, db.rows[n] # None, db.rows[n].id = id,
             UNCHANGED <<db, files>>, proc[p].pc \in {"purge", "idle"},
             \A q \in Procs \ {p} : proc'[q] = proc[q],
             proc'[p].pc = "remove", proc'[p].name = n, proc'[p].id = id
      PROVE  FilesInv'
  <2>1. InodesInv'
    BY <1>1, <1>2, <1>3, InodesShrink
  <2>2. VouchInv' /\ DeletingInv' /\ RowsHaveFiles'
    BY <1>1, <1>2, <1>3 DEF VouchInv, Matches, DeletingInv, RowsHaveFiles, Given
  <2>3. MakingInv'
    <3>1. \A o : Unlisted(o) => Unlisted(o)'
      BY <1>2, <1>3 DEF Unlisted
    <3>2. Makes(p)'
      BY <1>3 DEF Makes, Making
    <3>3. ASSUME NEW q \in Procs \ {p} PROVE Makes(q)'
      BY <1>1, <1>2, <1>3, <3>1, OthersMake DEF Given
    <3> QED
      BY <3>2, <3>3 DEF MakingInv
  <2> QED
    BY <1>2, <1>3, <2>1, <2>2, <2>3 DEF FilesInv
<1>4. CASE PurgeNext(p) /\ proc' # [proc EXCEPT ![p] = Idle]
  <2>1. PICK b \in proc[p].todo :
          /\ db.rows[b.name] # None /\ db.rows[b.name].id = b.id
          /\ proc' = [proc EXCEPT ![p] = [@ EXCEPT !.pc = "remove", !.name = b.name,
                                              !.id = b.id, !.todo = proc[p].todo \ {b}]]
    BY <1>4 DEF PurgeNext, Stop
  <2> DEFINE g == [proc[p] EXCEPT !.pc = "remove", !.name = b.name, !.id = b.id,
                                  !.todo = proc[p].todo \ {b}]
  <2>2. g.pc = "remove" /\ g.name = b.name /\ g.id = b.id
    BY <1>2 DEF Goroutine
  <2>3. proc' = [proc EXCEPT ![p] = g]
    BY <2>1
  <2> HIDE DEF g
  <2>4. proc'[p] = g /\ \A q \in Procs \ {p} : proc'[q] = proc[q]
    BY <2>3, OneMoves DEF SafeInv
  <2> QED
    BY <1>3, <1>4, <2>1, <2>2, <2>4 DEF PurgeNext
<1>5. CASE PurgeNext(p) /\ proc' = [proc EXCEPT ![p] = Idle]
  <2>1. proc'[p] = Idle /\ \A q \in Procs \ {p} : proc'[q] = proc[q]
    BY <1>5, OneMoves DEF SafeInv
  <2>2. UNCHANGED <<db, files>> /\ proc[p].pc = "purge"
    BY <1>5 DEF PurgeNext
  <2>3. Idle.pc = "idle" /\ Idle.name = None
    BY DEF Idle
  <2> QED
    BY <1>2, <2>1, <2>2, <2>3, QuietFiles DEF Making
<1>6. ASSUME NEW n \in Names, DeleteBackup(p, n) PROVE FilesInv'
  <2> DEFINE g == [Idle EXCEPT !.pc = "remove", !.name = n, !.id = db.rows[n].id]
  <2>1. /\ g.pc = "remove" /\ g.name = n /\ g.id = db.rows[n].id
        /\ proc' = [proc EXCEPT ![p] = g]
    BY <1>6 DEF DeleteBackup, Idle
  <2> HIDE DEF g
  <2>2. proc'[p] = g /\ \A q \in Procs \ {p} : proc'[q] = proc[q]
    BY <2>1, OneMoves DEF SafeInv
  <2> QED
    BY <1>3, <1>6, <2>1, <2>2 DEF DeleteBackup
<1>7. CASE RemoveFile(p)
  <2> DEFINE n == proc[p].name
  <2>1. /\ n \in Names /\ files' = [files EXCEPT ![n] = None] /\ db' = db
        /\ proc' = [proc EXCEPT ![p].pc = "row"] /\ proc[p].pc = "remove"
    BY <1>2, <1>7 DEF RemoveFile, Holds
  <2>2. /\ \A q \in Procs \ {p} : proc'[q] = proc[q]
        /\ proc'[p].pc = "row" /\ proc'[p].name = n /\ proc'[p].id = proc[p].id
    BY <2>1, FilesTypes DEF Goroutine
  <2>3. files'[n] = None /\ \A m \in Names \ {n} : files'[m] = files[m]
    BY <2>1, FilesTypes
  <2>4. InodesInv'
    BY <1>1, <1>2, <2>2, <2>3, InodesShrink
  <2>5. VouchInv'
    BY <1>1, <1>2, <2>1, <2>3 DEF VouchInv, Matches, Given
  <2>6. DeletingInv'
    BY <1>1, <1>2, <2>1, <2>2 DEF DeletingInv, Given
  <2>7. RowsHaveFiles'
    BY <1>1, <1>2, <2>1, <2>2, <2>3 DEF RowsHaveFiles, Given
  <2>8. MakingInv'
    <3>1. \A o : Unlisted(o) => Unlisted(o)'
      BY <1>2, <2>1 DEF Unlisted
    <3>2. Makes(p)'
      BY <2>2 DEF Makes, Making
    <3>3. ASSUME NEW q \in Procs \ {p} PROVE Makes(q)'
      BY <1>1, <1>2, <2>1, <2>2, <2>3, <3>1, OthersMake DEF Given
    <3> QED
      BY <3>2, <3>3 DEF MakingInv
  <2> QED
    BY <1>2, <2>4, <2>5, <2>6, <2>7, <2>8 DEF FilesInv
<1>8. CASE DeleteRow(p)
  <2> DEFINE n == proc[p].name
  <2>1. /\ n \in Names /\ files' = files /\ proc[p].pc = "row"
        /\ db' = IF db.rows[n] # None /\ db.rows[n].id = proc[p].id
                 THEN [db EXCEPT !.rows[n] = None] ELSE db
    BY <1>2, <1>8 DEF DeleteRow, Holds
  <2>2. /\ \A q \in Procs \ {p} : proc'[q] = proc[q]
        /\ proc'[p].pc \in {"idle", "purge"} /\ proc'[p].name = None
    <3>1. Stop(p) \/ proc' = [proc EXCEPT ![p] = [@ EXCEPT !.pc = "purge", !.name = None]]
      BY <1>8 DEF DeleteRow
    <3> DEFINE g == [proc[p] EXCEPT !.pc = "purge", !.name = None]
    <3>2. g.pc = "purge" /\ g.name = None /\ Idle.pc = "idle" /\ Idle.name = None
      BY <1>2 DEF Goroutine, Idle
    <3>3. proc' = [proc EXCEPT ![p] = g] \/ proc' = [proc EXCEPT ![p] = Idle]
      BY <3>1 DEF Stop
    <3> HIDE DEF g
    <3> QED
      BY <3>2, <3>3, OneMoves DEF SafeInv
  <2>3. /\ db' \in Databases /\ \A m \in Names : db'.rows[m] \in {db.rows[m], None}
        /\ \A m \in Names \ {n} : db'.rows[m] = db.rows[m]
        /\ n \in Given => db'.rows[n] = None
    <3>1. [db EXCEPT !.rows[n] = None] \in Databases
      BY <1>2, <2>1, RowGone
    <3>2. n \in Given /\ db.rows[n] # None => db.rows[n].id = proc[p].id
      BY <1>1, <2>1 DEF DeletingInv
    <3> QED
      BY <1>2, <2>1, <3>1, <3>2 DEF Databases
  <2>4. InodesInv'
    BY <1>1, <1>2, <2>1, <2>2, InodesShrink
  <2>5. VouchInv'
    <3>1. ASSUME NEW m \in Given PROVE Matches(db'.rows[m], m)
      BY <1>1, <1>2, <2>3 DEF VouchInv, Matches, Given
    <3> QED
      BY <1>1, <1>2, <2>1, <3>1 DEF VouchInv, Matches, Given
  <2>6. DeletingInv'
    BY <1>1, <1>2, <2>2, <2>3 DEF DeletingInv, Given
  <2>7. RowsHaveFiles'
    BY <1>1, <1>2, <2>1, <2>2, <2>3 DEF RowsHaveFiles, Given
  <2>8. MakingInv'
    <3>1. \A o \in Given : Unlisted(o) => Unlisted(o)'
      BY <1>2, <2>3 DEF Unlisted, Given
    <3>2. Makes(p)'
      BY <2>2 DEF Makes, Making
    <3>3. ASSUME NEW q \in Procs \ {p} PROVE Makes(q)'
      BY <1>1, <1>2, <2>1, <2>2, <2>3, <3>1, OthersMake DEF Given
    <3> QED
      BY <3>2, <3>3 DEF MakingInv
  <2> QED
    BY <1>2, <2>4, <2>5, <2>6, <2>7, <2>8 DEF FilesInv
<1> QED
  BY <1>4, <1>5, <1>6, <1>7, <1>8

\* ... and what only reads the rows and the archives: the list, a restore.
LEMMA OtherFiles ==
    ASSUME SafeInv, FilesInv, NEW p \in Procs,
           \/ List(p) \/ PurgeDone(p) \/ DeleteFails(p) \/ UploadAndRestore(p)
           \/ CheckSum(p) \/ Extract(p) \/ Apply(p) \/ ApplyUnknown(p) \/ WriteFlag(p)
           \/ \E n \in Names : RestoreBackup(p, n)
    PROVE  FilesInv'
<1> USE DEF At, Goto, Stop, deleteFrame, prepareFrame, noticeVars, panelFrame, restoreVars, diskVars
<1>1. /\ boot = "serving" /\ boot' = boot /\ counts'.runs = counts.runs
      /\ UNCHANGED <<db, archives, bytes, partial, files, shared>>
      /\ proc[p] \in Goroutine /\ Idle.pc = "idle" /\ Idle.name = None
      /\ proc[p].pc = "row" => "delete" \in Faults
      /\ proc \in [Procs -> Goroutine]
  BY FilesTypes, CountedType
     DEF List, PurgeDone, DeleteFails, UploadAndRestore, CheckSum, Extract, Apply, ApplyUnknown, WriteFlag,
         RestoreBackup, Fault, SafeInv, Idle
<1>2. ASSUME NEW g, proc' = [proc EXCEPT ![p] = g],
             g.pc \in {"idle", "purge", "extract", "check", "apply", "flag", "exit"},
             g.name \in {proc[p].name, None} \/ db.rows[g.name] # None
      PROVE  FilesInv'
  <2>1. proc'[p] = g /\ \A q \in Procs \ {p} : proc'[q] = proc[q]
    BY <1>2, OneMoves DEF SafeInv
  <2> QED
    BY <1>1, <1>2, <2>1, QuietFiles DEF Making
<1>3. CASE proc' = [proc EXCEPT ![p] = Idle]
  BY <1>1, <1>2, <1>3
<1>4. CASE CheckSum(p) \/ Apply(p) \/ ApplyUnknown(p) \/ WriteFlag(p)
  <2>1. \/ proc' = [proc EXCEPT ![p] = Idle]
        \/ \E step \in {"extract", "flag", "exit"} : proc' = [proc EXCEPT ![p].pc = step]
    BY <1>4 DEF CheckSum, Apply, ApplyUnknown, WriteFlag
  <2>2. ASSUME NEW step \in {"extract", "flag", "exit"}, proc' = [proc EXCEPT ![p].pc = step]
        PROVE  FilesInv'
    <3> DEFINE g == [proc[p] EXCEPT !.pc = step]
    <3>1. g.pc = step /\ g.name = proc[p].name /\ proc' = [proc EXCEPT ![p] = g]
      BY <1>1, <2>2 DEF Goroutine
    <3> HIDE DEF g
    <3> QED
      BY <1>2, <3>1
  <2> QED
    BY <1>3, <2>1, <2>2
<1>5. CASE Extract(p)
  <2>1. \/ proc' = [proc EXCEPT ![p] = Idle]
        \/ \E got : proc' = [proc EXCEPT ![p] = [@ EXCEPT !.pc = "apply", !.sum = got, !.dir = now]]
    BY <1>5 DEF Extract
  <2>2. ASSUME NEW got,
               proc' = [proc EXCEPT ![p] = [@ EXCEPT !.pc = "apply", !.sum = got, !.dir = now]]
        PROVE  FilesInv'
    <3> DEFINE g == [proc[p] EXCEPT !.pc = "apply", !.sum = got, !.dir = now]
    <3>1. g.pc = "apply" /\ g.name = proc[p].name /\ proc' = [proc EXCEPT ![p] = g]
      BY <1>1, <2>2 DEF Goroutine
    <3> HIDE DEF g
    <3> QED
      BY <1>2, <3>1
  <2> QED
    BY <1>3, <2>1, <2>2
<1>6. CASE List(p)
  <2>1. PICK todo : proc' = [proc EXCEPT ![p] = [Idle EXCEPT !.pc = "purge", !.todo = todo]]
    BY <1>6 DEF List
  <2> DEFINE g == [Idle EXCEPT !.pc = "purge", !.todo = todo]
  <2>2. g.pc = "purge" /\ g.name = None /\ proc' = [proc EXCEPT ![p] = g]
    BY <2>1 DEF Idle
  <2> HIDE DEF g
  <2> QED
    BY <1>2, <2>2
<1>7. CASE UploadAndRestore(p)
  <2> DEFINE g == [Idle EXCEPT !.pc = "extract", !.sum = {Upload}]
  <2>1. g.pc = "extract" /\ g.name = None /\ proc' = [proc EXCEPT ![p] = g]
    BY <1>7 DEF UploadAndRestore, Idle
  <2> HIDE DEF g
  <2> QED
    BY <1>2, <2>1
<1>8. ASSUME NEW n \in Names, RestoreBackup(p, n) PROVE FilesInv'
  <2> DEFINE g == [Idle EXCEPT !.pc = "check", !.name = n, !.id = db.rows[n].id]
  <2>1. /\ g.pc = "check" /\ g.name = n /\ proc' = [proc EXCEPT ![p] = g]
        /\ db.rows[n] # None
    BY <1>8 DEF RestoreBackup, Idle
  <2> HIDE DEF g
  <2> QED
    BY <1>2, <2>1
<1> QED
  BY <1>3, <1>4, <1>5, <1>6, <1>7, <1>8 DEF PurgeDone, DeleteFails

\* The panel's end and its start keep it as well: whatever table is swapped in was
\* one of those vouched for, and Reconcile makes up the difference.
LEMMA BootFiles ==
    ASSUME SafeInv, FilesInv, Boot \/ Crash \/ \E p \in Procs : Exit(p)
    PROVE  FilesInv'
<1> USE DEF restoreVars, diskVars, histVars, bootFrame, bootHist
<1>1. Torn \notin Databases /\ Gone \notin Databases
  BY ValuesAssumption
<1>2. CASE Crash \/ \E p \in Procs : Exit(p)
  <2>1. /\ UNCHANGED <<archives, bytes, partial, files, shared>> /\ boot' = "down"
        /\ proc' = [p \in Procs |-> Idle] /\ db' \in {db, Torn}
    BY <1>2 DEF Crash, Exit, GoesDown
  <2>2. counts'.runs = counts.runs
    BY <1>2, CountedType DEF Crash, Exit, Fault, SafeInv
  <2> QED
    BY <1>1, <2>1, <2>2, DownFiles
<1>3. CASE Boot /\ ~Reconcile
  <2>1. /\ boot # "serving" /\ boot' # "serving" /\ proc' = proc
        /\ UNCHANGED <<archives, bytes, partial, files, shared>>
    BY <1>3 DEF Boot, ReadFlag, RemoveDB, CopyDB, CopyFails, RemovePayload, RemoveFlag, OpenDB
  <2>2. proc' = [p \in Procs |-> Idle]
    BY <2>1 DEF SafeInv, ProcType
  <2>3. counts'.runs = counts.runs
    BY <1>3, CountedType
       DEF Boot, ReadFlag, RemoveDB, CopyDB, CopyFails, RemovePayload, RemoveFlag, OpenDB,
           Fault, SafeInv
  <2>4. db' \in Databases => \/ db \in Databases /\ db'.rows = db.rows
                             \/ db'.rows = NoRows
                             \/ \E r \in Runs : archives[r] \in Databases /\ db' = archives[r]
    <3>1. CASE CopyDB
      <4> DEFINE c == payload[flag]
      <4>1. c # {} /\ c \subseteq Known /\ db' = Source(c)
        BY <3>1 DEF CopyDB, SafeInv, BootInv, KnownData, DataType
      <4> HIDE DEF c
      <4>2. PICK r \in c : db' = archives[r]
        BY <4>1 DEF Source, SourceOf
      <4>3. r = Upload \/ (r \in Runs /\ archives[r] \in Databases)
        <5>1. counts.runs <= MaxRuns /\ counts.runs \in Nat /\ MaxRuns \in Nat /\ r \in Known
          BY <4>1, <4>2, BackupsAssumption DEF SafeInv, KnownData, DataType
        <5>2. r = Upload \/ r \in Runs
          BY <5>1 DEF Known, Runs
        <5> QED
          BY <5>1, <5>2 DEF SafeInv, KnownData
      <4> QED
        BY <4>2, <4>3 DEF FilesInv
    <3>2. CASE OpenDB
      <4>1. \/ db' = Fresh \/ db' = db
            \/ db \notin {Gone, Torn} /\ db' = [db EXCEPT !.schema = Schema]
        BY <3>2 DEF OpenDB
      <4>2. Fresh.rows = NoRows
        BY DEF Fresh
      <4>3. db \notin {Gone, Torn} => db \in Databases /\ [db EXCEPT !.schema = Schema].rows = db.rows
        BY DEF SafeInv, DataType, Databases
      <4> QED
        BY <4>1, <4>2, <4>3
    <3>3. CASE ~CopyDB /\ ~OpenDB
      BY <1>1, <1>3, <3>3 DEF Boot, ReadFlag, RemoveDB, CopyFails, RemovePayload, RemoveFlag
    <3> QED
      BY <3>1, <3>2, <3>3
  <2> QED
    BY <2>1, <2>2, <2>3, <2>4, DownFiles
<1>4. CASE Reconcile
  <2> DEFINE row(n) == IF files[n] = None THEN None
                       ELSE IF db.rows[n] # None THEN db.rows[n]
                       ELSE [id |-> db.seq + files[n], sum |-> bytes[files[n]], created |-> n[1]]
  <2>1. /\ db \in Databases /\ boot' = "serving" /\ proc' = proc /\ boot # "serving"
        /\ UNCHANGED <<archives, bytes, partial, files, shared, counts>>
        /\ db' = [db EXCEPT !.seq = db.seq + MaxRuns, !.rows = [n \in Names |-> row(n)]]
    BY <1>4 DEF Reconcile, SafeInv, DataType
  <2>2. \A p \in Procs : proc'[p] = proc[p] /\ proc'[p].pc = "idle"
    BY <2>1 DEF SafeInv, ProcType, Idle
  <2>3. \A n \in Names : db'.rows[n] = row(n)
    BY <2>1 DEF Databases
  <2>4. InodesInv'
    BY <2>1, <2>2, InodesShrink DEF FilesInv
  <2>5. MakingInv' /\ DeletingInv'
    BY <2>2 DEF MakingInv, Makes, Making, DeletingInv
  <2>6. VouchInv'
    <3>1. ASSUME NEW n \in Given PROVE Matches(db'.rows[n], n)
      <4>1. Matches(db.rows[n], n) /\ db'.rows[n] = row(n)
        BY <2>1, <2>3 DEF FilesInv, VouchInv, Given
      <4> QED
        BY <4>1 DEF Matches
    <3> QED
      BY <2>1, <3>1 DEF FilesInv, VouchInv, Matches, Given
  <2>7. RowsHaveFiles'
    BY <2>1, <2>3 DEF RowsHaveFiles
  <2> QED
    BY <2>1, <2>4, <2>5, <2>6, <2>7 DEF FilesInv
<1> QED
  BY <1>2, <1>3, <1>4

\* Every step keeps what the rows say of the files.
LEMMA FilesStep ==
    ASSUME SafeInv, FilesInv, [Next]_vars
    PROVE  FilesInv'
<1>1. ASSUME UNCHANGED <<archives, bytes, partial, files, shared, proc, boot>>,
             counts'.runs = counts.runs,
             db' = db \/ (db \in Databases /\ db' \in Databases /\ db'.rows = db.rows)
      PROVE  FilesInv'
  <2>1. InodesInv'
    BY <1>1, FilesTypes, InodesShrink DEF FilesInv
  <2>2. MakingInv' /\ DeletingInv' /\ VouchInv' /\ RowsHaveFiles'
    <3>1. \A n : Unlisted(n) => Unlisted(n)'
      BY <1>1 DEF Unlisted
    <3>2. MakingInv'
      BY <1>1, <3>1 DEF FilesInv, MakingInv, Makes, Given, Unlisted
    <3>3. DeletingInv' /\ VouchInv' /\ RowsHaveFiles'
      BY <1>1 DEF FilesInv, DeletingInv, VouchInv, Matches, Given, RowsHaveFiles
    <3> QED
      BY <3>2, <3>3
  <2> QED
    BY <1>1, <2>1, <2>2 DEF FilesInv
<1>2. CASE Edit
  <2>1. db \in Databases /\ db' = [db EXCEPT !.cfg = counts.edits + 2] /\ Counted("edits")
        /\ UNCHANGED <<archives, bytes, partial, files, shared, proc, boot>>
    BY <1>2, FilesTypes DEF Edit, diskVars
  <2>2. counts'.runs = counts.runs /\ counts.edits + 2 \in Int
    BY <2>1, CountedType DEF SafeInv, DataType
  <2>3. db' \in Databases /\ db'.rows = db.rows
    BY <2>1, <2>2 DEF Databases
  <2> QED
    BY <1>1, <2>1, <2>2, <2>3
<1>3. CASE Tick \/ UNCHANGED vars
  BY <1>1, <1>3 DEF Tick, vars, diskVars, histVars
<1> QED
  BY <1>2, <1>3, CreateFiles, DeleteFiles, OtherFiles, BootFiles DEF Next, Delete, Restore

\* It holds from the start.
LEMMA FilesAlways == Spec => []FilesInv
<1>1. Init => FilesInv
  <2> SUFFICES ASSUME Init PROVE FilesInv
    OBVIOUS
  <2>1. IInv
    BY InitInv
  <2>2. /\ \A p \in Procs : proc[p].pc = "idle"
        /\ \A n \in Names : partial[n] = None /\ files[n] = None
        /\ db.rows = NoRows /\ \A n \in Names : NoRows[n] = None
        /\ archives[Upload].rows = NoRows /\ archives[Upload] \in Databases
        /\ \A r \in Runs : archives[r] \notin Databases
    <3>1. Fresh \in Databases /\ None \notin Databases
      BY BackupsAssumption, ValuesAssumption DEF Fresh, Databases, NoRows
    <3>2. archives[Upload] \in Databases
      BY <2>1 DEF IInv, SafeInv, KnownData, Known
    <3>3. \A r \in Runs : archives[r] = None
      BY DEF Init, Runs, Upload
    <3> QED
      BY <3>1, <3>2, <3>3 DEF Init, Idle, NoRows, Fresh, Databases, Upload
  <2>3. \A i \in Runs : \A n \in Names : ~Uses(i, n)
    BY <2>2, BackupsAssumption DEF Uses
  <2>4. InodesInv
    BY <2>2, <2>3 DEF InodesInv
  <2>5. MakingInv /\ DeletingInv /\ VouchInv /\ RowsHaveFiles
    BY <2>2 DEF MakingInv, Makes, Making, DeletingInv, VouchInv, Matches, Given, RowsHaveFiles
  <2> QED
    BY <2>2, <2>4, <2>5 DEF FilesInv
<1>2. IInv /\ FilesInv /\ [Next]_vars => FilesInv'
  BY FilesStep DEF IInv
<1> QED
  BY Invariance, <1>1, <1>2, PTL DEF Spec

\* Whatever crashes, failed steps and restores of older tables came before: the
\* archive a row names has the hash the row records, and while nothing is being
\* deleted every listed row has its archive.
THEOREM RowsMatchFilesHolds == Spec => []RowsMatchFiles
<1>1. IInv /\ FilesInv => RowsMatchFiles
  BY FilesTypes DEF IInv, FilesInv, VouchInv, Matches, Given, RowsMatchFiles, RowVouches, Vouches
<1> QED
  BY Invariance, FilesAlways, <1>1, PTL DEF Spec
----------------------------------------------------------------------------
\* While only the purge deletes, and every name was free when it was given: a row
\* without its archive is not the newest of those that have one, and a row is
\* spared that is newer than all the purge is about to delete.
Purging == {"purge", "remove", "row"}
Lonely  == counts.deletes = 0 /\ shared = {}
OnlyScheduler == \A p \in Procs : proc[p].pc \in {"list"} \cup Purging => p = Scheduler
Kept(n) == db.rows[n] # None /\ files[n] # None
Covered == \A n \in Names : db.rows[n] # None /\ files[n] = None =>
               \E m \in Names : Kept(m) /\ Newer(db.rows[m], db.rows[n])
Doomed(g) == {n \in Names : \/ \E b \in g.todo : b.name = n
                            \/ g.pc \in {"remove", "row"} /\ g.name = n}
Spared(g) == \E c \in Names \ Doomed(g) :
                 Kept(c) /\ \A n \in Doomed(g) : Newer(db.rows[c], db.rows[n])
PurgeOk(g) ==
    g.pc \in Purging =>
        /\ \A b, d \in g.todo : b.name = d.name => b = d
        /\ g.pc # "purge" => \A b \in g.todo : b.name # g.name
        /\ \A n \in Doomed(g) : db.rows[n] # None
        /\ Doomed(g) # {} => Spared(g)
KeepInv == Lonely => OnlyScheduler /\ (boot = "serving" => Covered /\ PurgeOk(proc[Scheduler]))

\* Newest first is an order.
LEMMA NewerOrder ==
    ASSUME NEW a \in BackupRow, NEW b \in BackupRow
    PROVE  /\ ~Newer(a, a)
           /\ \A c \in BackupRow : Newer(a, b) /\ Newer(b, c) => Newer(a, c)
           /\ \A c \in BackupRow : ~Newer(b, a) /\ Newer(b, c) => Newer(a, c)
<1>1. \A r \in BackupRow : r.id \in Int /\ r.created \in Int
  BY BackupsAssumption DEF BackupRow, Seconds
<1> QED
  BY <1>1 DEF Newer

\* There are finitely many names.
LEMMA FiniteNames == IsFiniteSet(Names)
<1>1. IsFiniteSet(Seconds) /\ IsFiniteSet(Suffixes)
  BY BackupsAssumption, FS_Interval DEF Seconds, Suffixes
<1> QED
  BY <1>1, FS_Product DEF Names

\* What the table holds are rows.
LEMMA RowsType ==
    ASSUME db \in Databases, NEW n \in Names, db.rows[n] # None
    PROVE  db.rows[n] \in BackupRow
  BY DEF Databases

\* A table with a row has a newest one.
LEMMA NewestRow ==
    ASSUME db \in Databases, NEW n \in Names, db.rows[n] # None
    PROVE  \E c \in Names : db.rows[c] # None
              /\ \A m \in Names : db.rows[m] # None => ~Newer(db.rows[m], db.rows[c])
<1> DEFINE Given_ == {m \in Names : db.rows[m] # None}
           Above(c) == {m \in Given_ : Newer(db.rows[m], db.rows[c])}
           T == {Above(c) : c \in Given_}
           R == StrictSubsetOrdering(Given_)
<1>1. IsWellFoundedOn(R, FiniteSubsetsOf(Given_))
  BY FS_StrictSubsetOrderingWellFounded
<1>2. \A c \in Given_ : IsFiniteSet(Above(c))
  BY FiniteNames, FS_Subset
<1>3. T \subseteq FiniteSubsetsOf(Given_) /\ T # {}
  BY <1>2 DEF FiniteSubsetsOf
<1>4. PICK x \in T : \A y \in T : ~(<<y, x>> \in R)
  <2> HIDE DEF R, T
  <2> QED
    BY <1>1, <1>3, WFMin
<1>5. PICK c \in Given_ : x = Above(c)
  OBVIOUS
<1>6. ASSUME NEW m \in Given_, Newer(db.rows[m], db.rows[c]) PROVE FALSE
  <2>1. db.rows[m] \in BackupRow /\ db.rows[c] \in BackupRow
    BY RowsType
  <2>2. \A o \in Given_ : db.rows[o] \in BackupRow
    BY RowsType
  <2>3. Above(m) \subseteq Above(c)
    BY <1>6, <2>1, <2>2, NewerOrder
  <2>4. m \in Above(c) /\ m \notin Above(m)
    BY <1>6, <2>1, NewerOrder
  <2>5. <<Above(m), Above(c)>> \in R
    BY <2>3, <2>4 DEF StrictSubsetOrdering
  <2> QED
    BY <1>4, <1>5, <2>5
<1> QED
  BY <1>5, <1>6

\* Where rows and archives stay, and a new row has its archive, what covers a row
\* and what is spared stay too.
LEMMA KeepGrows ==
    ASSUME SafeInv, KeepInv, Lonely, boot = "serving", OnlyScheduler',
           \A n \in Names : db.rows[n] # None => db'.rows[n] = db.rows[n],
           \A n \in Names : db.rows[n] = None /\ db'.rows[n] # None => files'[n] # None,
           \A n \in Names : files[n] # None => files'[n] # None,
           proc'[Scheduler] = proc[Scheduler] \/ proc'[Scheduler].pc \notin Purging
    PROVE  KeepInv'
<1>1. Covered /\ PurgeOk(proc[Scheduler])
  BY DEF KeepInv
<1>2. \A n \in Names : Kept(n) => Kept(n)'
  BY DEF Kept
<1>3. Covered'
  <2> SUFFICES ASSUME NEW n \in Names, db'.rows[n] # None, files'[n] = None
               PROVE  \E m \in Names : Kept(m)' /\ Newer(db'.rows[m], db'.rows[n])
    BY DEF Covered, Newer
  <2>1. db.rows[n] # None /\ files[n] = None /\ db'.rows[n] = db.rows[n]
    OBVIOUS
  <2>2. PICK m \in Names : Kept(m) /\ Newer(db.rows[m], db.rows[n])
    BY <1>1, <2>1 DEF Covered
  <2>3. db'.rows[m] = db.rows[m]
    BY <2>2 DEF Kept
  <2> QED
    BY <1>2, <2>1, <2>2, <2>3
<1>4. ASSUME NEW g, PurgeOk(g) PROVE PurgeOk(g)'
  <2>1. g.pc \in Purging /\ Doomed(g) # {} => Spared(g)'
    <3> SUFFICES ASSUME g.pc \in Purging, Doomed(g) # {} PROVE Spared(g)'
      OBVIOUS
    <3>1. PICK c \in Names \ Doomed(g) :
              Kept(c) /\ \A n \in Doomed(g) : Newer(db.rows[c], db.rows[n])
      BY <1>4 DEF PurgeOk, Spared
    <3>2. \A n \in Doomed(g) : n \in Names /\ db.rows[n] # None
      BY <1>4 DEF PurgeOk, Doomed
    <3>3. /\ db'.rows[c] = db.rows[c] /\ Kept(c)'
          /\ \A n \in Doomed(g) : db'.rows[n] = db.rows[n]
      BY <1>2, <3>1, <3>2 DEF Kept
    <3> QED
      BY <3>1, <3>3 DEF Spared, Newer, Doomed
  <2>2. \A n \in Doomed(g) : n \in Names
    BY DEF Doomed
  <2> QED
    BY <1>4, <2>1, <2>2 DEF PurgeOk, Doomed
<1>5. PurgeOk(proc[Scheduler])'
  <2>1. CASE proc'[Scheduler].pc \notin Purging
    BY <2>1 DEF PurgeOk
  <2>2. CASE proc'[Scheduler] = proc[Scheduler]
    <3>1. PICK g : g = proc[Scheduler] /\ g = proc'[Scheduler]
      BY <2>2
    <3>2. PurgeOk(g)
      BY <1>1, <3>1 DEF PurgeOk, Doomed, Spared
    <3>3. PurgeOk(g)'
      BY <1>4, <3>2
    <3> QED
      BY <3>1, <3>3 DEF PurgeOk, Doomed, Spared
  <2> QED
    BY <2>1, <2>2
<1> QED
  BY <1>3, <1>5 DEF KeepInv

\* The steps that delete nothing.
Gentle(p) ==
    \/ Vacuum(p) \/ PickName(p) \/ WriteArchive(p) \/ WriteFails(p) \/ Rename(p) \/ statAndSHA(p)
    \/ InsertRow(p) \/ InsertFails(p) \/ PurgeDone(p) \/ DeleteFails(p)
    \/ UploadAndRestore(p) \/ (\E n \in Names : RestoreBackup(p, n))
    \/ CheckSum(p) \/ Extract(p) \/ Apply(p) \/ ApplyUnknown(p) \/ WriteFlag(p)

\* They take no goroutine into a purge, and the scheduler alone to its list.
LEMMA GentleStep ==
    ASSUME SafeInv, NEW p \in Procs, Gentle(p)
    PROVE  \E g : /\ proc' = [proc EXCEPT ![p] = g]
                  /\ g.pc \notin Purging /\ (g.pc = "list" => p = Scheduler)
<1> USE DEF At, Goto, Stop, Purging
<1>1. proc[p] \in Goroutine /\ Idle.pc = "idle"
  BY DEF SafeInv, ProcType, Idle
<1>2. ASSUME NEW pc \in {"rename", "sum", "extract", "flag", "exit"},
             proc' = [proc EXCEPT ![p].pc = pc]
      PROVE  \E g : /\ proc' = [proc EXCEPT ![p] = g]
                    /\ g.pc \notin Purging /\ (g.pc = "list" => p = Scheduler)
  <2>1. proc' = [proc EXCEPT ![p] = [proc[p] EXCEPT !.pc = pc]]
    BY <1>2
  <2>2. [proc[p] EXCEPT !.pc = pc].pc = pc
    BY <1>1 DEF Goroutine
  <2> QED
    BY <2>1, <2>2
<1>3. ASSUME proc' = [proc EXCEPT ![p] = Idle]
      PROVE  \E g : /\ proc' = [proc EXCEPT ![p] = g]
                    /\ g.pc \notin Purging /\ (g.pc = "list" => p = Scheduler)
  BY <1>1, <1>3
<1>4. CASE \/ WriteArchive(p) \/ WriteFails(p) \/ Rename(p) \/ InsertFails(p) \/ PurgeDone(p)
           \/ DeleteFails(p) \/ CheckSum(p) \/ Apply(p) \/ ApplyUnknown(p) \/ WriteFlag(p)
  BY <1>2, <1>3, <1>4
     DEF WriteArchive, WriteFails, Rename, InsertFails, PurgeDone, DeleteFails, CheckSum, Apply, ApplyUnknown, WriteFlag
<1>5. CASE Vacuum(p)
  <2> DEFINE g == [Idle EXCEPT !.pc = "name", !.run = counts.runs + 1]
  <2>1. proc' = [proc EXCEPT ![p] = g] /\ g.pc = "name"
    BY <1>5 DEF Vacuum, Idle
  <2> QED
    BY <2>1
<1>6. CASE PickName(p)
  <2>1. PICK k \in Suffixes : OpenPartial(p, <<now, k>>)
    BY <1>6 DEF PickName
  <2> DEFINE i == IF partial[<<now, k>>] = None THEN proc[p].run ELSE partial[<<now, k>>]
             g == [proc[p] EXCEPT !.pc = "write", !.name = <<now, k>>, !.inode = i]
  <2>2. proc' = [proc EXCEPT ![p] = g]
    BY <2>1 DEF OpenPartial
  <2>3. g.pc = "write"
    BY <1>1 DEF Goroutine
  <2> QED
    BY <2>2, <2>3
<1>7. CASE statAndSHA(p)
  <2> DEFINE f == files[proc[p].name]
             g == [proc[p] EXCEPT !.pc = "insert", !.sum = bytes[f]]
  <2>1. proc' = [proc EXCEPT ![p] = Idle] \/ proc' = [proc EXCEPT ![p] = g]
    BY <1>7 DEF statAndSHA
  <2>2. g.pc = "insert"
    BY <1>1 DEF Goroutine
  <2> QED
    BY <1>3, <2>1, <2>2
<1>8. CASE InsertRow(p)
  <2> DEFINE g == [Idle EXCEPT !.pc = "list"]
  <2>1. proc' = [proc EXCEPT ![p] = Idle] \/ (p = Scheduler /\ proc' = [proc EXCEPT ![p] = g])
    BY <1>8 DEF InsertRow
  <2>2. g.pc = "list"
    BY DEF Idle
  <2> QED
    BY <1>3, <2>1, <2>2
<1>9. CASE UploadAndRestore(p)
  <2> DEFINE g == [Idle EXCEPT !.pc = "extract", !.sum = {Upload}]
  <2>1. proc' = [proc EXCEPT ![p] = g] /\ g.pc = "extract"
    BY <1>9 DEF UploadAndRestore, Idle
  <2> QED
    BY <2>1
<1>10. CASE \E n \in Names : RestoreBackup(p, n)
  <2>1. PICK n \in Names : RestoreBackup(p, n)
    BY <1>10
  <2> DEFINE g == [Idle EXCEPT !.pc = "check", !.name = n, !.id = db.rows[n].id]
  <2>2. proc' = [proc EXCEPT ![p] = g] /\ g.pc = "check"
    BY <2>1 DEF RestoreBackup, Idle
  <2> QED
    BY <2>2
<1>11. CASE Extract(p)
  <2> DEFINE got == IF proc[p].name = None THEN proc[p].sum
                    ELSE IF files[proc[p].name] = None THEN {} ELSE bytes[files[proc[p].name]]
             g == [proc[p] EXCEPT !.pc = "apply", !.sum = got, !.dir = now]
  <2>1. proc' = [proc EXCEPT ![p] = Idle] \/ proc' = [proc EXCEPT ![p] = g]
    BY <1>11 DEF Extract
  <2>2. g.pc = "apply"
    BY <1>1 DEF Goroutine
  <2> QED
    BY <1>3, <2>1, <2>2
<1> QED
  BY <1>4, <1>5, <1>6, <1>7, <1>8, <1>9, <1>10, <1>11 DEF Gentle

\* They keep rows and archives, and give a new row its archive.
LEMMA GentleKeeps ==
    ASSUME SafeInv, FilesInv, KeepInv, Lonely, NEW p \in Procs, Gentle(p), shared' = {}
    PROVE  KeepInv'
<1>1. boot = "serving" /\ db \in Databases
  BY FilesTypes
     DEF Gentle, At, Vacuum, PickName, WriteArchive, WriteFails, Rename, statAndSHA, InsertRow,
         InsertFails, PurgeDone, DeleteFails, UploadAndRestore, RestoreBackup, CheckSum, Extract,
         Apply, ApplyUnknown, WriteFlag
<1>2. PICK g : /\ proc' = [proc EXCEPT ![p] = g]
               /\ g.pc \notin Purging /\ (g.pc = "list" => p = Scheduler)
  BY GentleStep
<1>3. proc'[p] = g /\ \A q \in Procs \ {p} : proc'[q] = proc[q]
  BY <1>2, OneMoves DEF SafeInv
<1>4. OnlyScheduler'
  BY <1>2, <1>3 DEF KeepInv, OnlyScheduler
<1>5. proc'[Scheduler] = proc[Scheduler] \/ proc'[Scheduler].pc \notin Purging
  BY <1>2, <1>3 DEF Procs
<1>6. CASE InsertRow(p)
  <2> DEFINE n == proc[p].name
             r == [id |-> db.seq + 1, sum |-> proc[p].sum, created |-> now]
  <2>1. /\ n \in Names /\ proc[p].pc = "insert" /\ files' = files
        /\ db' = db \/ (db.rows[n] = None /\ db' = [db EXCEPT !.seq = @ + 1, !.rows[n] = r])
    BY <1>6, FilesTypes DEF InsertRow, At, Holds, diskVars
  <2> HIDE DEF r
  <2>2. files[n] # None
    <3>1. n \in Given
      BY <2>1 DEF Given, Lonely
    <3> QED
      BY <2>1, <3>1 DEF FilesInv, MakingInv, Makes, Making
  <2>3. \A m \in Names : m # n => db'.rows[m] = db.rows[m]
    BY <1>1, <2>1 DEF Databases
  <2>4. db.rows[n] # None => db'.rows[n] = db.rows[n]
    BY <2>1
  <2> QED
    BY <1>1, <1>4, <1>5, <2>1, <2>2, <2>3, <2>4, KeepGrows
<1>7. CASE ~InsertRow(p)
  <2>1. db' = db
    BY <1>7
       DEF Gentle, Vacuum, PickName, WriteArchive, WriteFails, Rename, statAndSHA,
           InsertFails, PurgeDone, DeleteFails, UploadAndRestore, RestoreBackup, CheckSum, Extract,
           Apply, ApplyUnknown, WriteFlag, prepareFrame, noticeVars
  <2>2. \A n \in Names : files[n] # None => files'[n] # None
    <3>1. CASE Rename(p)
      <4>1. files \in [Names -> Runs \cup {None}]
        BY FilesTypes
      <4>2. files' = files \/ (partial[proc[p].name] # None
                                /\ files' = [files EXCEPT ![proc[p].name] = partial[proc[p].name]])
        BY <3>1 DEF Rename
      <4> QED
        BY <4>1, <4>2
    <3>2. CASE ~Rename(p)
      BY <1>7, <3>2
         DEF Gentle, Vacuum, PickName, WriteArchive, WriteFails, statAndSHA, InsertFails, PurgeDone,
             DeleteFails, UploadAndRestore, RestoreBackup, CheckSum, Extract, Apply, ApplyUnknown, WriteFlag,
             prepareFrame, noticeVars, diskVars
    <3> QED
      BY <3>1, <3>2
  <2> QED
    BY <1>1, <1>4, <1>5, <2>1, <2>2, KeepGrows
<1> QED
  BY <1>6, <1>7


\* The list leaves the newest row out, and that has its archive.
LEMMA ListKeeps ==
    ASSUME SafeInv, KeepInv, Lonely, List(Scheduler)
    PROVE  KeepInv'
<1> DEFINE todo == {b \in Listed : /\ \E c \in Listed : Newer(c, b)
                                   /\ Retention <= 0 \/ b.created < now - Retention}
           g == [Idle EXCEPT !.pc = "purge", !.todo = todo]
<1>1. /\ boot = "serving" /\ db \in Databases /\ Scheduler \in Procs
      /\ proc' = [proc EXCEPT ![Scheduler] = g] /\ UNCHANGED <<db, files, boot>>
  BY FilesTypes DEF List, At, deleteFrame, panelFrame, Procs
<1>2. g.pc = "purge" /\ g.todo = todo
  BY DEF Idle
<1>3. /\ \A b \in todo : b \in Listed /\ \E c \in Listed : Newer(c, b)
      /\ \A b \in Listed : /\ b.name \in Names /\ db.rows[b.name] # None
                           /\ b = [name |-> b.name, id |-> db.rows[b.name].id,
                                   created |-> db.rows[b.name].created]
      /\ \A b, c \in Listed : Newer(c, b) <=> Newer(db.rows[c.name], db.rows[b.name])
  BY DEF Listed, Newer
<1> HIDE DEF todo, g
<1>4. proc'[Scheduler] = g /\ \A q \in Procs \ {Scheduler} : proc'[q] = proc[q]
  BY <1>1, OneMoves DEF SafeInv
<1>5. OnlyScheduler' /\ Covered'
  BY <1>1, <1>4 DEF KeepInv, OnlyScheduler, Covered, Kept
<1>6. ASSUME NEW n \in Doomed(g)
      PROVE  n \in Names /\ db.rows[n] # None
             /\ \E m \in Names : db.rows[m] # None /\ Newer(db.rows[m], db.rows[n])
  BY <1>2, <1>3 DEF Doomed
<1>7. ASSUME Doomed(g) # {} PROVE Spared(g)
  <2>1. PICK c \in Names : db.rows[c] # None
            /\ \A m \in Names : db.rows[m] # None => ~Newer(db.rows[m], db.rows[c])
    BY <1>1, <1>6, <1>7, NewestRow
  <2>2. c \notin Doomed(g)
    BY <1>6, <2>1
  <2>3. Kept(c)
    BY <1>1, <2>1 DEF KeepInv, Covered, Kept
  <2>4. ASSUME NEW n \in Doomed(g) PROVE Newer(db.rows[c], db.rows[n])
    <3>1. PICK m \in Names : db.rows[m] # None /\ Newer(db.rows[m], db.rows[n])
      BY <1>6
    <3>2. db.rows[n] \in BackupRow /\ db.rows[c] \in BackupRow /\ db.rows[m] \in BackupRow
      BY <1>1, <1>6, <2>1, <3>1, RowsType
    <3>3. ~Newer(db.rows[m], db.rows[c])
      BY <2>1, <3>1
    <3> QED
      BY <3>1, <3>2, <3>3, NewerOrder
  <2> QED
    BY <2>2, <2>3, <2>4 DEF Spared
<1>8. PurgeOk(g)
  BY <1>2, <1>3, <1>6, <1>7 DEF PurgeOk
<1>9. PurgeOk(proc[Scheduler])'
  BY <1>1, <1>4, <1>8 DEF PurgeOk, Doomed, Spared, Kept
<1> QED
  BY <1>5, <1>9 DEF KeepInv

\* The next row of the purge was doomed before.
LEMMA NextKeeps ==
    ASSUME SafeInv, KeepInv, Lonely, PurgeNext(Scheduler)
    PROVE  KeepInv'
<1> DEFINE s == proc[Scheduler]
<1>1. /\ boot = "serving" /\ Scheduler \in Procs /\ s.pc = "purge" /\ s \in Goroutine
      /\ UNCHANGED <<db, files, boot>> /\ PurgeOk(s) /\ OnlyScheduler /\ Covered
  BY FilesTypes DEF PurgeNext, At, deleteFrame, panelFrame, Procs, KeepInv
<1>2. CASE Stop(Scheduler)
  <2>1. proc'[Scheduler] = Idle /\ \A q \in Procs \ {Scheduler} : proc'[q] = proc[q]
    BY <1>1, <1>2, OneMoves DEF Stop, SafeInv
  <2>2. proc'[Scheduler].pc \notin Purging
    BY <2>1 DEF Idle, Purging
  <2>3. OnlyScheduler'
    BY <1>1, <2>1 DEF OnlyScheduler
  <2> QED
    BY <1>1, <2>2, <2>3, KeepGrows
<1>3. CASE ~Stop(Scheduler)
  <2>1. PICK b \in s.todo :
          proc' = [proc EXCEPT ![Scheduler] = [@ EXCEPT !.pc = "remove", !.name = b.name,
                                              !.id = b.id, !.todo = s.todo \ {b}]]
    BY <1>3 DEF PurgeNext
  <2> DEFINE g == [s EXCEPT !.pc = "remove", !.name = b.name, !.id = b.id, !.todo = s.todo \ {b}]
  <2>2. g.pc = "remove" /\ g.name = b.name /\ g.todo = s.todo \ {b}
    BY <1>1 DEF Goroutine
  <2>3. proc' = [proc EXCEPT ![Scheduler] = g]
    BY <2>1
  <2> HIDE DEF g
  <2>4. proc'[Scheduler] = g /\ \A q \in Procs \ {Scheduler} : proc'[q] = proc[q]
    BY <1>1, <2>3, OneMoves DEF SafeInv
  <2>5. OnlyScheduler' /\ Covered'
    BY <1>1, <2>4 DEF OnlyScheduler, Covered, Kept
  <2>6. \A n \in Names : n \in Doomed(g) <=> n \in Doomed(s)
    BY <1>1, <2>1, <2>2 DEF Doomed
  <2>7. Doomed(g) = Doomed(s)
    BY <2>6 DEF Doomed
  <2>8. PurgeOk(g)
    BY <1>1, <2>1, <2>2, <2>7 DEF PurgeOk, Purging, Spared
  <2>9. PurgeOk(proc[Scheduler])'
    BY <1>1, <2>4, <2>8 DEF PurgeOk, Doomed, Spared, Kept
  <2> QED
    BY <2>5, <2>9 DEF KeepInv
<1> QED
  BY <1>2, <1>3

\* The file of a doomed row goes; the one that is spared covers what it covered.
LEMMA RemoveKeeps ==
    ASSUME SafeInv, KeepInv, Lonely, RemoveFile(Scheduler)
    PROVE  KeepInv' /\ \E n \in Names : files'[n] # None
<1> DEFINE s == proc[Scheduler]
<1>1. /\ boot = "serving" /\ Scheduler \in Procs /\ s.pc = "remove" /\ s \in Goroutine
      /\ UNCHANGED <<db, boot>> /\ PurgeOk(s) /\ OnlyScheduler /\ Covered
      /\ s.name \in Names /\ db \in Databases
  BY FilesTypes DEF RemoveFile, At, deleteFrame, panelFrame, Procs, KeepInv, Holds
<1>2. files'[s.name] = None /\ \A n \in Names \ {s.name} : files'[n] = files[n]
  BY FilesTypes, <1>1 DEF RemoveFile
<1>3. PICK g : /\ proc' = [proc EXCEPT ![Scheduler] = g]
               /\ g.pc = "row" /\ g.name = s.name /\ g.todo = s.todo
  <2> DEFINE h == [s EXCEPT !.pc = "row"]
  <2>1. proc' = [proc EXCEPT ![Scheduler] = h]
    BY DEF RemoveFile, Goto
  <2>2. h.pc = "row" /\ h.name = s.name /\ h.todo = s.todo
    BY <1>1 DEF Goroutine
  <2> QED
    BY <2>1, <2>2
<1>5. proc'[Scheduler] = g /\ \A q \in Procs \ {Scheduler} : proc'[q] = proc[q]
  BY <1>1, <1>3, OneMoves DEF SafeInv
<1>6. OnlyScheduler'
  BY <1>1, <1>5 DEF OnlyScheduler, Purging
<1>7. s.name \in Doomed(s) /\ Doomed(g) = Doomed(s)
  BY <1>1, <1>3 DEF Doomed
<1>8. PICK c \in Names \ Doomed(s) :
          Kept(c) /\ \A n \in Doomed(s) : Newer(db.rows[c], db.rows[n])
  BY <1>1, <1>7 DEF PurgeOk, Spared, Purging
<1>9. Kept(c)' /\ files'[c] # None
  BY <1>1, <1>2, <1>7, <1>8 DEF Kept
<1>10. Covered'
  <2> SUFFICES ASSUME NEW n \in Names, db.rows[n] # None, files'[n] = None
               PROVE  \E m \in Names : Kept(m)' /\ Newer(db.rows[m], db.rows[n])
    BY <1>1 DEF Covered, Newer
  <2>1. CASE n = s.name
    BY <1>7, <1>8, <1>9, <2>1
  <2>2. CASE n # s.name
    <3>1. PICK m \in Names : Kept(m) /\ Newer(db.rows[m], db.rows[n])
      BY <1>1, <1>2, <2>2 DEF Covered
    <3>2. CASE m = s.name
      <4>1. db.rows[m] \in BackupRow /\ db.rows[n] \in BackupRow /\ db.rows[c] \in BackupRow
        BY <1>1, <1>8, <3>1, RowsType DEF Kept
      <4>2. Newer(db.rows[c], db.rows[m])
        BY <1>7, <1>8, <3>2
      <4> QED
        BY <1>9, <3>1, <4>1, <4>2, NewerOrder
    <3>3. CASE m # s.name
      BY <1>1, <1>2, <3>1, <3>3 DEF Kept
    <3> QED
      BY <3>2, <3>3
  <2> QED
    BY <2>1, <2>2
<1>11. PurgeOk(proc[Scheduler])'
  <2>1. Doomed(g)' = Doomed(g)
    BY DEF Doomed
  <2>2. Spared(g)'
    BY <1>1, <1>7, <1>8, <1>9, <2>1 DEF Spared, Newer
  <2>3. PurgeOk(g)'
    BY <1>1, <1>3, <1>7, <2>1, <2>2 DEF PurgeOk, Purging
  <2> QED
    BY <1>5, <2>3 DEF PurgeOk, Doomed, Spared
<1> QED
  BY <1>6, <1>9, <1>10, <1>11 DEF KeepInv

\* Its row goes too, and is doomed no more.
LEMMA DeleteKeeps ==
    ASSUME SafeInv, KeepInv, Lonely, DeleteRow(Scheduler)
    PROVE  KeepInv'
<1> DEFINE s == proc[Scheduler]
<1>1. /\ boot = "serving" /\ Scheduler \in Procs /\ s.pc = "row" /\ s \in Goroutine
      /\ UNCHANGED <<files, boot>> /\ PurgeOk(s) /\ OnlyScheduler /\ Covered
      /\ s.name \in Names /\ db \in Databases
  BY FilesTypes DEF DeleteRow, At, deleteFrame, panelFrame, Procs, KeepInv, Holds
<1>2. \A n \in Names \ {s.name} : db'.rows[n] = db.rows[n]
  BY <1>1 DEF DeleteRow, Databases
<1>3. db'.rows[s.name] \in {None, db.rows[s.name]}
  BY <1>1 DEF DeleteRow, Databases
<1>4. PICK g : proc' = [proc EXCEPT ![Scheduler] = g] /\ g.pc = "purge" /\ g.todo = s.todo
  <2> DEFINE h == [s EXCEPT !.pc = "purge", !.name = None]
  <2>1. proc' = [proc EXCEPT ![Scheduler] = h]
    BY DEF DeleteRow
  <2>2. h.pc = "purge" /\ h.todo = s.todo
    BY <1>1 DEF Goroutine
  <2> QED
    BY <2>1, <2>2
<1>6. proc'[Scheduler] = g /\ \A q \in Procs \ {Scheduler} : proc'[q] = proc[q]
  BY <1>1, <1>4, OneMoves DEF SafeInv
<1>7. OnlyScheduler'
  BY <1>1, <1>6 DEF OnlyScheduler, Purging
<1>8. /\ s.name \in Doomed(s) /\ Doomed(g) \subseteq Doomed(s) \ {s.name}
  BY <1>1, <1>4 DEF Doomed, PurgeOk, Purging
<1>9. PICK c \in Names \ Doomed(s) :
          Kept(c) /\ \A n \in Doomed(s) : Newer(db.rows[c], db.rows[n])
  BY <1>1, <1>8 DEF PurgeOk, Spared, Purging
<1>10. Kept(c)' /\ db'.rows[c] = db.rows[c]
  BY <1>1, <1>2, <1>8, <1>9 DEF Kept
<1>11. Covered'
  <2> SUFFICES ASSUME NEW n \in Names, db'.rows[n] # None, files[n] = None
               PROVE  \E m \in Names : Kept(m)' /\ Newer(db'.rows[m], db'.rows[n])
    BY <1>1 DEF Covered, Newer
  <2>1. db'.rows[n] = db.rows[n]
    BY <1>2, <1>3
  <2>2. PICK m \in Names : Kept(m) /\ Newer(db.rows[m], db.rows[n])
    BY <1>1, <2>1 DEF Covered
  <2>3. CASE m = s.name
    <3>1. db.rows[m] \in BackupRow /\ db.rows[n] \in BackupRow /\ db.rows[c] \in BackupRow
      BY <1>1, <1>9, <2>1, <2>2, RowsType DEF Kept
    <3>2. Newer(db.rows[c], db.rows[m])
      BY <1>8, <1>9, <2>3
    <3>3. Newer(db.rows[c], db.rows[n])
      BY <2>2, <3>1, <3>2, NewerOrder
    <3> QED
      BY <1>10, <2>1, <3>3
  <2>4. CASE m # s.name
    BY <1>1, <1>2, <2>1, <2>2, <2>4 DEF Kept
  <2> QED
    BY <2>3, <2>4
<1>12. PurgeOk(proc[Scheduler])'
  <2>1. Doomed(g)' = Doomed(g)
    BY DEF Doomed
  <2>2. \A n \in Doomed(g) : n \in Names /\ db'.rows[n] = db.rows[n] /\ db.rows[n] # None
    BY <1>1, <1>2, <1>8 DEF PurgeOk, Purging, Doomed
  <2>3. Spared(g)'
    BY <1>8, <1>9, <1>10, <2>1, <2>2 DEF Spared, Newer
  <2>4. PurgeOk(g)'
    BY <1>1, <1>4, <2>1, <2>2, <2>3 DEF PurgeOk, Purging
  <2> QED
    BY <1>6, <2>4 DEF PurgeOk, Doomed, Spared
<1> QED
  BY <1>7, <1>11, <1>12 DEF KeepInv

\* The scheduler goes from the file to the row by removing the file.
LEMMA RemoveStep ==
    ASSUME SafeInv, [Next]_vars, proc[Scheduler].pc = "remove", proc'[Scheduler].pc = "row"
    PROVE  RemoveFile(Scheduler)
<1>1. Scheduler \in Procs /\ Idle.pc = "idle" /\ proc[Scheduler] \in Goroutine
  BY DEF Procs, Idle, SafeInv, ProcType
<1>2. proc'[Scheduler] # proc[Scheduler] /\ proc'[Scheduler] # Idle /\ boot = "serving"
  BY <1>1 DEF SafeInv, ProcType
<1>3. ASSUME NEW p \in Procs, Gentle(p) PROVE FALSE
  <2>1. PICK g : proc' = [proc EXCEPT ![p] = g] /\ g.pc \notin Purging
    BY <1>3, GentleStep
  <2>2. proc'[p] = g /\ \A q \in Procs \ {p} : proc'[q] = proc[q]
    BY <2>1, OneMoves DEF SafeInv
  <2> QED
    BY <1>1, <1>2, <2>1, <2>2 DEF Purging
<1>4. ASSUME NEW p \in Procs,
             \/ List(p) \/ PurgeNext(p) \/ DeleteRow(p) \/ \E n \in Names : DeleteBackup(p, n)
      PROVE  FALSE
  <2>1. proc[p].pc # "remove"
    BY <1>4 DEF List, PurgeNext, DeleteRow, DeleteBackup, At
  <2>2. PICK g : proc' = [proc EXCEPT ![p] = g]
    BY <1>4 DEF List, PurgeNext, DeleteRow, DeleteBackup, Stop
  <2>3. \A q \in Procs \ {p} : proc'[q] = proc[q]
    BY <2>2, OneMoves DEF SafeInv
  <2> QED
    BY <1>1, <1>2, <2>1, <2>3
<1>5. ASSUME NEW p \in Procs, RemoveFile(p) PROVE p = Scheduler
  <2>1. PICK g : proc' = [proc EXCEPT ![p] = g]
    BY <1>5 DEF RemoveFile, Goto
  <2>2. \A q \in Procs \ {p} : proc'[q] = proc[q]
    BY <2>1, OneMoves DEF SafeInv
  <2> QED
    BY <1>1, <1>2, <2>2
<1>6. CASE Crash \/ (\E p \in Procs : Exit(p))
  BY <1>1, <1>2, <1>6 DEF Crash, Exit, GoesDown
<1>7. CASE Boot \/ Edit \/ Tick \/ UNCHANGED vars
  BY <1>2, <1>7
     DEF Boot, ReadFlag, RemoveDB, CopyDB, CopyFails, RemovePayload, RemoveFlag, OpenDB, Reconcile,
         bootFrame, Edit, Tick, vars
<1> QED
  BY <1>3, <1>4, <1>5, <1>6, <1>7 DEF Next, Create, Delete, Restore, Gentle

\* Nobody takes a deletion back, or a name that was given twice.
LEMMA LonelyBefore == SafeInv /\ [Next]_vars /\ Lonely' => Lonely
<1> SUFFICES ASSUME SafeInv, [Next]_vars, Lonely' PROVE Lonely
  OBVIOUS
<1>1. counts \in [runs: Nat, edits: Nat, deletes: Nat, restores: Nat, faults: Nat]
  BY DEF SafeInv, DataType
<1>2. ASSUME NEW f \in {"runs", "edits", "deletes", "restores", "faults"}, Counted(f)
      PROVE  counts'.deletes \in {counts.deletes, counts.deletes + 1}
  BY <1>1, <1>2 DEF Counted
<1>3. counts'.deletes \in {counts.deletes, counts.deletes + 1} /\ shared \subseteq shared'
  <2> USE DEF vars, diskVars, restoreVars, histVars, createFrame, deleteFrame, prepareFrame, noticeVars,
              panelFrame, bootFrame, bootHist, Fault, Stop, Goto
  <2>1. CASE \/ Boot \/ Edit \/ Crash \/ Tick \/ UNCHANGED vars
    BY <1>2, <2>1
       DEF Boot, Edit, Crash, GoesDown, Tick, ReadFlag, RemoveDB, CopyDB, CopyFails, RemovePayload,
           RemoveFlag, OpenDB, Reconcile
  <2>2. ASSUME NEW p \in Procs,
               \/ Vacuum(p) \/ Create(p) \/ Delete(p) \/ Restore(p) \/ UploadAndRestore(p)
               \/ \E n \in Names : DeleteBackup(p, n) \/ RestoreBackup(p, n)
        PROVE  counts'.deletes \in {counts.deletes, counts.deletes + 1} /\ shared \subseteq shared'
    <3>1. CASE Create(p) \/ Vacuum(p)
      BY <1>2, <3>1
         DEF Create, Vacuum, PickName, OpenPartial, WriteArchive, WriteFails, Rename, statAndSHA,
             InsertRow, InsertFails
    <3>2. CASE Delete(p) \/ \E n \in Names : DeleteBackup(p, n)
      BY <1>2, <2>2, <3>2 DEF Delete, List, PurgeNext, PurgeDone, RemoveFile, DeleteRow, DeleteFails, DeleteBackup
    <3>3. CASE Restore(p) \/ UploadAndRestore(p) \/ \E n \in Names : RestoreBackup(p, n)
      BY <1>2, <2>2, <3>3
         DEF Restore, UploadAndRestore, RestoreBackup, CheckSum, Extract, Apply, ApplyUnknown, WriteFlag, Exit, GoesDown
    <3> QED
      BY <2>2, <3>1, <3>2, <3>3
  <2> QED
    BY <2>1, <2>2 DEF Next
<1> QED
  BY <1>1, <1>3 DEF Lonely

\* Every step keeps what the purge spares.
LEMMA KeepStep == SafeInv /\ FilesInv /\ KeepInv /\ [Next]_vars => KeepInv'
<1> SUFFICES ASSUME SafeInv, FilesInv, KeepInv, [Next]_vars, Lonely' PROVE KeepInv'
  BY DEF KeepInv
<1>1. Lonely /\ shared' = {} /\ OnlyScheduler
  BY LonelyBefore DEF KeepInv, Lonely
<1>2. \A p \in Procs : Idle.pc \notin {"list"} \cup Purging /\ (boot # "serving" => proc[p] = Idle)
  BY DEF Idle, Purging, SafeInv, ProcType
<1>3. ASSUME NEW p \in Procs, Gentle(p) PROVE KeepInv'
  BY <1>1, <1>3, GentleKeeps
<1>4. ASSUME NEW p \in Procs, List(p) \/ PurgeNext(p) \/ RemoveFile(p) \/ DeleteRow(p) PROVE KeepInv'
  <2>1. p = Scheduler
    BY <1>1, <1>4 DEF OnlyScheduler, Purging, List, PurgeNext, RemoveFile, DeleteRow, At
  <2> QED
    BY <1>1, <1>4, <2>1, ListKeeps, NextKeeps, RemoveKeeps, DeleteKeeps
<1>5. ASSUME NEW p \in Procs, NEW n \in Names, DeleteBackup(p, n) PROVE KeepInv'
  <2>1. counts'.deletes = counts.deletes + 1
    BY <1>5 DEF DeleteBackup, Counted, SafeInv, DataType
  <2> QED
    BY <1>1, <2>1 DEF Lonely
<1>6. CASE Crash \/ (\E p \in Procs : Exit(p)) \/ (Boot /\ ~Reconcile)
  <2>1. boot' # "serving"
    BY <1>6
       DEF Crash, Exit, GoesDown, Boot, ReadFlag, RemoveDB, CopyDB, CopyFails, RemovePayload,
           RemoveFlag, OpenDB
  <2>2. \A p \in Procs : proc'[p] = Idle
    <3>1. CASE Crash \/ \E p \in Procs : Exit(p)
      BY <3>1 DEF Crash, Exit, GoesDown
    <3>2. CASE Boot /\ ~Reconcile
      BY <1>2, <3>2
         DEF Boot, ReadFlag, RemoveDB, CopyDB, CopyFails, RemovePayload, RemoveFlag, OpenDB, bootFrame
    <3> QED
      BY <1>6, <3>1, <3>2
  <2> QED
    BY <1>2, <2>1, <2>2 DEF KeepInv, OnlyScheduler
<1>7. CASE Reconcile
  <2> DEFINE row(n) == IF files[n] = None THEN None
                       ELSE IF db.rows[n] # None THEN db.rows[n]
                       ELSE [id |-> db.seq + files[n], sum |-> bytes[files[n]], created |-> n[1]]
  <2>1. /\ proc' = proc /\ boot # "serving" /\ files' = files
        /\ \A n \in Names : db'.rows[n] = row(n)
    <3>1. /\ db \in Databases /\ boot = "reconcile" /\ UNCHANGED <<proc, files>>
          /\ db' = [db EXCEPT !.seq = db.seq + MaxRuns, !.rows = [n \in Names |-> row(n)]]
      BY <1>7 DEF Reconcile, SafeInv, DataType, bootFrame, diskVars
    <3> QED
      BY <3>1 DEF Databases
  <2>2. \A n \in Names : files'[n] = None => db'.rows[n] = None
    BY <2>1
  <2>3. Covered'
    BY <2>2 DEF Covered
  <2>4. OnlyScheduler' /\ PurgeOk(proc[Scheduler])'
    BY <1>2, <2>1 DEF OnlyScheduler, PurgeOk, Procs
  <2> QED
    BY <2>3, <2>4 DEF KeepInv
<1>8. CASE Edit \/ Tick \/ UNCHANGED vars
  <2>1. /\ UNCHANGED <<proc, files, boot>>
        /\ \A n \in Names : db'.rows[n] = db.rows[n]
    <3>1. CASE Edit
      BY <3>1, FilesTypes DEF Edit, diskVars, Databases
    <3>2. CASE Tick \/ UNCHANGED vars
      BY <3>2 DEF Tick, vars, diskVars
    <3> QED
      BY <1>8, <3>1, <3>2
  <2>2. OnlyScheduler'
    BY <1>1, <2>1 DEF OnlyScheduler
  <2>3. CASE boot = "serving"
    BY <1>1, <2>1, <2>2, <2>3, KeepGrows
  <2>4. CASE boot # "serving"
    BY <2>1, <2>2, <2>4 DEF KeepInv
  <2> QED
    BY <2>3, <2>4
<1> QED
  BY <1>3, <1>4, <1>5, <1>6, <1>7, <1>8 DEF Next, Create, Delete, Restore, Gentle

\* Unless the operator deletes backups himself, or a name is given again while
\* something stands under it, the purge leaves an archive whatever it removes.
THEOREM KeepsOneHolds == Spec => KeepsOne
<1>1. Init => KeepInv
  <2> SUFFICES ASSUME Init PROVE KeepInv
    OBVIOUS
  <2>1. \A p \in Procs : proc[p].pc = "idle"
    BY DEF Init, Idle
  <2>2. \A n \in Names : db.rows[n] = None
    <3>1. Fresh.rows = NoRows /\ \A n \in Names : NoRows[n] = None
      BY DEF Fresh, NoRows
    <3> QED
      BY <3>1 DEF Init
  <2> QED
    BY <2>1, <2>2 DEF KeepInv, OnlyScheduler, Purging, Covered, PurgeOk, Procs
<1>2. IInv /\ FilesInv /\ KeepInv /\ [Next]_vars => KeepInv'
  BY KeepStep DEF IInv
<1>3. ASSUME IInv, KeepInv, [Next]_vars, Lonely,
             proc[Scheduler].pc = "remove", proc'[Scheduler].pc = "row"
      PROVE  \E n \in Names : files'[n] # None
  <2>1. RemoveFile(Scheduler)
    BY <1>3, RemoveStep DEF IInv
  <2> QED
    BY <1>3, <2>1, RemoveKeeps DEF IInv
<1>4. IInv /\ KeepInv /\ [Next]_vars
        => [proc[Scheduler].pc = "remove" /\ proc'[Scheduler].pc = "row"
              /\ counts.deletes = 0 /\ shared = {}
              => \E n \in Names : files'[n] # None]_vars
  BY <1>3 DEF Lonely
<1> QED
  BY Invariance, FilesAlways, <1>1, <1>2, <1>4, PTL DEF Spec, KeepsOne
=============================================================================
