------------------------------ MODULE Backups ------------------------------
(***************************************************************************)
(* Backups and restores.  A backup is a database snapshot written to       *)
(* <name>.partial, renamed, hashed and then recorded in a table of the     *)
(* same database; a restore verifies an archive, unpacks it, leaves a flag *)
(* and exits, and the next boot swaps the database before opening it.      *)
(* The scheduler and the operator's requests run concurrently, and the     *)
(* process may die between any two steps.                                  *)
(***************************************************************************)
EXTENDS Integers, FiniteSets

CONSTANTS
    Scheduler, Creators, Deleters, Restorers,  \* goroutines
    Gone, Torn,     \* no database file, or a piece of one
    None,
    Schema,         \* the schema version of this panel
    UploadSchema,   \* that of the archive an operator may upload
    Retention,      \* seconds a backup is kept; none but the newest if <= 0
    Faults,         \* which kinds of fault happen, and at most how many
    MaxFaults, MaxRuns, MaxEdits, MaxDeletes, MaxRestores, MaxTime

Procs   == {Scheduler} \cup Creators \cup Deleters \cup Restorers
Seconds == 0 .. MaxTime
Runs    == 1 .. MaxRuns
Upload  == 0                          \* the uploaded archive's run
Suffixes == 0 .. MaxRuns
Names   == Seconds \X Suffixes        \* argos-backup-<second>-<suffix>

ASSUME BackupsAssumption ==
    /\ Faults \subseteq {"write", "insert", "delete", "copy", "version", "crash"}
    /\ MaxRuns \in Nat /\ MaxTime \in Nat /\ Schema \in Nat /\ UploadSchema \in Nat
    /\ Scheduler \notin Creators \cup Deleters \cup Restorers
    /\ Deleters \cap (Creators \cup Restorers) = {} /\ Creators \cap Restorers = {}
    /\ None \notin Names \cup Seconds \cup Runs

Contents  == SUBSET (Runs \cup {Upload})
BackupRow == [id: Nat, sum: Contents, created: Seconds]
Databases == [cfg: Int, schema: Nat, seq: Nat, rows: [Names -> BackupRow \cup {None}]]
Entries   == [name: Names, id: Nat, created: Seconds]
Steps     == {"idle", "name", "write", "rename", "sum", "insert", "list", "purge", "remove",
              "row", "check", "extract", "apply", "flag", "exit"}
Goroutine == [pc: Steps, name: Names \cup {None}, run: Runs \cup {None},
              inode: Runs \cup {None}, id: Nat, sum: Contents,
              todo: SUBSET Entries, dir: Seconds \cup {None}]

ASSUME ValuesAssumption ==
    /\ None \notin Databases
    /\ Gone \notin Databases /\ Torn \notin Databases

VARIABLES
    db,        \* the live database: configuration, schema, table backups
    archives,  \* the database each run snapshotted
    bytes,     \* the runs whose bytes an inode holds: one if it is intact
    partial, files,  \* directory /data/backups: names to inodes
    payload,   \* what the .restore-<second> directories hold, {} if there is none
    flag,      \* /data/.restore_pending
    proc,      \* what each goroutine holds
    boot,      \* where main() is
    now,
    promised,  \* history: the archive this session accepted to restore
    last,      \* history: the configuration last served
    shared,    \* history: names given again while a row or a goroutine had them
    spoiled,   \* history: a restore's directory was another's too, or its copy failed
    waived,    \* history: a newer archive was let through, as a version was not known
    counts     \* runs, edits, deletes, restores, faults so far

diskVars    == <<bytes, partial, files>>
restoreVars == <<payload, flag>>
histVars    == <<promised, last, shared, spoiled, waived>>
vars == <<db, archives, diskVars, restoreVars, proc, boot, now, histVars, counts>>

NoRows == [n \in Names |-> None]
\* An empty database, as db.Open and the migrations make it.
Fresh == [cfg |-> 0, schema |-> Schema, seq |-> 0, rows |-> NoRows]
Idle  == [pc |-> "idle", name |-> None, run |-> None, inode |-> None,
          id |-> 0, sum |-> {}, todo |-> {}, dir |-> None]

Init ==
    /\ db = [Fresh EXCEPT !.cfg = 1]
    /\ archives = [r \in Runs \cup {Upload} |->
         IF r = Upload THEN [Fresh EXCEPT !.cfg = -1, !.schema = UploadSchema] ELSE None]
    /\ bytes = [r \in Runs |-> {}]
    /\ partial = NoRows /\ files = NoRows
    /\ payload = [s \in Seconds |-> {}] /\ flag = None
    /\ proc = [p \in Procs |-> Idle]
    /\ boot = "serving" /\ now = 0
    /\ promised = {} /\ last = 1 /\ shared = {}
    /\ spoiled = FALSE /\ waived = FALSE
    /\ counts = [runs |-> 0, edits |-> 0, deletes |-> 0, restores |-> 0, faults |-> 0]

Counted(f) == counts' = [counts EXCEPT ![f] = @ + 1]
Fault(kind) == kind \in Faults /\ counts.faults < MaxFaults /\ Counted("faults")
At(p, step) == boot = "serving" /\ proc[p].pc = step
Goto(p, step) == proc' = [proc EXCEPT ![p].pc = step]
Stop(p) == proc' = [proc EXCEPT ![p] = Idle]
panelFrame == <<boot, now, promised, last, spoiled, waived>>

----------------------------------------------------------------------------
(* Manager.Create *)

createFrame == <<restoreVars, panelFrame>>

\* VACUUM INTO: a consistent snapshot, which cannot hold the backup's own row.
Vacuum(p) ==
    /\ At(p, "idle") /\ p \in Creators \cup {Scheduler}
    /\ counts.runs < MaxRuns /\ Counted("runs")
    /\ archives' = [archives EXCEPT ![counts.runs + 1] = db]
    /\ proc' = [proc EXCEPT ![p] = [Idle EXCEPT !.pc = "name", !.run = counts.runs + 1]]
    /\ UNCHANGED <<db, diskVars, shared, createFrame>>

\* Whether a goroutine, a row without its file or a row of a snapshot has the name.
Taken(p, name) ==
    \/ \E q \in Procs \ {p} : proc[q].name = name
    \/ db.rows[name] # None /\ files[name] = None
    \/ \E r \in Runs : archives[r] # None /\ archives[r].rows[name] # None

\* The goroutine opens name.partial, truncating what another may be writing.
OpenPartial(p, name) ==
    LET i == IF partial[name] = None THEN proc[p].run ELSE partial[name]
    IN  /\ bytes' = [bytes EXCEPT ![i] = {}]
        /\ partial' = [partial EXCEPT ![name] = i]
        /\ proc' = [proc EXCEPT ![p] = [@ EXCEPT !.pc = "write", !.name = name, !.inode = i]]
        /\ shared' = IF Taken(p, name) THEN shared \cup {name} ELSE shared

\* Mutant: the name is the second's, whatever is on disk.
PickNameOverwrite(p) ==
    /\ At(p, "name")
    /\ OpenPartial(p, <<now, 0>>)
    /\ UNCHANGED <<db, archives, files, createFrame, counts>>

\* The first name of this second that no finished backup has.
PickName(p) ==
    /\ At(p, "name")
    /\ \E k \in Suffixes :
         /\ files[<<now, k>>] = None /\ \A j \in 0 .. k - 1 : files[<<now, j>>] # None
         /\ OpenPartial(p, <<now, k>>)
    /\ UNCHANGED <<db, archives, files, createFrame, counts>>

WriteArchive(p) ==
    /\ At(p, "write")
    /\ bytes' = [bytes EXCEPT ![proc[p].inode] = @ \cup {proc[p].run}]
    /\ Goto(p, "rename")
    /\ UNCHANGED <<db, archives, partial, files, shared, createFrame, counts>>

\* A full disk: the partial file is removed.
WriteFails(p) ==
    /\ At(p, "write") /\ Fault("write")
    /\ partial' = [partial EXCEPT ![proc[p].name] = None]
    /\ Stop(p)
    /\ UNCHANGED <<db, archives, bytes, files, shared, createFrame>>

\* partial -> final; it fails if another goroutine has renamed it already.
Rename(p) ==
    /\ At(p, "rename")
    /\ LET n == proc[p].name
       IN  IF partial[n] = None THEN Stop(p) /\ UNCHANGED <<files, partial>>
           ELSE /\ files' = [files EXCEPT ![n] = partial[n]]
                /\ partial' = [partial EXCEPT ![n] = None]
                /\ Goto(p, "sum")
    /\ UNCHANGED <<db, archives, bytes, shared, createFrame, counts>>

statAndSHA(p) ==
    /\ At(p, "sum")
    /\ LET f == files[proc[p].name]
       IN  IF f = None THEN Stop(p)
           ELSE proc' = [proc EXCEPT ![p] = [@ EXCEPT !.pc = "insert", !.sum = bytes[f]]]
    /\ UNCHANGED <<db, archives, diskVars, shared, createFrame, counts>>

\* The row; a name that has one already is refused, and the file stays.  The
\* scheduler goes on to the purge.
InsertRow(p) ==
    /\ At(p, "insert")
    /\ LET n == proc[p].name
       IN  IF db.rows[n] # None THEN Stop(p) /\ UNCHANGED db
           ELSE /\ db' = [db EXCEPT !.seq = @ + 1,
                     !.rows[n] = [id |-> db.seq + 1, sum |-> proc[p].sum, created |-> now]]
                /\ IF p = Scheduler
                   THEN proc' = [proc EXCEPT ![p] = [Idle EXCEPT !.pc = "list"]]
                   ELSE Stop(p)
    /\ UNCHANGED <<archives, diskVars, shared, createFrame, counts>>

\* The request's context ends before the row: the file stays.
InsertFails(p) ==
    /\ At(p, "insert") /\ Fault("insert")
    /\ Stop(p)
    /\ UNCHANGED <<db, archives, diskVars, shared, createFrame>>

----------------------------------------------------------------------------
(* Manager.Delete and Manager.Purge *)

deleteFrame == <<archives, bytes, partial, restoreVars, panelFrame, shared>>

\* A row as the list returns it: newest first, by time and then by id.
Listed == {[name |-> n, id |-> db.rows[n].id, created |-> db.rows[n].created] :
              n \in {m \in Names : db.rows[m] # None}}
Newer(a, b) == a.created > b.created \/ (a.created = b.created /\ a.id > b.id)

\* Mutant: the newest backup is not excepted.
ListAll(p) ==
    /\ At(p, "list")
    /\ proc' = [proc EXCEPT ![p] = [Idle EXCEPT !.pc = "purge",
         !.todo = {b \in Listed : Retention <= 0 \/ b.created < now - Retention}]]
    /\ UNCHANGED <<db, files, deleteFrame, counts>>

\* Everything but the newest that is older than the retention.
List(p) ==
    /\ At(p, "list")
    /\ proc' = [proc EXCEPT ![p] = [Idle EXCEPT !.pc = "purge",
         !.todo = {b \in Listed : /\ \E c \in Listed : Newer(c, b)
                                  /\ Retention <= 0 \/ b.created < now - Retention}]]
    /\ UNCHANGED <<db, files, deleteFrame, counts>>

\* Delete looks the row up; the purge ends at the first one that is gone.
PurgeNext(p) ==
    /\ At(p, "purge")
    /\ \E b \in proc[p].todo :
         /\ \A c \in proc[p].todo \ {b} : Newer(b, c)
         /\ IF db.rows[b.name] = None \/ db.rows[b.name].id # b.id THEN Stop(p)
            ELSE proc' = [proc EXCEPT ![p] = [@ EXCEPT !.pc = "remove", !.name = b.name,
                                                !.id = b.id, !.todo = proc[p].todo \ {b}]]
    /\ UNCHANGED <<db, files, deleteFrame, counts>>

PurgeDone(p) ==
    /\ At(p, "purge") /\ proc[p].todo = {}
    /\ Stop(p)
    /\ UNCHANGED <<db, files, deleteFrame, counts>>

\* DeleteBackup: the same look-up, for the operator.
DeleteBackup(p, n) ==
    /\ At(p, "idle") /\ p \in Deleters
    /\ counts.deletes < MaxDeletes /\ Counted("deletes")
    /\ db.rows[n] # None
    /\ proc' = [proc EXCEPT ![p] = [Idle EXCEPT !.pc = "remove", !.name = n,
                                                !.id = db.rows[n].id]]
    /\ UNCHANGED <<db, files, deleteFrame>>

\* The file goes first; it may be gone already.
RemoveFile(p) ==
    /\ At(p, "remove")
    /\ files' = [files EXCEPT ![proc[p].name] = None]
    /\ Goto(p, "row")
    /\ UNCHANGED <<db, deleteFrame, counts>>

DeleteRow(p) ==
    /\ At(p, "row")
    /\ LET n == proc[p].name
       IN  db' = IF db.rows[n] # None /\ db.rows[n].id = proc[p].id
                 THEN [db EXCEPT !.rows[n] = None] ELSE db
    /\ IF p = Scheduler THEN proc' = [proc EXCEPT ![p] = [@ EXCEPT !.pc = "purge", !.name = None]]
       ELSE Stop(p)
    /\ UNCHANGED <<files, deleteFrame, counts>>

\* The request's context, or the statement, fails between the two.
DeleteFails(p) ==
    /\ At(p, "row") /\ Fault("delete")
    /\ Stop(p)
    /\ UNCHANGED <<db, files, deleteFrame>>

----------------------------------------------------------------------------
(* Manager.Prepare and Manager.Apply *)

prepareFrame == <<db, archives, diskVars, boot, now, last, shared>>
noticeVars   == <<promised, spoiled, waived>>

\* RestoreBackup starts from a row of the list ...
RestoreBackup(p, n) ==
    /\ At(p, "idle") /\ p \in Restorers
    /\ counts.restores < MaxRestores /\ Counted("restores")
    /\ db.rows[n] # None
    /\ proc' = [proc EXCEPT ![p] = [Idle EXCEPT !.pc = "check", !.name = n,
                                                !.id = db.rows[n].id]]
    /\ UNCHANGED <<prepareFrame, restoreVars, noticeVars>>

\* ... and UploadAndRestore from an archive of the operator's: no hash to check.
UploadAndRestore(p) ==
    /\ At(p, "idle") /\ p \in Restorers
    /\ counts.restores < MaxRestores /\ Counted("restores")
    /\ proc' = [proc EXCEPT ![p] = [Idle EXCEPT !.pc = "extract", !.sum = {Upload}]]
    /\ UNCHANGED <<prepareFrame, restoreVars, noticeVars>>

\* The file must exist and still be what its row says.
CheckSum(p) ==
    /\ At(p, "check")
    /\ LET n == proc[p].name
       IN  IF /\ files[n] # None /\ db.rows[n] # None /\ db.rows[n].id = proc[p].id
              /\ db.rows[n].sum = bytes[files[n]]
           THEN Goto(p, "extract") ELSE Stop(p)
    /\ UNCHANGED <<prepareFrame, restoreVars, noticeVars, counts>>

\* Mutant: one directory for every restore.
ExtractOneDir(p) ==
    /\ At(p, "extract")
    /\ LET n == proc[p].name
           got == IF n = None THEN proc[p].sum
                  ELSE IF files[n] = None THEN {} ELSE bytes[files[n]]
       IN  /\ Cardinality(got) = 1
           /\ payload' = [payload EXCEPT ![0] = got]
           /\ proc' = [proc EXCEPT ![p] = [@ EXCEPT !.pc = "apply", !.sum = got, !.dir = 0]]
    /\ UNCHANGED <<prepareFrame, flag, noticeVars, counts>>

\* The archive is read again and unpacked into this second's directory, which
\* is removed if that fails.
Extract(p) ==
    /\ At(p, "extract")
    /\ LET n == proc[p].name
           got == IF n = None THEN proc[p].sum
                  ELSE IF files[n] = None THEN {} ELSE bytes[files[n]]
       IN  IF Cardinality(got) # 1
           THEN payload' = [payload EXCEPT ![now] = {}] /\ Stop(p)
           ELSE /\ payload' = [payload EXCEPT ![now] = got]
                /\ proc' = [proc EXCEPT ![p] = [@ EXCEPT !.pc = "apply", !.sum = got, !.dir = now]]
    /\ spoiled' = (spoiled \/ payload[now] # {})
    /\ UNCHANGED <<prepareFrame, flag, promised, waived, counts>>

SourceOf(content) == CHOOSE r \in content : TRUE
Source(content) == archives[SourceOf(content)]

\* Mutant: any schema is accepted.
ApplyAny(p) ==
    /\ At(p, "apply")
    /\ IF flag = None THEN Goto(p, "flag") ELSE Stop(p)
    /\ UNCHANGED <<prepareFrame, restoreVars, noticeVars, counts>>

IsNewer(p) == Source(proc[p].sum).schema > db.schema

\* An archive newer than the database, or a restore that is pending already, is
\* refused.
Apply(p) ==
    /\ At(p, "apply")
    /\ IF flag = None /\ ~IsNewer(p) THEN Goto(p, "flag") ELSE Stop(p)
    /\ UNCHANGED <<prepareFrame, restoreVars, noticeVars, counts>>

\* One of the two versions is empty: the metadata has none, or the query of the
\* database's failed and its error is ignored.  Nothing is compared.
ApplyUnknown(p) ==
    /\ At(p, "apply") /\ Fault("version")
    /\ IF flag = None THEN Goto(p, "flag") /\ waived' = (waived \/ IsNewer(p))
       ELSE Stop(p) /\ UNCHANGED waived
    /\ UNCHANGED <<prepareFrame, restoreVars, promised, spoiled>>

\* 202: the operator is told that this archive will be restored.
WriteFlag(p) ==
    /\ At(p, "flag")
    /\ flag' = proc[p].dir /\ promised' = proc[p].sum
    /\ Goto(p, "exit")
    /\ UNCHANGED <<prepareFrame, payload, spoiled, waived, counts>>

GoesDown == /\ boot' = "down" /\ proc' = [p \in Procs |-> Idle]
            /\ UNCHANGED <<archives, diskVars, restoreVars, now, histVars>>

\* Mutant: nobody ends the process.
ExitForgets(p) == /\ At(p, "exit") /\ Stop(p)
                  /\ UNCHANGED <<prepareFrame, restoreVars, noticeVars, counts>>

\* os.Exit, 800 ms later.
Exit(p) == At(p, "exit") /\ GoesDown /\ UNCHANGED <<db, counts>>

----------------------------------------------------------------------------
(* main(): ApplyPending, db.Open, Migrate, Manager.Reconcile *)

bootFrame == <<archives, diskVars, proc, now, shared>>
bootHist  == <<promised, last, spoiled, waived>>

ReadFlag ==
    /\ boot = "down"
    /\ boot' = IF flag # None /\ payload[flag] # {} THEN "remove" ELSE "open"
    /\ flag' = IF flag # None /\ payload[flag] = {} THEN None ELSE flag
    /\ UNCHANGED <<bootFrame, db, payload, bootHist, counts>>

\* The database and what its log files hold.
RemoveDB ==
    /\ boot = "remove" /\ db' = Gone /\ boot' = "copy"
    /\ UNCHANGED <<bootFrame, restoreVars, bootHist, counts>>

CopyDB ==
    /\ boot = "copy" /\ db' = Source(payload[flag]) /\ boot' = "clean"
    /\ UNCHANGED <<bootFrame, restoreVars, bootHist, counts>>

\* The copy fails: main logs the error and goes on.
CopyFails ==
    /\ boot = "copy" /\ Fault("copy")
    /\ db' \in {Gone, Torn} /\ boot' = "open"
    /\ spoiled' = TRUE
    /\ UNCHANGED <<bootFrame, restoreVars, promised, last, waived>>

RemovePayload ==
    /\ boot = "clean" /\ payload' = [payload EXCEPT ![flag] = {}] /\ boot' = "unflag"
    /\ UNCHANGED <<bootFrame, db, flag, bootHist, counts>>

\* Mutant: the flag stays.
RemoveFlagForgets ==
    /\ boot = "unflag" /\ boot' = "open"
    /\ UNCHANGED <<bootFrame, restoreVars, db, bootHist, counts>>

RemoveFlag ==
    /\ boot = "unflag" /\ flag' = None /\ boot' = "open"
    /\ UNCHANGED <<bootFrame, db, payload, bootHist, counts>>

\* db.Open makes a database if there is none; a piece of one may be empty, and
\* is then one too, or stop main.  Older schemas are migrated.
OpenDB ==
    /\ boot = "open"
    /\ \/ /\ db \in {Gone, Torn} /\ db' = Fresh /\ boot' = "reconcile"
       \/ db = Torn /\ boot' = "down" /\ UNCHANGED db
       \/ /\ db \notin {Gone, Torn} /\ boot' = "reconcile"
          /\ db' = IF db.schema < Schema THEN [db EXCEPT !.schema = Schema] ELSE db
    /\ UNCHANGED <<bootFrame, restoreVars, bootHist, counts>>

\* A file without a row gets one, a row without a file goes; then main serves.
Reconcile ==
    /\ boot = "reconcile" /\ boot' = "serving"
    /\ db' = [db EXCEPT !.seq = @ + MaxRuns,
         !.rows = [n \in Names |->
            IF files[n] = None THEN None
            ELSE IF db.rows[n] # None THEN db.rows[n]
            ELSE [id |-> db.seq + files[n], sum |-> bytes[files[n]], created |-> n[1]]]]
    /\ last' = db'.cfg /\ promised' = {}
    /\ UNCHANGED <<bootFrame, restoreVars, spoiled, waived, counts>>

----------------------------------------------------------------------------
(* The rest of the panel, and misfortune *)

\* Any change of the configuration.
Edit ==
    /\ boot = "serving" /\ counts.edits < MaxEdits /\ Counted("edits")
    /\ db' = [db EXCEPT !.cfg = counts.edits + 2] /\ last' = counts.edits + 2
    /\ UNCHANGED <<archives, diskVars, restoreVars, proc, boot, now, promised, shared, spoiled, waived>>

\* The process dies; in the middle of the copy it leaves a piece of a file.
Crash ==
    /\ boot # "down" /\ Fault("crash")
    /\ db' \in (IF boot = "copy" THEN {db, Torn} ELSE {db})
    /\ GoesDown

Tick ==
    /\ now < MaxTime /\ now' = now + 1
    /\ UNCHANGED <<db, archives, diskVars, restoreVars, proc, boot, histVars, counts>>

Create(p) == \/ PickName(p) \/ WriteArchive(p) \/ WriteFails(p) \/ Rename(p)
             \/ statAndSHA(p) \/ InsertRow(p) \/ InsertFails(p)
Delete(p) == \/ List(p) \/ PurgeNext(p) \/ PurgeDone(p)
             \/ RemoveFile(p) \/ DeleteRow(p) \/ DeleteFails(p)
Restore(p) == \/ CheckSum(p) \/ Extract(p) \/ Apply(p) \/ ApplyUnknown(p)
              \/ WriteFlag(p) \/ Exit(p)
Boot == \/ ReadFlag \/ RemoveDB \/ CopyDB \/ CopyFails \/ RemovePayload \/ RemoveFlag
        \/ OpenDB \/ Reconcile

Next ==
    \/ \E p \in Procs : \/ Vacuum(p) \/ Create(p) \/ Delete(p) \/ Restore(p)
                        \/ UploadAndRestore(p)
                        \/ \E n \in Names : DeleteBackup(p, n) \/ RestoreBackup(p, n)
    \/ Boot \/ Edit \/ Crash \/ Tick

Spec == Init /\ [][Next]_vars

\* Handlers and the scheduler run to their end; docker restarts the panel.
FairSpec == /\ Spec /\ WF_vars(Boot)
            /\ \A p \in Procs : WF_vars(Create(p) \/ Delete(p) \/ Restore(p))

----------------------------------------------------------------------------
(* Properties *)

\* What a goroutine holds at each of its steps.
Holds(g) ==
    /\ g.pc \in {"name", "write", "rename"} => g.run \in Runs
    /\ g.pc \in {"write", "rename", "sum", "insert", "remove", "row", "check"} => g.name \in Names
    /\ g.pc = "write" => g.inode \in Runs
    /\ g.pc \in {"apply", "flag", "exit"} => g.dir \in Seconds

\* Every variable keeps its type, and only a served panel has goroutines.
TypeOK ==
    /\ db \in Databases \cup {Gone, Torn}
    /\ archives \in [Runs \cup {Upload} -> Databases \cup {None}]
    /\ bytes \in [Runs -> Contents]
    /\ partial \in [Names -> Runs \cup {None}] /\ files \in [Names -> Runs \cup {None}]
    /\ payload \in [Seconds -> Contents]
    /\ flag \in Seconds \cup {None} /\ now \in Seconds
    /\ proc \in [Procs -> Goroutine] /\ \A p \in Procs : Holds(proc[p])
    /\ boot \in {"down", "remove", "copy", "clean", "unflag", "open", "reconcile", "serving"}
    /\ boot # "serving" => proc = [p \in Procs |-> Idle]
    /\ boot \in {"reconcile", "serving"} => db \in Databases
    /\ promised \in Contents /\ last \in Int
    /\ spoiled \in BOOLEAN /\ waived \in BOOLEAN /\ shared \subseteq Names
    /\ counts \in [runs: Nat, edits: Nat, deletes: Nat, restores: Nat, faults: Nat]

\* What a row vouches for is on disk: the archive it names, if it is there, has
\* the recorded hash, or its restore would be refused as corrupt.
Vouches(n) == db.rows[n] # None /\ files[n] # None => db.rows[n].sum = bytes[files[n]]
\* It holds for every name that was free when it was given.
RowVouches == boot = "serving" => \A n \in Names \ shared : Vouches(n)

\* While nothing is being deleted, every row the panel lists has its archive,
\* whatever crashes and restores of older tables came before.
RowsHaveFiles ==
    boot = "serving" /\ "delete" \notin Faults =>
        \A n \in Names \ shared : db.rows[n] # None /\ files[n] = None =>
            \E p \in Procs : proc[p].pc = "row" /\ proc[p].name = n

\* Rows and files: the archive a row names has the hash the row records, and while
\* nothing is being deleted every listed row has its archive.
RowsMatchFiles == RowVouches /\ RowsHaveFiles

\* The purge never takes the last archive, unless the operator deletes some:
\* "the newest is always preserved".
KeepsOne ==
    [][proc[Scheduler].pc = "remove" /\ proc'[Scheduler].pc = "row"
         /\ counts.deletes = 0 /\ shared = {}
         => \E n \in Names : files'[n] # None]_vars

\* A booted panel serves the archive whose restore the session before accepted,
\* or else the configuration that session last had: whole, and wherever the
\* process died in between.
Booted == boot # "serving" /\ boot' = "serving"
BootServes ==
    [][Booted /\ ~spoiled =>
         db'.cfg = IF promised = {} THEN last ELSE Source(promised).cfg]_vars

\* main, after a restore that failed: "the live DB will be used as-is".
LiveDBAsIs ==
    [][Booted => \/ db'.cfg = last
                 \/ promised # {} /\ db'.cfg = Source(promised).cfg]_vars

\* A served flag was written by this session: no restore is applied twice.
FlagIsFresh == boot = "serving" /\ flag # None /\ ~spoiled => promised # {}

\* The panel never serves a database newer than itself ("downgrade blocked"), as
\* long as every archive's version and the database's own could be read: where one
\* is empty Apply compares nothing.
NoDowngrade == boot = "serving" /\ ~spoiled /\ ~waived => db.schema <= Schema

\* A restore that was accepted is served, in the end.
RestoreLands ==
    \A p \in Restorers :
        proc[p].pc = "exit" ~> (boot = "serving" /\ flag = None) \/ spoiled
=============================================================================
