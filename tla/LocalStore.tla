----------------------------- MODULE LocalStore -----------------------------
(***************************************************************************)
(* The SQLite file that processes share: opened for writing, with the      *)
(* migration of its schema under the write lock, written through by a      *)
(* command's answers, and read without locks by others                     *)
(* (internal/store/store.go, internal/cli/data_source.go,                  *)
(* internal/cli/channel_workflow.go).                                      *)
(*                                                                         *)
(* What SQLite itself does is modelled from how the code uses it: a        *)
(* commit goes to the write-ahead log; the close of the last connection,   *)
(* or a commit that makes the log long, copies it to the main file; a      *)
(* death leaves it where it is.  The connections that read (immutable=1)   *)
(* see the main file alone.  Processes may be binaries of two versions;    *)
(* an older one is this code with a smaller StoreSchemaVersion.            *)
(*                                                                         *)
(* SQLite takes a connection to be the last if no other process has a lock *)
(* on the file, and the kernel drops every lock of a process when it       *)
(* closes any descriptor of the file: hardenSQLiteFiles does, at the end   *)
(* of an open and around every write.  A connection past its open is thus  *)
(* overlooked by the others.  Their close copies the log and unlinks it    *)
(* under the connection, which goes on with a log that has no name (each   *)
(* such connection is taken to be alone on it); their open during its      *)
(* transaction empties the index of the log.  From then on this is the     *)
(* best case: a log is copied as a whole or not at all, where the code may *)
(* mix the pages of two stores.                                            *)
(***************************************************************************)
EXTENDS Naturals, FiniteSets

CONSTANTS
  Process,
  Outside,              \* another program that has the file open and locked
  NoProcess,
  StoreSchemaVersion,   \* the schema version of each process's binary
  Id, Field,
  NoRow, NoAnswer, Refused, Torn,
  Shared, Empty,        \* what a connection's log may be, if it is no store
  Stores,               \* what the file may hold at first
  Items,                \* what an answer of the KVM may say of a row
  MaxCommands,          \* bound: how many commands are run
  MaxDeaths             \* bound: how many processes are killed

ContentVersion == 4     \* resourcesFTSContentSchemaVersion

\* the content rewrite is pinned at 4: both binaries know of it
ASSUME VersionsAssumption ==
  /\ \A p \in Process : StoreSchemaVersion[p] \in Nat /\ StoreSchemaVersion[p] >= ContentVersion
  /\ Outside \notin Process /\ NoProcess \notin Process \cup {Outside}
  /\ MaxCommands \in Nat /\ MaxDeaths \in Nat

VARIABLES
  last,       \* the store as of the last commit
  main,       \* what of it the main file has
  wal,        \* the journal mode: write-ahead log or, before, rollback
  writer,     \* who holds the write lock
  open,       \* who has a connection that writes
  log,        \* each process's log: the one that has a name, or its own
  draft,      \* each transaction's own view
  pc,
  kind,       \* write: a command that opens the store; status; read: locally
  late,       \* the deadline of what the process retries has passed
  got,        \* what a reading command was given
  commands, deaths,
  killed,     \* history: a death since the log was last copied by a close
  overlooked  \* history: a connection has been overlooked by another's step

store == <<last, main, wal>>
files == <<store, writer, open, log, killed, overlooked>>
vars == <<files, draft, pc, kind, late, got, commands, deaths>>

(* A field is missing, a scalar, or an object or array. *)
Data == [Field -> 0 .. 2]
Rows == [Id -> Data \cup {NoRow}]
Present(rows) == {i \in Id : rows[i] # NoRow}

(* key: resources is keyed by type and id.  tables: the version whose      *)
(* tables exist, 0 for none.  columns: none is missing of them.  index:    *)
(* the version that built resources_fts, 0 for none.  indexed: the rows    *)
(* it finds.                                                               *)
Store ==
  [version : Nat, key : BOOLEAN, tables : Nat, columns : BOOLEAN, index : 0 .. ContentVersion,
   rows : Rows, indexed : SUBSET Id]

(* What the stamp of a version stands for.  The file is left by earlier    *)
(* runs of these binaries or of older ones: what its stamp says is there.  *)
Promised(s) ==
  /\ s.version >= 2 => s.key
  /\ s.version >= 3 => s.index >= (IF s.version < ContentVersion THEN s.version ELSE ContentVersion)
  /\ s.tables >= s.version
  /\ (\E p \in Process : s.version = StoreSchemaVersion[p]) => s.columns

ASSUME StoresAssumption == \A s \in Stores : s \in Store /\ Promised(s)
ASSUME ItemsAssumption == Items \subseteq Data
ASSUME NoRowAssumption == NoRow \notin Data
ASSUME LogAssumption == Shared \notin Store \cup {Empty} /\ Empty \notin Store

Opening == {"probe", "driver", "acquire", "version", "begin", "migrate", "commit"}
Using == {"opened", "batch", "batch_commit", "close"}
Holding == {"version", "begin", "migrate", "commit"}
Connected == Holding \cup Using
Transacting == {"migrate", "commit", "batch", "batch_commit"}
Label == {"idle", "look"} \cup Opening \cup Using

TypeOK ==
  /\ last \in Store /\ main \in Store /\ wal \in BOOLEAN
  /\ writer \in Process \cup {Outside, NoProcess}
  /\ draft \in [Process -> Store]
  /\ pc \in [Process -> Label]
  /\ kind \in [Process -> {"write", "status", "read"}]
  /\ late \in [Process -> BOOLEAN]
  /\ got \in [Process -> Rows \cup {NoAnswer, Refused, Torn}]
  /\ commands \in 0 .. MaxCommands /\ deaths \in 0 .. MaxDeaths
  /\ killed \in BOOLEAN /\ overlooked \in BOOLEAN
  /\ log \in [Process -> Store \cup {Shared, Empty}]
  /\ \A p \in Process : log[p] # Shared => pc[p] \in Using /\ overlooked
  /\ open \ {Outside} = {p \in Process : pc[p] \in Connected}
  /\ {p \in Process : pc[p] \in Transacting /\ log[p] = Shared} = {writer} \cap Process

Init ==
  /\ last \in Stores
  /\ main = last
  /\ wal \in (IF last.tables = 0 THEN {FALSE} ELSE BOOLEAN)
  /\ writer \in {NoProcess, Outside}
  /\ writer = Outside => last.tables > 0
  /\ open = {writer} \ {NoProcess}
  /\ draft = [p \in Process |-> last]
  /\ pc = [p \in Process |-> "idle"]
  /\ kind = [p \in Process |-> "read"]
  /\ late = [p \in Process |-> FALSE]
  /\ got = [p \in Process |-> NoAnswer]
  /\ commands = 0 /\ deaths = 0
  /\ log = [p \in Process |-> Shared]
  /\ killed = FALSE /\ overlooked = FALSE

-----------------------------------------------------------------------------
(* The migration, as functions of the store. *)

(* rebuildResourcesFTS into a new table: every row, by its leaf values.    *)
Rebuilt(s) == [s EXCEPT !.index = ContentVersion, !.indexed = Present(s.rows)]

(* Rows are copied to a table with the composite key; the index always.    *)
CompositeKey(s) == IF s.tables = 0 THEN s ELSE [Rebuilt(s) EXCEPT !.key = TRUE]

(* Columns that tables of older binaries lack; a missing table is skipped. *)
BackfillColumns(s) == [s EXCEPT !.columns = s.columns \/ s.tables > 0]

(* CREATE TABLE IF NOT EXISTS: what exists is left as it is.               *)
CreateTables(s, version) ==
  [s EXCEPT !.tables = IF @ < version THEN version ELSE @,
            !.key = s.key \/ s.tables = 0,
            !.columns = s.columns \/ s.tables = 0,
            !.index = IF @ = 0 THEN ContentVersion ELSE @]

Stamped(s, version) == [s EXCEPT !.version = version]

Rekeyed(s) ==
  IF s.version < 2 THEN CompositeKey(s)
  ELSE IF s.version = 2 /\ s.tables > 0 THEN Rebuilt(s) ELSE s

IndexedTooLate(s, current) == IF current < ContentVersion - 1 THEN Rebuilt(s) ELSE s
Indexed(s, current) == IF current < ContentVersion THEN Rebuilt(s) ELSE s

Migrated(s, version) ==
  Stamped(Indexed(CreateTables(BackfillColumns(Rekeyed(s)), version), s.version), version)

(* mergeKeepRicherJSON: a field is not lost, nor an object for a scalar.   *)
Richer(a, b) == IF a > b THEN a ELSE b
Merged(row, item) ==
  IF row = NoRow THEN item ELSE [f \in Field |-> Richer(row[f], item[f])]

(* A batch in its transaction; an index entry that fails is left out.      *)
Upserted(s, batch, found) ==
  [s EXCEPT !.rows = [i \in Id |-> IF i \in DOMAIN batch THEN Merged(@[i], batch[i]) ELSE @[i]],
            !.indexed = (@ \ DOMAIN batch) \cup found]

-----------------------------------------------------------------------------
To(p, label) == pc' = [pc EXCEPT ![p] = label]
history == <<commands, deaths>>

(* What a connection sees.                                                 *)
View(p) ==
  CASE log[p] = Shared -> last
    [] log[p] = Empty -> main
    [] OTHER -> log[p]

(* Whose locks the kernel still knows: hardenSQLiteFiles, at the end of    *)
(* OpenWithContext and then before and after every write, drops those of   *)
(* its process.  A write lock is taken after it and kept.                  *)
Held == {p \in Process : pc[p] \in Holding} \cup (open \cap {Outside})

(* The close of a connection copies its log if it takes itself to be the   *)
(* last one, and unlinks the log that has the name.  Who is left has that  *)
(* log to itself: with what only it has, or with nothing that the main     *)
(* file has not.                                                           *)
ClosesAtExit(who, view) ==
  /\ open' = open \ who
  /\ log' = [p \in Process |-> IF p \in who THEN Shared ELSE log[p]]
  /\ writer' = IF writer \in who THEN NoProcess ELSE writer
  /\ UNCHANGED <<last, main, killed, overlooked>>
Closes(who, view) ==
  IF Held \subseteq who
  THEN /\ open' = open \ who
       /\ main' = view /\ last' = view
       /\ log' = [p \in Process |->
                    IF p \notin open' THEN Shared
                    ELSE IF log[p] # Shared THEN log[p]
                    ELSE IF view = last THEN Empty ELSE last]
       /\ writer' = NoProcess
       /\ killed' = FALSE
       /\ overlooked' = (overlooked \/ open' # {})
  ELSE ClosesAtExit(who, view)

(* An error, a cancellation or a refusal: the transaction is rolled back   *)
(* and the connection closed.  The caller takes it as if there were no     *)
(* store.                                                                  *)
Return(p) ==
  /\ To(p, "idle")
  /\ IF p \in open THEN Closes({p}, View(p)) /\ UNCHANGED wal ELSE UNCHANGED files
  /\ late' = [late EXCEPT ![p] = FALSE]
  /\ UNCHANGED <<draft, kind, got, history>>

Newer(p, s) == s.version > StoreSchemaVersion[p]

Begin(p, k) ==
  /\ pc[p] = "idle"
  /\ commands < MaxCommands
  /\ commands' = commands + 1
  /\ kind' = [kind EXCEPT ![p] = k]
  /\ got' = [got EXCEPT ![p] = NoAnswer]
  /\ To(p, IF k = "write" THEN "probe" ELSE "look")
  /\ UNCHANGED <<files, draft, late, deaths>>

(* rejectNewerSchemaBeforeJournalMode reads the main file.  An error of    *)
(* it is left to the connection, which meets it too.  The driver is        *)
(* initialized by the first open of a process.                             *)
Probe(p) ==
  /\ pc[p] = "probe"
  /\ IF Newer(p, main) THEN Return(p)
     ELSE /\ To(p, "driver") \/ To(p, "acquire")
          /\ UNCHANGED <<files, draft, kind, late, got, history>>

(* What SQLITE_BUSY makes wait: the conversion to a log, and the lock.     *)
Busy(p) ==
  \/ pc[p] \in {"driver", "acquire"} /\ ~wal /\ writer # NoProcess
  \/ pc[p] \in {"begin", "opened"} /\ log[p] = Shared /\ writer # NoProcess

(* The driver's first connection, closed again, converts the journal.      *)
InitDriver(p) ==
  /\ pc[p] = "driver" /\ ~Busy(p)
  /\ wal' = TRUE
  /\ Closes({}, last)
  /\ To(p, "acquire")
  /\ late' = [late EXCEPT ![p] = FALSE]
  /\ UNCHANGED <<draft, kind, got, history>>

(* A connection that takes itself to be the first empties the index of the *)
(* log, which is built again only if nobody is writing: what the log held  *)
(* may not be found any more.                                              *)
Acquire(p) ==
  /\ pc[p] = "acquire" /\ ~Busy(p)
  /\ open' = open \cup {p}
  /\ wal' = TRUE
  /\ IF Held = {} /\ writer # NoProcess
     THEN last' \in {last, main} /\ overlooked' = TRUE
     ELSE UNCHANGED <<last, overlooked>>
  /\ To(p, "version")
  /\ UNCHANGED <<main, writer, log, killed, draft, kind, late, got, history>>

ReadVersion(p) ==
  /\ pc[p] = "version"
  /\ IF Newer(p, last) THEN Return(p)
     ELSE /\ To(p, "begin")
          /\ UNCHANGED <<files, draft, kind, late, got, history>>

(* BEGIN IMMEDIATE takes the write lock; every open does.  A connection    *)
(* with a log of its own takes the lock of that one.                       *)
Lock(p, from, to) ==
  /\ pc[p] = from /\ ~Busy(p)
  /\ writer' = IF log[p] = Shared THEN p ELSE writer
  /\ draft' = [draft EXCEPT ![p] = View(p)]
  /\ To(p, to)
  /\ late' = [late EXCEPT ![p] = FALSE]
  /\ UNCHANGED <<store, open, log, killed, overlooked, kind, got, history>>

BeginMigration(p) == Lock(p, "begin", "migrate")

(* The version is read again under the lock. *)
MigrateUnread(p) ==
  /\ pc[p] = "migrate"
  /\ draft' = [draft EXCEPT ![p] = Migrated(draft[p], StoreSchemaVersion[p])]
  /\ To(p, "commit")
  /\ UNCHANGED <<files, kind, late, got, history>>
Migrate(p) ==
  /\ pc[p] = "migrate"
  /\ IF Newer(p, draft[p]) THEN Return(p)
     ELSE /\ draft' = [draft EXCEPT ![p] = Migrated(draft[p], StoreSchemaVersion[p])]
          /\ To(p, "commit")
          /\ UNCHANGED <<files, kind, late, got, history>>

(* COMMIT; a long log is copied to the main file then and there.           *)
Commit(p, from, to) ==
  /\ pc[p] = from /\ log[p] = Shared
  /\ last' = draft[p]
  /\ main' \in {main, draft[p]}
  /\ writer' = NoProcess
  /\ To(p, to)
  /\ UNCHANGED <<wal, open, log, killed, overlooked, draft, kind, late, got, history>>

CommitMigration(p) == Commit(p, "commit", "opened")

-----------------------------------------------------------------------------
(* Write-through, and the readers. *)

(* A command that only needed the store, or an answer without items.       *)
NothingToWrite(p) ==
  /\ pc[p] = "opened"
  /\ To(p, "close")
  /\ UNCHANGED <<files, draft, kind, late, got, history>>

BeginDeferred(p) ==
  /\ pc[p] = "opened"
  /\ draft' = [draft EXCEPT ![p] = last]
  /\ To(p, "batch")
  /\ UNCHANGED <<files, kind, late, got, history>>
BeginBatch(p) == Lock(p, "opened", "batch")

Batches == UNION {[S -> Items] : S \in SUBSET Id \ {{}}}

Put(p) ==
  /\ pc[p] = "batch"
  /\ \E batch \in Batches : \E found \in SUBSET DOMAIN batch :
       draft' = [draft EXCEPT ![p] = Upserted(draft[p], batch, found)]
  /\ To(p, "batch_commit")
  /\ UNCHANGED <<files, kind, late, got, history>>

CommitBatch(p) == Commit(p, "batch_commit", "close")

(* The same COMMIT by a connection with a log of its own.  Others find     *)
(* what is copied to the main file unless their log has that, too.         *)
CommitAside(p) ==
  /\ pc[p] = "batch_commit" /\ log[p] # Shared
  /\ \/ log' = [log EXCEPT ![p] = draft[p]] /\ UNCHANGED <<last, main>>
     \/ /\ log' = [log EXCEPT ![p] = Empty]
        /\ main' = draft[p]
        /\ last' = IF last = main THEN draft[p] ELSE last
  /\ To(p, "close")
  /\ UNCHANGED <<wal, writer, open, killed, overlooked, draft, kind, late, got, history>>

Close(p) == pc[p] = "close" /\ Return(p)

Exists == wal \/ main.tables > 0

(* workflow status wants the exact version; a local read and the MCP       *)
(* server's sql and search do not look at it.                              *)
Answer(p, s) ==
  IF \/ s.tables = 0 /\ Exists
     \/ kind[p] = "status" /\ Exists /\ s.version # StoreSchemaVersion[p]
  THEN Refused ELSE s.rows

(* What a process at a commit, or at the close of a connection, may copy   *)
(* to the main file while others read it; a death may leave half of it.    *)
Copied(q) ==
  CASE pc[q] \in {"commit", "batch_commit"} -> draft[q]
    [] pc[q] \in {"driver", "close"} -> View(q)
    [] OTHER -> main

Look(p) ==
  /\ pc[p] = "look"
  /\ \/ got' = [got EXCEPT ![p] = Answer(p, main)]
     \/ /\ (\E q \in Process : Copied(q) # main) \/ (killed /\ main # last)
        /\ got' = [got EXCEPT ![p] = Torn]
  /\ To(p, "idle")
  /\ UNCHANGED <<files, draft, kind, late, history>>

-----------------------------------------------------------------------------
(* Deadlines, errors, deaths and the other program. *)

DeadlinePasses(p) ==
  /\ Busy(p) /\ ~late[p]
  /\ late' = [late EXCEPT ![p] = TRUE]
  /\ UNCHANGED <<files, draft, pc, kind, got, history>>

(* retryOnBusy and busy_timeout give up. *)
NeverGiveUp(p) == FALSE /\ Return(p)
GiveUp(p) == Busy(p) /\ late[p] /\ Return(p)

Fail(p) == pc[p] \in (Opening \cup Using) \ {"close"} /\ Return(p)

Die(p) ==
  /\ pc[p] # "idle"
  /\ deaths < MaxDeaths
  /\ deaths' = deaths + 1
  /\ To(p, "idle")
  /\ open' = open \ {p}
  /\ log' = [log EXCEPT ![p] = Shared]
  /\ killed' = (killed \/ p \in open)
  /\ writer' = IF writer = p THEN NoProcess ELSE writer
  /\ late' = [late EXCEPT ![p] = FALSE]
  /\ UNCHANGED <<store, overlooked, draft, kind, got, commands>>

OutsideLeaves ==
  /\ writer = Outside
  /\ Closes({Outside}, last)
  /\ UNCHANGED <<wal, draft, pc, kind, late, got, history>>

Step(p) ==
  \/ Probe(p) \/ InitDriver(p) \/ Acquire(p) \/ ReadVersion(p)
  \/ BeginMigration(p) \/ Migrate(p) \/ CommitMigration(p)
  \/ BeginBatch(p) \/ Put(p) \/ CommitBatch(p) \/ CommitAside(p) \/ Close(p)
  \/ Look(p) \/ GiveUp(p)

Next ==
  \/ \E p \in Process :
       \/ \E k \in {"write", "status", "read"} : Begin(p, k)
       \/ Step(p) \/ NothingToWrite(p) \/ DeadlinePasses(p) \/ Fail(p) \/ Die(p)
  \/ OutsideLeaves

(* A process that can go on does, and time passes.  The other program may  *)
(* keep its lock for ever.                                                 *)
Fairness == \A p \in Process : WF_vars(Step(p)) /\ WF_vars(DeadlinePasses(p))

Spec == Init /\ [][Next]_vars /\ Fairness

-----------------------------------------------------------------------------
(* Properties.  Until a connection is overlooked: what the file holds from *)
(* then on may be anything, and less than was committed.                   *)

(* "Re-read user_version inside the lock.  This is load-bearing": an open  *)
(* never changes a store that is already newer than its binary, neither    *)
(* its version nor its journal mode, whichever of its reads was overtaken. *)
NewerIsLeftAlone ==
  [][\A p \in Process :
       pc[p] \in Opening /\ pc'[p] # pc[p] /\ Newer(p, last) /\ ~overlooked'
         => UNCHANGED <<last, wal>>]_vars

(* The version is stamped with the work it stands for: whatever the store  *)
(* was, and whoever migrated it from whichever version, what its stamp     *)
(* promises is there, in the main file as well.                            *)
StampIsTrue == ~overlooked => Promised(last) /\ Promised(main)

(* "A later list-shaped write must not shrink a richer cached blob", and   *)
(* a migration copies every row: no row, no field of one and no object in  *)
(* it is lost by a commit, however two batches overlap, and an index that  *)
(* is built anew finds every row.  An exception, which defeats the claim   *)
(* for commands that overlap past their open: once a close has unlinked    *)
(* the log under an overlooked connection, what that one commits is lost   *)
(* if it dies, and if it does not, its close loses what others committed.  *)
KeepsRows ==
  [][~overlooked' =>
       /\ \A i \in Present(last.rows) :
            /\ last'.rows[i] # NoRow
            /\ \A f \in Field : last'.rows[i][f] >= last.rows[i][f]
       /\ last'.index # last.index => last'.indexed = Present(last'.rows)]_vars

(* "A WAL writer's last close already checkpoints, so a later immutable    *)
(* reader sees the committed snapshot": a reader that looks when nobody    *)
(* has the store open is given what the last commit left.  Two exceptions: *)
(* a process died with the store open, and, against the claim, one was     *)
(* overlooked: what it commits to a log without a name is in no file until *)
(* its close copies it over what others committed, and never if another    *)
(* is opening the store at that close.                                     *)
ReaderIsCurrent ==
  [][\A p \in Process :
       pc[p] = "look" /\ pc'[p] = "idle" /\ got'[p] # NoAnswer
       /\ open = {} /\ ~killed /\ ~overlooked
       => got'[p] = Answer(p, last)]_vars

(* Every command that opens the store gets it or gives up, also when       *)
(* another program never lets go of the lock.                              *)
EveryUseReturns == \A p \in Process : pc[p] # "idle" ~> pc[p] = "idle"
=============================================================================
