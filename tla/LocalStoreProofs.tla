--------------------------- MODULE LocalStoreProofs ---------------------------
(***************************************************************************)
(* What LocalStore satisfies for every number of processes, versions of    *)
(* their binaries, rows and fields.                                        *)
(***************************************************************************)
EXTENDS LocalStore, TLAPS

-----------------------------------------------------------------------------
(* The migration and the upsert, field by field.                           *)

(* A rewrite of the index keeps everything else.                           *)
LEMMA RebuiltFields ==
  ASSUME NEW s \in Store
  PROVE  /\ Rebuilt(s) \in Store
         /\ Rebuilt(s).version = s.version /\ Rebuilt(s).key = s.key
         /\ Rebuilt(s).tables = s.tables /\ Rebuilt(s).columns = s.columns
         /\ Rebuilt(s).rows = s.rows
         /\ Rebuilt(s).index = ContentVersion
         /\ Rebuilt(s).indexed = Present(s.rows)
<1>1. Present(s.rows) \in SUBSET Id /\ ContentVersion \in 0 .. ContentVersion
  BY DEF Present, ContentVersion
<1> QED
  BY <1>1 DEF Store, Rebuilt

(* The new key: only tables that exist are rewritten.                      *)
LEMMA RekeyedFields ==
  ASSUME NEW s \in Store
  PROVE  /\ Rekeyed(s) \in Store
         /\ Rekeyed(s).version = s.version /\ Rekeyed(s).tables = s.tables
         /\ Rekeyed(s).rows = s.rows /\ Rekeyed(s).columns = s.columns
         /\ s.key \/ (s.version < 2 /\ s.tables > 0) => Rekeyed(s).key
         /\ \/ Rekeyed(s).index = s.index /\ Rekeyed(s).indexed = s.indexed
            \/ Rekeyed(s).index = ContentVersion /\ Rekeyed(s).indexed = Present(s.rows)
<1> DEFINE t == Rebuilt(s)
           u == [t EXCEPT !.key = TRUE]
<1>1. /\ t \in Store
      /\ t.version = s.version /\ t.key = s.key /\ t.tables = s.tables
      /\ t.columns = s.columns /\ t.rows = s.rows
      /\ t.index = ContentVersion /\ t.indexed = Present(s.rows)
  BY RebuiltFields
<1> HIDE DEF t
<1>2. /\ u \in Store
      /\ u.version = t.version /\ u.key = TRUE /\ u.tables = t.tables
      /\ u.columns = t.columns /\ u.rows = t.rows
      /\ u.index = t.index /\ u.indexed = t.indexed
  BY <1>1 DEF Store
<1>3. s.version \in Nat /\ s.tables \in Nat /\ s.key \in BOOLEAN
  BY DEF Store
<1> HIDE DEF u
<1>4. CASE s.version < 2 /\ s.tables = 0
  <2>1. Rekeyed(s) = s
    BY <1>4 DEF Rekeyed, CompositeKey
  <2> QED
    BY <1>3, <1>4, <2>1
<1>5. CASE s.version < 2 /\ s.tables # 0
  <2>1. Rekeyed(s) = u
    BY <1>5 DEF Rekeyed, CompositeKey, t, u
  <2> QED
    BY <1>1, <1>2, <2>1
<1>6. CASE ~ (s.version < 2) /\ s.version = 2 /\ s.tables > 0
  <2>1. Rekeyed(s) = t
    BY <1>6 DEF Rekeyed, t
  <2> QED
    BY <1>1, <1>3, <1>6, <2>1
<1>7. CASE ~ (s.version < 2) /\ ~ (s.version = 2 /\ s.tables > 0)
  <2>1. Rekeyed(s) = s
    BY <1>7 DEF Rekeyed
  <2> QED
    BY <1>3, <1>7, <2>1
<1> QED
  BY <1>4, <1>5, <1>6, <1>7

(* The columns of older tables.                                            *)
LEMMA BackfilledFields ==
  ASSUME NEW s \in Store
  PROVE  LET b == BackfillColumns(s) IN
         /\ b \in Store
         /\ b.version = s.version /\ b.key = s.key /\ b.tables = s.tables
         /\ b.rows = s.rows /\ b.index = s.index /\ b.indexed = s.indexed
         /\ s.columns \/ s.tables > 0 => b.columns
BY DEF BackfillColumns, Store

(* CREATE TABLE IF NOT EXISTS, after the columns have been added.          *)
LEMMA CreatedFields ==
  ASSUME NEW b \in Store, NEW v \in Nat
  PROVE  LET t == CreateTables(b, v) IN
         /\ t \in Store
         /\ t.version = b.version /\ t.rows = b.rows /\ t.indexed = b.indexed
         /\ t.tables = (IF b.tables < v THEN v ELSE b.tables)
         /\ b.key \/ b.tables = 0 => t.key
         /\ b.columns \/ b.tables = 0 => t.columns
         /\ t.index = (IF b.index = 0 THEN ContentVersion ELSE b.index)
<1> DEFINE tables == IF b.tables < v THEN v ELSE b.tables
           key == b.key \/ b.tables = 0
           columns == b.columns \/ b.tables = 0
           ix == IF b.index = 0 THEN ContentVersion ELSE b.index
           t == [b EXCEPT !.tables = tables, !.key = key, !.columns = columns, !.index = ix]
<1>1. tables \in Nat /\ key \in BOOLEAN /\ columns \in BOOLEAN /\ ix \in 0 .. ContentVersion
  BY DEF Store, ContentVersion
<1>2. CreateTables(b, v) = t
  BY DEF CreateTables
<1> HIDE DEF tables, key, columns, ix
<1>3. /\ t \in Store
      /\ t.version = b.version /\ t.rows = b.rows /\ t.indexed = b.indexed
      /\ t.tables = tables /\ t.key = key /\ t.columns = columns /\ t.index = ix
  BY <1>1 DEF Store
<1> QED
  BY <1>2, <1>3 DEF tables, key, columns, ix

(* What a commit keeps of the store before it.                             *)
Kept(s, t) ==
  /\ \A i \in Present(s.rows) :
       t.rows[i] # NoRow /\ \A f \in Field : t.rows[i][f] >= s.rows[i][f]
  /\ t.index # s.index => t.indexed = Present(t.rows)

(* A migration makes a store.                                              *)
LEMMA MigratedTypes ==
  ASSUME NEW s \in Store, NEW v \in Nat
  PROVE  Migrated(s, v) \in Store
<1> DEFINE t == CreateTables(BackfillColumns(Rekeyed(s)), v)
           u == Indexed(t, s.version)
<1>1. t \in Store
  BY RekeyedFields, BackfilledFields, CreatedFields
<1>2. u \in Store
  BY <1>1, RebuiltFields DEF Indexed
<1> HIDE DEF u
<1>3. Stamped(u, v) \in Store
  BY <1>2 DEF Stamped, Store
<1> QED
  BY <1>3 DEF Migrated, u

(* A migration makes true what it stamps, from every older version.        *)
LEMMA MigrationKeepsPromise ==
  ASSUME NEW s \in Store, Promised(s), NEW v \in Nat, v >= ContentVersion,
         ~ (s.version > v)
  PROVE  /\ Migrated(s, v) \in Store
         /\ Promised(Migrated(s, v))
         /\ Kept(s, Migrated(s, v))
<1> DEFINE r == Rekeyed(s)
           b == BackfillColumns(r)
           t == CreateTables(b, v)
           u == Indexed(t, s.version)
           w == Stamped(u, v)
<1>1. /\ s.version \in Nat /\ s.tables \in Nat /\ s.key \in BOOLEAN
      /\ s.index \in 0 .. 4 /\ s.rows \in Rows
  BY DEF Store, ContentVersion
<1>2. /\ r \in Store /\ r.tables = s.tables /\ r.rows = s.rows
      /\ s.key \/ (s.version < 2 /\ s.tables > 0) => r.key
      /\ \/ r.index = s.index
         \/ r.index = ContentVersion /\ r.indexed = Present(s.rows)
  BY RekeyedFields
<1> HIDE DEF r
<1>3. /\ b \in Store /\ b.tables = r.tables /\ b.key = r.key /\ b.rows = r.rows
      /\ b.index = r.index /\ b.indexed = r.indexed
      /\ r.columns \/ r.tables > 0 => b.columns
  BY <1>2, BackfilledFields
<1> HIDE DEF b
<1>4. /\ t \in Store /\ t.rows = b.rows /\ t.indexed = b.indexed
      /\ t.tables = (IF b.tables < v THEN v ELSE b.tables)
      /\ b.key \/ b.tables = 0 => t.key
      /\ b.columns \/ b.tables = 0 => t.columns
      /\ t.index = (IF b.index = 0 THEN ContentVersion ELSE b.index)
  BY <1>3, CreatedFields
<1> HIDE DEF t
<1>5. /\ t.key /\ t.columns /\ t.tables >= v /\ t.rows = s.rows
      /\ s.index # 0 => t.index = s.index \/ t.index = 4
  <2>1. s.key \/ s.version < 2
    BY <1>1 DEF Promised
  <2>2. r.key \/ r.tables = 0
    BY <1>1, <1>2, <2>1
  <2>3. t.key /\ t.columns
    BY <1>1, <1>2, <1>3, <1>4, <2>2
  <2> QED
    BY <1>1, <1>2, <1>3, <1>4, <2>3 DEF ContentVersion
<1>6. /\ u \in Store /\ u.rows = s.rows /\ u.tables >= v /\ u.columns /\ u.key
      /\ u.index = ContentVersion
      /\ u.index # s.index => u.indexed = Present(u.rows)
  <2>1. CASE s.version < ContentVersion
    <3>1. u = Rebuilt(t)
      BY <2>1 DEF Indexed, u
    <3> QED
      BY <1>4, <1>5, <3>1, RebuiltFields
  <2>2. CASE ~ (s.version < ContentVersion)
    <3>1. u = t
      BY <2>2 DEF Indexed, u
    <3>2. s.index = 4
      BY <1>1, <2>2 DEF Promised, ContentVersion
    <3> QED
      BY <1>2, <1>3, <1>4, <1>5, <3>1, <3>2 DEF ContentVersion
  <2> QED
    BY <2>1, <2>2
<1> HIDE DEF u
<1>7. /\ w \in Store /\ w.version = v /\ w.rows = s.rows /\ w.tables >= v
      /\ w.columns /\ w.key /\ w.index = 4
      /\ w.index # s.index => w.indexed = Present(w.rows)
  BY <1>6 DEF w, Stamped, Store, ContentVersion
<1>8. w = Migrated(s, v)
  BY DEF Migrated, r, b, t, u, w
<1> HIDE DEF w
<1>9. Promised(w)
  BY <1>7 DEF Promised, ContentVersion
<1>10. Kept(s, w)
  BY <1>1, <1>7 DEF Kept, Present, Rows, Data
<1> QED
  BY <1>7, <1>8, <1>9, <1>10

(* An upsert keeps the richer of two fields and leaves the rest alone.     *)
LEMMA UpsertKeeps ==
  ASSUME NEW s \in Store, NEW batch \in Batches,
         NEW found \in SUBSET DOMAIN batch
  PROVE  /\ Upserted(s, batch, found) \in Store
         /\ Promised(s) => Promised(Upserted(s, batch, found))
         /\ Kept(s, Upserted(s, batch, found))
<1> DEFINE t == Upserted(s, batch, found)
           rows == [i \in Id |-> IF i \in DOMAIN batch
                                 THEN Merged(s.rows[i], batch[i]) ELSE s.rows[i]]
<1>1. PICK S \in SUBSET Id : batch \in [S -> Data]
  BY ItemsAssumption DEF Batches
<1>2. s.rows \in Rows
  BY DEF Store
<1>3. \A i \in S : /\ Merged(s.rows[i], batch[i]) \in Data
                   /\ s.rows[i] # NoRow => \A f \in Field :
                        Merged(s.rows[i], batch[i])[f] >= s.rows[i][f]
  <2> TAKE i \in S
  <2>1. batch[i] \in Data /\ s.rows[i] \in Data \cup {NoRow}
    BY <1>1, <1>2 DEF Rows
  <2> QED
    BY <2>1 DEF Merged, Richer, Data
<1>4. rows \in Rows
  BY <1>1, <1>2, <1>3 DEF Rows
<1>5. \A i \in Present(s.rows) : /\ rows[i] # NoRow
                                 /\ \A f \in Field : rows[i][f] >= s.rows[i][f]
  <2> TAKE i \in Present(s.rows)
  <2>1. s.rows[i] \in Data
    BY <1>2 DEF Present, Rows
  <2>2. CASE i \in S
    BY <1>1, <1>3, <2>1, <2>2, NoRowAssumption DEF Present
  <2>3. CASE i \notin S
    BY <1>1, <2>1, <2>3, NoRowAssumption DEF Present, Data
  <2> QED
    BY <2>2, <2>3
<1>6. t = [s EXCEPT !.rows = rows, !.indexed = (@ \ DOMAIN batch) \cup found]
  BY DEF Upserted
<1> HIDE DEF t, rows
<1>7. /\ t \in Store /\ t.version = s.version /\ t.key = s.key /\ t.tables = s.tables
      /\ t.columns = s.columns /\ t.index = s.index /\ t.rows = rows
  BY <1>1, <1>4, <1>6 DEF Store
<1>8. Promised(s) => Promised(t)
  BY <1>7 DEF Promised
<1>9. Kept(s, t)
  BY <1>5, <1>7 DEF Kept
<1> QED
  BY <1>7, <1>8, <1>9 DEF t

-----------------------------------------------------------------------------
(* Types, with who has the file open and who holds its lock.               *)

(* What a connection sees is a store.                                      *)
LEMMA ViewTypes ==
  ASSUME TypeOK, NEW p \in Process
  PROVE  View(p) \in Store /\ (log[p] = Shared => View(p) = last)
BY LogAssumption DEF TypeOK, View

(* A close: who goes on without a log that has a name was past its open,   *)
(* and the write lock of the log that has it is with who is left on it.    *)
LEMMA CloseTypes ==
  ASSUME TypeOK, NEW who, NEW view \in Store, Closes(who, view)
  PROVE  /\ open' = open \ who
         /\ main' \in Store /\ last' \in Store
         /\ killed' \in BOOLEAN /\ overlooked' \in BOOLEAN
         /\ writer' \in Process \cup {Outside, NoProcess}
         /\ log' \in [Process -> Store \cup {Shared, Empty}]
         /\ \A q \in Process :
              log'[q] # Shared => q \notin who /\ pc[q] \in Using /\ overlooked'
         /\ {q \in Process \ who : pc[q] \in Transacting /\ log'[q] = Shared} = {writer'} \cap Process
<1> /\ pc \in [Process -> Label] /\ log \in [Process -> Store \cup {Shared, Empty}]
    /\ last \in Store /\ main \in Store /\ killed \in BOOLEAN /\ overlooked \in BOOLEAN
    /\ writer \in Process \cup {Outside, NoProcess}
    /\ \A q \in Process : log[q] # Shared => pc[q] \in Using /\ overlooked
  BY DEF TypeOK
<1>1. \A q \in Process : q \in open <=> pc[q] \in Connected
  BY VersionsAssumption DEF TypeOK
<1>2. {q \in Process : pc[q] \in Transacting /\ log[q] = Shared} = {writer} \cap Process
  BY DEF TypeOK
<1>3. CASE Held \subseteq who
  <2>1. /\ open' = open \ who /\ main' = view /\ last' = view /\ writer' = NoProcess
        /\ killed' = FALSE /\ overlooked' = (overlooked \/ open' # {})
        /\ log' = [q \in Process |->
                     IF q \notin open' THEN Shared
                     ELSE IF log[q] # Shared THEN log[q]
                     ELSE IF view = last THEN Empty ELSE last]
    BY <1>3 DEF Closes
  <2>2. log' \in [Process -> Store \cup {Shared, Empty}]
    BY <2>1
  <2>3. \A q \in Process : log'[q] # Shared <=> q \in open'
    BY <2>1, LogAssumption
  <2>4. ASSUME NEW q \in Process, q \in open'
        PROVE  q \notin who /\ pc[q] \in Using /\ overlooked'
    <3>1. q \notin who /\ q \in open /\ overlooked'
      BY <2>1, <2>4
    <3>2. pc[q] \notin Holding
      BY <1>3, <3>1 DEF Held
    <3> QED
      BY <1>1, <3>1, <3>2 DEF Connected
  <2>5. ASSUME NEW q \in Process \ who, pc[q] \in Transacting PROVE log'[q] # Shared
    <3>1. q \in open
      BY <1>1, <2>5 DEF Transacting, Connected, Holding, Using
    <3> QED
      BY <2>1, <2>3, <2>5, <3>1
  <2>6. {q \in Process \ who : pc[q] \in Transacting /\ log'[q] = Shared} = {writer'} \cap Process
    BY <2>1, <2>5, VersionsAssumption
  <2>7. overlooked' \in BOOLEAN /\ killed' \in BOOLEAN
    BY <2>1
  <2> QED
    BY <2>1, <2>2, <2>3, <2>4, <2>6, <2>7
<1>4. CASE ~ (Held \subseteq who)
  <2>1. /\ open' = open \ who /\ UNCHANGED <<last, main, killed, overlooked>>
        /\ log' = [q \in Process |-> IF q \in who THEN Shared ELSE log[q]]
        /\ writer' = IF writer \in who THEN NoProcess ELSE writer
    BY <1>4 DEF Closes, ClosesAtExit
  <2>2. log' \in [Process -> Store \cup {Shared, Empty}]
    BY <2>1
  <2>3. {q \in Process \ who : pc[q] \in Transacting /\ log'[q] = Shared} = {writer'} \cap Process
    <3>1. CASE writer \in who
      BY <1>2, <2>1, <3>1, VersionsAssumption
    <3>2. CASE writer \notin who
      BY <1>2, <2>1, <3>2, VersionsAssumption
    <3> QED
      BY <3>1, <3>2
  <2>4. writer' \in Process \cup {Outside, NoProcess}
    BY <2>1
  <2> QED
    BY <2>1, <2>2, <2>3, <2>4
<1> QED
  BY <1>3, <1>4

(* A step that leaves the files alone, and neither opens nor closes        *)
(* anything.                                                               *)
LEMMA StaysTyped ==
  ASSUME TypeOK, UNCHANGED files, NEW p \in Process, NEW to \in Label, To(p, to),
         to \in Connected <=> pc[p] \in Connected,
         to \in Transacting <=> pc[p] \in Transacting,
         pc[p] \in Using => to \in Using,
         draft' \in [Process -> Store],
         kind' \in [Process -> {"write", "status", "read"}],
         late' \in [Process -> BOOLEAN],
         got' \in [Process -> Rows \cup {NoAnswer, Refused, Torn}],
         commands' \in 0 .. MaxCommands, deaths' \in 0 .. MaxDeaths
  PROVE  TypeOK'
<1>1. /\ pc' \in [Process -> Label]
      /\ \A q \in Process : /\ pc'[q] \in Connected <=> pc[q] \in Connected
                            /\ pc'[q] \in Transacting <=> pc[q] \in Transacting
                            /\ pc[q] \in Using => pc'[q] \in Using
  BY DEF TypeOK, To
<1>2. /\ UNCHANGED <<last, main, wal, writer, open, log, killed, overlooked>>
  BY DEF files, store
<1>3. open' \ {Outside} = {q \in Process : pc'[q] \in Connected}
  BY <1>1, <1>2 DEF TypeOK
<1>4. {q \in Process : pc'[q] \in Transacting /\ log'[q] = Shared} = {writer'} \cap Process
  BY <1>1, <1>2 DEF TypeOK
<1>5. \A q \in Process : log'[q] # Shared => pc'[q] \in Using /\ overlooked'
  BY <1>1, <1>2 DEF TypeOK
<1> QED
  BY <1>1, <1>2, <1>3, <1>4, <1>5 DEF TypeOK

(* A refusal or an error gives up the lock and the connection.             *)
LEMMA ReturnTypes ==
  ASSUME TypeOK, NEW p \in Process, Return(p)
  PROVE  TypeOK'
<1>1. /\ pc' = [pc EXCEPT ![p] = "idle"] /\ late' = [late EXCEPT ![p] = FALSE]
      /\ UNCHANGED <<draft, kind, got, commands, deaths>>
  BY DEF Return, To, history
<1>2. CASE p \in open
  <2>1. Closes({p}, View(p)) /\ wal' = wal
    BY <1>2 DEF Return
  <2>2. /\ open' = open \ {p}
        /\ main' \in Store /\ last' \in Store
        /\ killed' \in BOOLEAN /\ overlooked' \in BOOLEAN
        /\ writer' \in Process \cup {Outside, NoProcess}
        /\ log' \in [Process -> Store \cup {Shared, Empty}]
        /\ \A q \in Process :
             log'[q] # Shared => q \notin {p} /\ pc[q] \in Using /\ overlooked'
        /\ {q \in Process \ {p} : pc[q] \in Transacting /\ log'[q] = Shared} = {writer'} \cap Process
    BY <2>1, CloseTypes, ViewTypes
  <2>3. pc' \in [Process -> Label]
    BY <1>1 DEF TypeOK, Label
  <2>4. open' \ {Outside} = {q \in Process : pc'[q] \in Connected}
    BY <1>1, <2>2, VersionsAssumption DEF TypeOK, Connected, Holding, Using
  <2>5. {q \in Process : pc'[q] \in Transacting /\ log'[q] = Shared} = {writer'} \cap Process
    <3>1. \A q \in Process :
            pc'[q] \in Transacting <=> q \in Process \ {p} /\ pc[q] \in Transacting
      BY <1>1 DEF TypeOK, Transacting
    <3> QED
      BY <2>2, <3>1
  <2>6. \A q \in Process : log'[q] # Shared => pc'[q] \in Using /\ overlooked'
    BY <1>1, <2>2 DEF TypeOK
  <2> QED
    BY <1>1, <2>1, <2>2, <2>3, <2>4, <2>5, <2>6 DEF TypeOK
<1>3. CASE p \notin open
  <2>1. UNCHANGED files /\ To(p, "idle")
    BY <1>3 DEF Return
  <2>2. pc[p] \notin Connected
    BY <1>3 DEF TypeOK
  <2>3. /\ "idle" \in Label /\ "idle" \notin Connected /\ "idle" \notin Transacting
        /\ pc[p] \notin Transacting /\ pc[p] \notin Using
    BY <2>2 DEF Label, Connected, Holding, Transacting, Using
  <2>4. late' \in [Process -> BOOLEAN]
    BY <1>1 DEF TypeOK
  <2> QED
    BY <1>1, <2>1, <2>2, <2>3, <2>4, StaysTyped DEF TypeOK
<1> QED
  BY <1>2, <1>3

(* A reader is given rows or refused.                                      *)
LEMMA AnswerTypes ==
  ASSUME TypeOK, NEW p \in Process
  PROVE  Answer(p, main) \in Rows \cup {Refused}
BY DEF TypeOK, Answer, Store

(* The start of a transaction, with the lock of the connection's own log.  *)
LEMMA LockTypes ==
  ASSUME TypeOK, NEW p \in Process,
         NEW from \in {"begin", "opened"}, NEW to \in {"migrate", "batch"},
         from = "begin" <=> to = "migrate", Lock(p, from, to)
  PROVE  TypeOK'
<1>1. /\ pc[p] = from /\ pc' = [pc EXCEPT ![p] = to]
      /\ writer' = IF log[p] = Shared THEN p ELSE writer
      /\ draft' = [draft EXCEPT ![p] = View(p)] /\ late' = [late EXCEPT ![p] = FALSE]
      /\ UNCHANGED <<last, main, wal, open, log, killed, overlooked, kind, got, commands, deaths>>
  BY DEF Lock, To, store, history
<1>2. pc' \in [Process -> Label] /\ draft' \in [Process -> Store] /\ late' \in [Process -> BOOLEAN]
  BY <1>1, ViewTypes DEF TypeOK, Label, Opening, Using
<1>3. \A q \in Process : pc'[q] \in Connected <=> pc[q] \in Connected
  BY <1>1 DEF TypeOK, Connected, Holding, Using
<1>4. open' \ {Outside} = {q \in Process : pc'[q] \in Connected}
  BY <1>1, <1>3 DEF TypeOK
<1>5. log[p] = Shared => writer = NoProcess
  BY <1>1 DEF Lock, Busy
<1>6. {q \in Process : pc'[q] \in Transacting /\ log'[q] = Shared} = {writer'} \cap Process
  <2>1. \A q \in Process : pc'[q] \in Transacting <=> q = p \/ pc[q] \in Transacting
    BY <1>1 DEF TypeOK, Transacting
  <2>2. {q \in Process : pc[q] \in Transacting /\ log[q] = Shared} = {writer} \cap Process
    BY DEF TypeOK
  <2>3. CASE log[p] = Shared
    BY <1>1, <1>5, <2>1, <2>2, <2>3, VersionsAssumption
  <2>4. CASE log[p] # Shared
    BY <1>1, <2>1, <2>2, <2>4
  <2> QED
    BY <2>3, <2>4
<1>7. \A q \in Process : log'[q] # Shared => pc'[q] \in Using /\ overlooked'
  BY <1>1 DEF TypeOK, Using
<1>8. writer' \in Process \cup {Outside, NoProcess}
  BY <1>1 DEF TypeOK
<1> QED
  BY <1>1, <1>2, <1>4, <1>6, <1>7, <1>8 DEF TypeOK

(* The end of one, in the log that has a name.                             *)
LEMMA CommitTypes ==
  ASSUME TypeOK, NEW p \in Process,
         NEW from \in {"commit", "batch_commit"}, NEW to \in {"opened", "close"},
         Commit(p, from, to)
  PROVE  TypeOK'
<1>1. /\ pc[p] = from /\ log[p] = Shared /\ pc' = [pc EXCEPT ![p] = to]
      /\ last' = draft[p] /\ main' \in {main, draft[p]} /\ writer' = NoProcess
      /\ UNCHANGED <<wal, open, log, killed, overlooked, draft, kind, late, got, commands, deaths>>
  BY DEF Commit, To, history
<1>2. pc' \in [Process -> Label] /\ last' \in Store /\ main' \in Store
  BY <1>1 DEF TypeOK, Label, Opening, Using
<1>3. \A q \in Process : pc'[q] \in Connected <=> pc[q] \in Connected
  BY <1>1 DEF TypeOK, Connected, Holding, Using
<1>4. open' \ {Outside} = {q \in Process : pc'[q] \in Connected}
  BY <1>1, <1>3 DEF TypeOK
<1>5. {q \in Process : pc'[q] \in Transacting /\ log'[q] = Shared} = {writer'} \cap Process
  <2>1. \A q \in Process : pc'[q] \in Transacting <=> q # p /\ pc[q] \in Transacting
    BY <1>1 DEF TypeOK, Transacting
  <2>2. {q \in Process : pc[q] \in Transacting /\ log[q] = Shared} = {writer} \cap Process
    BY DEF TypeOK
  <2>3. writer = p
    BY <1>1, <2>2 DEF Transacting
  <2> QED
    BY <1>1, <2>1, <2>2, <2>3, VersionsAssumption
<1>6. \A q \in Process : log'[q] # Shared => pc'[q] \in Using /\ overlooked'
  BY <1>1 DEF TypeOK
<1> QED
  BY <1>1, <1>2, <1>4, <1>5, <1>6 DEF TypeOK

(* Every step keeps them.                                                  *)
LEMMA TypeStep == TypeOK /\ [Next]_vars => TypeOK'
<1> SUFFICES ASSUME TypeOK, [Next]_vars PROVE TypeOK'
  OBVIOUS
<1> /\ pc \in [Process -> Label] /\ draft \in [Process -> Store]
    /\ late \in [Process -> BOOLEAN]
    /\ kind \in [Process -> {"write", "status", "read"}]
    /\ got \in [Process -> Rows \cup {NoAnswer, Refused, Torn}]
    /\ commands \in 0 .. MaxCommands /\ deaths \in 0 .. MaxDeaths
  BY DEF TypeOK
<1>1. ASSUME NEW p \in Process, NEW k \in {"write", "status", "read"}, Begin(p, k)
      PROVE  TypeOK'
  <2>1. PICK to \in {"probe", "look"} : To(p, to)
    BY <1>1 DEF Begin
  <2>2. /\ to \in Label /\ to \notin Connected /\ to \notin Transacting
        /\ pc[p] \notin Connected /\ pc[p] \notin Transacting /\ pc[p] \notin Using
    BY <1>1, <2>1 DEF Begin, Label, Opening, Using, Connected, Holding, Transacting
  <2>3. commands' \in 0 .. MaxCommands
    BY <1>1, VersionsAssumption DEF Begin
  <2> QED
    BY <1>1, <2>1, <2>2, <2>3, StaysTyped DEF Begin
<1>2. ASSUME NEW p \in Process, Probe(p) PROVE TypeOK'
  <2>1. CASE Return(p)
    BY <2>1, ReturnTypes
  <2>2. CASE ~ Return(p)
    <3>1. PICK to \in {"driver", "acquire"} : To(p, to)
      BY <1>2, <2>2 DEF Probe
    <3>2. /\ to \in Label /\ to \notin Connected /\ to \notin Transacting
          /\ pc[p] \notin Connected /\ pc[p] \notin Transacting /\ pc[p] \notin Using
      BY <1>2, <3>1 DEF Probe, Label, Opening, Using, Connected, Holding, Transacting
    <3> QED
      BY <1>2, <2>2, <3>1, <3>2, StaysTyped DEF Probe, history
  <2> QED
    BY <2>1, <2>2
<1>3. ASSUME NEW p \in Process, InitDriver(p) PROVE TypeOK'
  <2>1. /\ pc[p] = "driver" /\ pc' = [pc EXCEPT ![p] = "acquire"] /\ wal' = TRUE
        /\ Closes({}, last) /\ late' = [late EXCEPT ![p] = FALSE]
        /\ UNCHANGED <<draft, kind, got, commands, deaths>>
    BY <1>3 DEF InitDriver, To, history
  <2>2. /\ open' = open
        /\ main' \in Store /\ last' \in Store
        /\ killed' \in BOOLEAN /\ overlooked' \in BOOLEAN
        /\ writer' \in Process \cup {Outside, NoProcess}
        /\ log' \in [Process -> Store \cup {Shared, Empty}]
        /\ \A q \in Process : log'[q] # Shared => pc[q] \in Using /\ overlooked'
        /\ {q \in Process : pc[q] \in Transacting /\ log'[q] = Shared} = {writer'} \cap Process
    <3>1. last \in Store
      BY DEF TypeOK
    <3>2. Process \ {} = Process /\ open \ {} = open
      OBVIOUS
    <3> QED
      BY <2>1, <3>1, <3>2, CloseTypes
  <2>3. /\ pc' \in [Process -> Label] /\ late' \in [Process -> BOOLEAN]
        /\ \A q \in Process : /\ pc'[q] \in Connected <=> pc[q] \in Connected
                              /\ pc'[q] \in Transacting <=> pc[q] \in Transacting
                              /\ pc[q] \in Using => pc'[q] \in Using
    BY <2>1 DEF Label, Opening, Using, Connected, Holding, Transacting
  <2>4. open' \ {Outside} = {q \in Process : pc'[q] \in Connected}
    BY <2>2, <2>3 DEF TypeOK
  <2>5. {q \in Process : pc'[q] \in Transacting /\ log'[q] = Shared} = {writer'} \cap Process
    BY <2>2, <2>3
  <2> QED
    BY <2>1, <2>2, <2>3, <2>4, <2>5 DEF TypeOK
<1>4. ASSUME NEW p \in Process, Acquire(p) PROVE TypeOK'
  <2>1. /\ pc[p] = "acquire" /\ pc' = [pc EXCEPT ![p] = "version"]
        /\ open' = open \cup {p} /\ wal' = TRUE
        /\ last' \in {last, main} /\ overlooked' \in BOOLEAN /\ (overlooked => overlooked')
        /\ UNCHANGED <<main, writer, log, killed, draft, kind, late, got, commands, deaths>>
    <3>1. overlooked \in BOOLEAN
      BY DEF TypeOK
    <3> QED
      BY <1>4, <3>1 DEF Acquire, To, history
  <2>2. /\ pc' \in [Process -> Label]
        /\ \A q \in Process : /\ pc'[q] \in Connected <=> q = p \/ pc[q] \in Connected
                              /\ pc'[q] \in Transacting <=> pc[q] \in Transacting
                              /\ pc[q] \in Using => pc'[q] \in Using
    BY <2>1 DEF Label, Opening, Using, Connected, Holding, Transacting
  <2>3. open' \ {Outside} = {q \in Process : pc'[q] \in Connected}
    BY <2>1, <2>2, VersionsAssumption DEF TypeOK
  <2>4. {q \in Process : pc'[q] \in Transacting /\ log'[q] = Shared} = {writer'} \cap Process
    BY <2>1, <2>2 DEF TypeOK
  <2>5. \A q \in Process : log'[q] # Shared => pc'[q] \in Using /\ overlooked'
    BY <2>1, <2>2 DEF TypeOK
  <2>6. last' \in Store /\ overlooked' \in BOOLEAN
    BY <2>1 DEF TypeOK
  <2> QED
    BY <2>1, <2>2, <2>3, <2>4, <2>5, <2>6 DEF TypeOK
<1>5. ASSUME NEW p \in Process, ReadVersion(p) PROVE TypeOK'
  <2>1. CASE Return(p)
    BY <2>1, ReturnTypes
  <2>2. CASE ~ Return(p)
    <3>1. /\ "begin" \in Label /\ "begin" \in Connected /\ "begin" \notin Transacting
          /\ pc[p] \in Connected /\ pc[p] \notin Transacting /\ pc[p] \notin Using
      BY <1>5 DEF ReadVersion, Label, Opening, Using, Connected, Holding, Transacting
    <3> QED
      BY <1>5, <2>2, <3>1, StaysTyped DEF ReadVersion, history
  <2> QED
    BY <2>1, <2>2
<1>6. ASSUME NEW p \in Process, BeginMigration(p) PROVE TypeOK'
  BY <1>6, LockTypes DEF BeginMigration
<1>7. ASSUME NEW p \in Process, Migrate(p) PROVE TypeOK'
  <2>1. CASE Return(p)
    BY <2>1, ReturnTypes
  <2>2. CASE ~ Return(p)
    <3>1. /\ "commit" \in Label /\ "commit" \in Connected /\ "commit" \in Transacting
          /\ pc[p] \in Connected /\ pc[p] \in Transacting /\ pc[p] \notin Using
      BY <1>7 DEF Migrate, Label, Opening, Using, Connected, Holding, Transacting
    <3>2. draft' \in [Process -> Store]
      BY <1>7, <2>2, MigratedTypes, VersionsAssumption DEF Migrate
    <3> QED
      BY <1>7, <2>2, <3>1, <3>2, StaysTyped DEF Migrate, history
  <2> QED
    BY <2>1, <2>2
<1>8. ASSUME NEW p \in Process, CommitMigration(p) PROVE TypeOK'
  BY <1>8, CommitTypes DEF CommitMigration
<1>9. ASSUME NEW p \in Process, BeginBatch(p) PROVE TypeOK'
  BY <1>9, LockTypes DEF BeginBatch
<1>10. ASSUME NEW p \in Process, Put(p) PROVE TypeOK'
  <2>1. /\ "batch_commit" \in Label /\ "batch_commit" \in Connected
        /\ "batch_commit" \in Transacting /\ "batch_commit" \in Using
        /\ pc[p] \in Connected /\ pc[p] \in Transacting
    BY <1>10 DEF Put, Label, Opening, Using, Connected, Holding, Transacting
  <2>2. draft' \in [Process -> Store]
    BY <1>10, UpsertKeeps DEF Put
  <2> QED
    BY <1>10, <2>1, <2>2, StaysTyped DEF Put, history
<1>11. ASSUME NEW p \in Process, CommitBatch(p) PROVE TypeOK'
  BY <1>11, CommitTypes DEF CommitBatch
<1>12. ASSUME NEW p \in Process, CommitAside(p) PROVE TypeOK'
  <2>1. /\ pc[p] = "batch_commit" /\ log[p] # Shared /\ pc' = [pc EXCEPT ![p] = "close"]
        /\ \/ log' = [log EXCEPT ![p] = draft[p]]
           \/ log' = [log EXCEPT ![p] = Empty]
        /\ main' \in {main, draft[p]} /\ last' \in {last, draft[p]}
        /\ UNCHANGED <<wal, writer, open, killed, overlooked, draft, kind, late, got,
                       commands, deaths>>
    BY <1>12 DEF CommitAside, To, history
  <2>2. /\ pc' \in [Process -> Label]
        /\ \A q \in Process : /\ pc'[q] \in Connected <=> pc[q] \in Connected
                              /\ pc[q] \in Using => pc'[q] \in Using
                              /\ q # p => pc'[q] = pc[q]
        /\ pc'[p] \notin Transacting
    BY <2>1 DEF Label, Opening, Using, Connected, Holding, Transacting
  <2>3. /\ log' \in [Process -> Store \cup {Shared, Empty}] /\ log'[p] # Shared
        /\ \A q \in Process : q # p => log'[q] = log[q]
    BY <2>1, LogAssumption DEF TypeOK
  <2>4. open' \ {Outside} = {q \in Process : pc'[q] \in Connected}
    BY <2>1, <2>2 DEF TypeOK
  <2>5. {q \in Process : pc'[q] \in Transacting /\ log'[q] = Shared} = {writer'} \cap Process
    <3>1. {q \in Process : pc[q] \in Transacting /\ log[q] = Shared} = {writer} \cap Process
      BY DEF TypeOK
    <3> QED
      BY <2>1, <2>2, <2>3, <3>1
  <2>6. \A q \in Process : log'[q] # Shared => pc'[q] \in Using /\ overlooked'
    BY <2>1, <2>2, <2>3 DEF TypeOK
  <2>7. main' \in Store /\ last' \in Store
    BY <2>1 DEF TypeOK
  <2> QED
    BY <2>1, <2>2, <2>3, <2>4, <2>5, <2>6, <2>7 DEF TypeOK
<1>13. ASSUME NEW p \in Process, Close(p) PROVE TypeOK'
  BY <1>13, ReturnTypes DEF Close
<1>14. ASSUME NEW p \in Process, Look(p) PROVE TypeOK'
  <2>1. /\ "idle" \in Label /\ "idle" \notin Connected /\ "idle" \notin Transacting
        /\ pc[p] \notin Connected /\ pc[p] \notin Transacting /\ pc[p] \notin Using
    BY <1>14 DEF Look, Label, Using, Connected, Holding, Transacting
  <2>2. got' \in [Process -> Rows \cup {NoAnswer, Refused, Torn}]
    BY <1>14, AnswerTypes DEF Look
  <2> QED
    BY <1>14, <2>1, <2>2, StaysTyped DEF Look, history
<1>15. ASSUME NEW p \in Process, GiveUp(p) PROVE TypeOK'
  BY <1>15, ReturnTypes DEF GiveUp
<1>16. ASSUME NEW p \in Process, NothingToWrite(p) PROVE TypeOK'
  <2>1. /\ "close" \in Label /\ "close" \in Connected /\ "close" \in Using
        /\ "close" \notin Transacting /\ pc[p] \in Connected /\ pc[p] \notin Transacting
    BY <1>16 DEF NothingToWrite, Label, Using, Connected, Holding, Transacting
  <2> QED
    BY <1>16, <2>1, StaysTyped DEF NothingToWrite, history
<1>17. ASSUME NEW p \in Process, DeadlinePasses(p) PROVE TypeOK'
  BY <1>17 DEF DeadlinePasses, TypeOK, files, store, history
<1>18. ASSUME NEW p \in Process, Fail(p) PROVE TypeOK'
  BY <1>18, ReturnTypes DEF Fail
<1>19. ASSUME NEW p \in Process, Die(p) PROVE TypeOK'
  <2>1. /\ pc' = [pc EXCEPT ![p] = "idle"] /\ open' = open \ {p}
        /\ log' = [log EXCEPT ![p] = Shared]
        /\ writer' = IF writer = p THEN NoProcess ELSE writer
        /\ killed' = (killed \/ p \in open) /\ late' = [late EXCEPT ![p] = FALSE]
        /\ deaths < MaxDeaths /\ deaths' = deaths + 1
        /\ UNCHANGED <<last, main, wal, overlooked, draft, kind, got, commands>>
    BY <1>19 DEF Die, To, store
  <2>2. /\ pc' \in [Process -> Label] /\ late' \in [Process -> BOOLEAN]
        /\ log' \in [Process -> Store \cup {Shared, Empty}]
        /\ deaths' \in 0 .. MaxDeaths /\ killed' \in BOOLEAN
    BY <2>1, VersionsAssumption DEF TypeOK, Label
  <2>3. \A q \in Process : pc'[q] \in Connected <=> q # p /\ pc[q] \in Connected
    BY <2>1 DEF Connected, Holding, Using
  <2>4. open' \ {Outside} = {q \in Process : pc'[q] \in Connected}
    BY <2>1, <2>3, VersionsAssumption DEF TypeOK
  <2>5. {q \in Process : pc'[q] \in Transacting /\ log'[q] = Shared} = {writer'} \cap Process
    <3>1. \A q \in Process :
            pc'[q] \in Transacting /\ log'[q] = Shared
              <=> q # p /\ pc[q] \in Transacting /\ log[q] = Shared
      BY <2>1 DEF TypeOK, Transacting
    <3>2. {q \in Process : pc[q] \in Transacting /\ log[q] = Shared} = {writer} \cap Process
      BY DEF TypeOK
    <3> QED
      BY <2>1, <3>1, <3>2, VersionsAssumption
  <2>6. \A q \in Process : log'[q] # Shared => pc'[q] \in Using /\ overlooked'
    BY <2>1 DEF TypeOK
  <2>7. writer' \in Process \cup {Outside, NoProcess}
    BY <2>1 DEF TypeOK
  <2> QED
    BY <2>1, <2>2, <2>4, <2>5, <2>6, <2>7 DEF TypeOK
<1>20. ASSUME OutsideLeaves PROVE TypeOK'
  <2>1. /\ Closes({Outside}, last)
        /\ UNCHANGED <<wal, draft, pc, kind, late, got, commands, deaths>>
    BY <1>20 DEF OutsideLeaves, history
  <2>2. /\ open' = open \ {Outside}
        /\ main' \in Store /\ last' \in Store
        /\ killed' \in BOOLEAN /\ overlooked' \in BOOLEAN
        /\ writer' \in Process \cup {Outside, NoProcess}
        /\ log' \in [Process -> Store \cup {Shared, Empty}]
        /\ \A q \in Process : log'[q] # Shared => pc[q] \in Using /\ overlooked'
        /\ {q \in Process : pc[q] \in Transacting /\ log'[q] = Shared} = {writer'} \cap Process
    <3>1. last \in Store
      BY DEF TypeOK
    <3>2. Process \ {Outside} = Process
      BY VersionsAssumption
    <3> QED
      BY <2>1, <3>1, <3>2, CloseTypes
  <2>3. open' \ {Outside} = {q \in Process : pc'[q] \in Connected}
    BY <2>1, <2>2 DEF TypeOK
  <2> QED
    BY <2>1, <2>2, <2>3 DEF TypeOK
<1>21. CASE UNCHANGED vars
  BY <1>21 DEF vars, files, store, history, TypeOK
<1> QED
  BY <1>1, <1>2, <1>3, <1>4, <1>5, <1>6, <1>7, <1>8, <1>9, <1>10, <1>11,
     <1>12, <1>13, <1>14, <1>15, <1>16, <1>17, <1>18, <1>19, <1>20, <1>21 DEF
     Next, Step

(* In every reachable state.                                               *)
LEMMA TypedInvariant == Spec => []TypeOK
<1>1. ASSUME Init PROVE TypeOK
  <2>1. /\ last \in Store /\ main \in Store /\ wal \in BOOLEAN
        /\ draft \in [Process -> Store] /\ commands \in 0 .. MaxCommands
        /\ deaths \in 0 .. MaxDeaths /\ killed \in BOOLEAN
        /\ writer \in {NoProcess, Outside} /\ open = {writer} \ {NoProcess}
        /\ log = [p \in Process |-> Shared] /\ overlooked = FALSE
    <3>1. last \in Store /\ main = last /\ draft = [p \in Process |-> last]
      BY <1>1, StoresAssumption DEF Init
    <3>3. /\ writer \in {NoProcess, Outside} /\ open = {writer} \ {NoProcess}
          /\ log = [p \in Process |-> Shared] /\ overlooked = FALSE
      BY <1>1 DEF Init
    <3>4. commands = 0 /\ deaths = 0 /\ killed = FALSE
      BY <1>1 DEF Init
    <3>2. wal \in BOOLEAN
      BY <1>1 DEF Init
    <3>5. commands \in 0 .. MaxCommands /\ deaths \in 0 .. MaxDeaths
      <4>1. MaxCommands \in Nat /\ MaxDeaths \in Nat
        BY VersionsAssumption
      <4> QED
        BY <3>4, <4>1
    <3>6. draft \in [Process -> Store]
      BY <3>1
    <3> QED
      BY <3>1, <3>2, <3>3, <3>4, <3>5, <3>6
  <2>2. /\ pc = [p \in Process |-> "idle"] /\ kind \in [Process -> {"write", "status", "read"}]
        /\ late \in [Process -> BOOLEAN] /\ got \in [Process -> Rows \cup {NoAnswer, Refused, Torn}]
    BY <1>1 DEF Init
  <2>3. /\ open \ {Outside} = {p \in Process : pc[p] \in Connected}
        /\ {p \in Process : pc[p] \in Transacting /\ log[p] = Shared} = {writer} \cap Process
        /\ \A p \in Process : log[p] # Shared => pc[p] \in Using /\ overlooked
        /\ log \in [Process -> Store \cup {Shared, Empty}]
    BY <2>1, <2>2, VersionsAssumption DEF Connected, Holding, Transacting, Using
  <2>4. pc \in [Process -> Label]
    BY <2>2 DEF Label
  <2> QED
    BY <2>1, <2>2, <2>3, <2>4 DEF TypeOK
<1> QED
  BY <1>1, TypeStep, PTL DEF Spec

(* Every variable keeps its type; the processes with a connection are      *)
(* those past its acquisition, and the one in a transaction is the one     *)
(* that took the write lock.                                               *)
THEOREM TypeCorrect == Spec => []TypeOK
BY TypedInvariant

-----------------------------------------------------------------------------
(* What a transaction will commit: it holds the lock, so the store is      *)
(* still the one it read.                                                  *)

DraftedAt(p) ==
  /\ pc[p] \in {"migrate", "batch"} => draft[p] = last
  /\ pc[p] \in {"commit", "batch_commit"} => Promised(draft[p]) /\ Kept(last, draft[p])
  /\ pc[p] = "commit" => ~ Newer(p, last)

Promises == StampIsTrue /\ (~ overlooked => \A p \in Process : DraftedAt(p))

(* While nobody is overlooked, a close leaves what was committed alone.    *)
LEMMA CloseKeeps ==
  ASSUME NEW who, NEW view, view = last \/ overlooked, Closes(who, view)
  PROVE  /\ overlooked => overlooked'
         /\ ~ overlooked' => last' = last /\ main' \in {main, last}
BY DEF Closes, ClosesAtExit

(* So does whatever a process returns from.                                *)
LEMMA ReturnKeeps ==
  ASSUME TypeOK, NEW p \in Process, Return(p)
  PROVE  /\ overlooked => overlooked'
         /\ ~ overlooked' => last' = last /\ main' \in {main, last}
<1>1. CASE p \in open
  <2>1. View(p) = last \/ overlooked
    BY ViewTypes DEF TypeOK
  <2> QED
    BY <1>1, <2>1, CloseKeeps DEF Return
<1>2. CASE p \notin open
  BY <1>2 DEF Return, files, store
<1> QED
  BY <1>1, <1>2

(* Most steps begin and end no transaction.                                *)
LEMMA QuietPromises ==
  ASSUME TypeOK, Promises, UNCHANGED draft, overlooked => overlooked',
         ~ overlooked' => last' = last /\ main' \in {main, last},
         \A q \in Process : pc'[q] = pc[q] \/ pc'[q] \notin Transacting
  PROVE  Promises'
<1> SUFFICES ASSUME ~ overlooked' PROVE Promises'
  BY DEF Promises, StampIsTrue
<1>1. StampIsTrue'
  BY DEF Promises, StampIsTrue, Promised
<1>2. ASSUME NEW q \in Process PROVE DraftedAt(q)'
  BY <1>2 DEF Promises, DraftedAt, Promised, Kept, Present, Newer, Transacting
<1> QED
  BY <1>1, <1>2 DEF Promises

(* Only one transaction writes.                                            *)
LEMMA OneWriter ==
  ASSUME TypeOK, ~ overlooked, NEW p \in Process, pc[p] \in Transacting,
         NEW q \in Process, pc[q] \in Transacting
  PROVE  p = q
BY DEF TypeOK

(* A commit makes the draft the store.                                     *)
LEMMA CommitPromises ==
  ASSUME TypeOK, Promises, NEW p \in Process, NEW to \in {"opened", "close"},
         pc[p] \in {"commit", "batch_commit"}, Commit(p, pc[p], to)
  PROVE  Promises'
<1>1. /\ last' = draft[p] /\ main' \in {main, draft[p]} /\ UNCHANGED <<draft, overlooked>>
      /\ pc' = [pc EXCEPT ![p] = to]
  BY DEF Commit, To
<1> SUFFICES ASSUME ~ overlooked PROVE Promises'
  BY <1>1 DEF Promises, StampIsTrue
<1>2. StampIsTrue'
  BY <1>1 DEF Promises, StampIsTrue, Promised, DraftedAt
<1>3. ASSUME NEW q \in Process PROVE pc'[q] \notin Transacting
  BY <1>1, OneWriter DEF TypeOK, Transacting
<1> QED
  BY <1>2, <1>3 DEF Promises, DraftedAt, Transacting

(* Every step keeps the promises, made and to be made.                     *)
LEMMA PromisesStep == TypeOK /\ Promises /\ [Next]_vars => Promises'
<1> SUFFICES ASSUME TypeOK, Promises, [Next]_vars PROVE Promises'
  OBVIOUS
<1> /\ pc \in [Process -> Label] /\ draft \in [Process -> Store] /\ last \in Store
  BY DEF TypeOK
<1>0. ASSUME NEW p \in Process, Return(p) PROVE Promises'
  BY <1>0, QuietPromises, ReturnKeeps DEF Return, To, Transacting
<1>1. ASSUME NEW p \in Process, NEW k \in {"write", "status", "read"}, Begin(p, k)
      PROVE  Promises'
  BY <1>1, QuietPromises DEF Begin, To, Transacting, files, store, history
<1>2. ASSUME NEW p \in Process, Probe(p) PROVE Promises'
  BY <1>2, <1>0, QuietPromises DEF Probe, To, Transacting, files, store, history
<1>3. ASSUME NEW p \in Process, InitDriver(p) PROVE Promises'
  BY <1>3, QuietPromises, CloseKeeps DEF InitDriver, To, Transacting
<1>4. ASSUME NEW p \in Process, Acquire(p) PROVE Promises'
  BY <1>4, QuietPromises DEF Acquire, To, Transacting
<1>5. ASSUME NEW p \in Process, ReadVersion(p) PROVE Promises'
  BY <1>5, <1>0, QuietPromises DEF ReadVersion, To, Transacting, files, store, history
<1>6. ASSUME NEW p \in Process, BeginMigration(p) PROVE Promises'
  <2>0. UNCHANGED <<last, main, overlooked>> /\ draft' = [draft EXCEPT ![p] = View(p)]
        /\ pc' = [pc EXCEPT ![p] = "migrate"]
    BY <1>6 DEF BeginMigration, Lock, To, store
  <2> SUFFICES ASSUME ~ overlooked PROVE Promises'
    BY <2>0 DEF Promises, StampIsTrue
  <2>1. UNCHANGED <<last, main>> /\ draft' = [draft EXCEPT ![p] = last]
        /\ pc' = [pc EXCEPT ![p] = "migrate"]
    BY <2>0, ViewTypes DEF TypeOK
  <2>2. StampIsTrue'
    BY <2>1 DEF Promises, StampIsTrue, Promised
  <2>3. ASSUME NEW q \in Process PROVE DraftedAt(q)'
    BY <2>1 DEF Promises, DraftedAt, Promised, Kept, Present, Newer
  <2> QED
    BY <2>2, <2>3 DEF Promises
<1>7. ASSUME NEW p \in Process, Migrate(p) PROVE Promises'
  <2>0. CASE Return(p)
    BY <2>0, <1>0
  <2>1. CASE ~ Return(p)
    <3>0. UNCHANGED files
      BY <1>7, <2>1 DEF Migrate
    <3> SUFFICES ASSUME ~ overlooked PROVE Promises'
      BY <3>0 DEF Promises, StampIsTrue, files
    <3>1. /\ draft[p] = last /\ ~ Newer(p, last)
          /\ draft' = [draft EXCEPT ![p] = Migrated(last, StoreSchemaVersion[p])]
          /\ UNCHANGED <<last, main>> /\ pc' = [pc EXCEPT ![p] = "commit"]
      BY <1>7, <2>1, <3>0 DEF Migrate, To, files, store, Promises, DraftedAt
    <3>2. Promised(draft'[p]) /\ Kept(last, draft'[p]) /\ ~ Newer(p, last)'
      BY <3>1, MigrationKeepsPromise, VersionsAssumption DEF Newer, Promises,
         StampIsTrue
    <3>3. StampIsTrue'
      BY <3>1 DEF Promises, StampIsTrue, Promised
    <3>4. ASSUME NEW q \in Process PROVE DraftedAt(q)'
      <4>1. CASE q = p
        BY <3>1, <3>2, <4>1 DEF DraftedAt, Promised, Kept, Present
      <4>2. CASE q # p
        BY <3>1, <4>2 DEF Promises, DraftedAt, Promised, Kept, Present, Newer
      <4> QED
        BY <4>1, <4>2
    <3> QED
      BY <3>3, <3>4 DEF Promises
  <2> QED
    BY <2>0, <2>1
<1>8. ASSUME NEW p \in Process, CommitMigration(p) PROVE Promises'
  BY <1>8, CommitPromises DEF CommitMigration, Commit
<1>9. ASSUME NEW p \in Process, BeginBatch(p) PROVE Promises'
  <2>0. UNCHANGED <<last, main, overlooked>> /\ draft' = [draft EXCEPT ![p] = View(p)]
        /\ pc' = [pc EXCEPT ![p] = "batch"]
    BY <1>9 DEF BeginBatch, Lock, To, store
  <2> SUFFICES ASSUME ~ overlooked PROVE Promises'
    BY <2>0 DEF Promises, StampIsTrue
  <2>1. UNCHANGED <<last, main>> /\ draft' = [draft EXCEPT ![p] = last]
        /\ pc' = [pc EXCEPT ![p] = "batch"]
    BY <2>0, ViewTypes DEF TypeOK
  <2>2. StampIsTrue'
    BY <2>1 DEF Promises, StampIsTrue, Promised
  <2>3. ASSUME NEW q \in Process PROVE DraftedAt(q)'
    BY <2>1 DEF Promises, DraftedAt, Promised, Kept, Present, Newer
  <2> QED
    BY <2>2, <2>3 DEF Promises
<1>10. ASSUME NEW p \in Process, Put(p) PROVE Promises'
  <2> SUFFICES ASSUME ~ overlooked PROVE Promises'
    BY <1>10 DEF Put, files, Promises, StampIsTrue
  <2>0. PICK batch \in Batches : \E found \in SUBSET DOMAIN batch :
          draft' = [draft EXCEPT ![p] = Upserted(draft[p], batch, found)]
    BY <1>10 DEF Put
  <2>1. PICK found \in SUBSET DOMAIN batch :
          draft' = [draft EXCEPT ![p] = Upserted(draft[p], batch, found)]
    BY <2>0
  <2>2. draft[p] = last /\ UNCHANGED <<last, main>> /\ pc' = [pc EXCEPT ![p] = "batch_commit"]
    BY <1>10 DEF Put, To, files, store, Promises, DraftedAt
  <2>3. Promised(draft'[p]) /\ Kept(last, draft'[p])
    BY <2>1, <2>2, UpsertKeeps DEF Promises, StampIsTrue
  <2>4. StampIsTrue'
    BY <2>2 DEF Promises, StampIsTrue, Promised
  <2>5. ASSUME NEW q \in Process PROVE DraftedAt(q)'
    <3>1. CASE q = p
      BY <2>2, <2>3, <3>1 DEF DraftedAt, Promised, Kept, Present
    <3>2. CASE q # p
      BY <2>1, <2>2, <3>2 DEF Promises, DraftedAt, Promised, Kept, Present,
         Newer
    <3> QED
      BY <3>1, <3>2
  <2> QED
    BY <2>4, <2>5 DEF Promises
<1>11. ASSUME NEW p \in Process, CommitBatch(p) PROVE Promises'
  BY <1>11, CommitPromises DEF CommitBatch, Commit
<1>12. ASSUME NEW p \in Process, CommitAside(p) PROVE Promises'
  BY <1>12 DEF CommitAside, TypeOK, Promises, StampIsTrue
<1>13. ASSUME NEW p \in Process, Close(p) PROVE Promises'
  BY <1>13, <1>0 DEF Close
<1>14. ASSUME NEW p \in Process, Look(p) PROVE Promises'
  BY <1>14, QuietPromises DEF Look, To, Transacting, files, store, history
<1>15. ASSUME NEW p \in Process, GiveUp(p) PROVE Promises'
  BY <1>15, <1>0 DEF GiveUp
<1>16. ASSUME NEW p \in Process, NothingToWrite(p) PROVE Promises'
  BY <1>16, QuietPromises DEF NothingToWrite, To, Transacting, files, store, history
<1>17. ASSUME NEW p \in Process, DeadlinePasses(p) PROVE Promises'
  BY <1>17, QuietPromises DEF DeadlinePasses, To, Transacting, files, store, history
<1>18. ASSUME NEW p \in Process, Fail(p) PROVE Promises'
  BY <1>18, <1>0 DEF Fail
<1>19. ASSUME NEW p \in Process, Die(p) PROVE Promises'
  BY <1>19, QuietPromises DEF Die, To, Transacting, files, store, history
<1>20. ASSUME OutsideLeaves PROVE Promises'
  BY <1>20, QuietPromises, CloseKeeps DEF OutsideLeaves
<1>21. CASE UNCHANGED vars
  BY <1>21, QuietPromises DEF vars, To, Transacting, files, store, history
<1> QED
  BY <1>1, <1>2, <1>3, <1>4, <1>5, <1>6, <1>7, <1>8, <1>9, <1>10, <1>11,
     <1>12, <1>13, <1>14, <1>15, <1>16, <1>17, <1>18, <1>19, <1>20, <1>21 DEF
     Next, Step

(* Init keeps them: the stores it may find keep theirs.                    *)
LEMMA PromisesInvariant == Spec => []Promises
<1>1. Init => Promises
  BY StoresAssumption DEF Init, Promises, StampIsTrue, DraftedAt
<1> QED
  BY <1>1, TypedInvariant, PromisesStep, PTL DEF Spec

(* Store.migrate stamps a version only with the work it stands for.        *)
THEOREM StampAlwaysTrue == Spec => []StampIsTrue
<1>1. Promises => StampIsTrue
  BY DEF Promises
<1> QED
  BY <1>1, PromisesInvariant, PTL

-----------------------------------------------------------------------------
(* The files.  What is committed but not yet in the main file is in a      *)
(* write-ahead log; an open that could still convert the journal has not   *)
(* met a newer store; and who closes last, unless it died, leaves nothing  *)
(* behind in the log.                                                      *)

Files ==
  /\ last # main => wal
  /\ \A p \in Process : pc[p] \in Connected => wal
  /\ \A p \in Process : pc[p] \in {"driver", "acquire"} /\ ~ wal => ~ Newer(p, last)
  /\ open = {} /\ ~ killed => main = last
  /\ \A p \in Process : pc[p] = "look" => got[p] = NoAnswer

(* A connection that closes leaves nothing but the main file if it is the  *)
(* last one, also if it only takes itself for it.                          *)
LEMMA CloseFiles ==
  ASSUME TypeOK, NEW who, NEW view, Closes(who, view)
  PROVE  /\ open' = open \ who
         /\ UNCHANGED <<last, main, killed>> \/ main' = last'
         /\ open' = {} => main' = last'
         /\ view = last => last' = last
<1>1. CASE Held \subseteq who
  BY <1>1 DEF Closes
<1>2. CASE ~ (Held \subseteq who)
  <2>1. open' = open \ who /\ UNCHANGED <<last, main, killed>>
    BY <1>2 DEF Closes, ClosesAtExit
  <2>2. ASSUME open' = {} PROVE FALSE
    <3>1. PICK q \in Held : q \notin who
      BY <1>2
    <3>2. q \in open
      BY <3>1 DEF Held, TypeOK, Connected
    <3> QED
      BY <2>1, <2>2, <3>1, <3>2
  <2> QED
    BY <2>1, <2>2
<1> QED
  BY <1>1, <1>2

(* A process that returns leaves the journal mode alone.                   *)
LEMMA ReturnFiles ==
  ASSUME TypeOK, Files, NEW p \in Process, Return(p)
  PROVE  Files'
<1>1. pc' = [pc EXCEPT ![p] = "idle"] /\ UNCHANGED got
  BY DEF Return, To
<1>2. CASE p \in open
  <2>1. wal /\ wal' = wal /\ Closes({p}, View(p))
    BY <1>2, VersionsAssumption DEF Return, Files, TypeOK
  <2> QED
    BY <1>1, <2>1, CloseFiles DEF Files, TypeOK
<1>3. CASE p \notin open
  <2>1. UNCHANGED <<last, main, wal, open, killed>>
    BY <1>3 DEF Return, files, store
  <2> QED
    BY <1>1, <2>1 DEF Files, TypeOK, Newer, Connected, Holding, Using
<1> QED
  BY <1>2, <1>3

(* A commit is made with a connection open.                                *)
LEMMA CommitFiles ==
  ASSUME TypeOK, Files, NEW p \in Process, NEW to \in {"opened", "close"},
         pc[p] \in {"commit", "batch_commit"}, Commit(p, pc[p], to)
  PROVE  Files'
<1>1. /\ UNCHANGED <<wal, open, got>> /\ pc' = [pc EXCEPT ![p] = to]
  BY DEF Commit, To
<1>2. wal /\ p \in open
  BY DEF Files, TypeOK, Connected, Holding, Using
<1> QED
  BY <1>1, <1>2 DEF Files, TypeOK, Connected, Holding, Using

(* Every step keeps them so.                                               *)
LEMMA FilesStep == TypeOK /\ Files /\ [Next]_vars => Files'
<1> SUFFICES ASSUME TypeOK, Files, [Next]_vars PROVE Files'
  OBVIOUS
<1> pc \in [Process -> Label] /\ got \in [Process -> Rows \cup {NoAnswer, Refused, Torn}]
  BY DEF TypeOK
<1>1. ASSUME NEW p \in Process, NEW k \in {"write", "status", "read"}, Begin(p, k)
      PROVE  Files'
  BY <1>1 DEF Begin, To, Files, Newer, Connected, Holding, Using, files, store
<1>2. ASSUME NEW p \in Process, Probe(p) PROVE Files'
  BY <1>2, ReturnFiles DEF Probe, To, Files, Newer, Connected, Holding, Using, files, store
<1>3. ASSUME NEW p \in Process, InitDriver(p) PROVE Files'
  <2>1. /\ pc[p] = "driver" /\ pc' = [pc EXCEPT ![p] = "acquire"] /\ wal' = TRUE
        /\ Closes({}, last) /\ UNCHANGED got
    BY <1>3 DEF InitDriver, To
  <2> QED
    BY <2>1, CloseFiles DEF Files, Connected, Holding, Using
<1>4. ASSUME NEW p \in Process, Acquire(p) PROVE Files'
  BY <1>4 DEF Acquire, To, Files, Newer, Connected, Holding, Using, files, store
<1>5. ASSUME NEW p \in Process, ReadVersion(p) PROVE Files'
  BY <1>5, ReturnFiles DEF ReadVersion, To, Files, Newer, Connected, Holding, Using, files, store
<1>6. ASSUME NEW p \in Process, BeginMigration(p) PROVE Files'
  BY <1>6 DEF BeginMigration, Lock, To, Files, Newer, Connected, Holding, Using, files, store
<1>7. ASSUME NEW p \in Process, Migrate(p) PROVE Files'
  BY <1>7, ReturnFiles DEF Migrate, To, Files, Newer, Connected, Holding, Using, files, store
<1>8. ASSUME NEW p \in Process, CommitMigration(p) PROVE Files'
  BY <1>8, CommitFiles DEF CommitMigration, Commit
<1>9. ASSUME NEW p \in Process, BeginBatch(p) PROVE Files'
  BY <1>9 DEF BeginBatch, Lock, To, Files, Newer, Connected, Holding, Using, files, store
<1>10. ASSUME NEW p \in Process, Put(p) PROVE Files'
  BY <1>10 DEF Put, To, Files, Newer, Connected, Holding, Using, files, store
<1>11. ASSUME NEW p \in Process, CommitBatch(p) PROVE Files'
  BY <1>11, CommitFiles DEF CommitBatch, Commit
<1>12. ASSUME NEW p \in Process, CommitAside(p) PROVE Files'
  <2>1. wal /\ p \in open
    BY <1>12 DEF CommitAside, Files, TypeOK, Connected, Using
  <2> QED
    BY <1>12, <2>1 DEF CommitAside, To, Files, TypeOK, Connected, Holding, Using
<1>13. ASSUME NEW p \in Process, Close(p) PROVE Files'
  BY <1>13, ReturnFiles DEF Close
<1>14. ASSUME NEW p \in Process, Look(p) PROVE Files'
  BY <1>14 DEF Look, To, Files, Newer, Connected, Holding, Using, files, store
<1>15. ASSUME NEW p \in Process, GiveUp(p) PROVE Files'
  BY <1>15, ReturnFiles DEF GiveUp
<1>16. ASSUME NEW p \in Process, NothingToWrite(p) PROVE Files'
  BY <1>16 DEF NothingToWrite, To, Files, Newer, Connected, Holding, Using, files, store
<1>17. ASSUME NEW p \in Process, DeadlinePasses(p) PROVE Files'
  BY <1>17 DEF DeadlinePasses, To, Files, Newer, Connected, Holding, Using, files, store
<1>18. ASSUME NEW p \in Process, Fail(p) PROVE Files'
  BY <1>18, ReturnFiles DEF Fail
<1>19. ASSUME NEW p \in Process, Die(p) PROVE Files'
  BY <1>19 DEF Die, To, Files, Newer, Connected, Holding, Using, files, store
<1>20. ASSUME OutsideLeaves PROVE Files'
  <2>1. Closes({Outside}, last) /\ UNCHANGED <<wal, pc, got>>
    BY <1>20 DEF OutsideLeaves
  <2> QED
    BY <2>1, CloseFiles DEF Files, Newer
<1>21. CASE UNCHANGED vars
  BY <1>21 DEF vars, files, store, Files, Newer
<1> QED
  BY <1>1, <1>2, <1>3, <1>4, <1>5, <1>6, <1>7, <1>8, <1>9, <1>10, <1>11,
     <1>12, <1>13, <1>14, <1>15, <1>16, <1>17, <1>18, <1>19, <1>20, <1>21 DEF
     Next, Step

(* Before the first command the main file is all there is.                 *)
LEMMA FilesInvariant == Spec => []Files
<1>1. Init => Files
  BY DEF Init, Files, Connected, Holding, Using
<1> QED
  BY <1>1, TypedInvariant, FilesStep, PTL DEF Spec

-----------------------------------------------------------------------------
(* The action properties. *)

(* What changes the store while nobody is overlooked is a commit, and what *)
(* changes the journal mode is the connection that an open makes first.    *)
LEMMA Changes ==
  ASSUME TypeOK, Files, [Next]_vars, ~ overlooked'
  PROVE  /\ ~ overlooked
         /\ \/ last' = last
            \/ \E p \in Process : \E to \in {"opened", "close"} :
                 /\ pc[p] \in {"commit", "batch_commit"} /\ pc' = [pc EXCEPT ![p] = to]
                 /\ last' = draft[p]
         /\ \/ wal' = wal
            \/ /\ wal' = TRUE
               /\ \E p \in Process : \E to \in {"acquire", "version"} :
                    pc[p] \in {"driver", "acquire"} /\ pc' = [pc EXCEPT ![p] = to]
<1> DEFINE Unchanged == ~ overlooked /\ last' = last /\ wal' = wal
<1>0. ASSUME NEW p \in Process, Return(p) PROVE Unchanged
  <2>1. wal' = wal
    BY <1>0 DEF Return, files, store
  <2> QED
    BY <1>0, <2>1, ReturnKeeps
<1>1. ASSUME UNCHANGED files PROVE Unchanged
  BY <1>1 DEF files, store
<1>2. ASSUME NEW p \in Process, NEW k \in {"write", "status", "read"}, Begin(p, k)
      PROVE  Unchanged
  BY <1>2, <1>1 DEF Begin
<1>3. ASSUME NEW p \in Process, Probe(p) PROVE Unchanged
  BY <1>3, <1>0, <1>1 DEF Probe
<1>4. ASSUME NEW p \in Process, InitDriver(p)
      PROVE  /\ ~ overlooked /\ last' = last /\ wal' = TRUE
             /\ pc[p] = "driver" /\ pc' = [pc EXCEPT ![p] = "acquire"]
  BY <1>4, CloseKeeps DEF InitDriver, To
<1>5. ASSUME NEW p \in Process, Acquire(p)
      PROVE  /\ ~ overlooked /\ last' = last /\ wal' = TRUE
             /\ pc[p] = "acquire" /\ pc' = [pc EXCEPT ![p] = "version"]
  BY <1>5 DEF Acquire, To
<1>6. ASSUME NEW p \in Process, ReadVersion(p) PROVE Unchanged
  BY <1>6, <1>0, <1>1 DEF ReadVersion
<1>7. ASSUME NEW p \in Process, BeginMigration(p) \/ BeginBatch(p) PROVE Unchanged
  BY <1>7 DEF BeginMigration, BeginBatch, Lock, store
<1>8. ASSUME NEW p \in Process, Migrate(p) PROVE Unchanged
  BY <1>8, <1>0, <1>1 DEF Migrate
<1>9. ASSUME NEW p \in Process, CommitMigration(p)
      PROVE  /\ ~ overlooked /\ wal' = wal /\ last' = draft[p]
             /\ pc[p] = "commit" /\ pc' = [pc EXCEPT ![p] = "opened"]
  BY <1>9 DEF CommitMigration, Commit, To
<1>10. ASSUME NEW p \in Process, CommitBatch(p)
       PROVE  /\ ~ overlooked /\ wal' = wal /\ last' = draft[p]
              /\ pc[p] = "batch_commit" /\ pc' = [pc EXCEPT ![p] = "close"]
  BY <1>10 DEF CommitBatch, Commit, To
<1>11. ASSUME NEW p \in Process, Put(p) \/ Look(p) \/ NothingToWrite(p) \/ DeadlinePasses(p)
       PROVE  Unchanged
  BY <1>11, <1>1 DEF Put, Look, NothingToWrite, DeadlinePasses
<1>12. ASSUME NEW p \in Process, CommitAside(p) PROVE FALSE
  BY <1>12 DEF CommitAside, TypeOK
<1>13. ASSUME NEW p \in Process, Close(p) \/ GiveUp(p) \/ Fail(p) PROVE Unchanged
  BY <1>13, <1>0 DEF Close, GiveUp, Fail
<1>14. ASSUME NEW p \in Process, Die(p) PROVE Unchanged
  BY <1>14 DEF Die, store
<1>15. ASSUME OutsideLeaves PROVE Unchanged
  BY <1>15, CloseKeeps DEF OutsideLeaves
<1>16. ASSUME UNCHANGED vars PROVE Unchanged
  BY <1>16, <1>1 DEF vars
<1> HIDE DEF Unchanged
<1>17. \/ Unchanged
       \/ \E p \in Process : InitDriver(p) \/ Acquire(p) \/ CommitMigration(p) \/ CommitBatch(p)
  BY <1>2, <1>3, <1>6, <1>7, <1>8, <1>11, <1>12, <1>13, <1>14, <1>15, <1>16 DEF Next, Step
<1> QED
  BY <1>4, <1>5, <1>9, <1>10, <1>17 DEF Unchanged

(* An older binary changes nothing of a newer store: each of Store.migrate's *)
(* reads of user_version that was overtaken is repeated before it matters.   *)
THEOREM NewerAlwaysLeftAlone == Spec => NewerIsLeftAlone
<1>1. ASSUME TypeOK, Promises, Files, [Next]_vars, ~ overlooked',
             NEW q \in Process, pc[q] \in Opening, pc'[q] # pc[q], Newer(q, last)
      PROVE  UNCHANGED <<last, wal>>
  <2> pc \in [Process -> Label]
    BY <1>1 DEF TypeOK
  <2>1. \A p \in Process : \A to : pc' = [pc EXCEPT ![p] = to] => p = q
    BY <1>1
  <2>2. last' = last
    <3>1. ASSUME NEW p \in Process, NEW to \in {"opened", "close"},
                 pc[p] \in {"commit", "batch_commit"}, pc' = [pc EXCEPT ![p] = to]
          PROVE  FALSE
      <4>1. p = q
        BY <2>1, <3>1
      <4>2. pc[q] = "commit" /\ ~ overlooked
        BY <1>1, <3>1, <4>1, Changes DEF Opening
      <4> QED
        BY <1>1, <4>2 DEF Promises, DraftedAt
    <3> QED
      BY <1>1, <3>1, Changes
  <2>3. wal' = wal
    <3>1. ASSUME NEW p \in Process, NEW to \in {"acquire", "version"},
                 pc[p] \in {"driver", "acquire"}, pc' = [pc EXCEPT ![p] = to], ~ wal
          PROVE  FALSE
      <4>1. p = q
        BY <2>1, <3>1
      <4> QED
        BY <1>1, <3>1, <4>1 DEF Files
    <3>2. wal \in BOOLEAN /\ wal' \in BOOLEAN
      BY <1>1, TypeStep DEF TypeOK
    <3>3. CASE ~ wal
      BY <1>1, <3>1, <3>3, Changes
    <3>4. CASE wal
      BY <1>1, <3>2, <3>4, Changes
    <3> QED
      BY <3>2, <3>3, <3>4
  <2> QED
    BY <2>2, <2>3
<1>2. TypeOK /\ Promises /\ Files /\ [Next]_vars =>
        [\A p \in Process :
           pc[p] \in Opening /\ pc'[p] # pc[p] /\ Newer(p, last) /\ ~ overlooked'
             => UNCHANGED <<last, wal>>]_vars
  BY <1>1
<1> QED
  BY <1>2, TypedInvariant, PromisesInvariant, FilesInvariant, PTL DEF Spec,
     NewerIsLeftAlone

(* While no connection is overlooked, no commit loses a row, a field of    *)
(* one, or an object for a scalar, and an index built anew finds every     *)
(* row.                                                                    *)
THEOREM RowsAlwaysKept == Spec => KeepsRows
<1>1. ASSUME TypeOK, Promises, Files, [Next]_vars, ~ overlooked'
      PROVE  Kept(last, last')
  <2>1. CASE last' = last
    <3>1. last.rows \in Rows
      BY <1>1 DEF TypeOK, Store
    <3> QED
      BY <2>1, <3>1 DEF Kept, Present, Rows, Data
  <2>2. ASSUME NEW p \in Process, pc[p] \in {"commit", "batch_commit"}, last' = draft[p]
        PROVE  Kept(last, last')
    <3>1. Kept(last, draft[p])
      BY <1>1, <2>2, Changes DEF Promises, DraftedAt
    <3> QED
      BY <2>2, <3>1
  <2> QED
    BY <1>1, <2>1, <2>2, Changes
<1>2. TypeOK /\ Promises /\ Files /\ [Next]_vars =>
        [~ overlooked' =>
           /\ \A i \in Present(last.rows) :
                /\ last'.rows[i] # NoRow
                /\ \A f \in Field : last'.rows[i][f] >= last.rows[i][f]
           /\ last'.index # last.index => last'.indexed = Present(last'.rows)]_vars
  BY <1>1 DEF Kept
<1> QED
  BY <1>2, TypedInvariant, PromisesInvariant, FilesInvariant, PTL DEF Spec, KeepsRows

(* A reader that looks when nobody has the store open, and nobody died     *)
(* with it, is given what the last commit left: OpenReadOnly's immutable   *)
(* connection sees the main file, which the last Close completed.          *)
THEOREM ReaderAlwaysCurrent == Spec => ReaderIsCurrent
<1>1. ASSUME TypeOK, Files, [Next]_vars, NEW p \in Process,
             pc[p] = "look", pc'[p] = "idle", got'[p] # NoAnswer, open = {}, ~ killed, ~ overlooked
      PROVE  got'[p] = Answer(p, last)
  <2> pc \in [Process -> Label] /\ got \in [Process -> Rows \cup {NoAnswer, Refused, Torn}]
    BY <1>1 DEF TypeOK
  <2>1. main = last
    BY <1>1 DEF Files
  <2>2. ASSUME NEW q \in Process PROVE Copied(q) = main
    <3>1. pc[q] \notin Connected
      BY <1>1 DEF TypeOK
    <3>2. log[q] = Shared
      BY <1>1, <3>1 DEF TypeOK, Connected
    <3> QED
      BY <1>1, <2>1, <3>1, <3>2, ViewTypes DEF Copied, Connected, Holding, Using
  <2>3. got[p] = NoAnswer
    BY <1>1 DEF Files
  <2> SUFFICES got'[p] = NoAnswer \/ got'[p] = Answer(p, main)
    BY <1>1, <2>1
  <2>4. ASSUME NEW q \in Process, NEW k \in {"write", "status", "read"}, Begin(q, k)
        PROVE  got'[p] = NoAnswer \/ got'[p] = Answer(p, main)
    BY <2>4, <2>3 DEF Begin, To
  <2>5. ASSUME NEW q \in Process, Probe(q)
        PROVE  got'[p] = NoAnswer \/ got'[p] = Answer(p, main)
    BY <2>5, <2>3 DEF Probe, Return
  <2>6. ASSUME NEW q \in Process, InitDriver(q)
        PROVE  got'[p] = NoAnswer \/ got'[p] = Answer(p, main)
    BY <2>6, <2>3 DEF InitDriver, Closes, ClosesAtExit
  <2>7. ASSUME NEW q \in Process, Acquire(q)
        PROVE  got'[p] = NoAnswer \/ got'[p] = Answer(p, main)
    BY <2>7, <2>3 DEF Acquire
  <2>8. ASSUME NEW q \in Process, ReadVersion(q)
        PROVE  got'[p] = NoAnswer \/ got'[p] = Answer(p, main)
    BY <2>8, <2>3 DEF ReadVersion, Return
  <2>9. ASSUME NEW q \in Process, BeginMigration(q)
        PROVE  got'[p] = NoAnswer \/ got'[p] = Answer(p, main)
    BY <2>9, <2>3 DEF BeginMigration, Lock
  <2>10. ASSUME NEW q \in Process, Migrate(q)
         PROVE  got'[p] = NoAnswer \/ got'[p] = Answer(p, main)
    BY <2>10, <2>3 DEF Migrate, Return
  <2>11. ASSUME NEW q \in Process, CommitMigration(q)
         PROVE  got'[p] = NoAnswer \/ got'[p] = Answer(p, main)
    BY <2>11, <2>3 DEF CommitMigration, Commit
  <2>12. ASSUME NEW q \in Process, BeginBatch(q)
         PROVE  got'[p] = NoAnswer \/ got'[p] = Answer(p, main)
    BY <2>12, <2>3 DEF BeginBatch, Lock
  <2>13. ASSUME NEW q \in Process, Put(q)
         PROVE  got'[p] = NoAnswer \/ got'[p] = Answer(p, main)
    BY <2>13, <2>3 DEF Put
  <2>14. ASSUME NEW q \in Process, CommitBatch(q)
         PROVE  got'[p] = NoAnswer \/ got'[p] = Answer(p, main)
    BY <2>14, <2>3 DEF CommitBatch, Commit
  <2>15. ASSUME NEW q \in Process, Close(q)
         PROVE  got'[p] = NoAnswer \/ got'[p] = Answer(p, main)
    BY <2>15, <2>3 DEF Close, Return
  <2>16. ASSUME NEW q \in Process, Look(q)
         PROVE  got'[p] = NoAnswer \/ got'[p] = Answer(p, main)
    BY <2>16, <2>2, <2>3, <1>1 DEF Look
  <2>17. ASSUME NEW q \in Process, GiveUp(q)
         PROVE  got'[p] = NoAnswer \/ got'[p] = Answer(p, main)
    BY <2>17, <2>3 DEF GiveUp, Return
  <2>18. ASSUME NEW q \in Process, NothingToWrite(q)
         PROVE  got'[p] = NoAnswer \/ got'[p] = Answer(p, main)
    BY <2>18, <2>3 DEF NothingToWrite
  <2>19. ASSUME NEW q \in Process, DeadlinePasses(q)
         PROVE  got'[p] = NoAnswer \/ got'[p] = Answer(p, main)
    BY <2>19, <2>3 DEF DeadlinePasses
  <2>20. ASSUME NEW q \in Process, Fail(q)
         PROVE  got'[p] = NoAnswer \/ got'[p] = Answer(p, main)
    BY <2>20, <2>3 DEF Fail, Return
  <2>21. ASSUME NEW q \in Process, Die(q)
         PROVE  got'[p] = NoAnswer \/ got'[p] = Answer(p, main)
    BY <2>21, <2>3 DEF Die
  <2>22. ASSUME OutsideLeaves
         PROVE  got'[p] = NoAnswer \/ got'[p] = Answer(p, main)
    BY <2>22, <2>3 DEF OutsideLeaves
  <2>23. ASSUME NEW q \in Process, CommitAside(q)
         PROVE  got'[p] = NoAnswer \/ got'[p] = Answer(p, main)
    BY <2>23, <2>3 DEF CommitAside
  <2>24. CASE UNCHANGED vars
    BY <2>24, <2>3 DEF vars
  <2> QED
    BY <1>1, <2>4, <2>5, <2>6, <2>7, <2>8, <2>9, <2>10, <2>11, <2>12, <2>13, <2>14,
       <2>15, <2>16, <2>17, <2>18, <2>19, <2>20, <2>21, <2>22, <2>23, <2>24 DEF
     Next, Step
<1>2. TypeOK /\ Files /\ [Next]_vars =>
        [\A p \in Process :
           pc[p] = "look" /\ pc'[p] = "idle" /\ got'[p] # NoAnswer
           /\ open = {} /\ ~ killed /\ ~ overlooked
             => got'[p] = Answer(p, last)]_vars
  BY <1>1
<1> QED
  BY <1>2, TypedInvariant, FilesInvariant, PTL DEF Spec, ReaderIsCurrent

=============================================================================
