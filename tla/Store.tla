-------------------------------- MODULE Store --------------------------------
(***************************************************************************)
(* The broker's store as several processes use it: serve, whose handlers   *)
(* record audit events, and the commands (audit tail, certs list) that     *)
(* open the same store beside it.  With driver "sqlite" opening migrates   *)
(* the schema in a transaction, and statements take a process's only       *)
(* connection; with driver "file" events are appended to a file.  A caller *)
(* is a goroutine.  Certificates are in BrokerIssue; their statements lock *)
(* the database like those of audit events.                                *)
(*                                                                         *)
(* SQLite is external: a rollback journal and deferred transactions, as    *)
(* sql.Open(path) leaves them.  A reader holds SHARED, a writer RESERVED   *)
(* and, while it commits, EXCLUSIVE, which it gets only if nobody else     *)
(* holds SHARED.  Who does not get a lock waits, and may fail with         *)
(* SQLITE_BUSY, at once or when the driver's timeout has passed.  A commit *)
(* syncs journal and database and then deletes the journal; with           *)
(* synchronous=FULL, the default, the directory is not synced after that,  *)
(* so a power failure may bring the journal, and the database before the   *)
(* last commit, back.                                                      *)
(***************************************************************************)
EXTENDS Integers, Sequences, FiniteSets

CONSTANTS
  Procs,          \* processes
  Recorders,      \* handlers of serve, which record events
  Tailers,        \* those of audit tail, which print them
  ProcOf,         \* the process of each
  Main,           \* the goroutine of a process that opens its store
  NMigrations,    \* length of sqliteMigrations (1 today)
  MaxEvents,      \* bound on the events
  MaxTime,        \* bound on the clock, in seconds
  MaxOutages,     \* bound on the power failures
  Limits,         \* --limit of audit tail
  DefaultLimit,   \* what the SQLite store makes of a limit that is not positive (100)
  Faults,         \* which parts of the environment misbehave
  NoEvent

Callers == Recorders \cup Tailers

Versions == 1..NMigrations

ASSUME StoreAssumption ==
  /\ ProcOf \in [Callers -> Procs]
  /\ Main \in [Procs -> Callers]
  /\ \A p \in Procs : ProcOf[Main[p]] = p
  /\ \A c \in Tailers, d \in Callers : ProcOf[c] = ProcOf[d] => c = d
  /\ NMigrations \in Nat
  /\ MaxEvents \in Nat
  /\ MaxTime \in Nat
  /\ MaxOutages \in Nat
  /\ Limits \subseteq Int
  /\ DefaultLimit \in Nat \ {0}
  /\ Faults \subseteq {"disk", "cancel", "kill", "power"}
  /\ IsFiniteSet(Callers)

VARIABLES
  driver,   \* store.driver
  now,      \* the clock
  proc,     \* "down", "opening" or "open"
  conns,    \* connections of a process in use, by their users
  pc,       \* what a caller does next
  lock,     \* the lock its connection holds
  mig,      \* the migration it looks at
  pend,     \* versions and tables its transaction has written
  event,    \* the event it records
  limit,    \* the limit it was called with
  blame,    \* who was in the way of its call
  shown,    \* what its audit tail prints, and what was there
  db,       \* the database: versions recorded, tables, audit_events
  file,     \* the audit file: what each write left in it
  synced,   \* how many of these are on disk
  undo,     \* the database that the last commit's journal restores
  named,    \* the audit file's name is on disk, too
  since,    \* events up to this id were lost with the file's name
  outages,  \* power failures so far
  born,     \* number of events so far
  acked     \* events whose Record returned nil

callVars == <<pc, lock, mig, pend, event, limit>>
diskVars == <<undo, named, since, outages>>
dataVars == <<db, file, synced, diskVars>>
vars == <<driver, now, proc, conns, callVars, blame, shown, dataVars, born, acked>>

Nothing == [versions |-> {}, tables |-> {}]

Blank == [events |-> {}, of |-> {}]

(* Init: a new database, or one that an earlier release has migrated.      *)
Init ==
  /\ driver \in {"sqlite", "file"}
  /\ now = 0
  /\ proc = [p \in Procs |-> "down"]
  /\ conns = [p \in Procs |-> {}]
  /\ pc = [c \in Callers |-> "idle"]
  /\ lock = [c \in Callers |-> "none"]
  /\ mig = [c \in Callers |-> 1]
  /\ pend = [c \in Callers |-> Nothing]
  /\ event = [c \in Callers |-> NoEvent]
  /\ limit = [c \in Callers |-> 0]
  /\ blame = [c \in Callers |-> {}]
  /\ shown = [c \in Callers |-> Blank]
  /\ \E k \in 0..NMigrations : db = [versions |-> 1..k, tables |-> 1..k, rows |-> <<>>]
  /\ file = <<>>
  /\ synced = 0
  /\ undo = db
  /\ named = FALSE
  /\ since = 0
  /\ outages = 0
  /\ born = 0
  /\ acked = {}

-----------------------------------------------------------------------------
(* SQLite's locks.                                                         *)

Others(c) == {d \in Callers \ {c} : lock[d] # "none"}

Writers(c) == {d \in Callers \ {c} : lock[d] = "reserved"}

Committers(c) == {d \in Writers(c) : pc[d] \in {"commit", "commit_row"}}

Goto(c, step) == pc' = [pc EXCEPT ![c] = step]

Locks(c, l) == lock' = [lock EXCEPT ![c] = l]

(* A write statement gets RESERVED if there is no other writer. *)
Reserves(c) == Writers(c) = {} /\ Locks(c, "reserved") /\ UNCHANGED blame

(* A statement fails because those in who hold the lock it needs. *)
Busy(c, who) ==
  /\ who # {}
  /\ blame' = [blame EXCEPT ![c] = who]
  /\ Goto(c, "rollback")
  /\ UNCHANGED lock

(* A call ends: connection and locks are given back. *)
Release(c) ==
  /\ Locks(c, "none")
  /\ conns' = [conns EXCEPT ![ProcOf[c]] = @ \ {c}]
  /\ pend' = [pend EXCEPT ![c] = Nothing]
  /\ event' = [event EXCEPT ![c] = NoEvent]
  /\ limit' = [limit EXCEPT ![c] = 0]
  /\ mig' = [mig EXCEPT ![c] = 1]
  /\ blame' = [blame EXCEPT ![c] = {}]
  /\ shown' = [shown EXCEPT ![c] = Blank]
  /\ Goto(c, "idle")

-----------------------------------------------------------------------------
(* NewSQLiteStore and migrate.                                             *)

(* openBrokerStore.  The first transaction takes the connection. *)
Open(p) ==
  /\ proc[p] = "down"
  /\ \/ /\ driver = "file"
        /\ proc' = [proc EXCEPT ![p] = "open"]
        /\ UNCHANGED <<conns, pc>>
     \/ /\ driver = "sqlite"
        /\ proc' = [proc EXCEPT ![p] = "opening"]
        /\ conns' = [conns EXCEPT ![p] = {Main[p]}]
        /\ Goto(Main[p], "ensure")
  /\ UNCHANGED <<driver, now, lock, mig, pend, event, limit, blame, shown, dataVars,
                 born, acked>>

(* ensureMigrationTable: a read if the table is there, else a write.  It   *)
(* is there once a first migration has been committed.                     *)
EnsureMigrationTable(c) ==
  /\ pc[c] = "ensure"
  /\ \/ /\ db.versions # {}
        /\ Locks(c, "shared")
        /\ UNCHANGED blame
        /\ Goto(c, "check")
     \/ /\ db.versions = {}
        /\ \/ Reserves(c) /\ Goto(c, "check")
           \/ Busy(c, Writers(c))
     \/ Busy(c, Committers(c))
  /\ UNCHANGED <<driver, now, proc, conns, mig, pend, event, limit, shown, dataVars,
                 born, acked>>

(* A faulty variant of MigrationAlreadyApplied: the query goes to s.db     *)
(* instead of tx, and so waits for a connection.                           *)
AppliedOnOtherConnection(c) ==
  /\ pc[c] = "check"
  /\ conns[ProcOf[c]] = {}
  /\ Goto(c, "apply")
  /\ UNCHANGED <<driver, now, proc, conns, lock, mig, pend, event, limit, blame, shown,
                 dataVars, born, acked>>

(* The loop of migrate, with migrationAlreadyApplied. *)
MigrationAlreadyApplied(c) ==
  /\ pc[c] = "check"
  /\ \/ /\ mig[c] > NMigrations
        /\ Goto(c, "commit")
        /\ UNCHANGED mig
     \/ /\ mig[c] \in db.versions
        /\ mig' = [mig EXCEPT ![c] = @ + 1]
        /\ UNCHANGED pc
     \/ /\ mig[c] \in Versions \ db.versions
        /\ Goto(c, "apply")
        /\ UNCHANGED mig
  /\ UNCHANGED <<driver, now, proc, conns, lock, pend, event, limit, blame, shown,
                 dataVars, born, acked>>

(* A faulty variant of ApplyMigration: it is not part of the transaction.  *)
ApplyAtOnce(c) ==
  /\ pc[c] = "apply"
  /\ Reserves(c)
  /\ db' = [db EXCEPT !.tables = @ \cup {mig[c]}]
  /\ Goto(c, "insert")
  /\ UNCHANGED <<driver, now, proc, conns, mig, pend, event, limit, shown, file, synced,
                 diskVars, born, acked>>

(* tx.Exec(migration.SQL) *)
ApplyMigration(c) ==
  /\ pc[c] = "apply"
  /\ \/ /\ Reserves(c)
        /\ pend' = [pend EXCEPT ![c].tables = @ \cup {mig[c]}]
        /\ Goto(c, "insert")
     \/ /\ Busy(c, Writers(c))
        /\ UNCHANGED pend
  /\ UNCHANGED <<driver, now, proc, conns, mig, event, limit, shown, dataVars, born,
                 acked>>

(* INSERT INTO schema_migrations *)
InsertVersion(c) ==
  /\ pc[c] = "insert"
  /\ pend' = [pend EXCEPT ![c].versions = @ \cup {mig[c]}]
  /\ mig' = [mig EXCEPT ![c] = @ + 1]
  /\ Goto(c, "check")
  /\ UNCHANGED <<driver, now, proc, conns, lock, event, limit, blame, shown, dataVars,
                 born, acked>>

(* tx.Commit; a transaction that has written needs EXCLUSIVE. *)
CommitMigrations(c) ==
  /\ pc[c] = "commit"
  /\ \/ /\ lock[c] = "reserved" => Others(c) = {}
        /\ db' = [db EXCEPT !.versions = @ \cup pend[c].versions,
                            !.tables = @ \cup pend[c].tables]
        /\ undo' = IF lock[c] = "reserved" THEN db ELSE undo
        /\ proc' = [proc EXCEPT ![ProcOf[c]] = "open"]
        /\ Release(c)
     \/ /\ lock[c] = "reserved"
        /\ Busy(c, Others(c))
        /\ UNCHANGED <<db, undo, proc, conns, mig, pend, event, limit, shown>>
  /\ UNCHANGED <<driver, now, file, synced, named, since, outages, born, acked>>

(* The command of c ends: it could not open its store, or it has printed.  *)
Exits(c, over) == proc' = [proc EXCEPT ![ProcOf[c]] = IF over THEN "down" ELSE @]

(* A call that failed.  With migrate, and with audit tail, which records   *)
(* nothing, so does the command.                                           *)
Rollback(c) ==
  /\ pc[c] = "rollback"
  /\ Exits(c, proc[ProcOf[c]] = "opening" \/ (c \in Tailers /\ event[c] = NoEvent))
  /\ Release(c)
  /\ UNCHANGED <<driver, now, dataVars, born, acked>>

-----------------------------------------------------------------------------
(* Record.                                                                 *)

(* A handler makes an event, which has the time to the second, and calls   *)
(* Record.  The event also has a history: the events acknowledged before.  *)
CallRecord(c) ==
  /\ proc[ProcOf[c]] = "open"
  /\ pc[c] = "idle"
  /\ born < MaxEvents
  /\ born' = born + 1
  /\ event' = [event EXCEPT ![c] = [id |-> born', sec |-> now,
                                    after |-> {e.id : e \in acked}]]
  /\ Goto(c, IF driver = "sqlite" THEN "take" ELSE "append")
  /\ UNCHANGED <<driver, now, proc, conns, lock, mig, pend, limit, blame, shown,
                 dataVars, acked>>

(* A faulty variant of TakeConnection: SetMaxOpenConns is missing. *)
TakeNewConnection(c) ==
  /\ pc[c] \in {"take", "take_rows"}
  /\ conns' = [conns EXCEPT ![ProcOf[c]] = @ \cup {c}]
  /\ Goto(c, IF pc[c] = "take" THEN "insert_row" ELSE "select")
  /\ UNCHANGED <<driver, now, proc, lock, mig, pend, event, limit, blame, shown,
                 dataVars, born, acked>>

(* database/sql's pool, with SetMaxOpenConns(1). *)
TakeConnection(c) ==
  /\ pc[c] \in {"take", "take_rows"}
  /\ conns[ProcOf[c]] = {}
  /\ conns' = [conns EXCEPT ![ProcOf[c]] = {c}]
  /\ Goto(c, IF pc[c] = "take" THEN "insert_row" ELSE "select")
  /\ UNCHANGED <<driver, now, proc, lock, mig, pend, event, limit, blame, shown,
                 dataVars, born, acked>>

(* INSERT INTO audit_events, a transaction of its own. *)
InsertRow(c) ==
  /\ pc[c] = "insert_row"
  /\ \/ Reserves(c) /\ Goto(c, "commit_row")
     \/ Busy(c, Writers(c))
  /\ UNCHANGED <<driver, now, proc, conns, mig, pend, event, limit, shown, dataVars,
                 born, acked>>

(* The driver returns the context's error for a statement it has committed *)
(* if the context is cancelled by then.                                    *)
CommitRow(c) ==
  /\ pc[c] = "commit_row"
  /\ \/ /\ Others(c) = {}
        /\ db' = [db EXCEPT !.rows = Append(@, event[c])]
        /\ undo' = db
        /\ \/ acked' = acked \cup {event[c]}
           \/ "cancel" \in Faults /\ UNCHANGED acked
        /\ Release(c)
     \/ /\ Busy(c, Others(c))
        /\ UNCHANGED <<db, undo, acked, conns, mig, pend, event, limit, shown>>
  /\ UNCHANGED <<driver, now, proc, file, synced, named, since, outages, born>>

(* A faulty variant of AppendLine: the newline is a write of its own, and  *)
(* ends whatever line is then the last.                                    *)
AppendThenNewline(c) ==
  /\ \/ /\ pc[c] = "append"
        /\ file' = Append(file, [event |-> event[c], whole |-> FALSE])
        /\ Goto(c, "newline")
     \/ /\ pc[c] = "newline"
        /\ file' = [file EXCEPT ![Len(file)].whole = TRUE]
        /\ Goto(c, "sync")
  /\ UNCHANGED <<driver, now, proc, conns, lock, mig, pend, event, limit, blame, shown,
                 db, synced, diskVars, born, acked>>

(* FileStore.Record: one write at the end of the file.  A write that fails *)
(* may leave the beginning of the line.                                    *)
AppendLine(c) ==
  /\ pc[c] = "append"
  /\ \/ /\ file' = Append(file, [event |-> event[c], whole |-> TRUE])
        /\ Goto(c, "sync")
     \/ /\ "disk" \in Faults
        /\ \/ UNCHANGED file
           \/ file' = Append(file, [event |-> event[c], whole |-> FALSE])
        /\ Goto(c, "rollback")
  /\ UNCHANGED <<driver, now, proc, conns, lock, mig, pend, event, limit, blame, shown,
                 db, synced, diskVars, born, acked>>

(* A faulty variant of SyncFile: Record returns without file.Sync. *)
SyncNothing(c) ==
  /\ pc[c] = "sync"
  /\ acked' = acked \cup {event[c]}
  /\ Release(c)
  /\ UNCHANGED <<driver, now, proc, dataVars, born>>

(* return file.Sync(): the file is on disk, but not the name that opening  *)
(* it with O_CREATE has given it.                                          *)
SyncFile(c) ==
  /\ pc[c] = "sync"
  /\ \/ /\ synced' = Len(file)
        /\ acked' = acked \cup {event[c]}
     \/ "disk" \in Faults /\ UNCHANGED <<synced, acked>>
  /\ Release(c)
  /\ UNCHANGED <<driver, now, proc, db, file, diskVars, born>>

-----------------------------------------------------------------------------
(* WriteAuditEvents.                                                       *)

CallTail(c) ==
  /\ proc[ProcOf[c]] = "open"
  /\ pc[c] = "idle"
  /\ \E n \in Limits : limit' = [limit EXCEPT ![c] = n]
  /\ Goto(c, IF driver = "sqlite" THEN "take_rows" ELSE "scan")
  /\ UNCHANGED <<driver, now, proc, conns, lock, mig, pend, event, blame, shown,
                 dataVars, born, acked>>

RowsOf(d) == {d.rows[i] : i \in DOMAIN d.rows}

Rows == RowsOf(db)

AtMost(n, k) == IF n <= k THEN n ELSE k

(* A faulty variant of Latest: ORDER BY without DESC. *)
Earliest(n) ==
  {S \in SUBSET Rows :
     /\ Cardinality(S) = AtMost(n, Cardinality(Rows))
     /\ \A e \in S, f \in Rows \ S : e.sec <= f.sec}

(* ORDER BY timestamp DESC LIMIT n: rows of the same second in any order. *)
Latest(n) ==
  {S \in SUBSET Rows :
     /\ Cardinality(S) = AtMost(n, Cardinality(Rows))
     /\ \A e \in S, f \in Rows \ S : f.sec <= e.sec}

(* listAuditEvents up to the end of the rows. *)
SelectRows(c) ==
  /\ pc[c] = "select"
  /\ \/ /\ Locks(c, "shared")
        /\ \E S \in Latest(IF limit[c] <= 0 THEN DefaultLimit ELSE limit[c]) :
             shown' = [shown EXCEPT ![c] = [events |-> S, of |-> Rows]]
        /\ Goto(c, "close")
        /\ UNCHANGED blame
     \/ /\ Busy(c, Committers(c))
        /\ UNCHANGED shown
  /\ UNCHANGED <<driver, now, proc, conns, mig, pend, event, limit, dataVars, born,
                 acked>>

(* rows.Close or file.Close, then brokerStore.Close: the command is over. *)
CloseStore(c) ==
  /\ pc[c] = "close"
  /\ Exits(c, TRUE)
  /\ Release(c)
  /\ UNCHANGED <<driver, now, dataVars, born, acked>>

(* A line begins where the write before it was whole. *)
LineStarts == {i \in DOMAIN file : i = 1 \/ file[i - 1].whole}

LineOf(i) == Cardinality({k \in LineStarts : k <= i})

NLines == Cardinality(LineStarts)

(* FileStore.WriteAuditEvents: the last lines. *)
ScanFile(c) ==
  LET printed == {i \in DOMAIN file : limit[c] > 0 => LineOf(i) > NLines - limit[c]}
  IN  /\ pc[c] = "scan"
      /\ shown' = [shown EXCEPT ![c] = [events |-> {file[i].event : i \in printed},
                                        of |-> {file[i].event : i \in DOMAIN file}]]
      /\ Goto(c, "close")
      /\ UNCHANGED <<driver, now, proc, conns, lock, mig, pend, event, limit, blame,
                     dataVars, born, acked>>

-----------------------------------------------------------------------------
(* Everyone else.                                                          *)

(* The directory of the audit file gets to disk: PutCertificate, whose     *)
(* WriteFileAtomic replaces a file beside it, syncs it, or the kernel      *)
(* writes it back.                                                         *)
SyncDirectory ==
  /\ ~named
  /\ file # <<>>
  /\ named' = TRUE
  /\ UNCHANGED <<driver, now, proc, conns, callVars, blame, shown, db, file, synced,
                 undo, since, outages, born, acked>>

(* The context of a call is cancelled before its statement is committed. *)
Cancel(c) ==
  /\ "cancel" \in Faults
  /\ pc[c] \in {"take", "take_rows", "insert_row", "commit_row"}
  /\ Goto(c, "rollback")
  /\ UNCHANGED <<driver, now, proc, conns, lock, mig, pend, event, limit, blame, shown,
                 dataVars, born, acked>>

(* The processes ps are gone, and with them locks and open transactions.   *)
Die(ps) ==
  LET With(f, v) == [c \in Callers |-> IF ProcOf[c] \in ps THEN v ELSE f[c]]
  IN  /\ proc' = [p \in Procs |-> IF p \in ps THEN "down" ELSE proc[p]]
      /\ conns' = [p \in Procs |-> IF p \in ps THEN {} ELSE conns[p]]
      /\ pc' = With(pc, "idle")
      /\ lock' = With(lock, "none")
      /\ mig' = With(mig, 1)
      /\ pend' = With(pend, Nothing)
      /\ event' = With(event, NoEvent)
      /\ limit' = With(limit, 0)
      /\ blame' = With(blame, {})
      /\ shown' = With(shown, Blank)
      /\ UNCHANGED <<driver, now, born, acked>>

(* A process is killed. *)
Kill(p) ==
  /\ "kill" \in Faults
  /\ proc[p] # "down"
  /\ Die({p})
  /\ UNCHANGED dataVars

(* The audit file after a power failure: what was not synced may be lost,  *)
(* or cut off in the middle of a line.                                     *)
FileCut ==
  /\ \E k \in synced..Len(file) :
       \/ file' = SubSeq(file, 1, k)
       \/ /\ k > synced
          /\ file' = [SubSeq(file, 1, k) EXCEPT ![k].whole = FALSE]
  /\ synced' = Len(file')
  /\ named' = (named \/ file' # <<>>)
  /\ UNCHANGED since

(* It had no name on disk yet: all of it is lost. *)
FileGone ==
  /\ ~named
  /\ file # <<>>
  /\ file' = <<>>
  /\ synced' = 0
  /\ since' = born
  /\ UNCHANGED named

(* The machine loses power.  The database is as the last commit left it or *)
(* as its journal restores it.                                             *)
PowerLoss ==
  /\ "power" \in Faults
  /\ outages < MaxOutages
  /\ outages' = outages + 1
  /\ Die(Procs)
  /\ FileCut \/ FileGone
  /\ db' \in {db, undo}
  /\ undo' = db'

Tick ==
  /\ now < MaxTime
  /\ now' = now + 1
  /\ UNCHANGED <<driver, proc, conns, callVars, blame, shown, dataVars, born, acked>>

(* The next step of a call that is under way. *)
Step(c) ==
  \/ EnsureMigrationTable(c)
  \/ MigrationAlreadyApplied(c)
  \/ ApplyMigration(c)
  \/ InsertVersion(c)
  \/ CommitMigrations(c)
  \/ Rollback(c)
  \/ TakeConnection(c)
  \/ InsertRow(c)
  \/ CommitRow(c)
  \/ AppendLine(c)
  \/ SyncFile(c)
  \/ SelectRows(c)
  \/ ScanFile(c)
  \/ CloseStore(c)

Next ==
  \/ \E p \in Procs : Open(p)
  \/ \E c \in Callers : Step(c)
  \/ \E c \in Recorders : CallRecord(c)
  \/ \E c \in Tailers : CallTail(c)
  \/ \E c \in Callers : Cancel(c)
  \/ SyncDirectory
  \/ \E p \in Procs : Kill(p)
  \/ PowerLoss
  \/ Tick

Spec == Init /\ [][Next]_vars

(* System calls return and statements fail rather than wait, so a caller   *)
(* that can go on does; the pool gives a free connection to one of those   *)
(* that wait at random, so nobody is passed over for ever.                 *)
Fairness == \A c \in Callers : WF_vars(Step(c)) /\ SF_vars(TakeConnection(c))

FairSpec == Spec /\ Fairness

-----------------------------------------------------------------------------
(* Properties.                                                             *)

Steps ==
  {"idle", "ensure", "check", "apply", "insert", "commit", "rollback", "take",
   "insert_row", "commit_row", "append", "sync", "take_rows", "select", "scan", "close"}

Event == [id : Nat, sec : Nat, after : SUBSET Nat]

Entry == [event : Event, whole : BOOLEAN]

Writes == [versions : SUBSET Versions, tables : SUBSET Versions]

Listing == [events : SUBSET Event, of : SUBSET Event]

Database == [versions : SUBSET Versions, tables : SUBSET Versions, rows : Seq(Event)]

Migration == Nat \ {0}

Groups == SUBSET Callers

ProcTypes ==
  /\ proc \in [Procs -> {"down", "opening", "open"}]
  /\ conns \in [Procs -> Groups]

CallTypes ==
  /\ pc \in [Callers -> Steps]
  /\ lock \in [Callers -> {"none", "shared", "reserved"}]
  /\ mig \in [Callers -> Migration]
  /\ pend \in [Callers -> Writes]
  /\ event \in [Callers -> Event \cup {NoEvent}]
  /\ limit \in [Callers -> Int]
  /\ blame \in [Callers -> Groups]
  /\ shown \in [Callers -> Listing]

DataTypes ==
  /\ driver \in {"sqlite", "file"}
  /\ now \in Nat
  /\ db \in Database
  /\ file \in Seq(Entry)
  /\ synced \in 0..Len(file)
  /\ undo \in Database
  /\ named \in BOOLEAN
  /\ since \in Nat
  /\ outages \in Nat
  /\ born \in Nat
  /\ acked \in SUBSET Event

(* The type invariant. *)
TypeOK == ProcTypes /\ CallTypes /\ DataTypes

Migrating == {"ensure", "check", "apply", "insert", "commit"}

Stating == {"insert_row", "commit_row", "select"}

(* A process uses one connection, for one caller at a time; who is in the  *)
(* middle of a statement or holds a lock has it.  A process that is down   *)
(* does nothing, and one that opens its store does it alone.               *)
OneConnection ==
  /\ \A p \in Procs : \A c, d \in conns[p] : c = d
  /\ \A p \in Procs : \A c \in conns[p] :
       ProcOf[c] = p /\ pc[c] \notin {"idle", "take", "take_rows"}
  /\ \A c \in Callers :
       /\ lock[c] # "none" \/ pc[c] \in Migrating \cup Stating => c \in conns[ProcOf[c]]
       /\ proc[ProcOf[c]] = "down" => pc[c] = "idle"
       /\ proc[ProcOf[c]] = "opening" /\ c # Main[ProcOf[c]] => pc[c] = "idle"
       /\ pc[c] = "close" => c \in Tailers

(* What a migration has done so far is a whole number of migrations, and   *)
(* only the writer has done any.                                           *)
MigratesAt(c) ==
  /\ pc[c] \in Migrating => driver = "sqlite"
  /\ pc[c] \in {"check", "apply", "insert", "commit"} =>
       /\ lock[c] # "none"
       /\ 1..(mig[c] - 1) \subseteq db.versions \cup pend[c].versions
  /\ pc[c] \in {"apply", "insert"} => mig[c] \in Versions
  /\ pc[c] = "commit" => mig[c] > NMigrations
  /\ pc[c] \in {"idle", "ensure"} => mig[c] = 1
  /\ pend[c] # Nothing =>
       lock[c] = "reserved" /\ pc[c] \in {"check", "apply", "insert", "commit", "rollback"}
  /\ pend[c].tables = pend[c].versions \cup IF pc[c] = "insert" THEN {mig[c]} ELSE {}

OneWriter == \A c, d \in Callers : lock[c] = "reserved" /\ lock[d] = "reserved" => c = d

MigratesInOrder == OneWriter /\ \A c \in Callers : MigratesAt(c)

(* The audit file holds an event once, and what an event came after is on  *)
(* disk, unless it was lost with the file's name. *)
FileSorted ==
  /\ driver = "sqlite" => DOMAIN file = {}
  /\ since <= born
  /\ \A i, j \in DOMAIN file : file[i].event.id = file[j].event.id => i = j
  /\ \A i \in DOMAIN file :
       /\ file[i].event.id <= born /\ file[i].event.id > since
       /\ \A id \in file[i].event.after :
            id > since => \E j \in 1..synced : file[j].event.id = id /\ j < i

(* An event that is being written is not in the file yet. *)
FileAt(c) ==
  /\ pc[c] \in {"append", "sync", "scan"} => driver = "file"
  /\ pc[c] \in {"take", "insert_row", "commit_row", "take_rows", "select"} =>
       driver = "sqlite"
  /\ pc[c] \in {"take", "insert_row", "commit_row", "append", "sync"} =>
       event[c] \in Event /\ event[c].id <= born
  /\ pc[c] \in {"take_rows", "select", "scan"} => c \in Tailers
  /\ pc[c] \in {"append", "sync"} => event[c].id > since
  /\ pc[c] = "append" =>
       /\ \A i \in DOMAIN file : file[i].event.id # event[c].id
       /\ \A d \in Callers \ {c} :
            pc[d] = "append" => event[d].id # event[c].id
       /\ \A id \in event[c].after :
            id > since => \E j \in 1..synced : file[j].event.id = id
  /\ pc[c] = "sync" =>
       \E i \in DOMAIN file : file[i] = [event |-> event[c], whole |-> TRUE]

FileInOrder == FileSorted /\ \A c \in Callers : FileAt(c)

(* A version is recorded exactly if its migration is there, and a process  *)
(* that has opened the store finds all of them: whoever migrated, however  *)
(* many at the same time, and wherever one of them failed or was killed.   *)
SchemaIsWhole ==
  /\ db.tables = db.versions
  /\ driver = "sqlite" =>
       \A p \in Procs : proc[p] = "open" => db.tables = Versions

(* Handlers of one process never make each other's statements fail with    *)
(* SQLITE_BUSY: only another process that has the database open can, since *)
(* all of them wait for the same connection.                               *)
BusyComesFromOutside ==
  \A c \in Callers : \A d \in blame[c] : ProcOf[d] # ProcOf[c]

(* Acknowledged events that the database does not hold. *)
Missing == {e \in acked : e \notin Rows}

(* An event whose Record returned nil is in the store, whoever is killed   *)
(* and whatever fails, except for what a power failure may take: with      *)
(* SQLite one event each time, that of the last commit; with the file      *)
(* driver all of them if the directory was never synced after Record had   *)
(* created the file (since says up to which), and otherwise none.          *)
AckedIsStored ==
  /\ driver = "sqlite" => Cardinality(Missing) <= outages
  /\ driver = "file" =>
       \A e \in acked : e.id > since =>
         \E i \in 1..synced : file[i] = [event |-> e, whole |-> TRUE]

(* What the journal of the last commit restores is a whole schema too, and *)
(* differs in at most one event. *)
UndoIsNear ==
  /\ undo.tables = undo.versions
  /\ \A e, f \in Rows \ RowsOf(undo) : e = f
  /\ IsFiniteSet(Missing)

(* Writes that were cut off before the end of their line. *)
Torn == {i \in DOMAIN file : ~file[i].whole}

(* Acknowledged events that share their line with the rest of another. *)
Spoiled ==
  {i \in DOMAIN file : file[i].event \in acked /\ (i \notin LineStarts \/ i \in Torn)}

(* A write that was cut off spoils, beside its own event, at most one that *)
(* was acknowledged: the one the next Record glues to it.                  *)
TornSpoilsOne == Cardinality(Spoiled) <= Cardinality(Torn)

(* audit tail does not show an event and leave out a later one: if f was   *)
(* made after Record had returned for e, in a later second, then f is      *)
(* shown wherever e is.  Neither driver promises more: SQLite orders by    *)
(* the second an event was made in, the file by when it was written.       *)
TailIsRecent ==
  \A c \in Callers :
    \A e \in shown[c].events, f \in shown[c].of :
      e.id \in f.after /\ e.sec < f.sec => f \in shown[c].events

(* The inductive invariant. *)
IInv ==
  /\ TypeOK
  /\ OneConnection
  /\ MigratesInOrder
  /\ FileInOrder
  /\ SchemaIsWhole
  /\ BusyComesFromOutside
  /\ AckedIsStored
  /\ UndoIsNear
  /\ TailIsRecent

(* Every call ends, opening included: nobody waits for ever for the        *)
(* connection, and least of all for one it holds itself.                   *)
EveryCallEnds == \A c \in Callers : pc[c] # "idle" ~> pc[c] = "idle"
=============================================================================
