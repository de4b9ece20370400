----------------------------- MODULE StoreProofs -----------------------------
(***************************************************************************)
(* Proofs about Store, for any processes, callers, migrations and events,  *)
(* and all faults.                                                         *)
(***************************************************************************)
EXTENDS Store, FiniteSetTheorems, SequenceTheorems, TLAPS

-----------------------------------------------------------------------------
(* What a write and a power failure do to the file.                        *)

LEMMA AppendedFile ==
  ASSUME NEW c \in Callers, TypeOK, FileInOrder, AppendLine(c)
  PROVE  \/ file' = file
         \/ /\ file' \in Seq(Entry)
            /\ Len(file') = Len(file) + 1
            /\ \A i \in 1..Len(file) : file'[i] = file[i]
            /\ file'[Len(file) + 1].event = event[c]
            /\ pc'[c] = "sync" =>
                 file'[Len(file) + 1] = [event |-> event[c], whole |-> TRUE]
<1>1. event[c] \in Event /\ c \in DOMAIN pc
  BY DEF TypeOK, ProcTypes, CallTypes, DataTypes, FileInOrder, FileSorted, FileAt, AppendLine
<1>2. file \in Seq(Entry) /\ Len(file) \in Nat
  BY DEF TypeOK, ProcTypes, CallTypes, DataTypes
<1>3. CASE file' = Append(file, [event |-> event[c], whole |-> TRUE])
  BY <1>1, <1>2, <1>3, AppendProperties DEF Entry
<1>4. CASE file' = Append(file, [event |-> event[c], whole |-> FALSE]) /\ Goto(c, "rollback")
  BY <1>1, <1>2, <1>4, AppendProperties DEF Entry, Goto
<1>5. QED
  BY <1>3, <1>4 DEF AppendLine

LEMMA FileAfterCut ==
  ASSUME TypeOK, FileCut
  PROVE  /\ file' \in Seq(Entry)
         /\ Len(file') \in synced..Len(file)
         /\ synced' = Len(file')
         /\ \A i \in 1..Len(file') : file'[i].event = file[i].event
         /\ \A i \in 1..synced : file'[i] = file[i]
<1>1. PICK k \in synced..Len(file) :
        \/ file' = SubSeq(file, 1, k)
        \/ k > synced /\ file' = [SubSeq(file, 1, k) EXCEPT ![k].whole = FALSE]
  BY DEF FileCut
<1>2. file \in Seq(Entry) /\ Len(file) \in Nat /\ synced \in Nat /\ k \in Nat
  BY DEF TypeOK, ProcTypes, CallTypes, DataTypes
<1> DEFINE s == SubSeq(file, 1, k)
<1>3. s \in Seq(Entry) /\ Len(s) = k /\ \A i \in 1..k : s[i] = file[i]
  BY <1>2, SubSeqProperties
<1>4. synced' = Len(file')
  BY DEF FileCut
<1> HIDE DEF s
<1>5. CASE file' = s
  BY <1>2, <1>3, <1>4, <1>5
<1>6. CASE k > synced /\ file' = [s EXCEPT ![k].whole = FALSE]
  <2>1. k \in 1..Len(s) /\ s[k] \in Entry
    BY <1>2, <1>3, <1>6, ElementOfSeq
  <2> DEFINE e == [s[k] EXCEPT !.whole = FALSE]
  <2>2. e \in Entry /\ e.event = s[k].event
    BY <2>1 DEF Entry
  <2>3. file' = [s EXCEPT ![k] = e]
    BY <1>6
  <2> HIDE DEF e
  <2>4. file' \in Seq(Entry) /\ Len(file') = Len(s)
    BY <1>3, <2>1, <2>2, <2>3, ExceptSeq
  <2>5. DOMAIN s = 1..k
    BY <1>3
  <2>6. \A i \in 1..k : file'[i] = IF i = k THEN e ELSE s[i]
    BY <2>3, <2>5
  <2>7. QED
    BY <1>2, <1>3, <1>4, <1>6, <2>2, <2>4, <2>6
<1>7. QED
  BY <1>1, <1>5, <1>6 DEF s

-----------------------------------------------------------------------------
(* Types.                                                                  *)

LEMMA Constants ==
  /\ \A c \in Callers : ProcOf[c] \in Procs
  /\ \A p \in Procs : Main[p] \in Callers /\ ProcOf[Main[p]] = p
BY StoreAssumption

LEMMA TailersAlone == \A c \in Tailers, d \in Callers : ProcOf[c] = ProcOf[d] => c = d
BY StoreAssumption

LEMMA Blanks ==
  /\ Nothing \in Writes
  /\ Blank \in Listing
  /\ 1 \in Migration
  /\ 0 \in Int
  /\ {} \in Groups
BY DEF Nothing, Blank, Writes, Listing, Migration, Groups

LEMMA GroupsOfCallers ==
  ASSUME NEW c \in Callers
  PROVE  /\ {c} \in Groups
         /\ Others(c) \in Groups
         /\ Writers(c) \in Groups
         /\ Committers(c) \in Groups
         /\ \A S \in Groups : S \ {c} \in Groups
BY DEF Groups, Others, Writers, Committers

LEMMA InitType == Init => TypeOK
<1>1. SUFFICES ASSUME Init PROVE TypeOK
  OBVIOUS
<1>2. file \in Seq(Entry) /\ synced \in 0..Len(file)
  <2>1. file = <<>> /\ synced = 0
    BY <1>1 DEF Init
  <2>2. QED
    BY <2>1, EmptySeq
<1>3. db \in Database
  <2>1. PICK k \in 0..NMigrations : db = [versions |-> 1..k, tables |-> 1..k, rows |-> <<>>]
    BY <1>1 DEF Init
  <2>2. 1..k \subseteq Versions
    <3>1. k \in Nat /\ k <= NMigrations /\ NMigrations \in Nat
      BY StoreAssumption
    <3>2. QED
      BY <3>1 DEF Versions
  <2>3. << >> \in Seq(Event)
    BY EmptySeq
  <2>4. QED
    BY <2>1, <2>2, <2>3 DEF Database
<1>4. QED
  BY <1>1, <1>2, <1>3, Blanks DEF Init, TypeOK, ProcTypes, CallTypes, DataTypes, Steps

LEMMA ReleaseType ==
  ASSUME TypeOK, NEW c \in Callers, Release(c)
  PROVE  /\ conns' \in [Procs -> Groups]
         /\ pc' \in [Callers -> Steps]
         /\ lock' \in [Callers -> {"none", "shared", "reserved"}]
         /\ mig' \in [Callers -> Migration]
         /\ pend' \in [Callers -> Writes]
         /\ event' \in [Callers -> Event \cup {NoEvent}]
         /\ limit' \in [Callers -> Int]
         /\ blame' \in [Callers -> Groups]
         /\ shown' \in [Callers -> Listing]
<1>1. conns' \in [Procs -> Groups] /\ pc' \in [Callers -> Steps]
  <2>1. conns[ProcOf[c]] \ {c} \in Groups
    BY Constants, GroupsOfCallers DEF TypeOK, ProcTypes, CallTypes, DataTypes
  <2>2. QED
    BY <2>1, Constants DEF TypeOK, ProcTypes, CallTypes, DataTypes, Release, Goto, Steps
<1>2. /\ lock' \in [Callers -> {"none", "shared", "reserved"}]
      /\ mig' \in [Callers -> Migration]
      /\ pend' \in [Callers -> Writes]
  BY Blanks DEF TypeOK, ProcTypes, CallTypes, DataTypes, Release, Locks
<1>3. /\ event' \in [Callers -> Event \cup {NoEvent}]
      /\ limit' \in [Callers -> Int]
      /\ blame' \in [Callers -> Groups]
      /\ shown' \in [Callers -> Listing]
  BY Blanks DEF TypeOK, ProcTypes, CallTypes, DataTypes, Release
<1>4. QED
  BY <1>1, <1>2, <1>3

LEMMA RowsType == TypeOK => Rows \subseteq Event
BY ElementOfSeq DEF TypeOK, ProcTypes, CallTypes, DataTypes, Rows, RowsOf, Database

LEMMA DataAfterPowerLoss ==
  ASSUME TypeOK, PowerLoss
  PROVE  DataTypes'
<1>1. /\ file \in Seq(Entry) /\ Len(file) \in Nat /\ synced \in Nat /\ outages \in Nat
      /\ born \in Nat /\ since \in Nat /\ named \in BOOLEAN
      /\ db \in Database /\ undo \in Database
  BY DEF TypeOK, DataTypes
<1>2. /\ file' \in Seq(Entry) /\ synced' \in 0..Len(file')
      /\ named' \in BOOLEAN /\ since' \in Nat
  <2>1. CASE FileCut
    BY <1>1, <2>1, FileAfterCut DEF FileCut
  <2>2. CASE FileGone
    <3>1. file' = <<>> /\ synced' = 0 /\ named' = named /\ since' = born
      BY <2>2 DEF FileGone
    <3>2. QED
      BY <1>1, <3>1, EmptySeq
  <2>3. QED
    BY <2>1, <2>2 DEF PowerLoss
<1>3. db' \in Database /\ undo' \in Database /\ outages' \in Nat
  BY <1>1 DEF PowerLoss
<1>4. UNCHANGED <<driver, now, born, acked>>
  BY DEF PowerLoss, Die
<1>5. QED
  BY <1>2, <1>3, <1>4 DEF TypeOK, DataTypes

LEMMA StepNames ==
  /\ "idle" \in Steps /\ "ensure" \in Steps /\ "check" \in Steps /\ "apply" \in Steps
  /\ "insert" \in Steps /\ "commit" \in Steps /\ "rollback" \in Steps
  /\ "insert_row" \in Steps /\ "commit_row" \in Steps /\ "take" \in Steps
  /\ "append" \in Steps /\ "sync" \in Steps /\ "take_rows" \in Steps
  /\ "select" \in Steps /\ "scan" \in Steps /\ "close" \in Steps
BY DEF Steps

LEMMA BusyType ==
  ASSUME CallTypes, NEW c \in Callers, NEW who \in Groups, Busy(c, who),
         UNCHANGED <<mig, pend, event, limit, shown>>
  PROVE  CallTypes'
BY StepNames DEF CallTypes, Busy, Goto

LEMMA ReservesType ==
  ASSUME CallTypes, NEW c \in Callers, NEW step \in Steps, Reserves(c), Goto(c, step),
         UNCHANGED <<mig, event, limit, shown>>, pend' \in [Callers -> Writes]
  PROVE  CallTypes'
BY DEF CallTypes, Reserves, Goto, Locks

LEMMA NextType == TypeOK /\ MigratesInOrder /\ FileInOrder /\ [Next]_vars => TypeOK'
<1>1. SUFFICES ASSUME TypeOK, MigratesInOrder, FileInOrder, [Next]_vars PROVE TypeOK'
  OBVIOUS
<1> USE Constants
<1>t. ProcTypes /\ CallTypes /\ DataTypes
  BY <1>1 DEF TypeOK
<1>d. ASSUME UNCHANGED <<driver, now, dataVars, born, acked>> PROVE DataTypes'
  BY <1>t, <1>d DEF DataTypes, dataVars, diskVars
<1>p. ASSUME UNCHANGED <<proc, conns>> PROVE ProcTypes'
  BY <1>t, <1>p DEF ProcTypes
<1>r. ASSUME NEW c \in Callers, Release(c) PROVE CallTypes' /\ conns' \in [Procs -> Groups]
  BY <1>1, <1>r, ReleaseType DEF CallTypes
<1>2. ASSUME NEW p \in Procs, Open(p) PROVE TypeOK'
  <2>1. ProcTypes'
    <3>1. {Main[p]} \in Groups
      BY GroupsOfCallers
    <3>2. QED
      BY <1>t, <1>2, <3>1 DEF Open, ProcTypes
  <2>2. CallTypes'
    BY <1>t, <1>2, StepNames DEF Open, CallTypes, Goto
  <2>3. QED
    BY <1>2, <1>d, <2>1, <2>2 DEF Open, TypeOK
<1>3. ASSUME NEW c \in Callers, EnsureMigrationTable(c) PROVE TypeOK'
  <2>1. CASE Busy(c, Writers(c)) \/ Busy(c, Committers(c))
    <3>1. UNCHANGED <<mig, pend, event, limit, shown>>
      BY <1>3 DEF EnsureMigrationTable
    <3>2. CallTypes'
      BY <1>t, <2>1, <3>1, BusyType, GroupsOfCallers
    <3>3. QED
      BY <1>3, <1>d, <1>p, <3>2 DEF EnsureMigrationTable, TypeOK
  <2>2. CASE Reserves(c) /\ Goto(c, "check")
    <3>1. CallTypes'
      BY <1>t, <1>3, <2>2, ReservesType, StepNames DEF EnsureMigrationTable, CallTypes
    <3>2. QED
      BY <1>3, <1>d, <1>p, <3>1 DEF EnsureMigrationTable, TypeOK
  <2>3. CASE Locks(c, "shared") /\ UNCHANGED blame /\ Goto(c, "check")
    <3>1. CallTypes'
      BY <1>t, <1>3, <2>3, StepNames DEF EnsureMigrationTable, CallTypes, Locks, Goto
    <3>2. QED
      BY <1>3, <1>d, <1>p, <3>1 DEF EnsureMigrationTable, TypeOK
  <2>4. QED
    BY <1>3, <2>1, <2>2, <2>3 DEF EnsureMigrationTable
<1>4. ASSUME NEW c \in Callers, MigrationAlreadyApplied(c) PROVE TypeOK'
  <2>1. mig' \in [Callers -> Migration] /\ pc' \in [Callers -> Steps]
    <3>1. mig[c] + 1 \in Migration
      BY <1>t DEF CallTypes, Migration
    <3>2. QED
      BY <1>t, <1>4, <3>1, StepNames DEF MigrationAlreadyApplied, CallTypes, Goto
  <2>2. CallTypes'
    BY <1>t, <1>4, <2>1 DEF MigrationAlreadyApplied, CallTypes
  <2>3. QED
    BY <1>4, <1>d, <1>p, <2>2 DEF MigrationAlreadyApplied, TypeOK
<1>5. ASSUME NEW c \in Callers, ApplyMigration(c) PROVE TypeOK'
  <2>1. CASE Busy(c, Writers(c)) /\ UNCHANGED pend
    BY <1>t, <1>5, <2>1, BusyType, GroupsOfCallers, <1>d, <1>p DEF ApplyMigration, TypeOK
  <2>2. CASE /\ Reserves(c) /\ Goto(c, "insert")
             /\ pend' = [pend EXCEPT ![c].tables = @ \cup {mig[c]}]
    <3>1. mig[c] \in Versions
      BY <1>1, <1>5 DEF ApplyMigration, MigratesInOrder, OneWriter, MigratesAt
    <3>2. pend[c] \in Writes
      BY <1>t DEF CallTypes
    <3>3. [pend[c] EXCEPT !.tables = @ \cup {mig[c]}] \in Writes
      BY <3>1, <3>2 DEF Writes
    <3>4. pend' \in [Callers -> Writes]
      BY <1>t, <2>2, <3>3 DEF CallTypes
    <3>5. CallTypes'
      BY <1>t, <1>5, <2>2, <3>4, ReservesType, StepNames DEF ApplyMigration
    <3>6. QED
      BY <1>5, <1>d, <1>p, <3>5 DEF ApplyMigration, TypeOK
  <2>3. QED
    BY <1>5, <2>1, <2>2 DEF ApplyMigration
<1>6. ASSUME NEW c \in Callers, InsertVersion(c) PROVE TypeOK'
  <2>1. mig[c] \in Versions /\ mig[c] + 1 \in Migration /\ pend[c] \in Writes
    BY <1>1, <1>t, <1>6 DEF InsertVersion, MigratesInOrder, OneWriter, MigratesAt, CallTypes, Migration
  <2>2. [pend[c] EXCEPT !.versions = @ \cup {mig[c]}] \in Writes
    BY <2>1 DEF Writes
  <2>3. pend' \in [Callers -> Writes] /\ mig' \in [Callers -> Migration]
    BY <1>t, <1>6, <2>1, <2>2 DEF CallTypes, InsertVersion
  <2>4. CallTypes'
    BY <1>t, <1>6, <2>3, StepNames DEF CallTypes, InsertVersion, Goto
  <2>5. QED
    BY <1>6, <1>d, <1>p, <2>4 DEF InsertVersion, TypeOK
<1>7. ASSUME NEW c \in Callers, CommitMigrations(c) PROVE TypeOK'
  <2>1. CASE /\ Release(c)
             /\ db' = [db EXCEPT !.versions = @ \cup pend[c].versions,
                                 !.tables = @ \cup pend[c].tables]
             /\ undo' = IF lock[c] = "reserved" THEN db ELSE undo
             /\ proc' = [proc EXCEPT ![ProcOf[c]] = "open"]
    <3>1. db \in Database /\ pend[c] \in Writes
      BY <1>t DEF CallTypes, DataTypes
    <3>2. db' \in Database
      BY <2>1, <3>1 DEF Database, Writes
    <3>3. DataTypes'
      BY <1>t, <1>7, <2>1, <3>1, <3>2 DEF CommitMigrations, DataTypes
    <3>4. ProcTypes'
      BY <1>t, <1>r, <2>1 DEF ProcTypes
    <3>5. QED
      BY <1>r, <2>1, <3>3, <3>4 DEF TypeOK
  <2>2. CASE Busy(c, Others(c)) /\ UNCHANGED <<db, undo, proc, conns, mig, pend, event, limit, shown>>
    BY <1>t, <1>7, <2>2, BusyType, GroupsOfCallers, <1>d, <1>p
    DEF CommitMigrations, TypeOK, dataVars, diskVars
  <2>3. QED
    BY <1>7, <2>1, <2>2 DEF CommitMigrations
<1>8. ASSUME NEW c \in Callers, Rollback(c) PROVE TypeOK'
  BY <1>t, <1>8, <1>r, <1>d DEF Rollback, Exits, TypeOK, ProcTypes
<1>9. ASSUME NEW c \in Callers, TakeConnection(c) PROVE TypeOK'
  <2>1. ProcTypes'
    BY <1>t, <1>9, GroupsOfCallers DEF TakeConnection, ProcTypes
  <2>2. CallTypes'
    BY <1>t, <1>9, StepNames DEF TakeConnection, CallTypes, Goto
  <2>3. QED
    BY <1>9, <1>d, <2>1, <2>2 DEF TakeConnection, TypeOK
<1>10. ASSUME NEW c \in Callers, InsertRow(c) PROVE TypeOK'
  <2>1. CallTypes'
    BY <1>t, <1>10, BusyType, ReservesType, GroupsOfCallers, StepNames DEF InsertRow, CallTypes
  <2>2. QED
    BY <1>10, <1>d, <1>p, <2>1 DEF InsertRow, TypeOK
<1>11. ASSUME NEW c \in Callers, CommitRow(c) PROVE TypeOK'
  <2>1. CASE /\ Release(c)
             /\ db' = [db EXCEPT !.rows = Append(@, event[c])]
             /\ undo' = db
             /\ acked' = acked \cup {event[c]} \/ acked' = acked
    <3>1. event[c] \in Event /\ db \in Database
      BY <1>1, <1>t, <1>11 DEF FileInOrder, FileSorted, FileAt, CommitRow, DataTypes
    <3>2. Append(db.rows, event[c]) \in Seq(Event)
      BY <3>1, AppendProperties DEF Database
    <3>3. db' \in Database
      BY <2>1, <3>1, <3>2 DEF Database
    <3>4. DataTypes'
      BY <1>t, <1>11, <2>1, <3>1, <3>3 DEF CommitRow, DataTypes
    <3>5. ProcTypes'
      BY <1>t, <1>11, <1>r, <2>1 DEF CommitRow, ProcTypes
    <3>6. QED
      BY <1>r, <2>1, <3>4, <3>5 DEF TypeOK
  <2>2. CASE Busy(c, Others(c)) /\ UNCHANGED <<db, undo, acked, conns, mig, pend, event, limit, shown>>
    BY <1>t, <1>11, <2>2, BusyType, GroupsOfCallers, <1>d, <1>p
    DEF CommitRow, TypeOK, dataVars, diskVars
  <2>3. QED
    BY <1>11, <2>1, <2>2 DEF CommitRow
<1>12. ASSUME NEW c \in Callers, AppendLine(c) PROVE TypeOK'
  <2>1. Len(file) \in Nat
    BY <1>t DEF DataTypes
  <2>2. file' \in Seq(Entry) /\ Len(file') >= Len(file)
    <3>1. file' = file \/ (file' \in Seq(Entry) /\ Len(file') = Len(file) + 1)
      BY <1>1, <1>12, AppendedFile
    <3>2. QED
      BY <1>t, <2>1, <3>1 DEF DataTypes
  <2>3. synced' \in 0..Len(file')
    BY <1>t, <1>12, <2>1, <2>2 DEF AppendLine, DataTypes
  <2>4. DataTypes'
    BY <1>t, <1>12, <2>2, <2>3 DEF AppendLine, DataTypes, diskVars
  <2>5. CallTypes'
    <3>1. pc' \in [Callers -> Steps]
      <4>1. Goto(c, "sync") \/ Goto(c, "rollback")
        BY <1>12 DEF AppendLine
      <4>2. QED
        BY <1>t, <4>1, StepNames DEF CallTypes, Goto
    <3>2. UNCHANGED <<lock, mig, pend, event, limit, blame, shown>>
      BY <1>12 DEF AppendLine
    <3>3. QED
      BY <1>t, <3>1, <3>2 DEF CallTypes
  <2>6. QED
    BY <1>12, <1>p, <2>4, <2>5 DEF AppendLine, TypeOK
<1>13. ASSUME NEW c \in Callers, SyncFile(c) PROVE TypeOK'
  <2>1. event[c] \in Event /\ Len(file) \in Nat
    BY <1>1, <1>t, <1>13 DEF FileInOrder, FileSorted, FileAt, SyncFile, DataTypes
  <2>2. DataTypes'
    BY <1>t, <1>13, <2>1 DEF SyncFile, DataTypes, diskVars
  <2>3. ProcTypes'
    BY <1>t, <1>13, <1>r DEF SyncFile, ProcTypes
  <2>4. QED
    BY <1>13, <1>r, <2>2, <2>3 DEF SyncFile, TypeOK
<1>14. ASSUME NEW c \in Callers, SelectRows(c) PROVE TypeOK'
  <2>1. CASE Busy(c, Committers(c)) /\ UNCHANGED shown
    BY <1>t, <1>14, <2>1, BusyType, GroupsOfCallers, <1>d, <1>p DEF SelectRows, TypeOK
  <2>2. ASSUME NEW n, NEW S \in Latest(n), Locks(c, "shared"), Goto(c, "close"),
               UNCHANGED blame, shown' = [shown EXCEPT ![c] = [events |-> S, of |-> Rows]]
        PROVE  TypeOK'
    <3>1. [events |-> S, of |-> Rows] \in Listing
      BY <1>1, RowsType DEF Listing, Latest
    <3>2. CallTypes'
      BY <1>t, <1>14, <2>2, <3>1, StepNames DEF SelectRows, CallTypes, Locks, Goto
    <3>3. QED
      BY <1>14, <1>d, <1>p, <3>2 DEF SelectRows, TypeOK
  <2>3. QED
    BY <1>14, <2>1, <2>2 DEF SelectRows
<1>15. ASSUME NEW c \in Callers, ScanFile(c) PROVE TypeOK'
  <2>1. \A i \in DOMAIN file : file[i].event \in Event
    <3>1. \A i \in DOMAIN file : file[i] \in Entry
      BY <1>t, LenProperties, ElementOfSeq DEF DataTypes
    <3>2. QED
      BY <3>1 DEF Entry
  <2>2. \A S \in SUBSET DOMAIN file :
          [events |-> {file[i].event : i \in S}, of |-> {file[i].event : i \in DOMAIN file}]
             \in Listing
    BY <2>1 DEF Listing
  <2>3. shown' \in [Callers -> Listing]
    <3>1. PICK S \in SUBSET DOMAIN file :
            shown' = [shown EXCEPT ![c] = [events |-> {file[i].event : i \in S},
                                           of |-> {file[i].event : i \in DOMAIN file}]]
      BY <1>15 DEF ScanFile
    <3>2. QED
      BY <1>t, <2>2, <3>1 DEF CallTypes
  <2>4. CallTypes'
    BY <1>t, <1>15, <2>3, StepNames DEF ScanFile, CallTypes, Goto
  <2>5. QED
    BY <1>15, <1>d, <1>p, <2>4 DEF ScanFile, TypeOK
<1>16. ASSUME NEW c \in Callers, CloseStore(c) PROVE TypeOK'
  BY <1>t, <1>16, <1>r, <1>d DEF CloseStore, Exits, TypeOK, ProcTypes
<1>17. ASSUME NEW c \in Callers, CallRecord(c) PROVE TypeOK'
  <2>1. {e.id : e \in acked} \in SUBSET Nat
    BY <1>t DEF DataTypes, Event
  <2>2. born' \in Nat
    BY <1>t, <1>17 DEF DataTypes, CallRecord
  <2>3. [id |-> born', sec |-> now, after |-> {e.id : e \in acked}] \in Event
    BY <1>t, <2>1, <2>2 DEF DataTypes, Event
  <2>4. event' \in [Callers -> Event \cup {NoEvent}]
    BY <1>t, <1>17, <2>3 DEF CallTypes, CallRecord
  <2>5. CallTypes'
    BY <1>t, <1>17, <2>4, StepNames DEF CallTypes, CallRecord, Goto
  <2>6. DataTypes'
    BY <1>t, <1>17, <2>2 DEF DataTypes, CallRecord, dataVars, diskVars
  <2>7. QED
    BY <1>17, <1>p, <2>5, <2>6 DEF CallRecord, TypeOK
<1>18. ASSUME NEW c \in Callers, CallTail(c) PROVE TypeOK'
  <2>1. \A n \in Limits : n \in Int
    BY StoreAssumption
  <2>2. CallTypes'
    BY <1>t, <1>18, <2>1, StepNames DEF CallTypes, CallTail, Goto
  <2>3. QED
    BY <1>18, <1>d, <1>p, <2>2 DEF CallTail, TypeOK
<1>19. ASSUME NEW c \in Callers, Cancel(c) PROVE TypeOK'
  <2>1. CallTypes'
    BY <1>t, <1>19, StepNames DEF CallTypes, Cancel, Goto
  <2>2. QED
    BY <1>19, <1>d, <1>p, <2>1 DEF Cancel, TypeOK
<1>20. ASSUME NEW ps \in SUBSET Procs, Die(ps), DataTypes' PROVE TypeOK'
  <2>1. ProcTypes'
    BY <1>t, <1>20, Blanks DEF Die, ProcTypes
  <2>2. CallTypes'
    BY <1>t, <1>20, Blanks, StepNames DEF Die, CallTypes
  <2>3. QED
    BY <1>20, <2>1, <2>2 DEF TypeOK
<1>21. ASSUME NEW p \in Procs, Kill(p) PROVE TypeOK'
  BY <1>d, <1>20, <1>21 DEF Kill, Die
<1>22. ASSUME PowerLoss \/ SyncDirectory PROVE TypeOK'
  <2>1. CASE SyncDirectory
    <3>1. CallTypes'
      BY <1>t, <2>1 DEF SyncDirectory, CallTypes, callVars
    <3>2. DataTypes'
      BY <1>t, <2>1 DEF SyncDirectory, DataTypes
    <3>3. QED
      BY <1>p, <2>1, <3>1, <3>2 DEF SyncDirectory, TypeOK
  <2>2. CASE PowerLoss
    <3>1. DataTypes'
      BY <1>1, <2>2, DataAfterPowerLoss
    <3>2. QED
      BY <1>20, <2>2, <3>1 DEF PowerLoss
  <2>3. QED
    BY <1>22, <2>1, <2>2
<1>23. ASSUME Tick PROVE TypeOK'
  <2>1. CallTypes'
    BY <1>t, <1>23 DEF Tick, CallTypes, callVars
  <2>2. DataTypes'
    BY <1>t, <1>23 DEF Tick, DataTypes, dataVars, diskVars
  <2>3. QED
    BY <1>23, <1>p, <2>1, <2>2 DEF Tick, TypeOK
<1>24. CASE UNCHANGED vars
  <2>1. CallTypes'
    BY <1>t, <1>24 DEF vars, CallTypes, callVars
  <2>2. QED
    BY <1>24, <1>d, <1>p, <2>1 DEF vars, TypeOK
<1>25. \A c \in Callers : Step(c) => TypeOK'
  BY <1>3, <1>4, <1>5, <1>6, <1>7, <1>8, <1>9, <1>10, <1>11, <1>12, <1>13, <1>14, <1>15, <1>16
     DEF Step
<1>26. QED
  BY <1>1, <1>2, <1>17, <1>18, <1>19, <1>21, <1>22, <1>23, <1>24, <1>25 DEF Next, Callers
-----------------------------------------------------------------------------
(* Connections.                                                            *)

LEMMA InitConnection == Init => OneConnection
BY Constants DEF Init, OneConnection, Migrating, Stating

LEMMA ReleaseConnection ==
  ASSUME TypeOK, OneConnection, NEW c \in Callers, Release(c), pc[c] # "idle",
         \/ UNCHANGED proc
         \/ proc' = [proc EXCEPT ![ProcOf[c]] = "open"]
         \/ /\ proc' = [proc EXCEPT ![ProcOf[c]] = "down"]
            /\ proc[ProcOf[c]] = "opening" \/ c \in Tailers
  PROVE  OneConnection'
<1>1. ProcTypes /\ CallTypes
  BY DEF TypeOK
<1>2. \A p \in Procs : conns'[p] \subseteq conns[p] /\ c \notin conns'[p]
  BY <1>1, Constants DEF Release, ProcTypes, OneConnection
<1>3. \A d \in Callers \ {c} :
        /\ pc'[d] = pc[d] /\ lock'[d] = lock[d]
        /\ d \in conns[ProcOf[d]] => d \in conns'[ProcOf[d]]
  BY <1>1, Constants DEF Release, Goto, Locks, ProcTypes, CallTypes
<1>4. pc'[c] = "idle" /\ lock'[c] = "none"
  BY <1>1 DEF Release, Goto, Locks, CallTypes
<1>5. \A d \in Callers \ {c} :
        /\ proc'[ProcOf[d]] = "down" => pc[d] = "idle"
        /\ proc'[ProcOf[d]] = "opening" /\ d # Main[ProcOf[d]] => pc[d] = "idle"
  <2>1. SUFFICES ASSUME NEW d \in Callers \ {c}
                 PROVE  /\ proc'[ProcOf[d]] = "down" => pc[d] = "idle"
                        /\ proc'[ProcOf[d]] = "opening" /\ d # Main[ProcOf[d]] => pc[d] = "idle"
    OBVIOUS
  <2>2. CASE ProcOf[d] = ProcOf[c]
    <3>1. proc[ProcOf[c]] = "opening" => c = Main[ProcOf[c]]
      BY DEF OneConnection
    <3>2. QED
      BY <1>1, <2>1, <2>2, <3>1, Constants, TailersAlone DEF OneConnection, ProcTypes
  <2>3. CASE ProcOf[d] # ProcOf[c]
    BY <1>1, <2>1, <2>3, Constants DEF OneConnection, ProcTypes
  <2>4. QED
    BY <2>2, <2>3
<1>6. \A p \in Procs : \A d \in conns'[p] : d \in Callers
  BY <1>1, <1>2 DEF ProcTypes, Groups
<1>7. QED
  BY <1>2, <1>3, <1>4, <1>5, <1>6, Constants DEF OneConnection, Migrating, Stating

(* A step of c that keeps its connection, or waits for one. *)
LEMMA StepConnection ==
  ASSUME TypeOK, OneConnection, NEW c \in Callers, UNCHANGED <<proc, conns>>,
         NEW step \in Steps \ {"idle", "take", "take_rows"}, Goto(c, step), pc[c] # "idle",
         step = "close" => c \in Tailers,
         lock' = lock \/ \E l \in {"shared", "reserved"} : Locks(c, l) /\ c \in conns[ProcOf[c]],
         step \in Migrating \cup Stating => c \in conns[ProcOf[c]]
  PROVE  OneConnection'
<1>1. ProcTypes /\ CallTypes
  BY DEF TypeOK
<1>2. \A d \in Callers \ {c} : pc'[d] = pc[d] /\ lock'[d] = lock[d]
  BY <1>1 DEF Goto, Locks, CallTypes
<1>3. pc'[c] = step /\ (lock'[c] # "none" => c \in conns[ProcOf[c]])
  BY <1>1 DEF Goto, Locks, CallTypes, OneConnection
<1>4. \A p \in Procs : \A d \in conns[p] : d \in Callers
  BY <1>1 DEF ProcTypes, Groups
<1>5. QED
  BY <1>2, <1>3, <1>4, Constants DEF OneConnection

LEMMA NextConnection ==
  TypeOK /\ OneConnection /\ MigratesInOrder /\ FileInOrder /\ [Next]_vars => OneConnection'
<1>1. SUFFICES ASSUME TypeOK, OneConnection, MigratesInOrder, FileInOrder, [Next]_vars
               PROVE  OneConnection'
  OBVIOUS
<1>t. ProcTypes /\ CallTypes
  BY <1>1 DEF TypeOK
<1>u. ASSUME UNCHANGED <<proc, conns, pc, lock>> PROVE OneConnection'
  BY <1>1, <1>u DEF OneConnection
<1>h. \A c \in Callers : pc[c] \in Migrating \cup Stating => c \in conns[ProcOf[c]]
  BY <1>1 DEF OneConnection
<1>2. ASSUME NEW p \in Procs, Open(p) PROVE OneConnection'
  <2>1. CASE driver = "file"
    <3>1. UNCHANGED <<conns, pc, lock>> /\ proc' = [proc EXCEPT ![p] = "open"]
      BY <1>2, <2>1 DEF Open
    <3>2. QED
      BY <1>1, <1>t, <3>1, Constants DEF OneConnection, ProcTypes
  <2>2. CASE driver = "sqlite"
    <3>1. /\ proc[p] = "down"
          /\ proc' = [proc EXCEPT ![p] = "opening"]
          /\ conns' = [conns EXCEPT ![p] = {Main[p]}]
          /\ pc' = [pc EXCEPT ![Main[p]] = "ensure"]
          /\ UNCHANGED lock
      BY <1>2, <2>2 DEF Open, Goto
    <3>2. Main[p] \in Callers /\ ProcOf[Main[p]] = p
      BY Constants
    <3>3. \A c \in Callers : ProcOf[c] = p => pc[c] = "idle" /\ c \notin conns[p] /\ lock[c] = "none"
      BY <1>1, <3>1 DEF OneConnection
    <3>4. \A q \in Procs : conns'[q] = IF q = p THEN {Main[p]} ELSE conns[q]
      BY <1>t, <3>1 DEF ProcTypes
    <3>5. \A q \in Procs : proc'[q] = IF q = p THEN "opening" ELSE proc[q]
      BY <1>t, <3>1 DEF ProcTypes
    <3>6. \A c \in Callers : pc'[c] = IF c = Main[p] THEN "ensure" ELSE pc[c]
      BY <1>t, <3>1 DEF CallTypes
    <3>7. \A q \in Procs : \A c \in conns[q] : c \in Callers
      BY <1>t DEF ProcTypes, Groups
    <3>8. /\ \A q \in Procs : \A c, d \in conns'[q] : c = d
          /\ \A q \in Procs : \A c \in conns'[q] :
               ProcOf[c] = q /\ pc'[c] \notin {"idle", "take", "take_rows"}
      BY <1>1, <3>2, <3>3, <3>4, <3>6, <3>7 DEF OneConnection
    <3>9. \A c \in Callers :
            /\ lock'[c] # "none" \/ pc'[c] \in Migrating \cup Stating => c \in conns'[ProcOf[c]]
            /\ proc'[ProcOf[c]] = "down" => pc'[c] = "idle"
            /\ proc'[ProcOf[c]] = "opening" /\ c # Main[ProcOf[c]] => pc'[c] = "idle"
            /\ pc'[c] = "close" => c \in Tailers
      <4>1. SUFFICES ASSUME NEW c \in Callers
                     PROVE  /\ lock'[c] # "none" \/ pc'[c] \in Migrating \cup Stating => c \in conns'[ProcOf[c]]
                            /\ proc'[ProcOf[c]] = "down" => pc'[c] = "idle"
                            /\ proc'[ProcOf[c]] = "opening" /\ c # Main[ProcOf[c]] => pc'[c] = "idle"
                            /\ pc'[c] = "close" => c \in Tailers
        OBVIOUS
      <4>2. CASE ProcOf[c] = p
        BY <3>1, <3>2, <3>3, <3>4, <3>5, <3>6, <4>2 DEF Migrating, Stating
      <4>3. CASE ProcOf[c] # p
        BY <1>1, <3>1, <3>2, <3>4, <3>5, <3>6, <4>3, Constants DEF OneConnection
      <4>4. QED
        BY <4>2, <4>3
    <3>10. QED
      BY <3>8, <3>9 DEF OneConnection
  <2>3. QED
    BY <1>2, <2>1, <2>2 DEF Open
<1>3. ASSUME NEW c \in Callers, EnsureMigrationTable(c) PROVE OneConnection'
  <2>1. c \in conns[ProcOf[c]]
    BY <1>3, <1>h DEF EnsureMigrationTable, Migrating
  <2>2. QED
    BY <1>1, <1>3, <2>1, StepConnection, StepNames
       DEF EnsureMigrationTable, Busy, Reserves, Migrating, Stating
<1>4. ASSUME NEW c \in Callers, MigrationAlreadyApplied(c) PROVE OneConnection'
  <2>1. c \in conns[ProcOf[c]]
    BY <1>4, <1>h DEF MigrationAlreadyApplied, Migrating
  <2>2. QED
    BY <1>1, <1>4, <1>u, <2>1, StepConnection, StepNames
       DEF MigrationAlreadyApplied, Migrating, Stating
<1>5. ASSUME NEW c \in Callers, ApplyMigration(c) PROVE OneConnection'
  <2>1. c \in conns[ProcOf[c]]
    BY <1>5, <1>h DEF ApplyMigration, Migrating
  <2>2. QED
    BY <1>1, <1>5, <2>1, StepConnection, StepNames
       DEF ApplyMigration, Busy, Reserves, Migrating, Stating
<1>6. ASSUME NEW c \in Callers, InsertVersion(c) PROVE OneConnection'
  <2>1. c \in conns[ProcOf[c]]
    BY <1>6, <1>h DEF InsertVersion, Migrating
  <2>2. QED
    BY <1>1, <1>6, <2>1, StepConnection, StepNames DEF InsertVersion, Migrating, Stating
<1>7. ASSUME NEW c \in Callers, CommitMigrations(c) PROVE OneConnection'
  <2>1. CASE Release(c) /\ proc' = [proc EXCEPT ![ProcOf[c]] = "open"]
    BY <1>1, <1>7, <2>1, ReleaseConnection DEF CommitMigrations
  <2>2. CASE Busy(c, Others(c)) /\ UNCHANGED <<proc, conns>>
    BY <1>1, <1>7, <2>2, StepConnection, StepNames DEF CommitMigrations, Busy, Migrating, Stating
  <2>3. QED
    BY <1>7, <2>1, <2>2 DEF CommitMigrations
<1>8. ASSUME NEW c \in Callers, Rollback(c) PROVE OneConnection'
  <2>1. pc[c] # "idle" /\ Release(c)
    BY <1>8 DEF Rollback
  <2>2. CASE proc[ProcOf[c]] = "opening" \/ (c \in Tailers /\ event[c] = NoEvent)
    BY <1>1, <1>8, <2>1, <2>2, ReleaseConnection DEF Rollback, Exits
  <2>3. CASE ~(proc[ProcOf[c]] = "opening" \/ (c \in Tailers /\ event[c] = NoEvent))
    <3>1. proc' = proc
      BY <1>t, <1>8, <2>3, Constants DEF Rollback, Exits, ProcTypes
    <3>2. QED
      BY <1>1, <2>1, <3>1, ReleaseConnection
  <2>4. QED
    BY <2>2, <2>3
<1>9. ASSUME NEW c \in Callers, TakeConnection(c) PROVE OneConnection'
  <2>1. /\ UNCHANGED <<proc, lock>>
        /\ conns[ProcOf[c]] = {}
        /\ \A p \in Procs : conns'[p] = IF p = ProcOf[c] THEN {c} ELSE conns[p]
    BY <1>t, <1>9 DEF TakeConnection, ProcTypes
  <2>2. /\ pc[c] # "idle"
        /\ pc'[c] \in {"insert_row", "select"}
        /\ \A d \in Callers \ {c} : pc'[d] = pc[d]
    BY <1>t, <1>9 DEF TakeConnection, CallTypes, Goto
  <2>3. \A q \in Procs : \A d \in conns[q] : d \in Callers
    BY <1>t DEF ProcTypes, Groups
  <2>4. QED
    BY <1>1, <2>1, <2>2, <2>3, Constants DEF OneConnection
<1>10. ASSUME NEW c \in Callers, InsertRow(c) PROVE OneConnection'
  <2>1. c \in conns[ProcOf[c]]
    BY <1>10, <1>h DEF InsertRow, Stating
  <2>2. QED
    BY <1>1, <1>10, <2>1, StepConnection, StepNames
       DEF InsertRow, Busy, Reserves, Migrating, Stating
<1>11. ASSUME NEW c \in Callers, CommitRow(c) PROVE OneConnection'
  <2>1. CASE Release(c)
    BY <1>1, <1>11, <2>1, ReleaseConnection DEF CommitRow
  <2>2. CASE Busy(c, Others(c)) /\ UNCHANGED conns
    BY <1>1, <1>11, <2>2, StepConnection, StepNames DEF CommitRow, Busy, Migrating, Stating
  <2>3. QED
    BY <1>11, <2>1, <2>2 DEF CommitRow
<1>12. ASSUME NEW c \in Callers, AppendLine(c) PROVE OneConnection'
  <2>1. (Goto(c, "sync") \/ Goto(c, "rollback")) /\ pc[c] = "append" /\ UNCHANGED <<proc, conns, lock>>
    BY <1>12 DEF AppendLine
  <2>2. QED
    BY <1>1, <2>1, StepConnection, StepNames DEF Migrating, Stating
<1>13. ASSUME NEW c \in Callers, SyncFile(c) PROVE OneConnection'
  BY <1>1, <1>13, ReleaseConnection DEF SyncFile
<1>14. ASSUME NEW c \in Callers, SelectRows(c) PROVE OneConnection'
  <2>1. c \in conns[ProcOf[c]] /\ pc[c] = "select" /\ UNCHANGED <<proc, conns>>
    BY <1>14, <1>h DEF SelectRows, Stating
  <2>2. CASE Busy(c, Committers(c))
    BY <1>1, <2>1, <2>2, StepConnection, StepNames DEF Busy, Migrating, Stating
  <2>3. CASE Locks(c, "shared") /\ Goto(c, "close")
    <3>1. c \in Tailers
      BY <1>1, <2>1 DEF FileInOrder, FileSorted, FileAt
    <3>2. QED
      BY <1>1, <2>1, <2>3, <3>1, StepConnection, StepNames DEF Migrating, Stating
  <2>4. QED
    BY <1>14, <2>2, <2>3 DEF SelectRows
<1>15. ASSUME NEW c \in Callers, ScanFile(c) PROVE OneConnection'
  <2>1. c \in Tailers /\ pc[c] = "scan" /\ UNCHANGED <<proc, conns, lock>> /\ Goto(c, "close")
    BY <1>1, <1>15 DEF ScanFile, FileInOrder, FileSorted, FileAt
  <2>2. QED
    BY <1>1, <2>1, StepConnection, StepNames DEF Migrating, Stating
<1>16. ASSUME NEW c \in Callers, CloseStore(c) PROVE OneConnection'
  <2>1. c \in Tailers
    BY <1>1, <1>16 DEF CloseStore, OneConnection
  <2>2. QED
    BY <1>1, <1>16, <2>1, ReleaseConnection DEF CloseStore, Exits
<1>17. ASSUME NEW c \in Callers, CallRecord(c) \/ CallTail(c) PROVE OneConnection'
  <2>1. /\ UNCHANGED <<proc, conns, lock>>
        /\ pc[c] = "idle"
        /\ proc[ProcOf[c]] = "open"
        /\ pc'[c] \in {"take", "append", "take_rows", "scan"}
        /\ \A d \in Callers \ {c} : pc'[d] = pc[d]
    BY <1>t, <1>17 DEF CallRecord, CallTail, Goto, CallTypes
  <2>2. \A q \in Procs : \A d \in conns[q] : d \in Callers
    BY <1>t DEF ProcTypes, Groups
  <2>3. QED
    BY <1>1, <2>1, <2>2, Constants DEF OneConnection, Migrating, Stating
<1>19. ASSUME NEW c \in Callers, Cancel(c) PROVE OneConnection'
  BY <1>1, <1>19, StepConnection, StepNames DEF Cancel, Migrating, Stating
<1>20. ASSUME NEW ps \in SUBSET Procs, Die(ps) PROVE OneConnection'
  <2>1. \A p \in Procs : /\ proc'[p] = IF p \in ps THEN "down" ELSE proc[p]
                         /\ conns'[p] = IF p \in ps THEN {} ELSE conns[p]
    BY <1>20 DEF Die
  <2>2. \A c \in Callers : /\ pc'[c] = IF ProcOf[c] \in ps THEN "idle" ELSE pc[c]
                           /\ lock'[c] = IF ProcOf[c] \in ps THEN "none" ELSE lock[c]
    BY <1>20 DEF Die
  <2>3. \A q \in Procs : \A d \in conns[q] : d \in Callers
    BY <1>t DEF ProcTypes, Groups
  <2>4. QED
    BY <1>1, <2>1, <2>2, <2>3, Constants DEF OneConnection, Migrating, Stating
<1>21. ASSUME NEW p \in Procs, Kill(p) PROVE OneConnection'
  BY <1>20, <1>21 DEF Kill
<1>22. ASSUME PowerLoss PROVE OneConnection'
  BY <1>20, <1>22 DEF PowerLoss
<1>23. ASSUME Tick \/ SyncDirectory \/ UNCHANGED vars PROVE OneConnection'
  BY <1>23, <1>u DEF Tick, SyncDirectory, vars, callVars
<1>24. \A c \in Callers : Step(c) => OneConnection'
  BY <1>3, <1>4, <1>5, <1>6, <1>7, <1>8, <1>9, <1>10, <1>11, <1>12, <1>13, <1>14, <1>15, <1>16
     DEF Step
<1>25. QED
  BY <1>1, <1>2, <1>17, <1>19, <1>21, <1>22, <1>23, <1>24 DEF Next, Callers
-----------------------------------------------------------------------------
(* Migrations.                                                             *)

LEMMA MigratesAtEach == MigratesInOrder <=> OneWriter /\ \A c \in Callers : MigratesAt(c)
BY DEF MigratesInOrder, OneWriter, MigratesAt

LEMMA MigratesAfter ==
  ASSUME OneWriter', \A c \in Callers : MigratesAt(c)' PROVE MigratesInOrder'
BY DEF MigratesInOrder, OneWriter, MigratesAt

LEMMA InitMigrates == Init => MigratesInOrder /\ SchemaIsWhole
<1>1. SUFFICES ASSUME Init PROVE MigratesInOrder /\ SchemaIsWhole
  OBVIOUS
<1>2. MigratesInOrder
  BY <1>1 DEF Init, MigratesInOrder, OneWriter, MigratesAt, Nothing, Migrating
<1>3. SchemaIsWhole
  BY <1>1 DEF Init, SchemaIsWhole
<1>4. QED
  BY <1>2, <1>3

(* A caller whose own part does not change, while the schema only grows. *)
LEMMA MigratesAnyway ==
  ASSUME NEW d \in Callers, MigratesAt(d), UNCHANGED driver, db.versions \subseteq db'.versions,
         pc'[d] = pc[d], lock'[d] = lock[d], mig'[d] = mig[d], pend'[d] = pend[d]
  PROVE  MigratesAt(d)'
<1>1. 1..(mig[d] - 1) \subseteq db.versions \cup pend[d].versions =>
        1..(mig[d] - 1) \subseteq db'.versions \cup pend[d].versions
  OBVIOUS
<1>2. QED
  BY <1>1 DEF MigratesAt

LEMMA ReleaseMigrates ==
  ASSUME TypeOK, MigratesInOrder, NEW c \in Callers, Release(c),
         UNCHANGED driver, db.versions \subseteq db'.versions
  PROVE  MigratesInOrder'
<1>1. CallTypes
  BY DEF TypeOK
<1>2. MigratesAt(c)'
  <2>1. pc'[c] = "idle" /\ mig'[c] = 1 /\ pend'[c] = Nothing
    BY <1>1 DEF Release, Goto, CallTypes
  <2>2. QED
    BY <2>1 DEF MigratesAt, Migrating, Nothing
<1>3. ASSUME NEW d \in Callers \ {c} PROVE MigratesAt(d)'
  <2>1. pc'[d] = pc[d] /\ lock'[d] = lock[d] /\ mig'[d] = mig[d] /\ pend'[d] = pend[d]
    BY <1>1, <1>3 DEF Release, Goto, Locks, CallTypes
  <2>2. QED
    BY <1>3, <2>1, MigratesAtEach, MigratesAnyway
<1>4. OneWriter'
  <2>1. \A d \in Callers : lock'[d] = IF d = c THEN "none" ELSE lock[d]
    BY <1>1 DEF Release, Locks, CallTypes
  <2>2. QED
    BY <2>1, MigratesAtEach DEF OneWriter
<1>5. QED
  BY <1>2, <1>3, <1>4, MigratesAfter

(* A step of c alone: what it must see to for itself, and its lock. *)
LEMMA StepMigrates ==
  ASSUME TypeOK, MigratesInOrder, NEW c \in Callers, UNCHANGED <<driver, db>>,
         MigratesAt(c)',
         \A d \in Callers \ {c} : /\ pc'[d] = pc[d] /\ lock'[d] = lock[d]
                                  /\ mig'[d] = mig[d] /\ pend'[d] = pend[d],
         lock'[c] = "reserved" => lock[c] = "reserved" \/ Writers(c) = {}
  PROVE  MigratesInOrder'
<1>1. ASSUME NEW d \in Callers \ {c} PROVE MigratesAt(d)'
  BY <1>1, MigratesAtEach, MigratesAnyway
<1>2. OneWriter'
  BY MigratesAtEach DEF OneWriter, Writers
<1>3. QED
  BY <1>1, <1>2, MigratesAfter

(* A step of c outside migrate that leaves the schema alone. *)
LEMMA ElsewhereMigrates ==
  ASSUME TypeOK, MigratesInOrder, NEW c \in Callers, NEW step, Goto(c, step),
         UNCHANGED <<driver, db, mig, pend>>,
         pc[c] \notin {"insert"}, step \notin Migrating \cup {"idle"},
         \/ UNCHANGED lock /\ (pend[c] # Nothing => step = "rollback")
         \/ pend[c] = Nothing /\ Locks(c, "shared")
         \/ pend[c] = Nothing /\ Reserves(c)
  PROVE  MigratesInOrder'
<1>1. CallTypes
  BY DEF TypeOK
<1>2. /\ pc'[c] = step
      /\ \A d \in Callers \ {c} : pc'[d] = pc[d] /\ lock'[d] = lock[d]
      /\ lock'[c] = "reserved" => lock[c] = "reserved" \/ Writers(c) = {}
      /\ pend[c] # Nothing => lock'[c] = lock[c]
  BY <1>1 DEF Goto, Locks, Reserves, CallTypes
<1>3. MigratesAt(c)
  BY MigratesAtEach
<1>4. MigratesAt(c)'
  BY <1>2, <1>3 DEF MigratesAt, Migrating
<1>5. QED
  BY <1>2, <1>4, StepMigrates

LEMMA NextMigrates ==
  TypeOK /\ OneConnection /\ MigratesInOrder /\ [Next]_vars => MigratesInOrder'
<1>1. SUFFICES ASSUME TypeOK, OneConnection, MigratesInOrder, [Next]_vars
               PROVE  MigratesInOrder'
  OBVIOUS
<1>t. CallTypes
  BY <1>1 DEF TypeOK
<1>m. \A c \in Callers : MigratesAt(c)
  BY <1>1, MigratesAtEach
<1>o. ASSUME NEW c \in Callers, NEW step, Goto(c, step)
      PROVE  pc'[c] = step /\ \A d \in Callers \ {c} : pc'[d] = pc[d]
  BY <1>t, <1>o DEF CallTypes, Goto
<1>l. ASSUME NEW c \in Callers, NEW l, Locks(c, l)
      PROVE  lock'[c] = l /\ \A d \in Callers \ {c} : lock'[d] = lock[d]
  BY <1>t, <1>l DEF CallTypes, Locks
<1>b. ASSUME NEW c \in Callers, NEW who, Busy(c, who), pc[c] # "insert",
             UNCHANGED <<driver, db, mig, pend>>
      PROVE  MigratesInOrder'
  BY <1>1, <1>b, ElsewhereMigrates DEF Busy, Migrating
<1>2. ASSUME NEW p \in Procs, Open(p) PROVE MigratesInOrder'
  <2>1. CASE driver = "file"
    <3>1. UNCHANGED <<driver, pc, lock, mig, pend, db>>
      BY <1>2, <2>1 DEF Open, dataVars
    <3>2. QED
      BY <1>1, <3>1 DEF MigratesInOrder, OneWriter, MigratesAt
  <2>2. CASE driver = "sqlite" /\ pc[Main[p]] = "idle"
    <3>1. Goto(Main[p], "ensure") /\ UNCHANGED <<driver, lock, mig, pend, db>> /\ Main[p] \in Callers
      BY <1>2, <2>2, Constants DEF Open, dataVars
    <3>2. MigratesAt(Main[p])'
      BY <1>m, <1>o, <2>2, <3>1 DEF MigratesAt
    <3>3. QED
      BY <1>1, <1>o, <3>1, <3>2, StepMigrates
  <2>3. QED
    BY <1>1, <1>2, <2>1, <2>2, Constants DEF Open, OneConnection
<1>3. ASSUME NEW c \in Callers, EnsureMigrationTable(c) PROVE MigratesInOrder'
  <2>1. UNCHANGED <<driver, db, mig, pend>> /\ pc[c] = "ensure"
    BY <1>3 DEF EnsureMigrationTable, dataVars
  <2>2. CASE Busy(c, Writers(c)) \/ Busy(c, Committers(c))
    BY <1>b, <2>1, <2>2
  <2>3. ASSUME NEW l \in {"shared", "reserved"}, Locks(c, l), Goto(c, "check"),
               l = "reserved" => Writers(c) = {}
        PROVE  MigratesInOrder'
    <3>1. 1..(mig[c] - 1) = {}
      BY <1>m, <2>1 DEF MigratesAt
    <3>2. MigratesAt(c)'
      BY <1>m, <1>o, <1>l, <2>1, <2>3, <3>1 DEF MigratesAt, Migrating
    <3>3. QED
      BY <1>1, <1>o, <1>l, <2>1, <2>3, <3>2, StepMigrates
  <2>4. QED
    BY <1>3, <2>2, <2>3 DEF EnsureMigrationTable, Reserves
<1>4. ASSUME NEW c \in Callers, MigrationAlreadyApplied(c) PROVE MigratesInOrder'
  <2>1. UNCHANGED <<driver, db, lock, pend>> /\ pc[c] = "check" /\ mig[c] \in Nat /\ mig[c] > 0
    BY <1>t, <1>4 DEF MigrationAlreadyApplied, dataVars, CallTypes, Migration
  <2>2. CASE mig' = [mig EXCEPT ![c] = @ + 1] /\ mig[c] \in db.versions /\ UNCHANGED pc
    <3>1. mig'[c] = mig[c] + 1 /\ \A d \in Callers \ {c} : mig'[d] = mig[d]
      BY <1>t, <2>2 DEF CallTypes
    <3>2. 1..(mig'[c] - 1) = 1..(mig[c] - 1) \cup {mig[c]}
      BY <2>1, <3>1
    <3>3. 1..(mig'[c] - 1) \subseteq db.versions \cup pend[c].versions
      BY <1>m, <2>1, <2>2, <3>2 DEF MigratesAt
    <3>4. MigratesAt(c)'
      BY <1>m, <2>1, <2>2, <3>3 DEF MigratesAt
    <3>5. QED
      BY <1>1, <2>1, <2>2, <3>1, <3>4, StepMigrates
  <2>3. ASSUME NEW step \in {"commit", "apply"}, Goto(c, step), UNCHANGED mig,
               step = "commit" => mig[c] > NMigrations,
               step = "apply" => mig[c] \in Versions
        PROVE  MigratesInOrder'
    <3>1. MigratesAt(c)'
      BY <1>m, <1>o, <2>1, <2>3 DEF MigratesAt, Migrating
    <3>2. QED
      BY <1>1, <1>o, <2>1, <2>3, <3>1, StepMigrates
  <2>4. QED
    BY <1>4, <2>2, <2>3 DEF MigrationAlreadyApplied
<1>5. ASSUME NEW c \in Callers, ApplyMigration(c) PROVE MigratesInOrder'
  <2>1. UNCHANGED <<driver, db, mig>> /\ pc[c] = "apply"
    BY <1>5 DEF ApplyMigration, dataVars
  <2>2. CASE Busy(c, Writers(c)) /\ UNCHANGED pend
    BY <1>b, <2>1, <2>2
  <2>3. CASE /\ Reserves(c) /\ Goto(c, "insert")
             /\ pend' = [pend EXCEPT ![c].tables = @ \cup {mig[c]}]
    <3>1. /\ pend'[c].tables = pend[c].tables \cup {mig[c]}
          /\ pend'[c].versions = pend[c].versions
          /\ \A d \in Callers \ {c} : pend'[d] = pend[d]
      BY <1>t, <2>3 DEF CallTypes, Writes
    <3>2. lock'[c] = "reserved" /\ Writers(c) = {} /\ \A d \in Callers \ {c} : lock'[d] = lock[d]
      BY <1>l, <2>3 DEF Reserves
    <3>3. MigratesAt(c)'
      BY <1>m, <1>o, <2>1, <2>3, <3>1, <3>2 DEF MigratesAt, Migrating
    <3>4. QED
      BY <1>1, <1>o, <2>1, <2>3, <3>1, <3>2, <3>3, StepMigrates
  <2>4. QED
    BY <1>5, <2>2, <2>3 DEF ApplyMigration
<1>6. ASSUME NEW c \in Callers, InsertVersion(c) PROVE MigratesInOrder'
  <2>1. UNCHANGED <<driver, db, lock>> /\ pc[c] = "insert" /\ Goto(c, "check")
    BY <1>6 DEF InsertVersion, dataVars
  <2>2. /\ pend'[c].versions = pend[c].versions \cup {mig[c]}
        /\ pend'[c].tables = pend[c].tables
        /\ \A d \in Callers \ {c} : pend'[d] = pend[d]
    BY <1>t, <1>6 DEF InsertVersion, CallTypes, Writes
  <2>3. mig'[c] = mig[c] + 1 /\ mig[c] \in Nat /\ mig[c] > 0 /\ \A d \in Callers \ {c} : mig'[d] = mig[d]
    BY <1>t, <1>6 DEF InsertVersion, CallTypes, Migration
  <2>4. 1..(mig'[c] - 1) = 1..(mig[c] - 1) \cup {mig[c]}
    BY <2>3
  <2>5. lock[c] = "reserved"
    <3>1. mig[c] \in pend[c].tables
      BY <1>m, <2>1 DEF MigratesAt
    <3>2. pend[c] # Nothing
      BY <3>1 DEF Nothing
    <3>3. QED
      BY <1>m, <3>2 DEF MigratesAt
  <2>6. MigratesAt(c)'
    BY <1>m, <1>o, <2>1, <2>2, <2>4, <2>5 DEF MigratesAt, Migrating
  <2>7. QED
    BY <1>1, <1>o, <2>1, <2>2, <2>3, <2>6, StepMigrates
<1>7. ASSUME NEW c \in Callers, CommitMigrations(c) PROVE MigratesInOrder'
  <2>1. CASE /\ Release(c)
             /\ db' = [db EXCEPT !.versions = @ \cup pend[c].versions,
                                 !.tables = @ \cup pend[c].tables]
    <3>1. db.versions \subseteq db'.versions
      BY <1>1, <2>1 DEF TypeOK, DataTypes, Database
    <3>2. QED
      BY <1>1, <1>7, <2>1, <3>1, ReleaseMigrates DEF CommitMigrations
  <2>2. CASE Busy(c, Others(c)) /\ UNCHANGED <<db, mig, pend>>
    BY <1>b, <1>7, <2>2 DEF CommitMigrations
  <2>3. QED
    BY <1>7, <2>1, <2>2 DEF CommitMigrations
<1>8. ASSUME NEW c \in Callers, Rollback(c) \/ CloseStore(c) \/ SyncFile(c) PROVE MigratesInOrder'
  <2>1. Release(c) /\ UNCHANGED <<driver, db>>
    BY <1>8 DEF Rollback, CloseStore, SyncFile, dataVars
  <2>2. QED
    BY <1>1, <2>1, ReleaseMigrates
<1>p. \A c \in Callers : pc[c] \notin {"check", "apply", "insert", "commit", "rollback"} => pend[c] = Nothing
  BY <1>m DEF MigratesAt
<1>9. ASSUME NEW c \in Callers, TakeConnection(c) PROVE MigratesInOrder'
  BY <1>1, <1>9, <1>p, ElsewhereMigrates DEF TakeConnection, dataVars, Migrating
<1>10. ASSUME NEW c \in Callers, InsertRow(c) PROVE MigratesInOrder'
  <2>1. UNCHANGED <<driver, db, mig, pend>> /\ pc[c] = "insert_row"
    BY <1>10 DEF InsertRow, dataVars
  <2>2. CASE Reserves(c) /\ Goto(c, "commit_row")
    BY <1>1, <1>p, <2>1, <2>2, ElsewhereMigrates DEF Migrating
  <2>3. QED
    BY <1>b, <1>10, <2>1, <2>2 DEF InsertRow
<1>11. ASSUME NEW c \in Callers, CommitRow(c) PROVE MigratesInOrder'
  <2>1. CASE Release(c) /\ db' = [db EXCEPT !.rows = Append(@, event[c])]
    <3>1. db.versions \subseteq db'.versions
      BY <1>1, <2>1 DEF TypeOK, DataTypes, Database
    <3>2. QED
      BY <1>1, <1>11, <2>1, <3>1, ReleaseMigrates DEF CommitRow
  <2>2. CASE Busy(c, Others(c)) /\ UNCHANGED <<db, mig, pend>>
    BY <1>b, <1>11, <2>2 DEF CommitRow
  <2>3. QED
    BY <1>11, <2>1, <2>2 DEF CommitRow
<1>12. ASSUME NEW c \in Callers, AppendLine(c) PROVE MigratesInOrder'
  <2>1. /\ UNCHANGED <<driver, db, mig, pend, lock>> /\ pc[c] = "append"
        /\ Goto(c, "sync") \/ Goto(c, "rollback")
    BY <1>12 DEF AppendLine
  <2>2. QED
    BY <1>1, <1>p, <2>1, ElsewhereMigrates DEF Migrating
<1>14. ASSUME NEW c \in Callers, SelectRows(c) PROVE MigratesInOrder'
  <2>1. UNCHANGED <<driver, db, mig, pend>> /\ pc[c] = "select"
    BY <1>14 DEF SelectRows, dataVars
  <2>2. CASE Locks(c, "shared") /\ Goto(c, "close")
    BY <1>1, <1>p, <2>1, <2>2, ElsewhereMigrates DEF Migrating
  <2>3. QED
    BY <1>b, <1>14, <2>1, <2>2 DEF SelectRows
<1>15. ASSUME NEW c \in Callers, ScanFile(c) PROVE MigratesInOrder'
  <2>1. UNCHANGED <<driver, db, mig, pend, lock>> /\ pc[c] = "scan" /\ Goto(c, "close")
    BY <1>15 DEF ScanFile, dataVars
  <2>2. QED
    BY <1>1, <1>p, <2>1, ElsewhereMigrates DEF Migrating
<1>17. ASSUME NEW c \in Callers, CallRecord(c) \/ CallTail(c) \/ Cancel(c) PROVE MigratesInOrder'
  BY <1>1, <1>17, <1>p, ElsewhereMigrates DEF CallRecord, CallTail, Cancel, dataVars, Migrating
<1>20. ASSUME NEW ps \in SUBSET Procs, Die(ps), UNCHANGED db \/ ps = Procs
       PROVE  MigratesInOrder'
  <2>1. UNCHANGED driver
    BY <1>20 DEF Die
  <2>2. ASSUME NEW c \in Callers PROVE MigratesAt(c)' /\ (lock'[c] = "reserved" => lock[c] = "reserved")
    <3>1. CASE ProcOf[c] \in ps
      <4>1. pc'[c] = "idle" /\ mig'[c] = 1 /\ pend'[c] = Nothing /\ lock'[c] = "none"
        BY <1>20, <3>1 DEF Die
      <4>2. QED
        BY <4>1 DEF MigratesAt, Migrating, Nothing
    <3>2. CASE ProcOf[c] \notin ps
      <4>1. pc'[c] = pc[c] /\ mig'[c] = mig[c] /\ pend'[c] = pend[c] /\ lock'[c] = lock[c]
        BY <1>20, <3>2 DEF Die
      <4>2. UNCHANGED db
        BY <1>20, <3>2, Constants
      <4>3. QED
        BY <1>m, <2>1, <4>1, <4>2, MigratesAnyway
    <3>3. QED
      BY <3>1, <3>2
  <2>3. OneWriter'
    BY <1>1, <2>2, MigratesAtEach DEF OneWriter
  <2>4. QED
    BY <2>2, <2>3, MigratesAfter
<1>21. ASSUME NEW p \in Procs, Kill(p) PROVE MigratesInOrder'
  BY <1>20, <1>21 DEF Kill, dataVars
<1>22. ASSUME PowerLoss PROVE MigratesInOrder'
  BY <1>20, <1>22 DEF PowerLoss
<1>23. ASSUME Tick \/ SyncDirectory \/ UNCHANGED vars PROVE MigratesInOrder'
  <2>1. UNCHANGED <<driver, pc, lock, mig, pend, db>>
    BY <1>23 DEF Tick, SyncDirectory, vars, callVars, dataVars
  <2>2. QED
    BY <1>1, <2>1 DEF MigratesInOrder, OneWriter, MigratesAt
<1>24. \A c \in Callers : Step(c) => MigratesInOrder'
  BY <1>3, <1>4, <1>5, <1>6, <1>7, <1>8, <1>9, <1>10, <1>11, <1>12, <1>14, <1>15 DEF Step
<1>25. QED
  BY <1>1, <1>2, <1>17, <1>21, <1>22, <1>23, <1>24 DEF Next, Callers

LEMMA NextSchema ==
  TypeOK /\ MigratesInOrder /\ SchemaIsWhole /\ UndoIsNear /\ [Next]_vars => SchemaIsWhole'
<1>1. SUFFICES ASSUME TypeOK, MigratesInOrder, SchemaIsWhole, UndoIsNear, [Next]_vars
               PROVE  SchemaIsWhole'
  OBVIOUS
<1>2. ASSUME UNCHANGED driver, db'.versions = db.versions, db'.tables = db.tables,
             driver = "sqlite" => \A p \in Procs : proc'[p] = "open" => proc[p] = "open"
      PROVE  SchemaIsWhole'
  BY <1>1, <1>2 DEF SchemaIsWhole
<1>4. ASSUME NEW c \in Callers, CommitMigrations(c) PROVE SchemaIsWhole'
  <2>1. CASE db' = [db EXCEPT !.versions = @ \cup pend[c].versions,
                              !.tables = @ \cup pend[c].tables]
    <3>1. pend[c].tables = pend[c].versions
      BY <1>1, <1>4 DEF MigratesInOrder, OneWriter, MigratesAt, CommitMigrations
    <3>2. db \in Database /\ pend[c] \in Writes
      BY <1>1 DEF TypeOK, DataTypes, CallTypes
    <3>3. db'.versions = db.versions \cup pend[c].versions /\ db'.tables = db.tables \cup pend[c].tables
      BY <2>1, <3>2 DEF Database
    <3>4. Versions \subseteq db'.versions
      <4>1. 1..(mig[c] - 1) \subseteq db'.versions /\ mig[c] > NMigrations /\ mig[c] \in Nat
        BY <1>1, <1>4, <3>3 DEF MigratesInOrder, OneWriter, MigratesAt, CommitMigrations, TypeOK, CallTypes, Migration
      <4>2. Versions \subseteq 1..(mig[c] - 1)
        BY <4>1, StoreAssumption DEF Versions
      <4>3. QED
        BY <4>1, <4>2
    <3>5. db'.tables = db'.versions /\ db'.versions = Versions
      BY <1>1, <3>1, <3>2, <3>3, <3>4 DEF SchemaIsWhole, Database, Writes
    <3>6. QED
      BY <3>5 DEF SchemaIsWhole
  <2>2. CASE UNCHANGED <<db, proc>>
    BY <1>2, <1>4, <2>2 DEF CommitMigrations
  <2>3. QED
    BY <1>4, <2>1, <2>2 DEF CommitMigrations
<1>5. ASSUME NEW c \in Callers, CommitRow(c) PROVE SchemaIsWhole'
  <2>1. db'.versions = db.versions /\ db'.tables = db.tables
    BY <1>1, <1>5 DEF CommitRow, TypeOK, DataTypes, Database
  <2>2. QED
    BY <1>2, <1>5, <2>1 DEF CommitRow
<1>6. ASSUME NEW p \in Procs, Open(p) PROVE SchemaIsWhole'
  BY <1>1, <1>2, <1>6 DEF Open, dataVars, TypeOK, ProcTypes
<1>7. ASSUME NEW c \in Callers, Rollback(c) \/ CloseStore(c) PROVE SchemaIsWhole'
  <2>1. /\ UNCHANGED <<driver, db>>
        /\ \A p \in Procs : proc'[p] = proc[p] \/ proc'[p] = "down"
    BY <1>1, <1>7 DEF Rollback, CloseStore, Exits, dataVars, TypeOK, ProcTypes
  <2>2. QED
    BY <1>2, <2>1
<1>8. ASSUME NEW p \in Procs, Kill(p) PROVE SchemaIsWhole'
  <2>1. /\ UNCHANGED <<driver, db>>
        /\ \A q \in Procs : proc'[q] = proc[q] \/ proc'[q] = "down"
    BY <1>8 DEF Kill, Die, dataVars
  <2>2. QED
    BY <1>2, <2>1
<1>9. ASSUME NEW c \in Callers, Step(c), ~CommitMigrations(c), ~CommitRow(c), ~Rollback(c), ~CloseStore(c)
      PROVE  SchemaIsWhole'
  <2>1. UNCHANGED <<driver, db, proc>>
    BY <1>9 DEF Step, EnsureMigrationTable, MigrationAlreadyApplied, ApplyMigration, InsertVersion,
                TakeConnection, InsertRow, AppendLine, SyncFile, SelectRows, ScanFile, dataVars
  <2>2. QED
    BY <1>2, <2>1
<1>10. ASSUME \/ \E c \in Callers : CallRecord(c) \/ CallTail(c) \/ Cancel(c)
              \/ Tick \/ SyncDirectory
              \/ UNCHANGED vars
       PROVE  SchemaIsWhole'
  <2>1. UNCHANGED <<driver, db, proc>>
    BY <1>10 DEF CallRecord, CallTail, Cancel, Tick, SyncDirectory, vars, dataVars
  <2>2. QED
    BY <1>2, <2>1
<1>11. ASSUME PowerLoss PROVE SchemaIsWhole'
  <2>1. \A p \in Procs : proc'[p] = "down"
    BY <1>11 DEF PowerLoss, Die
  <2>2. db' = db \/ db' = undo
    BY <1>11 DEF PowerLoss
  <2>3. QED
    BY <1>1, <2>1, <2>2 DEF SchemaIsWhole, UndoIsNear
<1>12. QED
  BY <1>1, <1>4, <1>5, <1>6, <1>7, <1>8, <1>9, <1>10, <1>11 DEF Next, Callers

-----------------------------------------------------------------------------
(* Who is in the way.                                                      *)

LEMMA InitBusy == Init => BusyComesFromOutside
BY DEF Init, BusyComesFromOutside

(* Who holds a lock while c has its connection belongs to another process. *)
LEMMA BusyOutside ==
  ASSUME TypeOK, OneConnection, BusyComesFromOutside, NEW c \in Callers, NEW who,
         Busy(c, who), who \subseteq Others(c), c \in conns[ProcOf[c]]
  PROVE  BusyComesFromOutside'
<1>1. \A d \in who : ProcOf[d] # ProcOf[c]
  BY Constants DEF OneConnection, Others
<1>2. \A d \in Callers : blame'[d] = IF d = c THEN who ELSE blame[d]
  BY DEF Busy, TypeOK, CallTypes
<1>3. QED
  BY <1>1, <1>2 DEF BusyComesFromOutside

LEMMA NextBusy ==
  TypeOK /\ OneConnection /\ BusyComesFromOutside /\ [Next]_vars => BusyComesFromOutside'
<1>1. SUFFICES ASSUME TypeOK, OneConnection, BusyComesFromOutside, [Next]_vars
               PROVE  BusyComesFromOutside'
  OBVIOUS
<1>t. CallTypes
  BY <1>1 DEF TypeOK
<1>u. ASSUME \A d \in Callers : blame'[d] = blame[d] \/ blame'[d] = {} PROVE BusyComesFromOutside'
  BY <1>1, <1>u DEF BusyComesFromOutside
<1>r. ASSUME NEW c \in Callers, Release(c) PROVE BusyComesFromOutside'
  BY <1>t, <1>r, <1>u DEF Release, CallTypes
<1>w. \A c \in Callers : Writers(c) \subseteq Others(c) /\ Committers(c) \subseteq Others(c)
  BY DEF Writers, Committers, Others
<1>h. \A c \in Callers : pc[c] \in Migrating \cup Stating => c \in conns[ProcOf[c]]
  BY <1>1 DEF OneConnection
<1>b. ASSUME NEW c \in Callers, pc[c] \in Migrating \cup Stating,
             \/ Busy(c, Writers(c)) \/ Busy(c, Committers(c)) \/ Busy(c, Others(c))
      PROVE  BusyComesFromOutside'
  BY <1>1, <1>b, <1>w, <1>h, BusyOutside
<1>s. ASSUME UNCHANGED blame PROVE BusyComesFromOutside'
  BY <1>s, <1>u
<1>2. ASSUME NEW c \in Callers, EnsureMigrationTable(c) PROVE BusyComesFromOutside'
  BY <1>2, <1>b, <1>s DEF EnsureMigrationTable, Migrating, Reserves
<1>3. ASSUME NEW c \in Callers, ApplyMigration(c) PROVE BusyComesFromOutside'
  BY <1>3, <1>b, <1>s DEF ApplyMigration, Migrating, Reserves
<1>4. ASSUME NEW c \in Callers, CommitMigrations(c) PROVE BusyComesFromOutside'
  BY <1>4, <1>b, <1>r DEF CommitMigrations, Migrating
<1>5. ASSUME NEW c \in Callers, InsertRow(c) PROVE BusyComesFromOutside'
  BY <1>5, <1>b, <1>s DEF InsertRow, Stating, Reserves
<1>6. ASSUME NEW c \in Callers, CommitRow(c) PROVE BusyComesFromOutside'
  BY <1>6, <1>b, <1>r DEF CommitRow, Stating
<1>7. ASSUME NEW c \in Callers, SelectRows(c) PROVE BusyComesFromOutside'
  BY <1>7, <1>b, <1>s DEF SelectRows, Stating
<1>8. ASSUME NEW c \in Callers, Rollback(c) \/ SyncFile(c) \/ CloseStore(c) PROVE BusyComesFromOutside'
  BY <1>8, <1>r DEF Rollback, SyncFile, CloseStore
<1>9. ASSUME NEW c \in Callers,
             \/ MigrationAlreadyApplied(c) \/ InsertVersion(c) \/ TakeConnection(c)
             \/ AppendLine(c) \/ ScanFile(c) \/ CallRecord(c) \/ CallTail(c) \/ Cancel(c)
      PROVE  BusyComesFromOutside'
  BY <1>9, <1>s DEF MigrationAlreadyApplied, InsertVersion, TakeConnection, AppendLine, ScanFile,
                    CallRecord, CallTail, Cancel
<1>10. ASSUME NEW ps \in SUBSET Procs, Die(ps) PROVE BusyComesFromOutside'
  BY <1>10, <1>u DEF Die
<1>11. ASSUME PowerLoss \/ \E p \in Procs : Kill(p) PROVE BusyComesFromOutside'
  BY <1>10, <1>11 DEF PowerLoss, Kill
<1>12. ASSUME \/ \E p \in Procs : Open(p)
              \/ SyncDirectory
              \/ Tick
              \/ UNCHANGED vars
       PROVE  BusyComesFromOutside'
  BY <1>12, <1>s DEF Open, SyncDirectory, Tick, vars
<1>13. \A c \in Callers : Step(c) => BusyComesFromOutside'
  BY <1>2, <1>3, <1>4, <1>5, <1>6, <1>7, <1>8, <1>9 DEF Step
<1>14. QED
  BY <1>1, <1>9, <1>11, <1>12, <1>13 DEF Next, Callers

-----------------------------------------------------------------------------
(* Events.                                                                 *)

LEMMA FileAtEach == FileInOrder <=> FileSorted /\ \A c \in Callers : FileAt(c)
BY DEF FileInOrder, FileSorted, FileAt

LEMMA FileAfter ==
  ASSUME FileSorted', \A c \in Callers : FileAt(c)' PROVE FileInOrder'
BY DEF FileInOrder, FileSorted, FileAt

LEMMA InitFile == Init => FileInOrder /\ AckedIsStored /\ UndoIsNear /\ TailIsRecent
<1>1. SUFFICES ASSUME Init PROVE FileInOrder /\ AckedIsStored /\ UndoIsNear /\ TailIsRecent
  OBVIOUS
<1>2. DOMAIN file = {} /\ acked = {} /\ Missing = {}
  BY <1>1 DEF Init, Missing
<1>3. FileInOrder
  BY <1>1, <1>2 DEF Init, FileInOrder, FileSorted, FileAt
<1>4. IsFiniteSet(Missing) /\ Cardinality(Missing) = 0
  BY <1>2, FS_EmptySet
<1>5. AckedIsStored
  <2>1. outages = 0
    BY <1>1 DEF Init
  <2>2. QED
    BY <1>2, <1>4, <2>1 DEF AckedIsStored
<1>6. UndoIsNear
  <2>1. undo = db /\ db.tables = db.versions
    BY <1>1 DEF Init
  <2>2. QED
    BY <1>4, <2>1 DEF UndoIsNear, Rows
<1>7. TailIsRecent
  BY <1>1 DEF Init, TailIsRecent, Blank
<1>8. QED
  BY <1>3, <1>5, <1>6, <1>7

(* The file does not change; more of it may be synced. *)
LEMMA SortedAnyway ==
  ASSUME TypeOK, FileSorted, UNCHANGED <<driver, file, since>>, born' \in Nat, born <= born',
         synced' \in Nat, synced <= synced'
  PROVE  FileSorted'
<1>1. /\ synced \in Nat /\ born \in Nat /\ since \in Nat
      /\ 1..synced \subseteq 1..synced'
  BY DEF TypeOK, DataTypes
<1>2. \A i \in DOMAIN file : file[i] \in Entry
  BY LenProperties, ElementOfSeq DEF TypeOK, DataTypes
<1>3. \A i \in DOMAIN file : file[i].event.id \in Nat
  BY <1>2 DEF Entry, Event
<1>4. QED
  BY <1>1, <1>3 DEF FileSorted

(* A caller that stands still while the file does not change. *)
LEMMA FileAnyway ==
  ASSUME TypeOK, NEW d \in Callers, FileAt(d), UNCHANGED <<driver, file, since>>,
         pc'[d] = pc[d], event'[d] = event[d],
         born' \in Nat, born <= born', synced' \in Nat, synced <= synced',
         \A c \in Callers \ {d} :
           pc'[c] = "append" =>
             \/ pc[c] = "append" /\ event'[c] = event[c]
             \/ event'[c].id \in Nat /\ event'[c].id > born
  PROVE  FileAt(d)'
<1>1. /\ synced \in Nat /\ born \in Nat /\ since \in Nat
      /\ 1..synced \subseteq 1..synced'
  BY DEF TypeOK, DataTypes
<1>2. event[d] \in Event => event[d].id \in Nat
  BY DEF Event
<1>3. event[d] \in Event /\ event[d].id <= born => event[d].id <= born'
  BY <1>1, <1>2
<1>4. pc[d] = "append" => \A c \in Callers \ {d} : pc'[c] = "append" => event'[c].id # event[d].id
  BY <1>1, <1>2 DEF FileAt
<1>5. QED
  BY <1>1, <1>3, <1>4 DEF FileAt

(* A step of c that writes nothing to the file and starts no event. *)
LEMMA StepFile ==
  ASSUME TypeOK, FileInOrder, NEW c \in Callers, UNCHANGED <<driver, file, born, since>>,
         synced' \in Nat, synced <= synced', FileAt(c)', pc'[c] # "append",
         \A d \in Callers \ {c} : pc'[d] = pc[d] /\ event'[d] = event[d]
  PROVE  FileInOrder'
<1>1. born \in Nat /\ born <= born' /\ born' \in Nat
  BY DEF TypeOK, DataTypes
<1>2. FileSorted'
  BY <1>1, FileAtEach, SortedAnyway
<1>3. ASSUME NEW d \in Callers \ {c} PROVE FileAt(d)'
  BY <1>1, FileAtEach, FileAnyway
<1>4. QED
  BY <1>2, <1>3, FileAfter

LEMMA ReleaseFile ==
  ASSUME TypeOK, FileInOrder, NEW c \in Callers, Release(c), UNCHANGED <<driver, file, born, since>>,
         synced' \in Nat, synced <= synced'
  PROVE  FileInOrder'
<1>1. pc'[c] = "idle" /\ \A d \in Callers \ {c} : pc'[d] = pc[d] /\ event'[d] = event[d]
  BY DEF Release, Goto, TypeOK, CallTypes
<1>2. FileAt(c)'
  BY <1>1 DEF FileAt
<1>3. QED
  BY <1>1, <1>2, StepFile

LEMMA NextFile ==
  TypeOK /\ FileInOrder /\ AckedIsStored /\ [Next]_vars => FileInOrder'
<1>1. SUFFICES ASSUME TypeOK, FileInOrder, AckedIsStored, [Next]_vars PROVE FileInOrder'
  OBVIOUS
<1>t. CallTypes /\ DataTypes
  BY <1>1 DEF TypeOK
<1>m. FileSorted /\ \A c \in Callers : FileAt(c)
  BY <1>1, FileAtEach
<1>n. synced \in Nat /\ born \in Nat /\ Len(file) \in Nat /\ synced <= Len(file)
  BY <1>t DEF DataTypes
<1>b. since \in Nat /\ since <= born
  BY <1>m, <1>t DEF FileSorted, DataTypes
<1>o. ASSUME NEW c \in Callers, NEW step, Goto(c, step)
      PROVE  pc'[c] = step /\ \A d \in Callers \ {c} : pc'[d] = pc[d]
  BY <1>t, <1>o DEF CallTypes, Goto
<1>r. ASSUME NEW c \in Callers, Release(c), UNCHANGED <<driver, file, born, synced, since>> PROVE FileInOrder'
  BY <1>1, <1>r, <1>n, ReleaseFile
<1>g. ASSUME NEW c \in Callers, NEW step, Goto(c, step), UNCHANGED <<driver, file, born, synced, since, event>>,
             step \notin {"append", "sync"},
             step = "scan" => driver = "file" /\ c \in Tailers,
             step \in {"insert_row", "commit_row"} => pc[c] \in {"take", "insert_row"},
             step \in {"take", "take_rows", "select"} => driver = "sqlite",
             step \in {"take_rows", "select"} => c \in Tailers,
             step # "take"
      PROVE  FileInOrder'
  <2>1. FileAt(c)'
    BY <1>m, <1>o, <1>g DEF FileAt
  <2>2. QED
    BY <1>1, <1>n, <1>o, <1>g, <2>1, StepFile
<1>u. ASSUME UNCHANGED <<driver, file, born, synced, since, event, pc>> PROVE FileInOrder'
  BY <1>1, <1>u DEF FileInOrder, FileSorted, FileAt
<1>2. ASSUME NEW p \in Procs, Open(p) PROVE FileInOrder'
  BY <1>2, <1>g, <1>u, Constants DEF Open, dataVars, diskVars
<1>3. ASSUME NEW c \in Callers,
             EnsureMigrationTable(c) \/ MigrationAlreadyApplied(c) \/ ApplyMigration(c) \/ InsertVersion(c)
      PROVE  FileInOrder'
  <2>1. UNCHANGED <<driver, file, born, synced, since, event>>
    BY <1>3 DEF EnsureMigrationTable, MigrationAlreadyApplied, ApplyMigration, InsertVersion, dataVars, diskVars
  <2>2. \/ UNCHANGED pc
        \/ \E step \in {"check", "commit", "apply", "insert", "rollback"} : Goto(c, step)
    BY <1>3 DEF EnsureMigrationTable, MigrationAlreadyApplied, ApplyMigration, InsertVersion, Busy
  <2>3. QED
    BY <1>g, <1>u, <2>1, <2>2
<1>4. ASSUME NEW c \in Callers, CommitMigrations(c) \/ CommitRow(c) PROVE FileInOrder'
  <2>1. UNCHANGED <<driver, file, born, synced, since>>
    BY <1>4 DEF CommitMigrations, CommitRow
  <2>2. Release(c) \/ (Goto(c, "rollback") /\ UNCHANGED event)
    BY <1>4 DEF CommitMigrations, CommitRow, Busy
  <2>3. QED
    BY <1>g, <1>r, <2>1, <2>2
<1>5. ASSUME NEW c \in Callers, Rollback(c) \/ CloseStore(c) PROVE FileInOrder'
  BY <1>5, <1>r DEF Rollback, CloseStore, dataVars, diskVars
<1>6. ASSUME NEW c \in Callers, TakeConnection(c) PROVE FileInOrder'
  <2>1. UNCHANGED <<driver, file, born, synced, since, event>>
    BY <1>6 DEF TakeConnection, dataVars, diskVars
  <2>2. \/ pc[c] = "take" /\ Goto(c, "insert_row")
        \/ pc[c] = "take_rows" /\ Goto(c, "select")
    BY <1>6 DEF TakeConnection
  <2>3. QED
    BY <1>g, <1>m, <2>1, <2>2 DEF FileAt
<1>7. ASSUME NEW c \in Callers, InsertRow(c) \/ SelectRows(c) \/ ScanFile(c) \/ Cancel(c) PROVE FileInOrder'
  <2>1. UNCHANGED <<driver, file, born, synced, since, event>>
    BY <1>7 DEF InsertRow, SelectRows, ScanFile, Cancel, dataVars, diskVars
  <2>2. \/ pc[c] = "insert_row" /\ Goto(c, "commit_row")
        \/ Goto(c, "close")
        \/ Goto(c, "rollback")
    BY <1>7 DEF InsertRow, SelectRows, ScanFile, Cancel, Busy
  <2>3. QED
    BY <1>g, <2>1, <2>2
<1>8. ASSUME NEW c \in Tailers, CallTail(c) PROVE FileInOrder'
  <2>1. UNCHANGED <<driver, file, born, synced, since, event>> /\ c \in Callers
    BY <1>8 DEF CallTail, dataVars, diskVars, Callers
  <2>2. \/ driver = "sqlite" /\ Goto(c, "take_rows")
        \/ driver = "file" /\ Goto(c, "scan")
    BY <1>8, <1>t DEF CallTail, DataTypes
  <2>3. QED
    BY <1>8, <1>g, <2>1, <2>2
<1>9. ASSUME NEW c \in Callers, SyncFile(c) PROVE FileInOrder'
  <2>1. synced' \in Nat /\ synced <= synced'
    BY <1>9, <1>n DEF SyncFile
  <2>2. QED
    BY <1>1, <1>9, <2>1, ReleaseFile DEF SyncFile, diskVars
<1>10. ASSUME NEW c \in Callers, CallRecord(c) PROVE FileInOrder'
  <2>1. /\ UNCHANGED <<driver, file, synced, since>>
        /\ born' = born + 1
        /\ born' \in Nat /\ born <= born' /\ synced <= synced' /\ synced' \in Nat
    BY <1>10, <1>n DEF CallRecord, dataVars, diskVars
  <2>2. /\ event'[c] = [id |-> born', sec |-> now, after |-> {e.id : e \in acked}]
        /\ \A d \in Callers \ {c} : event'[d] = event[d]
    BY <1>10, <1>t DEF CallRecord, CallTypes
  <2>3. event'[c] \in Event /\ event'[c].id = born' /\ event'[c].after = {e.id : e \in acked}
    <3>1. {e.id : e \in acked} \in SUBSET Nat
      BY <1>t DEF DataTypes, Event
    <3>2. QED
      BY <1>t, <2>1, <2>2, <3>1 DEF DataTypes, Event
  <2>4. /\ \A d \in Callers \ {c} : pc'[d] = pc[d]
        /\ pc'[c] = IF driver = "sqlite" THEN "take" ELSE "append"
    BY <1>10, <1>o DEF CallRecord
  <2>5. FileSorted'
    BY <1>1, <1>m, <2>1, SortedAnyway
  <2>6. ASSUME NEW d \in Callers \ {c} PROVE FileAt(d)'
    <3>1. \A x \in Callers \ {d} :
            pc'[x] = "append" =>
              \/ pc[x] = "append" /\ event'[x] = event[x]
              \/ event'[x].id \in Nat /\ event'[x].id > born
      BY <1>n, <2>1, <2>2, <2>3, <2>4
    <3>2. QED
      BY <1>1, <1>m, <2>1, <2>2, <2>4, <2>6, <3>1, FileAnyway
  <2>7. FileAt(c)'
    <3>1. CASE driver = "sqlite"
      BY <2>1, <2>3, <2>4, <3>1 DEF FileAt
    <3>2. CASE driver = "file"
      <4>1. \A i \in DOMAIN file : file[i].event.id # event'[c].id
        <5>1. \A i \in DOMAIN file : file[i].event.id <= born
          BY <1>m DEF FileSorted
        <5>2. \A i \in DOMAIN file : file[i] \in Entry
          BY <1>t, LenProperties, ElementOfSeq DEF DataTypes
        <5>3. \A i \in DOMAIN file : file[i].event.id \in Nat
          BY <5>2 DEF Entry, Event
        <5>4. QED
          BY <1>n, <2>1, <2>3, <5>1, <5>3
      <4>2. \A d \in Callers \ {c} : pc'[d] = "append" => event'[d].id # event'[c].id
        <5>1. \A d \in Callers \ {c} :
                pc'[d] = "append" => event[d] \in Event /\ event[d].id <= born
          BY <1>m, <2>4 DEF FileAt
        <5>2. \A d \in Callers : event[d] \in Event => event[d].id \in Nat
          BY DEF Event
        <5>3. QED
          BY <1>n, <2>1, <2>2, <2>3, <5>1, <5>2
      <4>3. \A id \in event'[c].after :
              id > since => \E j \in 1..synced : file[j].event.id = id
        <5>1. \A e \in acked : e.id > since =>
                \E j \in 1..synced : file[j] = [event |-> e, whole |-> TRUE]
          BY <1>1, <3>2 DEF AckedIsStored
        <5>2. ASSUME NEW e \in acked, e.id > since
              PROVE  \E j \in 1..synced : file[j].event.id = e.id
          <6>1. PICK j \in 1..synced : file[j] = [event |-> e, whole |-> TRUE]
            BY <5>1, <5>2
          <6>2. file[j].event = e
            BY <6>1
          <6>3. QED
            BY <6>2
        <5>3. QED
          BY <2>3, <5>2
      <4>4. event'[c].id <= born' /\ event'[c].id > since
        BY <1>b, <1>n, <2>1, <2>3
      <4>5. QED
        BY <2>1, <2>3, <2>4, <3>2, <4>1, <4>2, <4>3, <4>4 DEF FileAt
    <3>3. QED
      BY <1>t, <3>1, <3>2 DEF DataTypes
  <2>8. QED
    BY <2>5, <2>6, <2>7, FileAfter
<1>11. ASSUME NEW c \in Callers, AppendLine(c) PROVE FileInOrder'
  <2>1. UNCHANGED <<driver, born, synced, since, event>> /\ pc[c] = "append"
    BY <1>11 DEF AppendLine, diskVars
  <2>2. \/ Goto(c, "rollback")
        \/ Goto(c, "sync") /\ file' # file
    <3>1. CASE file' = Append(file, [event |-> event[c], whole |-> TRUE])
      <4>1. event[c] \in Event
        BY <1>m, <2>1 DEF FileAt
      <4>2. [event |-> event[c], whole |-> TRUE] \in Entry
        BY <4>1 DEF Entry
      <4>3. Len(file') = Len(file) + 1
        BY <1>t, <3>1, <4>2, AppendProperties DEF DataTypes
      <4>4. file' # file
        BY <1>n, <4>3
      <4>5. QED
        BY <1>11, <4>4 DEF AppendLine
    <3>2. QED
      BY <1>11, <3>1 DEF AppendLine
  <2>3. CASE file' = file
    <3>1. Goto(c, "rollback")
      BY <2>2, <2>3
    <3>2. QED
      BY <1>g, <2>1, <2>3, <3>1
  <2>4. CASE file' # file
    <3> DEFINE n == Len(file) + 1
    <3>1. /\ file' \in Seq(Entry)
          /\ Len(file') = n
          /\ \A i \in 1..Len(file) : file'[i] = file[i]
          /\ file'[n].event = event[c]
          /\ pc'[c] = "sync" => file'[n] = [event |-> event[c], whole |-> TRUE]
      BY <1>1, <1>11, <2>4, AppendedFile
    <3>2. DOMAIN file = 1..Len(file) /\ DOMAIN file' = 1..n
      BY <1>t, <3>1, LenProperties DEF DataTypes
    <3>3. n \in DOMAIN file' /\ \A i \in DOMAIN file' : i \in DOMAIN file \/ i = n
      BY <1>n, <3>2
    <3>4. \A i \in DOMAIN file : i \in DOMAIN file' /\ file'[i] = file[i] /\ i < n
      BY <1>n, <3>1, <3>2
    <3>5. \A j \in 1..synced : j \in DOMAIN file
      BY <1>n, <3>2
    <3>6. /\ event[c].id <= born /\ event[c].id > since
          /\ \A i \in DOMAIN file : file[i].event.id # event[c].id
          /\ \A id \in event[c].after : id > since => \E j \in 1..synced : file[j].event.id = id
          /\ driver = "file"
      BY <1>m, <2>1 DEF FileAt
    <3> HIDE DEF n
    <3>7. FileSorted'
      <4>1. \A i, j \in DOMAIN file' : file'[i].event.id = file'[j].event.id => i = j
        BY <1>m, <3>1, <3>3, <3>4, <3>6 DEF FileSorted
      <4>2. \A i \in DOMAIN file' : file'[i].event.id <= born' /\ file'[i].event.id > since'
        BY <1>m, <2>1, <3>1, <3>3, <3>4, <3>6 DEF FileSorted
      <4>3. \A i \in DOMAIN file' : \A id \in file'[i].event.after :
              id > since' => \E j \in 1..synced' : file'[j].event.id = id /\ j < i
        <5>1. ASSUME NEW i \in DOMAIN file, NEW id \in file'[i].event.after, id > since'
              PROVE  \E j \in 1..synced' : file'[j].event.id = id /\ j < i
          <6>1. PICK j \in 1..synced : file[j].event.id = id /\ j < i
            BY <1>m, <2>1, <3>4, <5>1 DEF FileSorted
          <6>2. QED
            BY <2>1, <3>4, <3>5, <6>1
        <5>2. ASSUME NEW id \in file'[n].event.after, id > since'
              PROVE  \E j \in 1..synced' : file'[j].event.id = id /\ j < n
          <6>1. PICK j \in 1..synced : file[j].event.id = id
            BY <2>1, <3>1, <3>6, <5>2
          <6>2. QED
            BY <2>1, <3>4, <3>5, <6>1
        <5>3. QED
          BY <3>3, <5>1, <5>2
      <4>4. QED
        BY <1>b, <2>1, <3>6, <4>1, <4>2, <4>3 DEF FileSorted
    <3>8. ASSUME NEW d \in Callers \ {c} PROVE FileAt(d)'
      <4>1. pc'[d] = pc[d] /\ event'[d] = event[d] /\ pc'[c] # "append"
        BY <1>o, <2>1, <2>2
      <4>2. pc[d] = "append" => event[d].id # event[c].id
        BY <1>m, <2>1 DEF FileAt
      <4>3. pc[d] = "append" => \A i \in DOMAIN file' : file'[i].event.id # event[d].id
        BY <1>m, <3>1, <3>3, <3>4, <4>2 DEF FileAt
      <4>4. \A x \in Callers \ {d} : pc'[x] = "append" => pc[x] = "append" /\ event'[x] = event[x]
        BY <1>o, <2>1, <2>2
      <4>5. pc[d] = "append" => \A id \in event[d].after :
              id > since' => \E j \in 1..synced' : file'[j].event.id = id
        BY <1>m, <2>1, <3>4, <3>5 DEF FileAt
      <4>6. pc[d] = "sync" => \E i \in DOMAIN file' : file'[i] = [event |-> event[d], whole |-> TRUE]
        BY <1>m, <3>4 DEF FileAt
      <4>7. QED
        BY <1>m, <2>1, <4>1, <4>3, <4>4, <4>5, <4>6 DEF FileAt
    <3>9. FileAt(c)'
      <4>1. pc'[c] \in {"rollback", "sync"} /\ event'[c] = event[c] /\ event[c] \in Event
        BY <1>m, <1>o, <2>1, <2>2 DEF FileAt
      <4>2. QED
        BY <2>1, <3>1, <3>3, <3>6, <4>1 DEF FileAt
    <3>10. QED
      BY <3>7, <3>8, <3>9, FileAfter
  <2>5. QED
    BY <2>3, <2>4
<1>12. ASSUME NEW p \in Procs, Kill(p) PROVE FileInOrder'
  <2>1. UNCHANGED <<driver, file, synced, born, since>> /\ Die({p})
    BY <1>12 DEF Kill, Die, dataVars, diskVars
  <2>2. \A c \in Callers : \/ pc'[c] = "idle"
                           \/ pc'[c] = pc[c] /\ event'[c] = event[c]
    BY <2>1 DEF Die
  <2>3. FileSorted'
    BY <1>1, <1>m, <1>n, <2>1, SortedAnyway
  <2>4. ASSUME NEW c \in Callers PROVE FileAt(c)'
    <3>1. CASE pc'[c] = "idle"
      BY <3>1 DEF FileAt
    <3>2. CASE pc'[c] = pc[c] /\ event'[c] = event[c]
      BY <1>1, <1>m, <1>n, <2>1, <2>2, <3>2, FileAnyway
    <3>3. QED
      BY <2>2, <3>1, <3>2
  <2>5. QED
    BY <2>3, <2>4, FileAfter
<1>13. ASSUME PowerLoss PROVE FileInOrder'
  <2>1. UNCHANGED <<driver, born>> /\ \A c \in Callers : pc'[c] = "idle"
    BY <1>13, Constants DEF PowerLoss, Die
  <2>2. ASSUME FileCut PROVE FileSorted'
    <3>1. /\ file' \in Seq(Entry)
          /\ Len(file') \in synced..Len(file)
          /\ synced' = Len(file')
          /\ since' = since
          /\ \A i \in 1..Len(file') : file'[i].event = file[i].event
      BY <1>1, <2>2, FileAfterCut DEF FileCut
    <3>2. DOMAIN file = 1..Len(file) /\ DOMAIN file' = 1..Len(file')
      BY <1>t, <3>1, LenProperties DEF DataTypes
    <3>3. \A i \in DOMAIN file' : i \in DOMAIN file /\ file'[i].event = file[i].event
      BY <1>n, <3>1, <3>2
    <3>4. \A j \in 1..synced : j \in 1..synced' /\ j \in DOMAIN file'
      BY <1>n, <3>1, <3>2
    <3>5. ASSUME NEW i \in DOMAIN file', NEW id \in file'[i].event.after, id > since
          PROVE  \E j \in 1..synced' : file'[j].event.id = id /\ j < i
      <4>1. PICK j \in 1..synced : file[j].event.id = id /\ j < i
        BY <1>m, <3>3, <3>5 DEF FileSorted
      <4>2. QED
        BY <3>3, <3>4, <4>1
    <3>6. QED
      BY <1>m, <2>1, <3>1, <3>3, <3>5 DEF FileSorted
  <2>3. ASSUME FileGone PROVE FileSorted'
    <3>1. DOMAIN file' = {} /\ since' = born
      BY <2>3 DEF FileGone
    <3>2. QED
      BY <1>n, <2>1, <3>1 DEF FileSorted
  <2>4. FileSorted'
    BY <1>13, <2>2, <2>3 DEF PowerLoss
  <2>5. \A c \in Callers : FileAt(c)'
    BY <2>1 DEF FileAt
  <2>6. QED
    BY <2>4, <2>5, FileAfter
<1>14. ASSUME SyncDirectory \/ Tick \/ UNCHANGED vars PROVE FileInOrder'
  BY <1>14, <1>u DEF SyncDirectory, Tick, vars, callVars, dataVars, diskVars
<1>15. \A c \in Callers : Step(c) => FileInOrder'
  BY <1>3, <1>4, <1>5, <1>6, <1>7, <1>9, <1>11 DEF Step
<1>16. QED
  BY <1>1, <1>2, <1>7, <1>8, <1>10, <1>12, <1>13, <1>14, <1>15 DEF Next, Callers

LEMMA RowsAfterCommit ==
  ASSUME TypeOK, NEW e \in Event, db' = [db EXCEPT !.rows = Append(@, e)]
  PROVE  Rows' = Rows \cup {e}
<1>1. db \in Database /\ db.rows \in Seq(Event) /\ Len(db.rows) \in Nat
  BY DEF TypeOK, DataTypes, Database
<1>2. db'.rows = Append(db.rows, e)
  BY <1>1 DEF Database
<1> DEFINE n == Len(db.rows) + 1
<1>3. /\ DOMAIN db.rows = 1..Len(db.rows)
      /\ DOMAIN db'.rows = 1..n
      /\ \A i \in 1..Len(db.rows) : db'.rows[i] = db.rows[i]
      /\ db'.rows[n] = e
  BY <1>1, <1>2, AppendProperties, LenProperties
<1>4. 1..n = 1..Len(db.rows) \cup {n}
  BY <1>1
<1> HIDE DEF n
<1>5. \A i \in DOMAIN db'.rows : db'.rows[i] \in {db.rows[k] : k \in DOMAIN db.rows} \cup {e}
  BY <1>3, <1>4
<1>6. \A i \in DOMAIN db.rows : \E k \in DOMAIN db'.rows : db.rows[i] = db'.rows[k]
  BY <1>3, <1>4
<1>7. n \in DOMAIN db'.rows
  BY <1>3, <1>4
<1>8. QED
  BY <1>3, <1>5, <1>6, <1>7 DEF Rows, RowsOf

LEMMA DriverStays == [Next]_vars => driver' = driver
<1>1. \A c \in Callers : Step(c) => driver' = driver
  BY DEF Step, EnsureMigrationTable, MigrationAlreadyApplied, ApplyMigration, InsertVersion,
         CommitMigrations, Rollback, TakeConnection, InsertRow, CommitRow, AppendLine, SyncFile,
         SelectRows, ScanFile, CloseStore
<1>2. QED
  BY <1>1 DEF Next, Open, CallRecord, CallTail, Cancel, SyncDirectory, Kill, PowerLoss, Die, Tick, vars

(* A step adds at most one event to those that the database lacks, and     *)
(* with SQLite only a power failure does; what the journal restores lacks  *)
(* at most the last one.                                                   *)
LEMMA NextRows ==
  ASSUME TypeOK, FileInOrder, SchemaIsWhole, UndoIsNear, [Next]_vars
  PROVE  /\ undo'.tables = undo'.versions
         /\ \A e, f \in Rows' \ {undo'.rows[i] : i \in DOMAIN undo'.rows} : e = f
         /\ \E e : Missing' \subseteq Missing \cup {e}
         /\ \/ driver = "sqlite" => Missing' \subseteq Missing
            \/ outages' = outages + 1
         /\ outages' \in {outages, outages + 1}
<1> DEFINE Goal == /\ undo'.tables = undo'.versions
                   /\ \A e, f \in Rows' \ {undo'.rows[i] : i \in DOMAIN undo'.rows} : e = f
                   /\ \E e : Missing' \subseteq Missing \cup {e}
                   /\ \/ driver = "sqlite" => Missing' \subseteq Missing
                      \/ outages' = outages + 1
                   /\ outages' \in {outages, outages + 1}
<1>d. db \in Database /\ undo \in Database
  BY DEF TypeOK, DataTypes
<1>v. db.tables = db.versions /\ undo.tables = undo.versions
  BY DEF SchemaIsWhole, UndoIsNear
<1>u. ASSUME UNCHANGED <<db, undo, outages>>,
             acked' = acked \/ (driver = "file" /\ \E e : acked' = acked \cup {e})
      PROVE  Goal
  <2>1. Rows' = Rows
    BY <1>u DEF Rows, RowsOf
  <2>2. (\E e : Missing' \subseteq Missing \cup {e}) /\ (driver = "sqlite" => Missing' \subseteq Missing)
    BY <1>u, <2>1 DEF Missing
  <2>3. QED
    BY <1>u, <1>v, <2>1, <2>2 DEF UndoIsNear, RowsOf
<1>2. ASSUME NEW c \in Callers, CommitRow(c) PROVE Goal
  <2>1. CASE /\ db' = [db EXCEPT !.rows = Append(@, event[c])] /\ undo' = db
             /\ acked' = acked \cup {event[c]} \/ acked' = acked
    <3>1. event[c] \in Event
      BY <1>2 DEF FileInOrder, FileSorted, FileAt, CommitRow
    <3>2. Rows' = Rows \cup {event[c]}
      BY <2>1, <3>1, RowsAfterCommit
    <3>3. Missing' \subseteq Missing
      BY <2>1, <3>2 DEF Missing
    <3>4. outages' = outages
      BY <1>2 DEF CommitRow
    <3>5. \A e \in Rows' \ {undo'.rows[i] : i \in DOMAIN undo'.rows} : e = event[c]
      BY <2>1, <3>2 DEF Rows, RowsOf
    <3>6. QED
      BY <1>v, <2>1, <3>3, <3>4, <3>5
  <2>2. CASE UNCHANGED <<db, undo, acked>>
    BY <1>2, <1>u, <2>2 DEF CommitRow
  <2>3. QED
    BY <1>2, <2>1, <2>2 DEF CommitRow
<1>3. ASSUME NEW c \in Callers, CommitMigrations(c) PROVE Goal
  <2>1. db'.rows = db.rows /\ (undo' = db \/ undo' = undo)
    BY <1>3, <1>d DEF CommitMigrations, Database
  <2>2. Rows' = Rows
    BY <2>1 DEF Rows, RowsOf
  <2>3. UNCHANGED <<acked, outages>>
    BY <1>3 DEF CommitMigrations
  <2>4. Missing' = Missing
    BY <2>2, <2>3 DEF Missing
  <2>5. \A e, f \in Rows' \ {undo'.rows[i] : i \in DOMAIN undo'.rows} : e = f
    BY <2>1, <2>2 DEF UndoIsNear, Rows, RowsOf
  <2>6. QED
    BY <1>v, <2>1, <2>3, <2>4, <2>5
<1>4. ASSUME NEW c \in Callers, SyncFile(c) PROVE Goal
  <2>1. driver = "file"
    BY <1>4 DEF FileInOrder, FileSorted, FileAt, SyncFile
  <2>2. QED
    BY <1>4, <1>u, <2>1 DEF SyncFile, diskVars
<1>5. ASSUME NEW c \in Callers, AppendLine(c) PROVE Goal
  BY <1>5, <1>u DEF AppendLine, diskVars
<1>6. ASSUME PowerLoss PROVE Goal
  <2>1. undo' = db' /\ db' \in {db, undo} /\ acked' = acked /\ outages' = outages + 1
    BY <1>6 DEF PowerLoss, Die
  <2>2. \E e : Missing' \subseteq Missing \cup {e}
    <3>1. CASE Rows' = Rows
      BY <2>1, <3>1 DEF Missing
    <3>2. CASE \A e \in Rows : e \in Rows'
      BY <2>1, <3>2 DEF Missing
    <3>3. CASE db' = undo /\ \E e \in Rows : e \notin Rows'
      <4>1. PICK e \in Rows : e \notin Rows'
        BY <3>3
      <4>2. \A f \in Rows \ Rows' : f = e
        BY <3>3, <4>1 DEF UndoIsNear, Rows, RowsOf
      <4>3. Missing' \subseteq Missing \cup {e}
        BY <2>1, <4>2 DEF Missing
      <4>4. QED
        BY <4>3
    <3>4. db' = db => Rows' = Rows
      BY DEF Rows, RowsOf
    <3>5. QED
      BY <2>1, <3>1, <3>2, <3>3, <3>4
  <2>3. \A e, f \in Rows' \ {undo'.rows[i] : i \in DOMAIN undo'.rows} : e = f
    BY <2>1 DEF Rows, RowsOf
  <2>4. QED
    BY <1>v, <2>1, <2>2, <2>3
<1>7. ASSUME NEW c \in Callers, Step(c), ~CommitRow(c), ~CommitMigrations(c), ~SyncFile(c), ~AppendLine(c)
      PROVE  Goal
  <2>1. UNCHANGED <<acked, db, undo, outages>>
    BY <1>7 DEF Step, EnsureMigrationTable, MigrationAlreadyApplied, ApplyMigration, InsertVersion,
                Rollback, TakeConnection, InsertRow, SelectRows, ScanFile, CloseStore, dataVars, diskVars
  <2>2. QED
    BY <1>u, <2>1
<1>8. ASSUME \/ \E c \in Callers : CallRecord(c) \/ CallTail(c) \/ Cancel(c)
             \/ \E p \in Procs : Open(p) \/ Kill(p)
             \/ SyncDirectory
             \/ Tick
             \/ UNCHANGED vars
      PROVE  Goal
  <2>1. UNCHANGED <<acked, db, undo, outages>>
    BY <1>8 DEF CallRecord, CallTail, Cancel, Open, Kill, Die, SyncDirectory, Tick, vars, dataVars, diskVars
  <2>2. QED
    BY <1>u, <2>1
<1>9. Goal
  BY <1>2, <1>3, <1>4, <1>5, <1>6, <1>7, <1>8 DEF Next, Callers
<1>10. QED
  BY <1>9

LEMMA NextUndo ==
  TypeOK /\ FileInOrder /\ SchemaIsWhole /\ UndoIsNear /\ [Next]_vars => UndoIsNear'
<1>1. SUFFICES ASSUME TypeOK, FileInOrder, SchemaIsWhole, UndoIsNear, [Next]_vars
               PROVE  UndoIsNear'
  OBVIOUS
<1>2. PICK e : Missing' \subseteq Missing \cup {e}
  BY <1>1, NextRows
<1>3. IsFiniteSet(Missing \cup {e})
  BY <1>1, FS_AddElement DEF UndoIsNear
<1>4. IsFiniteSet(Missing')
  BY <1>2, <1>3, FS_Subset
<1>5. /\ undo'.tables = undo'.versions
      /\ \A x, y \in Rows' \ {undo'.rows[i] : i \in DOMAIN undo'.rows} : x = y
  BY <1>1, NextRows
<1>6. QED
  BY <1>4, <1>5 DEF UndoIsNear, RowsOf

(* With the file driver what was acknowledged stays where it is. *)
LEMMA AckedAnyway ==
  ASSUME TypeOK, AckedIsStored, driver = "file", synced' \in Nat, synced <= synced',
         \A i \in 1..synced : file'[i] = file[i],
         NEW e \in acked, e.id > since
  PROVE  \E i \in 1..synced' : file'[i] = [event |-> e, whole |-> TRUE]
<1>1. synced \in Nat /\ 1..synced \subseteq 1..synced'
  BY DEF TypeOK, DataTypes
<1>2. PICK i \in 1..synced : file[i] = [event |-> e, whole |-> TRUE]
  BY DEF AckedIsStored
<1>3. QED
  BY <1>1, <1>2

LEMMA NextAcked ==
  TypeOK /\ FileInOrder /\ SchemaIsWhole /\ AckedIsStored /\ UndoIsNear /\ [Next]_vars
    => AckedIsStored'
<1>1. SUFFICES ASSUME TypeOK, FileInOrder, SchemaIsWhole, AckedIsStored, UndoIsNear, [Next]_vars
               PROVE  AckedIsStored'
  OBVIOUS
<1>n. synced \in Nat /\ Len(file) \in Nat /\ synced <= Len(file)
  BY <1>1 DEF TypeOK, DataTypes
<1> DEFINE Held == \A e \in acked' : e.id > since' =>
                     \E i \in 1..synced' : file'[i] = [event |-> e, whole |-> TRUE]
<1>s. ASSUME driver = "sqlite" PROVE Cardinality(Missing') <= outages'
  <2>1. PICK e : Missing' \subseteq Missing \cup {e}
    BY <1>1, NextRows
  <2>2. IsFiniteSet(Missing) /\ Cardinality(Missing) <= outages /\ outages \in Nat
    BY <1>1, <1>s DEF AckedIsStored, UndoIsNear, TypeOK, DataTypes
  <2>3. /\ IsFiniteSet(Missing \cup {e}) /\ Cardinality(Missing) \in Nat
        /\ Cardinality(Missing \cup {e}) <= Cardinality(Missing) + 1
        /\ Cardinality(Missing \cup {e}) \in Nat
    BY <2>2, FS_AddElement, FS_CardinalityType
  <2>4. /\ Cardinality(Missing') <= Cardinality(Missing \cup {e})
        /\ Cardinality(Missing') \in Nat
    BY <2>1, <2>3, FS_Subset, FS_CardinalityType
  <2>5. CASE Missing' \subseteq Missing
    <3>1. Cardinality(Missing') <= Cardinality(Missing)
      BY <2>2, <2>5, FS_Subset
    <3>2. outages' \in {outages, outages + 1}
      BY <1>1, NextRows
    <3>3. QED
      BY <2>2, <2>3, <2>4, <3>1, <3>2
  <2>6. CASE outages' = outages + 1
    BY <2>2, <2>3, <2>4, <2>6
  <2>7. QED
    BY <1>1, <1>s, <2>5, <2>6, NextRows
<1>u. ASSUME UNCHANGED <<acked, synced, since>>, \A i \in 1..synced : file'[i] = file[i], driver = "file"
      PROVE  Held
  <2>1. synced' \in Nat /\ synced <= synced'
    BY <1>n, <1>u
  <2>2. ASSUME NEW e \in acked, e.id > since
        PROVE  \E i \in 1..synced' : file'[i] = [event |-> e, whole |-> TRUE]
    BY <1>1, <1>u, <2>1, <2>2, AckedAnyway
  <2>3. QED
    BY <1>u, <2>2
<1>2. ASSUME NEW c \in Callers, SyncFile(c), driver = "file" PROVE Held
  <2>1. UNCHANGED <<file, since>>
    BY <1>2 DEF SyncFile, diskVars
  <2>2. CASE synced' = Len(file) /\ acked' = acked \cup {event[c]}
    <3>1. \E i \in DOMAIN file : file[i] = [event |-> event[c], whole |-> TRUE]
      BY <1>1, <1>2 DEF FileInOrder, FileSorted, FileAt, SyncFile
    <3>2. DOMAIN file = 1..synced'
      BY <1>1, <2>2, LenProperties DEF TypeOK, DataTypes
    <3>3. \A e \in acked : e.id > since => \E i \in 1..synced' : file'[i] = [event |-> e, whole |-> TRUE]
      BY <1>1, <1>2, <1>n, <2>1, <2>2, AckedAnyway
    <3>4. QED
      BY <2>1, <2>2, <3>1, <3>2, <3>3
  <2>3. CASE UNCHANGED <<synced, acked>>
    BY <1>2, <1>u, <2>1, <2>3
  <2>4. QED
    BY <1>2, <2>2, <2>3 DEF SyncFile
<1>3. ASSUME NEW c \in Callers, AppendLine(c), driver = "file" PROVE Held
  <2>1. \A i \in 1..Len(file) : file'[i] = file[i]
    BY <1>1, <1>3, AppendedFile
  <2>2. \A i \in 1..synced : i \in 1..Len(file)
    BY <1>n
  <2>3. QED
    BY <1>3, <1>u, <2>1, <2>2 DEF AppendLine, diskVars
<1>4. ASSUME PowerLoss, driver = "file" PROVE Held
  <2>1. acked' = acked
    BY <1>4 DEF PowerLoss, Die
  <2>2. CASE FileCut
    <3>1. /\ Len(file') \in synced..Len(file) /\ synced' = Len(file') /\ since' = since
          /\ \A i \in 1..synced : file'[i] = file[i]
      BY <1>1, <2>2, FileAfterCut DEF FileCut
    <3>2. synced' \in Nat /\ synced <= synced'
      BY <1>n, <3>1
    <3>3. QED
      BY <1>1, <1>4, <2>1, <3>1, <3>2, AckedAnyway
  <2>3. CASE FileGone
    <3>1. since' = born /\ born \in Nat /\ since \in Nat /\ since <= born
      BY <1>1, <2>3 DEF FileGone, FileInOrder, FileSorted, TypeOK, DataTypes
    <3>2. \A e \in acked : e.id \in Nat
      BY <1>1 DEF TypeOK, DataTypes, Event
    <3>3. ASSUME NEW e \in acked, e.id > since' PROVE FALSE
      <4>1. PICK i \in 1..synced : file[i] = [event |-> e, whole |-> TRUE]
        BY <1>1, <1>4, <3>1, <3>2, <3>3 DEF AckedIsStored
      <4>2. i \in DOMAIN file /\ file[i].event = e
        BY <1>1, <1>n, <4>1, LenProperties DEF TypeOK, DataTypes
      <4>3. e.id <= born
        BY <1>1, <4>2 DEF FileInOrder, FileSorted
      <4>4. QED
        BY <3>1, <3>2, <3>3, <4>3
    <3>4. QED
      BY <2>1, <3>3
  <2>4. QED
    BY <1>4, <2>2, <2>3 DEF PowerLoss
<1>5. ASSUME NEW c \in Callers, Step(c), ~SyncFile(c), ~AppendLine(c), driver = "file" PROVE Held
  <2>1. ~CommitRow(c)
    BY <1>1, <1>5 DEF FileInOrder, FileAt, CommitRow
  <2>2. UNCHANGED <<acked, synced, file, since>>
    BY <1>5, <2>1 DEF Step, EnsureMigrationTable, MigrationAlreadyApplied, ApplyMigration, InsertVersion,
                CommitMigrations, Rollback, TakeConnection, InsertRow, SelectRows, ScanFile,
                CloseStore, dataVars, diskVars
  <2>3. QED
    BY <1>5, <1>u, <2>2
<1>6. ASSUME \/ \E c \in Callers : CallRecord(c) \/ CallTail(c) \/ Cancel(c)
             \/ \E p \in Procs : Open(p) \/ Kill(p)
             \/ SyncDirectory
             \/ Tick
             \/ UNCHANGED vars,
             driver = "file"
      PROVE  Held
  <2>1. UNCHANGED <<acked, synced, file, since>>
    BY <1>6 DEF CallRecord, CallTail, Cancel, Open, Kill, Die, SyncDirectory, Tick, vars, dataVars, diskVars
  <2>2. QED
    BY <1>6, <1>u, <2>1
<1>7. driver = "file" => Held
  BY <1>1, <1>2, <1>3, <1>4, <1>5, <1>6 DEF Next, Callers
<1>8. driver' = driver
  BY <1>1, DriverStays
<1> HIDE DEF Held
<1>9. QED
  BY <1>s, <1>7, <1>8 DEF AckedIsStored, Held

(* The lines audit tail prints are the last ones, so with an event it      *)
(* prints what is behind it in the file.                                   *)
LEMMA LaterLines ==
  ASSUME TypeOK, NEW i \in DOMAIN file, NEW k \in DOMAIN file, i < k
  PROVE  LineOf(i) \in Int /\ LineOf(k) \in Int /\ LineOf(i) <= LineOf(k) /\ NLines \in Int
<1>1. DOMAIN file = 1..Len(file) /\ Len(file) \in Nat
  BY LenProperties DEF TypeOK, DataTypes
<1>2. IsFiniteSet(LineStarts) /\ LineStarts \in SUBSET (1..Len(file))
  <2>1. LineStarts \in SUBSET (1..Len(file))
    BY <1>1 DEF LineStarts
  <2>2. IsFiniteSet(1..Len(file))
    BY <1>1, FS_Interval
  <2>3. QED
    BY <2>1, <2>2, FS_Subset
<1> DEFINE A == {j \in LineStarts : j <= i}
           B == {j \in LineStarts : j <= k}
<1>3. A \in SUBSET B /\ B \in SUBSET LineStarts
  <2>1. i \in Nat /\ k \in Nat /\ \A j \in LineStarts : j \in Nat
    BY <1>1, <1>2
  <2>2. \A j \in LineStarts : j <= i => j <= k
    BY <2>1
  <2>3. QED
    BY <2>2
<1>4. IsFiniteSet(B)
  BY <1>2, <1>3, FS_Subset
<1>5. IsFiniteSet(A) /\ Cardinality(A) <= Cardinality(B)
  BY <1>3, <1>4, FS_Subset
<1>6. Cardinality(A) \in Nat /\ Cardinality(B) \in Nat /\ Cardinality(LineStarts) \in Nat
  BY <1>2, <1>4, <1>5, FS_CardinalityType
<1>7. QED
  BY <1>5, <1>6 DEF LineOf, NLines

LEMMA NextTail == TypeOK /\ FileInOrder /\ TailIsRecent /\ [Next]_vars => TailIsRecent'
<1>1. SUFFICES ASSUME TypeOK, FileInOrder, TailIsRecent, [Next]_vars PROVE TailIsRecent'
  OBVIOUS
<1>t. CallTypes /\ DataTypes
  BY <1>1 DEF TypeOK
<1>u. ASSUME \A d \in Callers : shown'[d] = shown[d] \/ shown'[d] = Blank PROVE TailIsRecent'
  BY <1>1, <1>u DEF TailIsRecent, Blank
<1>r. ASSUME NEW c \in Callers, Release(c) PROVE TailIsRecent'
  BY <1>t, <1>r, <1>u DEF Release, CallTypes
<1>s. ASSUME NEW c \in Callers, NEW E, NEW A,
             shown' = [shown EXCEPT ![c] = [events |-> E, of |-> A]],
             \A e \in E, f \in A : e.id \in f.after /\ e.sec < f.sec => f \in E
      PROVE  TailIsRecent'
  <2>1. /\ shown'[c].events = E /\ shown'[c].of = A
        /\ \A d \in Callers \ {c} : shown'[d] = shown[d]
    BY <1>t, <1>s DEF CallTypes
  <2>2. QED
    BY <1>1, <1>s, <2>1 DEF TailIsRecent
<1>2. ASSUME NEW c \in Callers, SelectRows(c) PROVE TailIsRecent'
  <2>1. ASSUME NEW n, NEW S \in Latest(n), shown' = [shown EXCEPT ![c] = [events |-> S, of |-> Rows]]
        PROVE  TailIsRecent'
    <3>1. \A e \in S, f \in Rows \ S : f.sec <= e.sec
      BY DEF Latest
    <3>2. \A f \in Rows : f.sec \in Nat
      BY <1>1, RowsType DEF Event
    <3>3. \A e \in S, f \in Rows : e.id \in f.after /\ e.sec < f.sec => f \in S
      BY <3>1, <3>2 DEF Latest
    <3>4. QED
      BY <1>s, <2>1, <3>3
  <2>2. CASE UNCHANGED shown
    BY <1>u, <2>2
  <2>3. QED
    BY <1>2, <2>1, <2>2 DEF SelectRows
<1>3. ASSUME NEW c \in Callers, ScanFile(c) PROVE TailIsRecent'
  <2> DEFINE P == {i \in DOMAIN file : limit[c] > 0 => LineOf(i) > NLines - limit[c]}
             E == {file[i].event : i \in P}
             A == {file[i].event : i \in DOMAIN file}
  <2>1. shown' = [shown EXCEPT ![c] = [events |-> E, of |-> A]]
    BY <1>3 DEF ScanFile
  <2>2. ASSUME NEW e \in E, NEW f \in A, e.id \in f.after PROVE f \in E
    <3>1. PICK i \in P : e = file[i].event
      BY <2>2
    <3>2. PICK k \in DOMAIN file : f = file[k].event
      BY <2>2
    <3>3. PICK j \in 1..synced : file[j].event.id = e.id /\ j < k
      <4>1. e.id > since
        BY <1>1, <3>1 DEF FileInOrder, FileSorted
      <4>2. QED
        BY <1>1, <2>2, <3>2, <4>1 DEF FileInOrder, FileSorted, FileAt
    <3>4. j \in DOMAIN file
      BY <1>t, LenProperties DEF DataTypes
    <3>5. i = j
      BY <1>1, <3>1, <3>3, <3>4 DEF FileInOrder, FileSorted, FileAt
    <3>6. LineOf(i) \in Int /\ LineOf(k) \in Int /\ LineOf(i) <= LineOf(k) /\ NLines \in Int
      BY <1>1, <3>2, <3>3, <3>4, <3>5, LaterLines
    <3>7. limit[c] \in Int
      BY <1>t DEF CallTypes
    <3>8. k \in P
      BY <3>1, <3>6, <3>7
    <3>9. QED
      BY <3>2, <3>8
  <2> HIDE DEF E, A
  <2>3. QED
    BY <1>s, <2>1, <2>2
<1>4. ASSUME NEW c \in Callers,
             \/ CommitMigrations(c) \/ Rollback(c) \/ CommitRow(c) \/ SyncFile(c) \/ CloseStore(c)
      PROVE  TailIsRecent'
  <2>1. Release(c) \/ UNCHANGED shown
    BY <1>4 DEF CommitMigrations, Rollback, CommitRow, SyncFile, CloseStore
  <2>2. QED
    BY <1>r, <1>u, <2>1
<1>5. ASSUME \/ \E c \in Callers :
                 \/ EnsureMigrationTable(c) \/ MigrationAlreadyApplied(c) \/ ApplyMigration(c)
                 \/ InsertVersion(c) \/ TakeConnection(c) \/ InsertRow(c) \/ AppendLine(c)
                 \/ CallRecord(c) \/ CallTail(c) \/ Cancel(c)
             \/ \E p \in Procs : Open(p)
             \/ SyncDirectory
             \/ Tick
             \/ UNCHANGED vars
      PROVE  TailIsRecent'
  <2>1. UNCHANGED shown
    BY <1>5 DEF EnsureMigrationTable, MigrationAlreadyApplied, ApplyMigration, InsertVersion,
       TakeConnection, InsertRow, AppendLine, CallRecord, CallTail, Cancel, Open,
       SyncDirectory, Tick, vars
  <2>2. QED
    BY <1>u, <2>1
<1>6. ASSUME PowerLoss \/ \E p \in Procs : Kill(p) PROVE TailIsRecent'
  <2>1. PICK ps \in SUBSET Procs : Die(ps)
    BY <1>6 DEF PowerLoss, Kill
  <2>2. \A d \in Callers : shown'[d] = shown[d] \/ shown'[d] = Blank
    BY <2>1 DEF Die
  <2>3. QED
    BY <1>u, <2>2
<1>7. QED
  BY <1>1, <1>2, <1>3, <1>4, <1>5, <1>6 DEF Next, Step, Callers

LEMMA FewSpoiled == TypeOK /\ FileInOrder /\ AckedIsStored => TornSpoilsOne
<1>1. SUFFICES ASSUME TypeOK, FileInOrder, AckedIsStored PROVE TornSpoilsOne
  OBVIOUS
<1>2. DOMAIN file = 1..Len(file) /\ Len(file) \in Nat /\ synced \in 0..Len(file)
  BY <1>1, LenProperties DEF TypeOK, DataTypes
<1>3. IsFiniteSet(Torn)
  <2>1. Torn \in SUBSET (1..Len(file))
    BY <1>2 DEF Torn
  <2>2. QED
    <3>1. IsFiniteSet(1..Len(file))
      BY <1>2, FS_Interval
    <3>2. QED
      BY <2>1, <3>1, FS_Subset
<1>4. \A i \in Spoiled : i \notin Torn
  <2>1. SUFFICES ASSUME NEW i \in Spoiled, i \in Torn PROVE FALSE
    OBVIOUS
  <2>2. i \in DOMAIN file /\ file[i].event \in acked /\ ~file[i].whole
    BY <2>1 DEF Spoiled, Torn
  <2>3. driver = "file"
    BY <1>1, <2>2 DEF FileInOrder, FileSorted, FileAt, TypeOK, DataTypes
  <2>4. PICK j \in 1..synced : file[j] = [event |-> file[i].event, whole |-> TRUE]
    BY <1>1, <2>2, <2>3 DEF AckedIsStored, FileInOrder, FileSorted
  <2>5. j \in DOMAIN file /\ file[j].event = file[i].event /\ file[j].whole
    BY <1>2, <2>4
  <2>6. i = j
    BY <1>1, <2>2, <2>5 DEF FileInOrder, FileSorted, FileAt
  <2>7. QED
    BY <2>2, <2>5, <2>6
<1>5. \A i \in Spoiled : i \in Int /\ i - 1 \in Torn
  BY <1>2, <1>4 DEF Spoiled, LineStarts, Torn
<1> DEFINE before == [i \in Spoiled |-> i - 1]
<1>6. before \in Injection(Spoiled, Torn)
  BY <1>5 DEF Injection, IsInjective
<1>7. Cardinality(Spoiled) <= Cardinality(Torn)
  BY <1>3, <1>6, FS_Injection
<1>8. QED
  BY <1>7 DEF TornSpoilsOne

-----------------------------------------------------------------------------
(* The theorems.                                                           *)

(* The invariant of the store: it holds initially and every step of every  *)
(* process, kill and power failure included, preserves it.                 *)
THEOREM StoreInvariance == Spec => []IInv
<1>1. Init => IInv
  BY InitType, InitConnection, InitMigrates, InitBusy, InitFile DEF IInv
<1>2. IInv /\ [Next]_vars => IInv'
  BY NextType, NextConnection, NextMigrates, NextSchema, NextBusy, NextFile, NextAcked,
     NextUndo, NextTail
     DEF IInv
<1>3. QED
  BY <1>1, <1>2, PTL DEF Spec

(* However many processes open a store, and wherever they fail, the        *)
(* versions recorded are the migrations made.                              *)
THEOREM MigratesWhole == Spec => []SchemaIsWhole
<1>1. IInv => SchemaIsWhole
  BY DEF IInv
<1>2. QED
  BY <1>1, StoreInvariance, PTL

(* With one connection per process its handlers are never in each other's  *)
(* way.                                                                    *)
THEOREM NeverBusyInside == Spec => []BusyComesFromOutside
<1>1. IInv => BusyComesFromOutside
  BY DEF IInv
<1>2. QED
  BY <1>1, StoreInvariance, PTL

(* What Record has acknowledged is in the store, whoever is killed and     *)
(* whatever fails, but for what a power failure takes: with SQLite at most *)
(* one event for each, with the file driver none once the directory has    *)
(* been synced, and otherwise all.                                         *)
THEOREM RecordIsDurable == Spec => []AckedIsStored
<1>1. IInv => AckedIsStored
  BY DEF IInv
<1>2. QED
  BY <1>1, StoreInvariance, PTL

(* A write that was cut off spoils at most one acknowledged event. *)
THEOREM TornLinesAreBounded == Spec => []TornSpoilsOne
<1>1. IInv => TornSpoilsOne
  BY FewSpoiled DEF IInv
<1>2. QED
  BY <1>1, StoreInvariance, PTL

(* audit tail never prints an event and leaves out a later one. *)
THEOREM TailsRecently == Spec => []TailIsRecent
<1>1. IInv => TailIsRecent
  BY DEF IInv
<1>2. QED
  BY <1>1, StoreInvariance, PTL

-----------------------------------------------------------------------------
(* Why every call ends, as far as it is a matter of safety: a call goes    *)
(* forward, and where it waits it waits for one that does not.             *)

(* Who waits for the connection waits for another caller of the process    *)
(* that is in the middle of a statement or about to give it back: nobody   *)
(* waits for a connection it has, or for one that a waiter has.            *)
WaitsForUser ==
  \A c \in Callers : pc[c] \in {"take", "take_rows"} =>
    \A d \in conns[ProcOf[c]] :
      d # c /\ ProcOf[d] = ProcOf[c] /\ pc[d] \notin {"idle", "take", "take_rows"}

(* With SetMaxOpenConns(1) no statement waits for another that waits too. *)
THEOREM NoWaitBehindWaiter == Spec => []WaitsForUser
<1>1. IInv => WaitsForUser
  BY Constants DEF IInv, OneConnection, WaitsForUser
<1>2. QED
  BY <1>1, StoreInvariance, PTL

(* A bound on the steps a call has left, with m the migration it looks at. *)
StepsLeft(step, m) ==
  CASE step = "idle" -> 0
    [] step \in {"rollback", "close"} -> 1
    [] step \in {"commit", "commit_row", "sync", "select", "scan"} -> 2
    [] step \in {"insert_row", "append", "take_rows"} -> 3
    [] step = "take" -> 4
    [] step = "insert" -> 3 * (NMigrations - m) + 4
    [] step = "apply" -> 3 * (NMigrations - m) + 5
    [] step = "check" -> 3 * (NMigrations - m) + 6
    [] step = "ensure" -> 3 * NMigrations + 4

(* Every step that a call of c takes, or that ends it from outside, leaves *)
(* fewer to take: opening ends after 3 * NMigrations + 4 of them, a Record *)
(* or a tail after 4.  There is no loop over SQLITE_BUSY.                  *)
CallsAdvance ==
  [][\A c \in Callers :
       pc[c] # "idle" /\ (pc'[c] # pc[c] \/ mig'[c] # mig[c]) =>
         StepsLeft(pc'[c], mig'[c]) < StepsLeft(pc[c], mig[c])]_vars

LEMMA StepsLeftIs ==
  ASSUME NEW m
  PROVE  /\ StepsLeft("idle", m) = 0 /\ StepsLeft("rollback", m) = 1
         /\ StepsLeft("close", m) = 1 /\ StepsLeft("commit", m) = 2
         /\ StepsLeft("commit_row", m) = 2 /\ StepsLeft("sync", m) = 2
         /\ StepsLeft("select", m) = 2 /\ StepsLeft("scan", m) = 2
         /\ StepsLeft("insert_row", m) = 3 /\ StepsLeft("append", m) = 3
         /\ StepsLeft("take_rows", m) = 3 /\ StepsLeft("take", m) = 4
         /\ StepsLeft("insert", m) = 3 * (NMigrations - m) + 4
         /\ StepsLeft("apply", m) = 3 * (NMigrations - m) + 5
         /\ StepsLeft("check", m) = 3 * (NMigrations - m) + 6
         /\ StepsLeft("ensure", m) = 3 * NMigrations + 4
BY DEF StepsLeft

(* A transaction looks at the migrations in order, and at most at one more *)
(* than there are.                                                         *)
LEMMA LooksInOrder ==
  ASSUME TypeOK, MigratesInOrder, NEW c \in Callers,
         pc[c] \in {"check", "apply", "insert", "commit"}
  PROVE  mig[c] \in Nat \ {0} /\ mig[c] <= NMigrations + 1
<1>1. mig[c] \in Nat \ {0} /\ NMigrations \in Nat
  BY StoreAssumption DEF TypeOK, CallTypes, Migration
<1>2. 1..(mig[c] - 1) \subseteq Versions
  <2>1. db.versions \subseteq Versions /\ pend[c].versions \subseteq Versions
    BY DEF TypeOK, CallTypes, DataTypes, Database, Writes
  <2>2. QED
    BY <2>1 DEF MigratesInOrder, MigratesAt
<1>3. CASE mig[c] = 1
  BY <1>1, <1>3
<1>4. CASE mig[c] # 1
  <2>1. mig[c] - 1 \in 1..(mig[c] - 1)
    BY <1>1, <1>4
  <2>2. QED
    BY <1>1, <1>2, <2>1 DEF Versions
<1>5. QED
  BY <1>3, <1>4

(* A call that is under way has a step left. *)
LEMMA StepsLeftPositive ==
  ASSUME TypeOK, MigratesInOrder, NEW c \in Callers, pc[c] # "idle"
  PROVE  StepsLeft(pc[c], mig[c]) \in Nat \ {0}
<1>1. pc[c] \in Steps /\ NMigrations \in Nat
  BY StoreAssumption DEF TypeOK, CallTypes
<1>2. CASE pc[c] \in {"check", "apply", "insert"}
  <2>1. mig[c] \in Nat /\ mig[c] <= NMigrations + 1
    BY <1>2, LooksInOrder
  <2>2. pc[c] \in {"apply", "insert"} => mig[c] <= NMigrations
    BY <1>1, <2>1 DEF MigratesInOrder, MigratesAt, Versions
  <2>3. QED
    BY <1>1, <1>2, <2>1, <2>2, StepsLeftIs
<1>3. CASE pc[c] \notin {"check", "apply", "insert"}
  BY <1>1, <1>3, StepsLeftIs DEF Steps
<1>4. QED
  BY <1>2, <1>3

(* Opening the store, Record and audit tail go forward with every step,    *)
(* whoever else uses the database and whatever fails.                      *)
THEOREM CallsAreBounded == Spec => CallsAdvance
<1> DEFINE Ahead(c) ==
      pc[c] # "idle" /\ (pc'[c] # pc[c] \/ mig'[c] # mig[c]) =>
        StepsLeft(pc'[c], mig'[c]) < StepsLeft(pc[c], mig[c])
           Forward == \A c \in Callers : Ahead(c)
<1>1. ASSUME IInv, [Next]_vars
      PROVE  Forward
  <2>0. /\ TypeOK /\ MigratesInOrder /\ NMigrations \in Nat
        /\ pc \in [Callers -> Steps] /\ mig \in [Callers -> Nat \ {0}]
    BY <1>1, StoreAssumption DEF IInv, TypeOK, CallTypes, Migration
  <2>1. ASSUME NEW c \in Callers, pc'[c] = "idle" \/ (pc'[c] = pc[c] /\ mig'[c] = mig[c])
        PROVE  Ahead(c)
    BY <2>0, <2>1, StepsLeftIs, StepsLeftPositive
  <2>2. ASSUME NEW c \in Callers, NEW step, Goto(c, step), UNCHANGED mig,
               StepsLeft(step, mig[c]) < StepsLeft(pc[c], mig[c]) \/ pc[c] = "idle"
        PROVE  Forward
    <3>1. Ahead(c)
      BY <2>0, <2>2 DEF Goto
    <3>2. \A d \in Callers \ {c} : pc'[d] = pc[d] /\ mig'[d] = mig[d]
      BY <2>0, <2>2 DEF Goto
    <3>3. QED
      BY <2>1, <3>1, <3>2
  <2>3. ASSUME NEW c \in Callers, Release(c)
        PROVE  Forward
    <3>1. \A d \in Callers : pc'[d] = "idle" \/ (pc'[d] = pc[d] /\ mig'[d] = mig[d])
      BY <2>0, <2>3 DEF Release, Goto
    <3>2. QED
      BY <2>1, <3>1
  <2>4. ASSUME NEW c \in Callers, Goto(c, "rollback"), UNCHANGED mig,
               pc[c] \notin {"idle", "rollback", "close"}
        PROVE  Forward
    <3>1. StepsLeft(pc[c], mig[c]) > 1
      <4>1. CASE pc[c] \in {"check", "apply", "insert"}
        <5>1. mig[c] \in Nat /\ mig[c] <= NMigrations + 1
          BY <2>0, <4>1, LooksInOrder
        <5>2. pc[c] \in {"apply", "insert"} => mig[c] <= NMigrations
          BY <2>0 DEF MigratesInOrder, MigratesAt, Versions
        <5>3. QED
          BY <2>0, <4>1, <5>1, <5>2, StepsLeftIs
      <4>2. CASE pc[c] \notin {"check", "apply", "insert"}
        BY <2>0, <2>4, <4>2, StepsLeftIs DEF Steps
      <4>3. QED
        BY <4>1, <4>2
    <3>2. QED
      BY <2>2, <2>4, <3>1, StepsLeftIs
  <2> HIDE DEF Forward, Ahead
  <2>5. ASSUME NEW c \in Callers, EnsureMigrationTable(c)
        PROVE  Forward
    <3>1. pc[c] = "ensure" /\ mig[c] = 1 /\ UNCHANGED mig
      BY <2>0, <2>5 DEF EnsureMigrationTable, MigratesInOrder, MigratesAt
    <3>2. Goto(c, "check") \/ Goto(c, "rollback")
      BY <2>5 DEF EnsureMigrationTable, Busy
    <3>3. QED
      BY <2>0, <2>2, <2>4, <3>1, <3>2, StepsLeftIs
  <2>6. ASSUME NEW c \in Callers, MigrationAlreadyApplied(c)
        PROVE  Forward
    <3>1. pc[c] = "check" /\ mig[c] \in Nat \ {0} /\ mig[c] <= NMigrations + 1
      BY <2>0, <2>6, LooksInOrder DEF MigrationAlreadyApplied
    <3>2. CASE UNCHANGED pc /\ mig' = [mig EXCEPT ![c] = @ + 1]
      <4>1. Ahead(c)
        BY <2>0, <3>1, <3>2, StepsLeftIs DEF Ahead
      <4>2. \A d \in Callers \ {c} : pc'[d] = pc[d] /\ mig'[d] = mig[d]
        BY <2>0, <3>2
      <4>3. QED
        BY <2>1, <4>1, <4>2 DEF Forward
    <3>3. CASE Goto(c, "commit") /\ UNCHANGED mig
      BY <2>0, <2>2, <3>1, <3>3, StepsLeftIs
    <3>4. CASE Goto(c, "apply") /\ UNCHANGED mig
      BY <2>0, <2>2, <3>1, <3>4, StepsLeftIs
    <3>5. QED
      BY <2>6, <3>2, <3>3, <3>4 DEF MigrationAlreadyApplied
  <2>7. ASSUME NEW c \in Callers, ApplyMigration(c)
        PROVE  Forward
    <3>1. pc[c] = "apply" /\ UNCHANGED mig /\ mig[c] \in Nat
      BY <2>0, <2>7 DEF ApplyMigration
    <3>2. Goto(c, "insert") \/ Goto(c, "rollback")
      BY <2>7 DEF ApplyMigration, Busy
    <3>3. QED
      BY <2>0, <2>2, <2>4, <3>1, <3>2, StepsLeftIs
  <2>8. ASSUME NEW c \in Callers, InsertVersion(c)
        PROVE  Forward
    <3>1. pc[c] = "insert" /\ mig' = [mig EXCEPT ![c] = @ + 1] /\ Goto(c, "check")
      BY <2>8 DEF InsertVersion
    <3>2. Ahead(c)
      <4>1. pc'[c] = "check" /\ mig'[c] = mig[c] + 1 /\ mig[c] \in Nat
        BY <2>0, <3>1 DEF Goto
      <4>2. StepsLeft("check", mig[c] + 1) < StepsLeft("insert", mig[c])
        BY <2>0, <4>1, StepsLeftIs
      <4>3. QED
        BY <3>1, <4>1, <4>2 DEF Ahead
    <3>3. \A d \in Callers \ {c} : pc'[d] = pc[d] /\ mig'[d] = mig[d]
      BY <2>0, <3>1 DEF Goto
    <3>4. QED
      BY <2>1, <3>2, <3>3 DEF Forward
  <2>9. ASSUME NEW c \in Callers, CommitMigrations(c) \/ CommitRow(c)
        PROVE  Forward
    BY <2>3, <2>4, <2>9 DEF CommitMigrations, CommitRow, Busy
  <2>10. ASSUME NEW c \in Callers, Rollback(c) \/ SyncFile(c) \/ CloseStore(c)
         PROVE  Forward
    BY <2>3, <2>10 DEF Rollback, SyncFile, CloseStore
  <2>11. ASSUME NEW c \in Callers, TakeConnection(c)
         PROVE  Forward
    <3>1. UNCHANGED mig /\ \/ pc[c] = "take" /\ Goto(c, "insert_row")
                           \/ pc[c] = "take_rows" /\ Goto(c, "select")
      BY <2>11 DEF TakeConnection
    <3>2. QED
      BY <2>2, <3>1, StepsLeftIs
  <2>12. ASSUME NEW c \in Callers, InsertRow(c)
         PROVE  Forward
    BY <2>2, <2>4, <2>12, StepsLeftIs DEF InsertRow, Busy
  <2>13. ASSUME NEW c \in Callers, AppendLine(c)
         PROVE  Forward
    BY <2>2, <2>4, <2>13, StepsLeftIs DEF AppendLine
  <2>14. ASSUME NEW c \in Callers, SelectRows(c)
         PROVE  Forward
    <3>1. pc[c] = "select" /\ UNCHANGED mig /\ (Goto(c, "close") \/ Goto(c, "rollback"))
      BY <2>14 DEF SelectRows, Busy
    <3>2. QED
      BY <2>2, <2>4, <3>1, StepsLeftIs
  <2>15. ASSUME NEW c \in Callers, ScanFile(c)
         PROVE  Forward
    <3>1. pc[c] = "scan" /\ UNCHANGED mig /\ Goto(c, "close")
      BY <2>15 DEF ScanFile
    <3>2. QED
      BY <2>2, <3>1, StepsLeftIs
  <2>16. ASSUME NEW c \in Callers, Step(c)
         PROVE  Forward
    BY <2>5, <2>6, <2>7, <2>8, <2>9, <2>10, <2>11, <2>12, <2>13, <2>14, <2>15, <2>16 DEF Step
  <2>17. ASSUME NEW p \in Procs, Open(p)
         PROVE  Forward
    <3>1. Main[p] \in Callers /\ ProcOf[Main[p]] = p /\ UNCHANGED mig
      BY <2>17, Constants DEF Open
    <3>2. pc[Main[p]] = "idle"
      BY <1>1, <2>17, <3>1 DEF IInv, OneConnection, Open
    <3>3. UNCHANGED pc \/ Goto(Main[p], "ensure")
      BY <2>17 DEF Open
    <3>4. QED
      BY <2>1, <2>2, <3>1, <3>2, <3>3 DEF Forward
  <2>18. ASSUME NEW c \in Callers, CallRecord(c) \/ CallTail(c)
         PROVE  Forward
    <3>1. pc[c] = "idle" /\ UNCHANGED mig /\ \E step : Goto(c, step)
      BY <2>18 DEF CallRecord, CallTail
    <3>2. QED
      BY <2>2, <3>1
  <2>19. ASSUME NEW c \in Callers, Cancel(c)
         PROVE  Forward
    BY <2>4, <2>19 DEF Cancel
  <2>20. ASSUME NEW ps, Die(ps)
         PROVE  Forward
    <3>1. \A c \in Callers : pc'[c] = "idle" \/ (pc'[c] = pc[c] /\ mig'[c] = mig[c])
      BY <2>20 DEF Die
    <3>2. QED
      BY <2>1, <3>1 DEF Forward
  <2>21. CASE SyncDirectory \/ Tick \/ UNCHANGED vars
    BY <2>1, <2>21 DEF SyncDirectory, Tick, vars, callVars, Forward
  <2>22. QED
    BY <1>1, <2>16, <2>17, <2>18, <2>19, <2>20, <2>21 DEF Next, Kill, PowerLoss, Callers
<1>2. QED
  BY <1>1, StoreInvariance, PTL DEF Spec, CallsAdvance
=============================================================================
