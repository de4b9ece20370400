------------------------ MODULE WriteFileAtomicProofs ------------------------
(***************************************************************************)
(* Proofs about WriteFileAtomic, for any set of concurrent calls: it       *)
(* implements the register of DurableFile, and its errors leave nothing.   *)
(***************************************************************************)
EXTENDS WriteFileAtomic, TLAPS

-----------------------------------------------------------------------------
(* The inductive invariant.                                                *)

LEMMA TypeStep ==
  ASSUME TypeOK, [Next]_vars
  PROVE  TypeOK'
<1> USE DEF inodes, history
<1>1. ASSUME NEW c \in Calls, CreateTemp(c) PROVE TypeOK'
  BY <1>1 DEF CreateTemp, Goto, TypeOK, Steps, Images
<1>2. ASSUME NEW c \in Calls, Write(c) PROVE TypeOK'
  BY <1>2 DEF Write, Goto, TypeOK, Steps, Images
<1>3. ASSUME NEW c \in Calls, Chmod(c) PROVE TypeOK'
  BY <1>3 DEF Chmod, Goto, TypeOK, Steps, Images
<1>4. ASSUME NEW c \in Calls, Sync(c) PROVE TypeOK'
  BY <1>4 DEF Sync, Goto, TypeOK, Steps
<1>5. ASSUME NEW c \in Calls, Close(c) PROVE TypeOK'
  BY <1>5 DEF Close, Goto, TypeOK, Steps
<1>6. ASSUME NEW c \in Calls, Rename(c) PROVE TypeOK'
  BY <1>6 DEF Rename, Goto, TypeOK, Steps
<1>7. ASSUME NEW c \in Calls, Fail(c) PROVE TypeOK'
  BY <1>7 DEF Fail, Goto, TypeOK, Steps
<1>8. ASSUME NEW c \in Calls, SyncDir(c) PROVE TypeOK'
  BY <1>8 DEF SyncDir, Goto, TypeOK, Steps
<1>9. ASSUME NEW c \in Calls, Writeback(c) PROVE TypeOK'
  BY <1>9 DEF Writeback, TypeOK, Images
<1>10. ASSUME NEW c \in Calls, Kill(c) PROVE TypeOK'
  BY <1>10 DEF Kill, Goto, TypeOK, Steps
<1>11. CASE DirWriteback
  BY <1>11 DEF DirWriteback, TypeOK
<1>12. CASE PowerLoss
  BY <1>12 DEF PowerLoss, TypeOK, Steps
<1>13. CASE UNCHANGED vars
  BY <1>13 DEF vars, TypeOK
<1>14. QED
  BY <1>1, <1>2, <1>3, <1>4, <1>5, <1>6, <1>7, <1>8, <1>9, <1>10, <1>11, <1>12,
     <1>13 DEF Next

(* What has the target's name, or is about to get it, stays complete. *)
LEMMA InodeStep ==
  ASSUME IInv, [Next]_vars
  PROVE  InodeInv'
<1> USE DEF inodes, history
<1>0. TypeOK /\ InodeInv /\ RankInv
  BY DEF IInv
<1>1. ASSUME NEW c \in Calls, CreateTemp(c) PROVE InodeInv'
  BY <1>0, <1>1 DEF CreateTemp, Goto, TypeOK, InodeInv, RankInv, Complete
<1>2. ASSUME NEW c \in Calls, Write(c) PROVE InodeInv'
  BY <1>0, <1>2 DEF Write, Goto, TypeOK, InodeInv, RankInv, Complete, TempSteps
<1>3. ASSUME NEW c \in Calls, Chmod(c) PROVE InodeInv'
  BY <1>0, <1>3 DEF Chmod, Goto, TypeOK, InodeInv, RankInv, Complete, TempSteps
<1>4. ASSUME NEW c \in Calls, Sync(c) PROVE InodeInv'
  BY <1>0, <1>4 DEF Sync, Goto, TypeOK, InodeInv, RankInv, Complete, TempSteps
<1>5. ASSUME NEW c \in Calls, Close(c) PROVE InodeInv'
  BY <1>0, <1>5 DEF Close, Goto, TypeOK, InodeInv, Complete
<1>6. ASSUME NEW c \in Calls, Rename(c) PROVE InodeInv'
  BY <1>0, <1>6 DEF Rename, Goto, TypeOK, InodeInv, Complete
<1>7. ASSUME NEW c \in Calls, Fail(c) PROVE InodeInv'
  BY <1>0, <1>7 DEF Fail, Goto, TypeOK, InodeInv, Complete
<1>8. ASSUME NEW c \in Calls, SyncDir(c) PROVE InodeInv'
  BY <1>0, <1>8 DEF SyncDir, Goto, TypeOK, InodeInv, Complete
<1>9. ASSUME NEW c \in Calls, Writeback(c) PROVE InodeInv'
  BY <1>0, <1>9 DEF Writeback, TypeOK, InodeInv, Complete
<1>10. ASSUME NEW c \in Calls, Kill(c) PROVE InodeInv'
  BY <1>0, <1>10 DEF Kill, Goto, TypeOK, InodeInv, Complete
<1>11. CASE DirWriteback
  BY <1>0, <1>11 DEF DirWriteback, InodeInv, Complete
<1>12. CASE PowerLoss
  BY <1>0, <1>12 DEF PowerLoss, TypeOK, InodeInv, Complete
<1>13. CASE UNCHANGED vars
  BY <1>0, <1>13 DEF vars, InodeInv, Complete
<1>14. QED
  BY <1>1, <1>2, <1>3, <1>4, <1>5, <1>6, <1>7, <1>8, <1>9, <1>10, <1>11, <1>12,
     <1>13 DEF Next

(* Neither the path nor its image on the disk falls behind what settled. *)
LEMMA RankStep ==
  ASSUME IInv, [Next]_vars
  PROVE  RankInv'
<1> USE DEF inodes, history, TempSteps
<1>0. TypeOK /\ RankInv
  BY DEF IInv
<1>1. ASSUME NEW c \in Calls, CreateTemp(c) PROVE RankInv'
  BY <1>0, <1>1 DEF CreateTemp, Goto, TypeOK, RankInv, RankOf
<1>2. ASSUME NEW c \in Calls, Write(c) PROVE RankInv'
  BY <1>0, <1>2 DEF Write, Goto, TypeOK, RankInv, RankOf
<1>3. ASSUME NEW c \in Calls, Chmod(c) PROVE RankInv'
  BY <1>0, <1>3 DEF Chmod, Goto, TypeOK, RankInv, RankOf
<1>4. ASSUME NEW c \in Calls, Sync(c) PROVE RankInv'
  BY <1>0, <1>4 DEF Sync, Goto, TypeOK, RankInv, RankOf
<1>5. ASSUME NEW c \in Calls, Close(c) PROVE RankInv'
  BY <1>0, <1>5 DEF Close, Goto, TypeOK, RankInv, RankOf
<1>6. ASSUME NEW c \in Calls, Rename(c) PROVE RankInv'
  BY <1>0, <1>6, NoFileAssumption DEF Rename, Goto, TypeOK, RankInv, RankOf
<1>7. ASSUME NEW c \in Calls, Fail(c) PROVE RankInv'
  BY <1>0, <1>7 DEF Fail, Goto, TypeOK, RankInv, RankOf
<1>8. ASSUME NEW c \in Calls, SyncDir(c) PROVE RankInv'
  BY <1>0, <1>8 DEF SyncDir, Goto, TypeOK, RankInv, RankOf
<1>9. ASSUME NEW c \in Calls, Writeback(c) PROVE RankInv'
  BY <1>0, <1>9 DEF Writeback, TypeOK, RankInv, RankOf
<1>10. ASSUME NEW c \in Calls, Kill(c) PROVE RankInv'
  BY <1>0, <1>10 DEF Kill, Goto, TypeOK, RankInv, RankOf
<1>11. CASE DirWriteback
  BY <1>0, <1>11 DEF DirWriteback, TypeOK, RankInv, RankOf
<1>12. CASE PowerLoss
  BY <1>0, <1>12 DEF PowerLoss, TypeOK, RankInv, RankOf
<1>13. CASE UNCHANGED vars
  BY <1>0, <1>13 DEF vars, RankInv, RankOf
<1>14. QED
  BY <1>1, <1>2, <1>3, <1>4, <1>5, <1>6, <1>7, <1>8, <1>9, <1>10, <1>11, <1>12,
     <1>13 DEF Next

(* The invariant holds of every behaviour, failures and power losses       *)
(* included: WriteFileAtomic renames only files that are complete on disk. *)
THEOREM Invariant == Spec => []IInv
<1>1. Init => IInv
  BY NoFileAssumption
     DEF Init, IInv, TypeOK, InodeInv, RankInv, RankOf, Steps, Images, TempSteps
<1>2. IInv /\ [Next]_vars => IInv'
  BY TypeStep, InodeStep, RankStep DEF IInv
<1>3. QED
  BY <1>1, <1>2, PTL DEF Spec

-----------------------------------------------------------------------------
(* The refinement.                                                         *)

(* Whatever the path names is a whole version: its rank. *)
LEMMA WholeVersion ==
  ASSUME IInv
  PROVE  /\ Version(path, mem) = RankOf(path)
         /\ Version(pathDisk, disk) = RankOf(pathDisk)
BY DEF IInv, InodeInv, Complete, Version, RankOf

(* If names and ranks stay, so do the register's versions. *)
LEMMA Stutter ==
  ASSUME IInv, IInv', UNCHANGED <<path, pathDisk, rank, renames, settled>>
  PROVE  UNCHANGED Register!vars
BY DEF Register!vars, Version, IInv, InodeInv, Complete

(* A rename is the register's Replace. *)
LEMMA RenameReplaces ==
  ASSUME IInv, IInv', NEW c \in Calls, Rename(c)
  PROVE  Register!Replace
<1>1. Version(path, mem)' = renames'
  BY NoFileAssumption
     DEF Rename, IInv, InodeInv, Complete, TypeOK, Version
<1>2. Version(pathDisk, disk)' = Version(pathDisk, disk)
  BY DEF Rename, IInv, InodeInv, Complete, RankInv, TempSteps, TypeOK, Version, inodes
<1>3. QED
  BY <1>1, <1>2 DEF Rename, Register!Replace

(* What makes the directory durable is the register's Persist; a call that *)
(* returns nil after it settles no more than what the path names.          *)
LEMMA DirPersists ==
  ASSUME IInv, IInv', pathDisk' = path, UNCHANGED <<path, rank, renames>>,
         settled' \in settled..RankOf(path)
  PROVE  Register!Persist
<1>1. Version(path, mem) = RankOf(path)
  BY WholeVersion
<1>2. Version(path, mem)' = Version(path, mem)
  BY DEF IInv, InodeInv, Complete, Version
<1>3. Version(pathDisk, disk)' = Version(path, mem)
  BY DEF IInv, InodeInv, Complete, Version
<1>4. QED
  BY <1>1, <1>2, <1>3 DEF Register!Persist

(* A power loss here is a power loss there. *)
LEMMA PowerLossMaps ==
  ASSUME IInv, IInv', PowerLoss
  PROVE  Register!PowerLoss
BY DEF PowerLoss, Register!PowerLoss, IInv, InodeInv, Complete, Version, history

(* WriteFileAtomic implements DurableFile: readers get whole files only,   *)
(* and no power loss takes the path behind a call that returned nil.       *)
THEOREM Refinement == Spec => AtomicAndDurable
<1>1. Init => Register!Init
  BY DEF Init, Register!Init, Version
<1>2. ASSUME IInv, IInv', [Next]_vars
      PROVE  [Register!Next]_(Register!vars)
  <2> USE DEF inodes, history
  <2>1. ASSUME NEW c \in Calls,
               \/ CreateTemp(c) \/ Write(c) \/ Chmod(c) \/ Sync(c) \/ Close(c)
               \/ Fail(c) \/ Writeback(c) \/ Kill(c)
        PROVE  UNCHANGED Register!vars
    <3>1. UNCHANGED <<path, pathDisk, rank, renames, settled>>
      BY <2>1 DEF CreateTemp, Write, Chmod, Sync, Close, Fail, Writeback, Kill
    <3>2. QED
      BY <1>2, <3>1, Stutter
  <2>2. ASSUME NEW c \in Calls, Rename(c) PROVE Register!Replace
    BY <1>2, <2>2, RenameReplaces
  <2>3. ASSUME NEW c \in Calls, SyncDir(c) PROVE [Register!Next]_(Register!vars)
    <3>1. CASE /\ pathDisk' = path
               /\ settled' = IF rank[c] > settled THEN rank[c] ELSE settled
      <4>1. settled' \in settled..RankOf(path)
        BY <1>2, <2>3, <3>1 DEF SyncDir, IInv, TypeOK, RankInv, RankOf
      <4>2. QED
        BY <1>2, <2>3, <3>1, <4>1, DirPersists DEF SyncDir, Register!Next
    <3>2. CASE UNCHANGED <<pathDisk, settled>>
      BY <1>2, <2>3, <3>2, Stutter DEF SyncDir
    <3>3. QED
      BY <2>3, <3>1, <3>2 DEF SyncDir
  <2>4. CASE DirWriteback
    <3>1. settled' \in settled..RankOf(path)
      BY <1>2, <2>4 DEF DirWriteback, IInv, TypeOK, RankInv, RankOf
    <3>2. QED
      BY <1>2, <2>4, <3>1, DirPersists DEF DirWriteback, Register!Next
  <2>5. CASE PowerLoss
    BY <1>2, <2>5, PowerLossMaps DEF Register!Next
  <2>6. CASE UNCHANGED vars
    BY <1>2, <2>6, Stutter DEF vars
  <2>7. QED
    BY <1>2, <2>1, <2>2, <2>3, <2>4, <2>5, <2>6 DEF Next, Register!Next
<1>3. QED
  BY <1>1, <1>2, Invariant, PTL DEF Spec, AtomicAndDurable, Register!Spec

-----------------------------------------------------------------------------
(* Every error path of WriteFileAtomic removes its temporary file: only a  *)
(* dead process, a power loss or a failed os.Remove leaves one behind.     *)
THEOREM CleansUp == Spec => []NoLitter
<1>1. Init => NoLitter
  BY DEF Init, NoLitter
<1>2. ASSUME IInv, NoLitter, [Next]_vars PROVE NoLitter'
  <2> USE <1>2 DEF inodes, history, NoLitter, TempSteps, IInv, TypeOK, Goto
  <2>1. ASSUME NEW c \in Calls, CreateTemp(c) \/ Write(c) \/ Chmod(c) PROVE NoLitter'
    BY <2>1 DEF CreateTemp, Write, Chmod
  <2>2. ASSUME NEW c \in Calls, Sync(c) \/ Close(c) \/ Rename(c) PROVE NoLitter'
    BY <2>2 DEF Sync, Close, Rename
  <2>3. ASSUME NEW c \in Calls, Fail(c) \/ SyncDir(c) PROVE NoLitter'
    BY <2>3 DEF Fail, SyncDir
  <2>4. ASSUME NEW c \in Calls, Writeback(c) \/ Kill(c) PROVE NoLitter'
    BY <2>4 DEF Writeback, Kill
  <2>5. CASE DirWriteback
    BY <2>5 DEF DirWriteback
  <2>6. CASE PowerLoss
    BY <2>6 DEF PowerLoss
  <2>7. CASE UNCHANGED vars
    BY <2>7 DEF vars
  <2>8. QED
    BY <2>1, <2>2, <2>3, <2>4, <2>5, <2>6, <2>7 DEF Next
<1>3. QED
  BY <1>1, <1>2, Invariant, PTL DEF Spec
=============================================================================
