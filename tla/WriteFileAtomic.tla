--------------------------- MODULE WriteFileAtomic ---------------------------
(***************************************************************************)
(* fileutil.WriteFileAtomic: concurrent calls that replace one path by way *)
(* of a temporary file, an fsync, a rename and an fsync of the directory,  *)
(* on a file system that keeps a memory image and writes it to the disk    *)
(* when it likes.  Any call may fail at any step, a process may die under  *)
(* its call, and the power may go.                                         *)
(*                                                                         *)
(* The inode a call creates bears the call's name.  The target directory   *)
(* is there already and durable.                                           *)
(***************************************************************************)
EXTENDS Integers

CONSTANTS
  Calls,   \* calls of WriteFileAtomic for the path
  NoFile   \* the path does not exist

ASSUME NoFileAssumption == NoFile \notin Calls

VARIABLES
  pc,        \* next system call of each call
  mem,       \* the inodes as processes see them
  disk,      \* the inodes as a power loss leaves them
  temps,     \* inodes that have their temporary name
  path,      \* the inode the target path names
  pathDisk,  \* the inode it names after a power loss
  rank,      \* history: rank[c] = n if the n-th rename was c's
  renames,   \* history: renames so far
  settled,   \* history: highest rank of a call that returned nil
  stranded   \* history: calls that were kept from removing their file

inodes == <<mem, disk>>
history == <<rank, renames, settled>>
vars == <<pc, inodes, temps, path, pathDisk, history, stranded>>

Steps == {"idle", "write", "chmod", "sync", "close", "rename", "syncdir", "ended"}

(* Steps at which the deferred function would remove the temporary file. *)
TempSteps == {"write", "chmod", "sync", "close", "rename"}

(* "partial": part of the data; "written": all of it, still mode 0600;     *)
(* "ready": all of it, with the mode asked for.                            *)
Images == {"none", "partial", "written", "ready"}

TypeOK ==
  /\ pc \in [Calls -> Steps]
  /\ mem \in [Calls -> Images]
  /\ disk \in [Calls -> Images]
  /\ temps \in SUBSET Calls
  /\ path \in Calls \cup {NoFile}
  /\ pathDisk \in Calls \cup {NoFile}
  /\ rank \in [Calls -> Nat]
  /\ renames \in Nat
  /\ settled \in Nat
  /\ stranded \in SUBSET Calls

Init ==
  /\ pc = [c \in Calls |-> "idle"]
  /\ mem = [c \in Calls |-> "none"]
  /\ disk = [c \in Calls |-> "none"]
  /\ temps = {}
  /\ path = NoFile
  /\ pathDisk = NoFile
  /\ rank = [c \in Calls |-> 0]
  /\ renames = 0
  /\ settled = 0
  /\ stranded = {}

-----------------------------------------------------------------------------
(* The call.                                                               *)

Goto(c, step) == pc' = [pc EXCEPT ![c] = step]

(* MkdirAll and CreateTemp; an error of either leaves nothing behind. *)
CreateTemp(c) ==
  /\ pc[c] = "idle"
  /\ \/ /\ temps' = temps \cup {c}
        /\ mem' = [mem EXCEPT ![c] = "partial"]
        /\ Goto(c, "write")
     \/ /\ Goto(c, "ended")
        /\ UNCHANGED <<mem, temps>>
  /\ UNCHANGED <<disk, path, pathDisk, history, stranded>>

Write(c) ==
  /\ pc[c] = "write"
  /\ mem' = [mem EXCEPT ![c] = "written"]
  /\ Goto(c, "chmod")
  /\ UNCHANGED <<disk, temps, path, pathDisk, history, stranded>>

Chmod(c) ==
  /\ pc[c] = "chmod"
  /\ mem' = [mem EXCEPT ![c] = "ready"]
  /\ Goto(c, "sync")
  /\ UNCHANGED <<disk, temps, path, pathDisk, history, stranded>>

(* A faulty variant of Sync: no fsync before the rename. *)
SyncNothing(c) ==
  /\ pc[c] = "sync"
  /\ Goto(c, "close")
  /\ UNCHANGED <<inodes, temps, path, pathDisk, history, stranded>>

Sync(c) ==
  /\ pc[c] = "sync"
  /\ disk' = [disk EXCEPT ![c] = mem[c]]
  /\ Goto(c, "close")
  /\ UNCHANGED <<mem, temps, path, pathDisk, history, stranded>>

Close(c) ==
  /\ pc[c] = "close"
  /\ Goto(c, "rename")
  /\ UNCHANGED <<inodes, temps, path, pathDisk, history, stranded>>

Rename(c) ==
  /\ pc[c] = "rename"
  /\ path' = c
  /\ temps' = temps \ {c}
  /\ renames' = renames + 1
  /\ rank' = [rank EXCEPT ![c] = renames']
  /\ Goto(c, "syncdir")
  /\ UNCHANGED <<inodes, pathDisk, settled, stranded>>

(* A faulty variant of Fail: an error leaves the temporary file. *)
FailLeavesTemp(c) ==
  /\ pc[c] \in TempSteps
  /\ Goto(c, "ended")
  /\ UNCHANGED <<inodes, temps, path, pathDisk, history, stranded>>

(* Any of these steps returns an error: the deferred os.Remove takes the   *)
(* temporary file away.  Nobody looks at the error os.Remove may return.   *)
Fail(c) ==
  /\ pc[c] \in TempSteps
  /\ \/ temps' = temps \ {c} /\ UNCHANGED stranded
     \/ stranded' = stranded \cup {c} /\ UNCHANGED temps
  /\ Goto(c, "ended")
  /\ UNCHANGED <<inodes, path, pathDisk, history>>

(* syncDir, and the call returns: nil, or an error although the path names *)
(* the new file already.                                                   *)
SyncDir(c) ==
  /\ pc[c] = "syncdir"
  /\ \/ /\ pathDisk' = path
        /\ settled' = IF rank[c] > settled THEN rank[c] ELSE settled
     \/ UNCHANGED <<pathDisk, settled>>
  /\ Goto(c, "ended")
  /\ UNCHANGED <<inodes, temps, path, rank, renames, stranded>>

-----------------------------------------------------------------------------
(* The system around it.                                                   *)

(* The kernel writes an inode, or part of it, to the disk. *)
Writeback(c) ==
  /\ disk[c] # mem[c]
  /\ \E image \in {"partial", mem[c]} : disk' = [disk EXCEPT ![c] = image]
  /\ UNCHANGED <<pc, mem, temps, path, pathDisk, history, stranded>>

(* The kernel writes the directory to the disk. *)
DirWriteback ==
  /\ pathDisk' = path
  /\ UNCHANGED <<pc, inodes, temps, path, history, stranded>>

(* The process of a call dies. *)
Kill(c) ==
  /\ pc[c] \notin {"idle", "ended"}
  /\ Goto(c, "ended")
  /\ stranded' = stranded \cup {c}
  /\ UNCHANGED <<inodes, temps, path, pathDisk, history>>

(* The disk survives; of the temporary names any may have reached it, or   *)
(* their removal may not have.                                             *)
PowerLoss ==
  /\ pc' = [c \in Calls |-> IF pc[c] = "idle" THEN "idle" ELSE "ended"]
  /\ mem' = disk
  /\ path' = pathDisk
  /\ temps' \in SUBSET {c \in Calls : pc[c] # "idle"}
  /\ stranded' = stranded \cup temps'
  /\ UNCHANGED <<disk, pathDisk, history>>

Next ==
  \/ \E c \in Calls :
       \/ CreateTemp(c)
       \/ Write(c)
       \/ Chmod(c)
       \/ Sync(c)
       \/ Close(c)
       \/ Rename(c)
       \/ Fail(c)
       \/ SyncDir(c)
       \/ Writeback(c)
       \/ Kill(c)
  \/ DirWriteback
  \/ PowerLoss

Spec == Init /\ [][Next]_vars

-----------------------------------------------------------------------------
(* Properties.                                                             *)

Torn == -1

(* The version an inode is; an incomplete file is none. *)
Version(inode, image) ==
  IF inode = NoFile THEN 0
  ELSE IF image[inode] = "ready" THEN rank[inode] ELSE Torn

Register == INSTANCE DurableFile
  WITH replaced <- renames,
       visible <- Version(path, mem),
       durable <- Version(pathDisk, disk)

(* WriteFileAtomic is an atomic, durable register (DurableFile): whatever  *)
(* fails and whenever the power goes, the path holds a complete file with  *)
(* its final mode, or none if there was none, and never an older one than  *)
(* a call that returned nil has written.                                   *)
AtomicAndDurable == Register!Spec

(* A temporary file outlives its call only if the process died, the power  *)
(* went or os.Remove failed: every error path of WriteFileAtomic cleans up.*)
NoLitter == \A c \in temps : pc[c] \in TempSteps \/ c \in stranded

-----------------------------------------------------------------------------
(* The inductive invariant behind the refinement: an inode that is about   *)
(* to get, or has, the target's name is complete in memory and on disk.    *)
Complete(c) == mem[c] = "ready" /\ disk[c] = "ready"

InodeInv ==
  /\ \A c \in Calls : pc[c] \in {"close", "rename", "syncdir"} => Complete(c)
  /\ \A c \in Calls : pc[c] = "sync" => mem[c] = "ready"
  /\ path # NoFile => Complete(path)
  /\ pathDisk # NoFile => Complete(pathDisk)

RankOf(inode) == IF inode = NoFile THEN 0 ELSE rank[inode]

RankInv ==
  /\ \A c \in Calls : rank[c] <= renames
  /\ \A c \in Calls : pc[c] = "syncdir" => rank[c] <= RankOf(path)
  /\ \A c \in Calls : pc[c] \in {"idle"} \cup TempSteps => c # path /\ c # pathDisk
  /\ settled <= RankOf(path)
  /\ settled <= RankOf(pathDisk)
  /\ settled <= renames

(* The whole: what WriteFileAtomic has made complete before each step, and *)
(* how old what the path names can be.                                     *)
IInv == TypeOK /\ InodeInv /\ RankInv
=============================================================================
