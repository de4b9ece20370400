---------------------------- MODULE PolicyManager ----------------------------
(***************************************************************************)
(* policy.Manager and its file watcher, as runServe drives them: load the  *)
(* policy, (register with the CA, open the store,) start the watcher,      *)
(* which stats the file every few seconds and reloads it when its mtime    *)
(* has grown.  The policy file belongs to an operator, who may edit it at  *)
(* any time, in several writes, or replace it by a file with an older      *)
(* mtime.                                                                  *)
(*                                                                         *)
(* A version of the file is the number of edits made to it so far.         *)
(***************************************************************************)
EXTENDS Integers

CONSTANTS
  MaxTime,    \* bound on the clock; file times have its resolution
  MaxEdits,   \* bound on the operator's edits
  OldMtimes   \* TRUE: an edit may give the file any mtime up to now (mv, rsync);
              \* FALSE: every edit gives it a later one

ASSUME PolicyAssumption ==
  MaxTime \in Nat \ {0} /\ MaxEdits \in Nat /\ OldMtimes \in BOOLEAN

VARIABLES
  now,      \* the clock; 0 is the zero time.Time, before any file
  file,     \* the policy file: version, what Load makes of it, mtime
  proc,     \* where the broker process is
  current,  \* version of Manager.current; 0 before the first Load
  lastMod   \* Watch's lastMod

vars == <<now, file, proc, current, lastMod>>

Contents == {"valid", "invalid", "gone"}

TypeOK ==
  /\ now \in 1..MaxTime
  /\ file \in [version : 1..(MaxEdits + 1), content : Contents, mtime : 1..MaxTime]
  /\ proc \in {"down", "loaded", "watching", "loading"}
  /\ current \in 0..(MaxEdits + 1)
  /\ lastMod \in 0..MaxTime

Init ==
  /\ now = 1
  /\ file = [version |-> 1, content |-> "valid", mtime |-> 1]
  /\ proc = "down"
  /\ current = 0
  /\ lastMod = 0

-----------------------------------------------------------------------------
(* The operator.  A file written in place is invalid between two writes,   *)
(* one replaced with rm and cp is gone in between.                         *)
Edit(content) ==
  /\ file.version <= MaxEdits
  /\ \E m \in 1..now :
       /\ OldMtimes \/ (m = now /\ m > file.mtime)
       /\ file' = [version |-> file.version + 1, content |-> content, mtime |-> m]
  /\ UNCHANGED <<now, proc, current, lastMod>>

Tick ==
  /\ now < MaxTime
  /\ now' = now + 1
  /\ UNCHANGED <<file, proc, current, lastMod>>

-----------------------------------------------------------------------------
(* Manager.Reload: Load reads and compiles the file; an error leaves       *)
(* current alone.                                                          *)
Loads == current' = IF file.content = "valid" THEN file.version ELSE current

(* NewManager; if Load fails the process exits again. *)
Start ==
  /\ proc = "down"
  /\ file.content = "valid"
  /\ Loads
  /\ proc' = "loaded"
  /\ UNCHANGED <<now, file, lastMod>>

(* Watch begins with a Stat of its own. *)
StartWatch ==
  /\ proc = "loaded"
  /\ lastMod' = IF file.content = "gone" THEN 0 ELSE file.mtime
  /\ proc' = "watching"
  /\ UNCHANGED <<now, file, current>>

(* A faulty variant of Stat: the change is noted and never acted upon. *)
StatOnly ==
  /\ proc = "watching"
  /\ file.content # "gone"
  /\ file.mtime > lastMod
  /\ lastMod' = file.mtime
  /\ UNCHANGED <<now, file, proc, current>>

(* A tick of Watch that finds a newer file: lastMod moves first.  A tick   *)
(* that finds no file, or no newer one, changes nothing.                   *)
Stat ==
  /\ proc = "watching"
  /\ file.content # "gone"
  /\ file.mtime > lastMod
  /\ lastMod' = file.mtime
  /\ proc' = "loading"
  /\ UNCHANGED <<now, file, current>>

(* The reload of that tick reads whatever the file holds by then. *)
Reload ==
  /\ proc = "loading"
  /\ Loads
  /\ proc' = "watching"
  /\ UNCHANGED <<now, file, lastMod>>

Stop ==
  /\ proc # "down"
  /\ proc' = "down"
  /\ current' = 0
  /\ lastMod' = 0
  /\ UNCHANGED <<now, file>>

Next ==
  \/ \E c \in Contents : Edit(c)
  \/ Tick
  \/ Start
  \/ StartWatch
  \/ Stat
  \/ Reload
  \/ Stop

(* runServe gets to the watcher, and the watcher's ticker keeps going. *)
Fairness == WF_vars(StartWatch) /\ WF_vars(Stat) /\ WF_vars(Reload)

Spec == Init /\ [][Next]_vars /\ Fairness

-----------------------------------------------------------------------------
(* An edit the watcher can notice takes effect: once a valid version with  *)
(* a newer mtime than lastMod is there, the broker serves with it, unless  *)
(* the operator edits again or the broker stops first.                     *)
NoticedEditsTakeEffect ==
  \A v \in 1..(MaxEdits + 1) :
    (/\ proc = "watching" /\ file.version = v
     /\ file.content = "valid" /\ file.mtime > lastMod)
      ~> (current = v \/ file.version # v \/ proc = "down")

(* What schemas/broker.schema.json says of policy.watch: "Reload the       *)
(* policy file automatically when it changes on disk".  A valid file that  *)
(* is not edited any more becomes the policy of a broker that keeps        *)
(* running.                                                                *)
EveryEditTakesEffect ==
  \A v \in 1..(MaxEdits + 1) :
    (proc = "watching" /\ file.version = v /\ file.content = "valid")
      ~> (current = v \/ file.version # v \/ proc = "down")
-----------------------------------------------------------------------------
(* The inductive invariant: a process that runs has a policy it compiled,  *)
(* from a version of the file that existed, and no policy outlives it.     *)
IInv ==
  /\ TypeOK
  /\ proc = "down" <=> current = 0
  /\ current <= file.version
=============================================================================
