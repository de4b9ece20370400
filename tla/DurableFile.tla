----------------------------- MODULE DurableFile -----------------------------
(***************************************************************************)
(* What fileutil.WriteFileAtomic promises of one file: a register whose    *)
(* content is always a whole version, that a power loss may turn back, but *)
(* never behind a version whose write has returned nil.                    *)
(*                                                                         *)
(* Versions are numbered in the order in which they became visible; 0 is   *)
(* the missing file.                                                       *)
(***************************************************************************)
EXTENDS Integers

VARIABLES
  replaced,  \* versions made so far
  visible,   \* the version a reader gets
  durable,   \* the version a power loss leaves
  settled    \* the newest version whose write returned nil

vars == <<replaced, visible, durable, settled>>

Init == replaced = 0 /\ visible = 0 /\ durable = 0 /\ settled = 0

Replace ==
  /\ replaced' = replaced + 1
  /\ visible' = replaced'
  /\ UNCHANGED <<durable, settled>>

(* The visible version becomes durable; writers of it, or of versions it   *)
(* replaced, may return.                                                   *)
Persist ==
  /\ durable' = visible
  /\ settled' \in settled..visible
  /\ UNCHANGED <<replaced, visible>>

PowerLoss ==
  /\ visible' = durable
  /\ UNCHANGED <<replaced, durable, settled>>

Next == Replace \/ Persist \/ PowerLoss

Spec == Init /\ [][Next]_vars
=============================================================================
