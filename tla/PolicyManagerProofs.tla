------------------------- MODULE PolicyManagerProofs -------------------------
(***************************************************************************)
(* Proofs about PolicyManager, for any number of edits, any clock, and     *)
(* whether or not the operator's edits move the file's mtime back.         *)
(***************************************************************************)
EXTENDS PolicyManager, TLAPS

LEMMA InvStep ==
  ASSUME IInv, [Next]_vars
  PROVE  IInv'
<1> USE PolicyAssumption DEF IInv, TypeOK, Contents
<1>1. ASSUME NEW c \in Contents, Edit(c) PROVE IInv'
  BY <1>1 DEF Edit
<1>2. CASE Tick
  BY <1>2 DEF Tick
<1>3. CASE Start
  BY <1>3 DEF Start, Loads
<1>4. CASE StartWatch
  BY <1>4 DEF StartWatch
<1>5. CASE Stat
  BY <1>5 DEF Stat
<1>6. CASE Reload
  BY <1>6 DEF Reload, Loads
<1>7. CASE Stop
  BY <1>7 DEF Stop
<1>8. CASE UNCHANGED vars
  BY <1>8 DEF vars
<1>9. QED
  BY <1>1, <1>2, <1>3, <1>4, <1>5, <1>6, <1>7, <1>8 DEF Next

(* A running broker has a policy it compiled, from a version of the file   *)
(* that existed: Manager.current is never ahead of the file.               *)
THEOREM Invariant == Spec => []IInv
<1>1. Init => IInv
  BY PolicyAssumption DEF Init, IInv, TypeOK, Contents
<1>2. IInv /\ [Next]_vars => IInv'
  BY InvStep
<1>3. QED
  BY <1>1, <1>2, PTL DEF Spec

(* A valid version of the file that the watcher has noticed, or is bound   *)
(* to notice at its next tick.                                             *)
Owed(v) ==
  /\ file.version = v
  /\ file.content = "valid"
  /\ proc = "loading" \/ (proc = "watching" /\ file.mtime > lastMod)

(* A step keeps such a version owed, or serves it, unless the operator     *)
(* edits again or the broker stops: lastMod, which Watch moves before it   *)
(* reloads, hides no version that has not been loaded.                     *)
OwedUntilServed ==
  [][\A v \in 1..(MaxEdits + 1) :
       Owed(v) => Owed(v)' \/ current' = v \/ file'.version # v \/ proc' = "down"]_vars

(* An edit that Watch can notice is never forgotten: all that is left of   *)
(* NoticedEditsTakeEffect is that the ticker keeps going.                  *)
THEOREM NothingOwedIsLost == Spec => OwedUntilServed
<1> DEFINE Kept ==
      \A v \in 1..(MaxEdits + 1) :
        Owed(v) => Owed(v)' \/ current' = v \/ file'.version # v \/ proc' = "down"
<1>1. ASSUME IInv, [Next]_vars PROVE Kept
  <2> USE DEF IInv, TypeOK, Owed
  <2>1. ASSUME NEW c \in Contents, Edit(c) PROVE Kept
    BY <1>1, <2>1 DEF Edit
  <2>2. CASE Tick \/ Stat \/ UNCHANGED vars
    BY <1>1, <2>2 DEF Tick, Stat, vars
  <2>3. CASE Start \/ StartWatch \/ Stop
    BY <2>3 DEF Start, StartWatch, Stop
  <2>4. CASE Reload
    BY <2>4 DEF Reload, Loads
  <2>5. QED
    BY <1>1, <2>1, <2>2, <2>3, <2>4 DEF Next
<1>2. QED
  BY <1>1, Invariant, PTL DEF Spec, OwedUntilServed
=============================================================================
