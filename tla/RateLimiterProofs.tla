-------------------------- MODULE RateLimiterProofs --------------------------
(***************************************************************************)
(* The sliding-window bound of the rate limiter, for any limits, window    *)
(* length, identities and profiles.                                        *)
(***************************************************************************)
EXTENDS RateLimiterHistory, FiniteSetTheorems, TLAPS

(* ApplyDefaults never leaves a limit at zero. *)
LEMMA LimitsPositive ==
  PerIdentity \in Nat \ {0} /\ PerIdentityProfile \in Nat \ {0}
BY LimitsAssumption DEF PerIdentity, PerIdentityProfile, WithDefault

(* Admitting one more call when the pruned list is below the limit keeps   *)
(* every window below it: windows that end before now do not see the call, *)
(* the others hold at most the pruned list and the call.                   *)
LEMMA WindowStep ==
  ASSUME NEW limit \in Nat \ {0}, now \in Nat,
         NEW list, NEW all, NEW T,
         T \subseteq Nat,
         \A a \in all : a.at \in Nat,
         Remembers(list, all),
         ~Reached(limit, Prune(list)),
         \A t \in T : Cardinality(Window(all, t)) <= limit,
         NEW new, new.at = now
  PROVE  \A t \in T : Cardinality(Window(all \cup {new}, t)) <= limit
<1> SUFFICES ASSUME NEW t \in T
             PROVE  Cardinality(Window(all \cup {new}, t)) <= limit
  OBVIOUS
<1>0. t \in Nat /\ Hour \in Nat
  BY LimitsAssumption
<1>1. CASE t < now
  <2>1. Window(all \cup {new}, t) = Window(all, t)
    BY <1>0, <1>1 DEF Window
  <2>2. QED
    BY <2>1
<1>2. CASE t >= now
  <2>1. IsFiniteSet(Prune(list))
    BY FS_Subset DEF Remembers, Prune
  <2>2. Cardinality(Prune(list)) \in Nat /\ Cardinality(Prune(list)) < limit
    BY <2>1, FS_CardinalityType DEF Reached
  <2>3. Window(all \cup {new}, t) \subseteq Prune(list) \cup {new}
    BY <1>0, <1>2 DEF Window, Prune, Remembers
  <2>4. /\ IsFiniteSet(Prune(list) \cup {new})
        /\ Cardinality(Prune(list) \cup {new}) <= Cardinality(Prune(list)) + 1
    <3>1. /\ IsFiniteSet(Prune(list) \cup {new})
          /\ Cardinality(Prune(list) \cup {new}) =
               IF new \in Prune(list) THEN Cardinality(Prune(list))
                                      ELSE Cardinality(Prune(list)) + 1
      BY <2>1, FS_AddElement
    <3>2. QED
      BY <2>2, <3>1
  <2>5. /\ IsFiniteSet(Window(all \cup {new}, t))
        /\ Cardinality(Window(all \cup {new}, t)) <= Cardinality(Prune(list) \cup {new})
    BY <2>3, <2>4, FS_Subset
  <2>6. QED
    BY <2>2, <2>4, <2>5, FS_CardinalityType
<1>3. QED
  BY <1>0, <1>1, <1>2

(* Appending to the pruned list and to the history, and pruning alone,     *)
(* both keep the list's memory of the last hour.                           *)
LEMMA RememberStep ==
  ASSUME now \in Nat, NEW list, NEW all, Remembers(list, all),
         NEW new, new.at = now
  PROVE  /\ Remembers(Prune(list) \cup {new}, all \cup {new})
         /\ Remembers(Prune(list), all)
<1>1. IsFiniteSet(all \cup {new})
  BY FS_AddElement DEF Remembers
<1>2. QED
  BY <1>1, LimitsAssumption DEF Remembers, Prune

(* An empty history fills no window. *)
LEMMA EmptyWindow ==
  ASSUME NEW t, NEW limit \in Nat \ {0}, NEW all, all = {}
  PROVE  Cardinality(Window(all, t)) <= limit
<1>1. Window(all, t) = {}
  BY DEF Window
<1>2. Cardinality(Window(all, t)) = 0
  BY <1>1, FS_EmptySet
<1>3. QED
  BY <1>2

LEMMA TypeStep ==
  ASSUME IInv, [Next]_vars
  PROVE  TypeOK'
<1> USE HistoryAssumption, LimitsAssumption DEF history
<1>0. TypeOK
  BY DEF IInv
<1>1. ASSUME NEW i \in Identities, NEW p \in ProfileNames, Admitted(i, p)
      PROVE  TypeOK'
  <2> DEFINE new == [call |-> calls + 1, at |-> now]
  <2>1. new \in Admissions /\ calls' \in 0..MaxCalls /\ now' \in 0..MaxTime
    BY <1>0, <1>1 DEF TypeOK, Admitted, Admissions
  <2> HIDE DEF new
  <2>2. /\ identity' = [identity EXCEPT ![i] = Prune(@) \cup {new}]
        /\ profile' = [profile EXCEPT ![i][p] = Prune(@) \cup {new}]
        /\ byIdentity' = [byIdentity EXCEPT ![i] = @ \cup {new}]
        /\ byProfile' = [byProfile EXCEPT ![i][p] = @ \cup {new}]
    BY <1>1 DEF Admitted, Allow, new
  <2>3. LimiterTypeOK'
    BY <1>0, <2>1, <2>2 DEF TypeOK, LimiterTypeOK, Prune
  <2>4. /\ byIdentity' \in [Identities -> SUBSET Admissions]
        /\ byProfile' \in [Identities -> [ProfileNames -> SUBSET Admissions]]
    BY <1>0, <2>1, <2>2 DEF TypeOK
  <2>5. QED
    BY <2>1, <2>3, <2>4 DEF TypeOK
<1>2. ASSUME NEW i \in Identities, NEW p \in ProfileNames, Rejected(i, p)
      PROVE  TypeOK'
  BY <1>0, <1>2 DEF TypeOK, LimiterTypeOK, Rejected, Reject, Prune
<1>3. CASE Tick
  BY <1>0, <1>3 DEF TypeOK, LimiterTypeOK, Tick
<1>4. CASE Restart
  BY <1>0, <1>4 DEF TypeOK, LimiterTypeOK, Restart, LimiterReset
<1>5. CASE UNCHANGED vars
  BY <1>0, <1>5 DEF TypeOK, LimiterTypeOK, vars
<1>6. QED
  BY <1>1, <1>2, <1>3, <1>4, <1>5 DEF Next

(* Every list remembers the last hour of its key. *)
LEMMA RememberAll ==
  ASSUME IInv, [Next]_vars
  PROVE  ListsRemember'
<1> USE DEF history
<1>0. TypeOK /\ ListsRemember /\ now \in Nat
  BY HistoryAssumption DEF IInv, TypeOK
<1>1. ASSUME NEW i \in Identities, NEW p \in ProfileNames, Admitted(i, p)
      PROVE  ListsRemember'
  <2> DEFINE new == [call |-> calls + 1, at |-> now]
  <2>1. /\ identity' = [identity EXCEPT ![i] = Prune(@) \cup {new}]
        /\ profile' = [profile EXCEPT ![i][p] = Prune(@) \cup {new}]
        /\ byIdentity' = [byIdentity EXCEPT ![i] = @ \cup {new}]
        /\ byProfile' = [byProfile EXCEPT ![i][p] = @ \cup {new}]
        /\ now' = now
    BY <1>1 DEF Admitted, Allow
  <2>2. new.at = now
    OBVIOUS
  <2> HIDE DEF new
  <2>3. /\ Remembers(Prune(identity[i]) \cup {new}, byIdentity[i] \cup {new})
        /\ Remembers(Prune(profile[i][p]) \cup {new}, byProfile[i][p] \cup {new})
    BY <1>0, <2>2, RememberStep DEF ListsRemember
  <2>4. QED
    BY <1>0, <2>1, <2>3 DEF ListsRemember, Remembers, TypeOK, LimiterTypeOK
<1>2. ASSUME NEW i \in Identities, NEW p \in ProfileNames, Rejected(i, p)
      PROVE  ListsRemember'
  <2>1. /\ identity' = [identity EXCEPT ![i] = Prune(@)]
        /\ profile' = [profile EXCEPT ![i][p] = Prune(@)]
        /\ UNCHANGED <<byIdentity, byProfile, now>>
    BY <1>2 DEF Rejected, Reject
  <2>2. /\ Remembers(Prune(identity[i]), byIdentity[i])
        /\ Remembers(Prune(profile[i][p]), byProfile[i][p])
    <3>1. [at |-> now].at = now
      OBVIOUS
    <3>2. QED
      BY <1>0, <3>1, RememberStep DEF ListsRemember
  <2>3. QED
    BY <1>0, <2>1, <2>2 DEF ListsRemember, Remembers, TypeOK, LimiterTypeOK
<1>3. CASE Tick
  BY <1>0, <1>3, LimitsAssumption
     DEF Tick, ListsRemember, Remembers, TypeOK, LimiterTypeOK, Admissions
<1>4. CASE Restart
  BY <1>4, FS_EmptySet DEF Restart, LimiterReset, ListsRemember, Remembers
<1>5. CASE UNCHANGED vars
  BY <1>0, <1>5 DEF vars, ListsRemember, Remembers
<1>6. QED
  BY <1>1, <1>2, <1>3, <1>4, <1>5 DEF Next

(* The bounds themselves. *)
LEMMA BoundStep ==
  ASSUME IInv, [Next]_vars
  PROVE  IdentityWindowBound' /\ ProfileWindowBound'
<1> USE DEF history
<1>0. /\ TypeOK /\ ListsRemember /\ now \in Nat /\ 0..MaxTime \subseteq Nat
      /\ IdentityWindowBound /\ ProfileWindowBound
  BY HistoryAssumption DEF IInv, TypeOK
<1>1. ASSUME NEW i \in Identities, NEW p \in ProfileNames, Admitted(i, p)
      PROVE  IdentityWindowBound' /\ ProfileWindowBound'
  <2> DEFINE new == [call |-> calls + 1, at |-> now]
  <2>1. /\ ~Reached(PerIdentity, Prune(identity[i]))
        /\ ~Reached(PerIdentityProfile, Prune(profile[i][p]))
        /\ byIdentity' = [byIdentity EXCEPT ![i] = @ \cup {new}]
        /\ byProfile' = [byProfile EXCEPT ![i][p] = @ \cup {new}]
    BY <1>1 DEF Admitted, Allow, Admissible
  <2>2. new.at = now
    OBVIOUS
  <2> HIDE DEF new
  <2>3. /\ \A a \in byIdentity[i] : a.at \in Nat
        /\ \A a \in byProfile[i][p] : a.at \in Nat
    BY <1>0 DEF TypeOK, Admissions
  <2>4. \A t \in 0..MaxTime :
          Cardinality(Window(byIdentity[i] \cup {new}, t)) <= PerIdentity
    BY <1>0, <2>1, <2>2, <2>3, WindowStep, LimitsPositive
       DEF ListsRemember, IdentityWindowBound
  <2>5. \A t \in 0..MaxTime :
          Cardinality(Window(byProfile[i][p] \cup {new}, t)) <= PerIdentityProfile
    BY <1>0, <2>1, <2>2, <2>3, WindowStep, LimitsPositive
       DEF ListsRemember, ProfileWindowBound
  <2>6. IdentityWindowBound'
    BY <1>0, <2>1, <2>4 DEF IdentityWindowBound, TypeOK, Window
  <2>7. ProfileWindowBound'
    BY <1>0, <2>1, <2>5 DEF ProfileWindowBound, TypeOK, Window
  <2>8. QED
    BY <2>6, <2>7
<1>2. CASE UNCHANGED history
  BY <1>0, <1>2 DEF IdentityWindowBound, ProfileWindowBound, Window
<1>3. CASE Restart
  <2>1. /\ \A i \in Identities : byIdentity'[i] = {}
        /\ \A i \in Identities, p \in ProfileNames : byProfile'[i][p] = {}
    BY <1>3 DEF Restart
  <2>2. /\ \A i \in Identities, t \in 0..MaxTime :
             Cardinality(Window(byIdentity'[i], t)) <= PerIdentity
        /\ \A i \in Identities, p \in ProfileNames, t \in 0..MaxTime :
             Cardinality(Window(byProfile'[i][p], t)) <= PerIdentityProfile
    BY <2>1, EmptyWindow, LimitsPositive
  <2>3. QED
    BY <2>2 DEF IdentityWindowBound, ProfileWindowBound
<1>4. QED
  BY <1>1, <1>2, <1>3 DEF Next, Tick, Rejected, vars

LEMMA Invariance == Spec => []IInv
<1>1. Init => IInv
  <2> SUFFICES ASSUME Init PROVE IInv
    OBVIOUS
  <2>1. TypeOK
    BY HistoryAssumption DEF Init, TypeOK, LimiterInit, LimiterTypeOK
  <2>2. ListsRemember
    BY FS_EmptySet DEF Init, LimiterInit, ListsRemember, Remembers
  <2>3. /\ \A i \in Identities : byIdentity[i] = {}
        /\ \A i \in Identities, p \in ProfileNames : byProfile[i][p] = {}
    BY DEF Init
  <2>4. IdentityWindowBound /\ ProfileWindowBound
    BY <2>3, EmptyWindow, LimitsPositive DEF IdentityWindowBound, ProfileWindowBound
  <2>5. QED
    BY <2>1, <2>2, <2>4 DEF IInv
<1>2. IInv /\ [Next]_vars => IInv'
  BY TypeStep, RememberAll, BoundStep DEF IInv
<1>3. QED
  BY <1>1, <1>2, PTL DEF Spec

(* No hour holds more admissions of an identity than its limit. *)
THEOREM IdentityBound == Spec => []IdentityWindowBound
BY Invariance, PTL DEF IInv

(* No hour holds more admissions of an identity/profile pair than its      *)
(* limit.                                                                  *)
THEOREM ProfileBound == Spec => []ProfileWindowBound
BY Invariance, PTL DEF IInv

(* A full pruned list is a full window of the history: nothing else makes  *)
(* the limiter turn a call away.                                           *)
LEMMA FullWindow ==
  ASSUME now \in Nat, NEW limit \in Nat \ {0}, NEW list, NEW all,
         \A a \in all : a.at \in Nat,
         Remembers(list, all), Reached(limit, Prune(list)),
         Cardinality(Window(all, now)) <= limit
  PROVE  Cardinality(Window(all, now)) = limit
<1>1. Window(all, now) = Prune(list)
  BY LimitsAssumption DEF Window, Prune, Remembers
<1>2. IsFiniteSet(Prune(list))
  BY FS_Subset DEF Remembers, Prune
<1>3. Cardinality(Prune(list)) \in Nat /\ Cardinality(Prune(list)) >= limit
  BY <1>2, FS_CardinalityType DEF Reached
<1>4. QED
  BY <1>1, <1>3

(* A call is rejected only if the hour that ends now is full. *)
THEOREM RejectsWhenFull == Spec => RejectsOnlyWhenFull
<1> DEFINE Full == \A i \in Identities, p \in ProfileNames :
             Rejected(i, p) =>
               \/ Cardinality(Window(byIdentity[i], now)) = PerIdentity
               \/ Cardinality(Window(byProfile[i][p], now)) = PerIdentityProfile
<1>1. ASSUME IInv PROVE Full
  <2>1. SUFFICES ASSUME NEW i \in Identities, NEW p \in ProfileNames, Rejected(i, p)
                 PROVE  \/ Cardinality(Window(byIdentity[i], now)) = PerIdentity
                        \/ Cardinality(Window(byProfile[i][p], now)) = PerIdentityProfile
    OBVIOUS
  <2>2. /\ Remembers(identity[i], byIdentity[i])
        /\ Remembers(profile[i][p], byProfile[i][p])
        /\ now \in Nat /\ now \in 0..MaxTime
    BY <1>1, HistoryAssumption DEF IInv, ListsRemember, TypeOK
  <2>3. /\ \A a \in byIdentity[i] : a.at \in Nat
        /\ \A a \in byProfile[i][p] : a.at \in Nat
    BY <1>1 DEF IInv, TypeOK, Admissions
  <2>4. CASE Reached(PerIdentity, Prune(identity[i]))
    BY <1>1, <2>2, <2>3, <2>4, FullWindow, LimitsPositive DEF IInv, IdentityWindowBound
  <2>5. CASE Reached(PerIdentityProfile, Prune(profile[i][p]))
    BY <1>1, <2>2, <2>3, <2>5, FullWindow, LimitsPositive DEF IInv, ProfileWindowBound
  <2>6. QED
    BY <2>1, <2>4, <2>5 DEF Rejected, Reject, Admissible
<1>2. QED
  BY Invariance, <1>1, PTL DEF Spec, RejectsOnlyWhenFull
=============================================================================
