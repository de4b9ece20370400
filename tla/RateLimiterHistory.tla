-------------------------- MODULE RateLimiterHistory --------------------------
(***************************************************************************)
(* The rate limiter called at arbitrary times, with a history variable     *)
(* that remembers every admission since the process started.  The history  *)
(* is what the limiter's pruned lists are compared with.                   *)
(***************************************************************************)
EXTENDS RateLimiter

CONSTANTS
  MaxTime,   \* bound on the clock
  MaxCalls   \* bound on the calls of Allow

ASSUME HistoryAssumption ==
  /\ MaxTime \in Nat
  /\ MaxCalls \in Nat
  /\ Calls = 1..MaxCalls

VARIABLES
  calls,       \* calls of Allow so far
  byIdentity,  \* every admission per identity since the process started
  byProfile    \* every admission per identity and profile

history == <<byIdentity, byProfile>>
vars == <<now, identity, profile, calls, history>>

TypeOK ==
  /\ now \in 0..MaxTime
  /\ LimiterTypeOK
  /\ calls \in 0..MaxCalls
  /\ byIdentity \in [Identities -> SUBSET Admissions]
  /\ byProfile \in [Identities -> [ProfileNames -> SUBSET Admissions]]

Init ==
  /\ now = 0
  /\ LimiterInit
  /\ calls = 0
  /\ byIdentity = [i \in Identities |-> {}]
  /\ byProfile = [i \in Identities |-> [p \in ProfileNames |-> {}]]

Tick ==
  /\ now < MaxTime
  /\ now' = now + 1
  /\ UNCHANGED <<identity, profile, calls, history>>

Admitted(i, p) ==
  LET new == [call |-> calls + 1, at |-> now]
  IN  /\ calls < MaxCalls
      /\ Allow(calls + 1, i, p)
      /\ calls' = calls + 1
      /\ byIdentity' = [byIdentity EXCEPT ![i] = @ \cup {new}]
      /\ byProfile' = [byProfile EXCEPT ![i][p] = @ \cup {new}]
      /\ UNCHANGED now

Rejected(i, p) ==
  /\ calls < MaxCalls
  /\ Reject(i, p)
  /\ calls' = calls + 1
  /\ UNCHANGED <<now, history>>

Restart ==
  /\ LimiterReset
  /\ byIdentity' = [i \in Identities |-> {}]
  /\ byProfile' = [i \in Identities |-> [p \in ProfileNames |-> {}]]
  /\ UNCHANGED <<now, calls>>

Next ==
  \/ Tick
  \/ \E i \in Identities, p \in ProfileNames : Admitted(i, p)
  \/ \E i \in Identities, p \in ProfileNames : Rejected(i, p)
  \/ Restart

Spec == Init /\ [][Next]_vars

-----------------------------------------------------------------------------
(* The reference: the admissions whose age at time t is less than an hour, *)
(* read off the whole history.                                             *)
Window(all, t) == {a \in all : t - Hour < a.at /\ a.at <= t}

(* No hour, wherever it starts, holds more admissions of an identity than  *)
(* per_identity_per_hour: Limiter.Allow prunes lazily, one key at a time,  *)
(* and still bounds every window, not only the one ending now.             *)
IdentityWindowBound ==
  \A i \in Identities, t \in 0..MaxTime :
    Cardinality(Window(byIdentity[i], t)) <= PerIdentity

(* The same for an identity/profile pair and per_identity_profile_per_hour.*)
ProfileWindowBound ==
  \A i \in Identities, p \in ProfileNames, t \in 0..MaxTime :
    Cardinality(Window(byProfile[i][p], t)) <= PerIdentityProfile

(* Limiter.Allow turns a call away only when the hour that ends now really *)
(* is full, for the identity or for the pair: admissions it should have    *)
(* forgotten, or that other identities made, never count.                  *)
RejectsOnlyWhenFull ==
  [][\A i \in Identities, p \in ProfileNames :
       Rejected(i, p) =>
         \/ Cardinality(Window(byIdentity[i], now)) = PerIdentity
         \/ Cardinality(Window(byProfile[i][p], now)) = PerIdentityProfile]_vars

-----------------------------------------------------------------------------
(* The inductive invariant behind the two bounds: a list holds part of its *)
(* key's history, and what it no longer holds is an hour old already.      *)
Remembers(list, all) ==
  /\ IsFiniteSet(all)
  /\ list \subseteq all
  /\ \A a \in all : a.at <= now /\ (a.at > now - Hour => a \in list)

ListsRemember ==
  \A i \in Identities :
    /\ Remembers(identity[i], byIdentity[i])
    /\ \A p \in ProfileNames : Remembers(profile[i][p], byProfile[i][p])

(* The whole: the types, what the lists of Limiter remember of the         *)
(* history, and the two bounds Allow keeps with them.                      *)
IInv == TypeOK /\ ListsRemember /\ IdentityWindowBound /\ ProfileWindowBound
=============================================================================
