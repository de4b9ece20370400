----------------------------- MODULE RateLimiter -----------------------------
(***************************************************************************)
(* The broker's in-memory sliding-window rate limiter, and the defaulting  *)
(* of the two limits it is built with.  The limiter keeps, per identity    *)
(* and per identity/profile pair, the times of the calls it admitted.  The *)
(* Go code keeps lists; nothing reads their order, so a list is the set of *)
(* its admissions, each naming the call it admitted.                       *)
(*                                                                         *)
(* The module has no behaviour of its own: RateLimiterHistory adds a clock *)
(* and callers, BrokerIssue uses it from the request handler.              *)
(***************************************************************************)
EXTENDS Integers, FiniteSets

CONSTANTS
  Identities,                    \* identities that may call Allow
  ProfileNames,                  \* profile names they may ask for
  Calls,                         \* names of calls of Allow
  ConfiguredPerIdentity,         \* rate_limits.per_identity_per_hour
  ConfiguredPerIdentityProfile,  \* rate_limits.per_identity_profile_per_hour
  Hour                           \* clock ticks in the window

ASSUME LimitsAssumption ==
  /\ ConfiguredPerIdentity \in Nat
  /\ ConfiguredPerIdentityProfile \in Nat
  /\ Hour \in Nat \ {0}

VARIABLES
  now,       \* time.Now()
  identity,  \* Limiter.identity: admissions per identity
  profile    \* Limiter.profile: admissions per identity and profile

Admissions == [call : Calls, at : Nat]

LimiterTypeOK ==
  /\ identity \in [Identities -> SUBSET Admissions]
  /\ profile \in [Identities -> [ProfileNames -> SUBSET Admissions]]

-----------------------------------------------------------------------------
(* BrokerConfig.ApplyDefaults replaces a zero limit by the default.  Both  *)
(* limits the running limiter sees are therefore positive.                 *)

WithDefault(configured, default) == IF configured = 0 THEN default ELSE configured

PerIdentity == WithDefault(ConfiguredPerIdentity, 50)

PerIdentityProfile == WithDefault(ConfiguredPerIdentityProfile, 20)

-----------------------------------------------------------------------------
LimiterInit ==
  /\ identity = [i \in Identities |-> {}]
  /\ profile = [i \in Identities |-> [p \in ProfileNames |-> {}]]

(* Faulty variants of Prune: !Before(windowStart) instead of After, and a  *)
(* window one tick short.                                                  *)
PruneNotBefore(list) == {a \in list : a.at >= now - Hour}

PruneShortWindow(list) == {a \in list : a.at > now - Hour + 1}

(* Admissions strictly younger than an hour stay. *)
Prune(list) == {a \in list : a.at > now - Hour}

(* A faulty variant of Reached: > instead of >=. *)
ReachedOffByOne(limit, list) == limit > 0 /\ Cardinality(list) > limit

(* A limit that is not positive is no limit. *)
Reached(limit, list) == limit > 0 /\ Cardinality(list) >= limit

Admissible(i, p) ==
  /\ ~Reached(PerIdentity, Prune(identity[i]))
  /\ ~Reached(PerIdentityProfile, Prune(profile[i][p]))

(* Allow returns nil: both lists are pruned and get the new admission. *)
Allow(c, i, p) ==
  LET new == [call |-> c, at |-> now]
  IN  /\ Admissible(i, p)
      /\ identity' = [identity EXCEPT ![i] = Prune(@) \cup {new}]
      /\ profile' = [profile EXCEPT ![i][p] = Prune(@) \cup {new}]

(* Allow returns an error: both lists are pruned, neither grows. *)
Reject(i, p) ==
  /\ ~Admissible(i, p)
  /\ identity' = [identity EXCEPT ![i] = Prune(@)]
  /\ profile' = [profile EXCEPT ![i][p] = Prune(@)]

(* A new process starts with empty maps. *)
LimiterReset ==
  /\ identity' = [i \in Identities |-> {}]
  /\ profile' = [i \in Identities |-> [p \in ProfileNames |-> {}]]
=============================================================================
