-------------------------- MODULE BrokerIssueProofs --------------------------
(***************************************************************************)
(* Proofs about BrokerIssue, for any requests, identities, policies,       *)
(* faults, failure mode, store driver, limits and certificate lifetime.    *)
(***************************************************************************)
EXTENDS BrokerIssue, FiniteSetTheorems, TLAPS

(* One-line helpers of the actions, expanded everywhere. *)
USE DEF StoreFails, Recorded, Cached, Upserted, FailedPut,
        Authenticated, Parses, Dead

-----------------------------------------------------------------------------
(* Types.                                                                  *)

(* A request that holds a profile has a cache key. *)
LEMMA KeyType ==
  ASSUME TypeOK, NEW r \in Requests, input[r] \in Inputs, prof[r] # NoProfile
  PROVE  KeyOf(r) \in CacheKeys
BY BrokerAssumption DEF TypeOK, KeyOf, CacheKeys, InputType

(* Server.record adds at most the one event it is given. *)
LEMMA RecordType ==
  ASSUME TypeOK, NEW r \in Requests, NEW e \in Events, RecordAnyway(r, e)
  PROVE  log' \in SUBSET Events
BY DEF TypeOK, RecordAnyway, RecordOk, RecordErr

LEMMA BarrierRecords ==
  ASSUME NEW r, NEW e, BarrierPasses(r, e) \/ BarrierBlocks(r, e)
  PROVE  RecordAnyway(r, e)
BY DEF BarrierPasses, BarrierBlocks, RecordAnyway

LEMMA EventType ==
  ASSUME NEW r \in Requests \cup {NoRequest}, NEW t \in EventTypes,
         NEW n \in Requests \cup {NoRequest}
  PROVE  Event(r, t, n) \in Events
BY DEF Event, Events

(* The limiter's lists hold admissions of requests, at natural times. *)
LEMMA LimiterType ==
  ASSUME TypeOK, NEW r \in Requests, NEW i \in Identities, NEW p \in ProfileNames,
         Limiter!Allow(r, i, p) \/ Limiter!Reject(i, p)
  PROVE  Limiter!LimiterTypeOK'
<1> DEFINE new == [call |-> r, at |-> now]
<1>1. new \in Limiter!Admissions
  BY BrokerAssumption DEF TypeOK, Limiter!Admissions
<1>2. /\ limIdentity \in [Identities -> SUBSET Limiter!Admissions]
      /\ limProfile \in [Identities -> [ProfileNames -> SUBSET Limiter!Admissions]]
  BY DEF TypeOK, Limiter!LimiterTypeOK
<1> HIDE DEF new
<1>3. /\ Limiter!Prune(limIdentity[i]) \in SUBSET Limiter!Admissions
      /\ Limiter!Prune(limProfile[i][p]) \in SUBSET Limiter!Admissions
  BY <1>2 DEF Limiter!Prune
<1>4. CASE Limiter!Allow(r, i, p)
  BY <1>1, <1>2, <1>3, <1>4 DEF Limiter!Allow, Limiter!LimiterTypeOK, new
<1>5. CASE Limiter!Reject(i, p)
  BY <1>2, <1>3, <1>5 DEF Limiter!Reject, Limiter!LimiterTypeOK
<1>6. QED
  BY <1>4, <1>5

(* Whatever a handler writes, pc and status stay well typed. *)
LEMMA ContinueType ==
  ASSUME TypeOK, NEW r \in Requests, NEW step \in Steps, Continue(r, step)
  PROVE  pc' \in [Requests -> Steps] /\ status' \in [Requests -> Statuses]
BY DEF TypeOK, Continue, Goto

LEMMA AnswerType ==
  ASSUME TypeOK, NEW r \in Requests, NEW code \in Statuses, Answer(r, code)
  PROVE  pc' \in [Requests -> Steps] /\ status' \in [Requests -> Statuses]
BY DEF TypeOK, Answer, Goto, Steps

(* The CA's certificate for a request that was read is well typed. *)
LEMMA CertType ==
  ASSUME TypeOK, NEW r \in Requests, input[r] \in Inputs
  PROVE  NewCert(r) \in Certs
<1>1. /\ input[r].key \in Keys
      /\ input[r].names \cup input[r].cn \in NameSets
  BY BrokerAssumption DEF InputType, NameSets
<1>2. now + Lifetime \in Nat
  BY BrokerAssumption DEF TypeOK
<1>3. QED
  BY <1>1, <1>2 DEF NewCert, Certs

(* Types are preserved by every step. *)
LEMMA TypeStep ==
  ASSUME IInv, [Next]_vars
  PROVE  TypeOK'
<1> USE DEF reqVars, limVars
<1>0. TypeOK /\ RequestInv /\ CertInv
  BY DEF IInv
<1>1. ASSUME NEW r \in Requests, Authenticate(r) PROVE TypeOK'
  <2>1. PICK in \in Inputs :
          /\ input' = [input EXCEPT ![r] = in]
          /\ \/ /\ RecordAnyway(r, Event(r, "request_received", NoRequest))
                /\ Continue(r, "authorize")
             \/ /\ RecordAnyway(r, Event(r, "denied", NoRequest))
                /\ Answer(r, 401)
    BY <1>1 DEF Authenticate
  <2>2. pc' \in [Requests -> Steps] /\ status' \in [Requests -> Statuses]
    BY <1>0, <2>1, ContinueType, AnswerType DEF Steps, Statuses
  <2>3. log' \in SUBSET Events
    BY <1>0, <2>1, EventType, RecordType DEF EventTypes
  <2>4. input' \in [Requests -> Inputs \cup {NoInput}]
    BY <1>0, <2>1 DEF TypeOK
  <2>5. QED
    BY <1>0, <1>1, <2>2, <2>3, <2>4 DEF Authenticate, TypeOK, Limiter!LimiterTypeOK, Limiter!Admissions
<1>2. ASSUME NEW r \in Requests, DenyBadRequest(r) PROVE TypeOK'
  <2>1. pc' \in [Requests -> Steps] /\ status' \in [Requests -> Statuses]
    BY <1>0, <1>2, AnswerType DEF DenyBadRequest, Statuses
  <2>2. log' \in SUBSET Events
    BY <1>0, <1>2, EventType, RecordType DEF DenyBadRequest, EventTypes
  <2>3. QED
    BY <1>0, <1>2, <2>1, <2>2 DEF DenyBadRequest, TypeOK, Limiter!LimiterTypeOK, Limiter!Admissions
<1>3. ASSUME NEW r \in Requests, Authorize(r) PROVE TypeOK'
  <2>1. pc' \in [Requests -> Steps] /\ status' \in [Requests -> Statuses]
    BY <1>0, <1>3, ContinueType DEF Authorize, Steps
  <2>2. input[r] \in Inputs
    BY <1>0, <1>3 DEF RequestInv, Authorize
  <2>3. policy.profiles[input[r].profile] \in Profiles
    BY <1>0, <2>2, BrokerAssumption DEF TypeOK, PolicyType, InputType
  <2>4. prof' \in [Requests -> Profiles \cup {NoProfile}]
    BY <1>0, <1>3, <2>3 DEF Authorize, TypeOK
  <2>5. QED
    BY <1>0, <1>3, <2>1, <2>4 DEF Authorize, TypeOK, Limiter!LimiterTypeOK, Limiter!Admissions
<1>4. ASSUME NEW r \in Requests, Forbid(r) PROVE TypeOK'
  <2>1. pc' \in [Requests -> Steps] /\ status' \in [Requests -> Statuses]
    BY <1>0, <1>4, AnswerType DEF Forbid, Statuses
  <2>2. log' \in SUBSET Events
    BY <1>0, <1>4, EventType, RecordType DEF Forbid, EventTypes
  <2>3. QED
    BY <1>0, <1>4, <2>1, <2>2 DEF Forbid, TypeOK, Limiter!LimiterTypeOK, Limiter!Admissions
<1>5. ASSUME NEW r \in Requests, RecordAuthorized(r) PROVE TypeOK'
  <2>1. pc' \in [Requests -> Steps] /\ status' \in [Requests -> Statuses]
    BY <1>0, <1>5, ContinueType, AnswerType DEF RecordAuthorized, Steps, Statuses
  <2>2. log' \in SUBSET Events
    BY <1>0, <1>5, EventType, RecordType, BarrierRecords DEF RecordAuthorized, EventTypes
  <2>3. QED
    BY <1>0, <1>5, <2>1, <2>2 DEF RecordAuthorized, TypeOK, Limiter!LimiterTypeOK, Limiter!Admissions
<1>6. ASSUME NEW r \in Requests, CheckRateLimit(r) PROVE TypeOK'
  <2>1. pc' \in [Requests -> Steps] /\ status' \in [Requests -> Statuses]
    BY <1>0, <1>6, ContinueType, AnswerType DEF CheckRateLimit, Steps, Statuses
  <2>2. log' \in SUBSET Events
    <3>1. CASE UNCHANGED log
      BY <1>0, <3>1 DEF TypeOK
    <3>2. CASE RecordAnyway(r, Event(r, "denied", NoRequest))
      BY <1>0, <3>2, EventType, RecordType DEF EventTypes
    <3>3. QED
      BY <1>6, <3>1, <3>2 DEF CheckRateLimit
  <2>3. input[r].identity \in Identities /\ input[r].profile \in ProfileNames
    BY <1>0, <1>6, BrokerAssumption DEF RequestInv, CheckRateLimit, InputType
  <2>4. Limiter!LimiterTypeOK'
    BY <1>0, <1>6, <2>3, LimiterType DEF CheckRateLimit
  <2>5. QED
    BY <1>0, <1>6, <2>1, <2>2, <2>4 DEF CheckRateLimit, TypeOK
<1>7. ASSUME NEW r \in Requests, JoinFlight(r) PROVE TypeOK'
  <2>1. pc' \in [Requests -> Steps] /\ status' \in [Requests -> Statuses]
    BY <1>0, <1>7, ContinueType DEF JoinFlight, Steps
  <2>2. flight' \in [CacheKeys -> Requests \cup {NoRequest}]
    BY <1>0, <1>7 DEF JoinFlight, TypeOK
  <2>3. QED
    BY <1>0, <1>7, <2>1, <2>2 DEF JoinFlight, TypeOK, Limiter!LimiterTypeOK, Limiter!Admissions
<1>8. ASSUME NEW r \in Requests, GetValidCertificate(r) PROVE TypeOK'
  <2>1. pc' \in [Requests -> Steps] /\ status' \in [Requests -> Statuses]
    BY <1>0, <1>8, ContinueType DEF GetValidCertificate, Steps
  <2>2. KeyOf(r) \in CacheKeys
    BY <1>0, <1>8, KeyType DEF RequestInv, GetValidCertificate, ProfileSteps, ClearedSteps, LeaderSteps
  <2>3. cache[KeyOf(r)] # NoCert =>
          [cert |-> cache[KeyOf(r)], cache |-> "hit"] \in Results
    BY <1>0, <2>2 DEF TypeOK, Results
  <2>4. result' \in [Requests -> Results \cup {NoResult}]
    BY <1>0, <1>8, <2>3 DEF GetValidCertificate, Valid, TypeOK
  <2>5. QED
    BY <1>0, <1>8, <2>1, <2>4 DEF GetValidCertificate, TypeOK, Limiter!LimiterTypeOK, Limiter!Admissions
<1>9. ASSUME NEW r \in Requests, Issue(r) PROVE TypeOK'
  <2>1. pc' \in [Requests -> Steps] /\ status' \in [Requests -> Statuses]
    BY <1>0, <1>9, ContinueType DEF Issue, Steps
  <2>2. NewCert(r) \in Certs
    BY <1>0, <1>9, CertType DEF RequestInv, Issue
  <2>3. [cert |-> NewCert(r), cache |-> "miss"] \in Results
    BY <2>2 DEF Results
  <2>4. /\ result' \in [Requests -> Results \cup {NoResult}]
        /\ orders' \in SUBSET Certs
    BY <1>0, <1>9, <2>2, <2>3 DEF Issue, TypeOK
  <2>5. QED
    BY <1>0, <1>9, <2>1, <2>4 DEF Issue, TypeOK, Limiter!LimiterTypeOK, Limiter!Admissions
<1>10. ASSUME NEW r \in Requests, PutCertificate(r) PROVE TypeOK'
  <2>1. pc' \in [Requests -> Steps] /\ status' \in [Requests -> Statuses]
    BY <1>0, <1>10, ContinueType DEF PutCertificate, Steps
  <2>2. result[r].cert \in Certs
    BY <1>0, <1>10 DEF PutCertificate, CertInv, TypeOK, Results
  <2>3. /\ result' \in [Requests -> Results \cup {NoResult}]
        /\ cache' \in [CacheKeys -> Certs \cup {NoCert}]
    BY <1>0, <1>10, <2>2 DEF PutCertificate, TypeOK
  <2>4. QED
    BY <1>0, <1>10, <2>1, <2>3 DEF PutCertificate, TypeOK, Limiter!LimiterTypeOK, Limiter!Admissions
<1>11. ASSUME NEW r \in Requests, Return(r) PROVE TypeOK'
  <2>1. /\ pc' \in [Requests -> Steps]
        /\ result' \in [Requests -> Results \cup {NoResult}]
        /\ flight' \in [CacheKeys -> Requests \cup {NoRequest}]
    BY <1>0, <1>11 DEF Return, TypeOK, Steps
  <2>2. QED
    BY <1>0, <1>11, <2>1 DEF Return, TypeOK, Limiter!LimiterTypeOK, Limiter!Admissions
<1>12. ASSUME NEW r \in Requests, IssueFailed(r) PROVE TypeOK'
  <2>1. pc' \in [Requests -> Steps] /\ status' \in [Requests -> Statuses]
    BY <1>0, <1>12, AnswerType DEF IssueFailed, Statuses
  <2>2. log' \in SUBSET Events
    BY <1>0, <1>12, EventType, RecordType DEF IssueFailed, EventTypes
  <2>3. QED
    BY <1>0, <1>12, <2>1, <2>2 DEF IssueFailed, TypeOK, Limiter!LimiterTypeOK, Limiter!Admissions
<1>13. ASSUME NEW r \in Requests, RecordIssued(r) PROVE TypeOK'
  <2>1. pc' \in [Requests -> Steps] /\ status' \in [Requests -> Statuses]
    BY <1>0, <1>13, AnswerType DEF RecordIssued, Statuses
  <2>2. result[r].cert.serial \in Requests
    BY <1>0, <1>13 DEF RecordIssued, TypeOK, Results, Certs
  <2>3. IssuedEvent(r) \in Events
    BY <2>2, EventType DEF IssuedEvent, EventTypes
  <2>4. log' \in SUBSET Events
    BY <1>0, <1>13, <2>3, RecordType, BarrierRecords DEF RecordIssued
  <2>5. QED
    BY <1>0, <1>13, <2>1, <2>4 DEF RecordIssued, TypeOK, Limiter!LimiterTypeOK, Limiter!Admissions
<1>14. ASSUME NEW r \in Requests, Disconnect(r) PROVE TypeOK'
  BY <1>0, <1>14 DEF Disconnect, TypeOK, Limiter!LimiterTypeOK, Limiter!Admissions
<1>15. CASE Reload
  BY <1>0, <1>15 DEF Reload, TypeOK, Limiter!LimiterTypeOK, Limiter!Admissions
<1>16. CASE Tick
  <2>1. now' \in 0..MaxTime
    BY <1>0, <1>16, BrokerAssumption DEF Tick, TypeOK
  <2>2. QED
    BY <1>0, <1>16, <2>1 DEF Tick, TypeOK, Limiter!LimiterTypeOK, Limiter!Admissions
<1>17. CASE Restart
  <2>1. pc' \in [Requests -> Steps]
    BY <1>0, <1>17 DEF Restart, TypeOK, Steps
  <2>2. log' \in SUBSET Events
    <3>1. Event(NoRequest, "broker_started", NoRequest) \in Events
      BY EventType DEF EventTypes
    <3>2. QED
      BY <1>0, <1>17, <3>1 DEF Restart, TypeOK
  <2>3. Limiter!LimiterTypeOK'
    BY <1>17 DEF Restart, Limiter!LimiterReset, Limiter!LimiterTypeOK
  <2>4. QED
    BY <1>0, <1>17, <2>1, <2>2, <2>3 DEF Restart, TypeOK
<1>18. CASE UNCHANGED vars
  BY <1>0, <1>18 DEF vars, TypeOK, Limiter!LimiterTypeOK, Limiter!Admissions
<1>19. QED
  BY <1>1, <1>2, <1>3, <1>4, <1>5, <1>6, <1>7, <1>8, <1>9, <1>10, <1>11, <1>12,
     <1>13, <1>14, <1>15, <1>16, <1>17, <1>18 DEF Next, Handle

-----------------------------------------------------------------------------
(* Requests and their flights.                                             *)

(* A handler's profile, once set, is final and agrees with its CSR. *)
LEMMA RequestStep ==
  ASSUME IInv, [Next]_vars
  PROVE  RequestInv'
<1> USE DEF reqVars, limVars, ProfileSteps, ClearedSteps, LeaderSteps
<1>0. TypeOK /\ RequestInv
  BY DEF IInv
<1>1. ASSUME NEW r \in Requests, Authenticate(r) PROVE RequestInv'
  BY <1>0, <1>1 DEF RequestInv, TypeOK, Authenticate, Continue, Answer, Goto
<1>2. ASSUME NEW r \in Requests, DenyBadRequest(r) PROVE RequestInv'
  BY <1>0, <1>2 DEF RequestInv, TypeOK, DenyBadRequest, Answer, Goto
<1>3. ASSUME NEW r \in Requests, Authorize(r) PROVE RequestInv'
  <2>1. policy.profiles[input[r].profile] \in Profiles
    BY <1>0, <1>3, BrokerAssumption
       DEF TypeOK, RequestInv, Authorize, PolicyType, InputType
  <2>2. policy.profiles[input[r].profile] # NoProfile
    BY <2>1, BrokerAssumption
  <2>3. QED
    BY <1>0, <1>3, <2>2 DEF RequestInv, TypeOK, Authorize, Authorized, Continue, Goto
<1>4. ASSUME NEW r \in Requests, Forbid(r) PROVE RequestInv'
  BY <1>0, <1>4 DEF RequestInv, TypeOK, Forbid, Answer, Goto
<1>5. ASSUME NEW r \in Requests, RecordAuthorized(r) PROVE RequestInv'
  BY <1>0, <1>5 DEF RequestInv, TypeOK, RecordAuthorized, Continue, Answer, Goto
<1>6. ASSUME NEW r \in Requests, CheckRateLimit(r) PROVE RequestInv'
  BY <1>0, <1>6 DEF RequestInv, TypeOK, CheckRateLimit, Continue, Answer, Goto
<1>7. ASSUME NEW r \in Requests, JoinFlight(r) PROVE RequestInv'
  BY <1>0, <1>7 DEF RequestInv, TypeOK, JoinFlight, Continue, Goto
<1>8. ASSUME NEW r \in Requests, GetValidCertificate(r) PROVE RequestInv'
  BY <1>0, <1>8 DEF RequestInv, TypeOK, GetValidCertificate, Continue, Goto
<1>9. ASSUME NEW r \in Requests, Issue(r) PROVE RequestInv'
  BY <1>0, <1>9 DEF RequestInv, TypeOK, Issue, Continue, Goto
<1>10. ASSUME NEW r \in Requests, PutCertificate(r) PROVE RequestInv'
  BY <1>0, <1>10 DEF RequestInv, TypeOK, PutCertificate, Continue, Goto
<1>11. ASSUME NEW r \in Requests, Return(r) PROVE RequestInv'
  BY <1>0, <1>11 DEF RequestInv, TypeOK, Return, Flying
<1>12. ASSUME NEW r \in Requests, IssueFailed(r) PROVE RequestInv'
  BY <1>0, <1>12 DEF RequestInv, TypeOK, IssueFailed, Answer, Goto
<1>13. ASSUME NEW r \in Requests, RecordIssued(r) PROVE RequestInv'
  BY <1>0, <1>13 DEF RequestInv, TypeOK, RecordIssued, Answer, Goto
<1>14. ASSUME NEW r \in Requests, Disconnect(r) PROVE RequestInv'
  BY <1>0, <1>14 DEF RequestInv, Disconnect
<1>15. CASE Reload \/ Tick \/ UNCHANGED vars
  BY <1>0, <1>15 DEF RequestInv, Reload, Tick, vars
<1>16. CASE Restart
  BY <1>0, <1>16 DEF RequestInv, TypeOK, Restart
<1>17. QED
  BY <1>1, <1>2, <1>3, <1>4, <1>5, <1>6, <1>7, <1>8, <1>9, <1>10, <1>11, <1>12,
     <1>13, <1>14, <1>15, <1>16 DEF Next, Handle

(* The cache key of a request that holds a profile never changes. *)
LEMMA KeyStable ==
  ASSUME IInv, [Next]_vars, NEW r \in Requests, prof[r] # NoProfile
  PROVE  input'[r] = input[r] /\ prof'[r] = prof[r] /\ KeyOf(r)' = KeyOf(r)
<1> USE DEF reqVars, limVars
<1>0. TypeOK /\ RequestInv
  BY DEF IInv
<1>1. pc[r] \notin {"idle", "authorize"}
  BY <1>0 DEF RequestInv
<1>2. input'[r] = input[r] /\ prof'[r] = prof[r]
  <2>1. ASSUME NEW q \in Requests, Authenticate(q) \/ Authorize(q)
        PROVE  input'[r] = input[r] /\ prof'[r] = prof[r]
    BY <1>0, <1>1, <2>1 DEF TypeOK, Authenticate, Authorize
  <2>2. CASE UNCHANGED <<input, prof>>
    BY <2>2
  <2>3. QED
    BY <2>1, <2>2 DEF Next, Handle, DenyBadRequest, Forbid, RecordAuthorized, CheckRateLimit,
       JoinFlight, GetValidCertificate, Issue, PutCertificate, Return, IssueFailed,
       RecordIssued, Disconnect, Reload, Tick, Restart, vars
<1>3. QED
  BY <1>2 DEF KeyOf

(* singleflight: the group and the leaders describe each other. *)
LEMMA FlightStep ==
  ASSUME IInv, [Next]_vars
  PROVE  FlightInv'
<1> USE DEF reqVars, limVars
<1>0. TypeOK /\ RequestInv /\ FlightInv
  BY DEF IInv
<1>a. \A q \in Requests : pc[q] \in ProfileSteps => KeyOf(q) \in CacheKeys
  BY <1>0, KeyType DEF RequestInv, ProfileSteps, ClearedSteps, LeaderSteps
<1>b. \A q \in Requests : pc[q] \in ProfileSteps => KeyOf(q)' = KeyOf(q)
  BY <1>0, KeyStable DEF RequestInv
<1>c. LeaderSteps \subseteq ProfileSteps
  BY DEF ProfileSteps, ClearedSteps
<1>1. ASSUME NEW r \in Requests, UNCHANGED flight, pc[r] \notin LeaderSteps,
             NEW step \in Steps \ LeaderSteps, Goto(r, step)
      PROVE  FlightInv'
  <2>1. \A q \in Requests : pc'[q] \in LeaderSteps => pc[q] \in LeaderSteps
    BY <1>0, <1>1 DEF TypeOK, Goto
  <2>2. \A q \in Requests : pc[q] \in LeaderSteps => pc'[q] \in LeaderSteps
    BY <1>0, <1>1 DEF TypeOK, Goto
  <2>3. QED
    BY <1>0, <1>1, <1>b, <1>c, <2>1, <2>2, BrokerAssumption DEF TypeOK, FlightInv
<1>2. ASSUME NEW r \in Requests, UNCHANGED flight, pc[r] \in LeaderSteps,
             NEW step \in LeaderSteps, Goto(r, step)
      PROVE  FlightInv'
  <2>1. \A q \in Requests : pc'[q] \in LeaderSteps <=> pc[q] \in LeaderSteps
    BY <1>0, <1>2 DEF TypeOK, Goto
  <2>2. QED
    BY <1>0, <1>2, <1>b, <1>c, <2>1, BrokerAssumption DEF TypeOK, FlightInv
<1>3. ASSUME NEW r \in Requests,
             \/ Authenticate(r) \/ DenyBadRequest(r) \/ Authorize(r) \/ Forbid(r)
             \/ RecordAuthorized(r) \/ CheckRateLimit(r) \/ IssueFailed(r)
             \/ RecordIssued(r)
      PROVE  FlightInv'
  BY <1>1, <1>3 DEF Authenticate, DenyBadRequest, Authorize, Forbid, RecordAuthorized,
     CheckRateLimit, IssueFailed, RecordIssued, Continue, Answer, Steps, LeaderSteps
<1>4. ASSUME NEW r \in Requests,
             GetValidCertificate(r) \/ Issue(r) \/ PutCertificate(r)
      PROVE  FlightInv'
  BY <1>2, <1>4 DEF GetValidCertificate, Issue, PutCertificate, Continue, LeaderSteps
<1>5. ASSUME NEW r \in Requests, JoinFlight(r) PROVE FlightInv'
  <2>1. CASE flight[KeyOf(r)] # NoRequest
    BY <1>1, <1>5, <2>1 DEF JoinFlight, Continue, Steps, LeaderSteps
  <2>2. CASE flight[KeyOf(r)] = NoRequest
    <3>1. /\ pc[r] = "flight"
          /\ pc' = [pc EXCEPT ![r] = "lookup"]
          /\ flight' = [flight EXCEPT ![KeyOf(r)] = r]
      BY <1>5, <2>2 DEF JoinFlight, Continue, Goto
    <3>2. KeyOf(r) \in CacheKeys /\ KeyOf(r)' = KeyOf(r)
      BY <1>a, <1>b, <3>1 DEF ProfileSteps, ClearedSteps
    <3>3. ASSUME NEW q \in Requests, pc'[q] \in LeaderSteps
          PROVE  flight'[KeyOf(q)'] = q
      <4>1. CASE q = r
        BY <1>0, <3>1, <3>2, <4>1 DEF TypeOK
      <4>2. CASE q # r
        <5>1. pc[q] \in LeaderSteps /\ KeyOf(q) \in CacheKeys /\ KeyOf(q)' = KeyOf(q)
          BY <1>0, <1>a, <1>b, <1>c, <3>1, <3>3, <4>2 DEF TypeOK
        <5>2. flight[KeyOf(q)] = q
          BY <1>0, <5>1 DEF FlightInv
        <5>3. KeyOf(q) # KeyOf(r)
          BY <2>2, <5>2, BrokerAssumption
        <5>4. QED
          BY <1>0, <3>1, <3>2, <5>1, <5>2, <5>3 DEF TypeOK
      <4>3. QED
        BY <4>1, <4>2
    <3>4. ASSUME NEW k \in CacheKeys, NEW q \in Requests, flight'[k] = q
          PROVE  pc'[q] \in LeaderSteps /\ KeyOf(q)' = k
      <4>1. CASE k = KeyOf(r)
        <5>1. q = r
          BY <1>0, <3>1, <3>4, <4>1 DEF TypeOK
        <5>2. QED
          BY <1>0, <3>1, <3>2, <4>1, <5>1 DEF TypeOK, LeaderSteps
      <4>2. CASE k # KeyOf(r)
        <5>1. flight[k] = q
          BY <1>0, <3>1, <3>4, <4>2 DEF TypeOK
        <5>2. pc[q] \in LeaderSteps /\ KeyOf(q) = k
          BY <1>0, <5>1 DEF FlightInv
        <5>3. QED
          BY <1>0, <1>b, <1>c, <3>1, <5>2 DEF TypeOK, LeaderSteps
      <4>3. QED
        BY <4>1, <4>2
    <3>5. QED
      BY <3>3, <3>4 DEF FlightInv
  <2>3. QED
    BY <2>1, <2>2
<1>6. ASSUME NEW r \in Requests, Return(r) PROVE FlightInv'
  <2>1. /\ pc[r] = "return"
        /\ flight' = [flight EXCEPT ![KeyOf(r)] = NoRequest]
        /\ pc' = [q \in Requests |-> IF q \in Flying(r) THEN "respond" ELSE pc[q]]
    BY <1>6 DEF Return
  <2>2. KeyOf(r) \in CacheKeys /\ flight[KeyOf(r)] = r
    BY <1>0, <1>a, <2>1 DEF FlightInv, LeaderSteps, ProfileSteps, ClearedSteps
  <2>3. \A q \in Requests : pc'[q] \in LeaderSteps <=> pc[q] \in LeaderSteps /\ q # r
    BY <2>1 DEF Flying, LeaderSteps
  <2>4. ASSUME NEW q \in Requests, pc'[q] \in LeaderSteps
        PROVE  flight'[KeyOf(q)'] = q
    <3>1. pc[q] \in LeaderSteps /\ q # r
      BY <2>3, <2>4
    <3>2. flight[KeyOf(q)] = q /\ KeyOf(q) \in CacheKeys /\ KeyOf(q)' = KeyOf(q)
      BY <1>0, <1>a, <1>b, <1>c, <3>1 DEF FlightInv
    <3>3. KeyOf(q) # KeyOf(r)
      BY <2>2, <3>1, <3>2
    <3>4. QED
      BY <1>0, <2>1, <3>2, <3>3 DEF TypeOK
  <2>5. ASSUME NEW k \in CacheKeys, NEW q \in Requests, flight'[k] = q
        PROVE  pc'[q] \in LeaderSteps /\ KeyOf(q)' = k
    <3>1. k # KeyOf(r) /\ flight[k] = q
      BY <1>0, <2>1, <2>2, <2>5, BrokerAssumption DEF TypeOK
    <3>2. pc[q] \in LeaderSteps /\ KeyOf(q) = k /\ q # r
      BY <1>0, <3>1 DEF FlightInv
    <3>3. QED
      BY <1>b, <1>c, <2>3, <3>2
  <2>6. QED
    BY <2>4, <2>5 DEF FlightInv
<1>7. ASSUME UNCHANGED <<flight, pc, input, prof>> PROVE FlightInv'
  BY <1>0, <1>7 DEF FlightInv, KeyOf
<1>8. ASSUME NEW r \in Requests, Disconnect(r) PROVE FlightInv'
  BY <1>7, <1>8 DEF Disconnect
<1>9. CASE Reload \/ Tick \/ UNCHANGED vars
  BY <1>7, <1>9 DEF Reload, Tick, vars
<1>10. CASE Restart
  BY <1>0, <1>10, BrokerAssumption DEF Restart, FlightInv, TypeOK, LeaderSteps
<1>11. QED
  BY <1>3, <1>4, <1>5, <1>6, <1>8, <1>9, <1>10 DEF Next, Handle

LEMMA WaitStep ==
  ASSUME IInv, [Next]_vars
  PROVE  WaitInv'
<1> USE DEF reqVars, limVars
<1>0. TypeOK /\ RequestInv /\ WaitInv
  BY DEF IInv
<1>a. \A q \in Requests : pc[q] \in ProfileSteps => KeyOf(q) \in CacheKeys
  BY <1>0, KeyType DEF RequestInv, ProfileSteps, ClearedSteps, LeaderSteps
<1>b. \A q \in Requests : pc[q] \in ProfileSteps => KeyOf(q)' = KeyOf(q)
  BY <1>0, KeyStable DEF RequestInv
<1>1. {"wait", "flight", "return"} \subseteq ProfileSteps
  BY DEF ProfileSteps, ClearedSteps, LeaderSteps
<1>2. ASSUME NEW r \in Requests, UNCHANGED flight, NEW step \in Steps \ {"wait"},
             Goto(r, step)
      PROVE  WaitInv'
  <2>1. \A q \in Requests : pc'[q] = "wait" => pc[q] = "wait"
    BY <1>0, <1>2 DEF TypeOK, Goto
  <2>2. QED
    BY <1>0, <1>2, <1>b, <1>1, <2>1 DEF WaitInv
<1>3. ASSUME NEW r \in Requests,
             \/ Authenticate(r) \/ DenyBadRequest(r) \/ Authorize(r) \/ Forbid(r)
             \/ RecordAuthorized(r) \/ CheckRateLimit(r) \/ IssueFailed(r)
             \/ RecordIssued(r) \/ GetValidCertificate(r) \/ Issue(r)
             \/ PutCertificate(r)
      PROVE  WaitInv'
  BY <1>2, <1>3 DEF Authenticate, DenyBadRequest, Authorize, Forbid, RecordAuthorized,
     CheckRateLimit, IssueFailed, RecordIssued, GetValidCertificate, Issue,
     PutCertificate, Continue, Answer, Steps
<1>4. ASSUME NEW r \in Requests, JoinFlight(r) PROVE WaitInv'
  <2>1. pc[r] = "flight" /\ KeyOf(r) \in CacheKeys /\ KeyOf(r)' = KeyOf(r)
    BY <1>4, <1>a, <1>b, <1>1 DEF JoinFlight
  <2>2. CASE flight[KeyOf(r)] # NoRequest
    <3>1. UNCHANGED flight /\ pc' = [pc EXCEPT ![r] = "wait"]
      BY <1>4, <2>2 DEF JoinFlight, Continue, Goto
    <3>2. \A q \in Requests : pc'[q] = "wait" => q = r \/ pc[q] = "wait"
      BY <1>0, <3>1 DEF TypeOK
    <3>3. QED
      BY <1>0, <1>b, <1>1, <2>1, <2>2, <3>1, <3>2 DEF WaitInv
  <2>3. CASE flight[KeyOf(r)] = NoRequest
    <3>1. /\ flight' = [flight EXCEPT ![KeyOf(r)] = r]
          /\ pc' = [pc EXCEPT ![r] = "lookup"]
      BY <1>4, <2>3 DEF JoinFlight, Continue, Goto
    <3>2. \A q \in Requests : pc'[q] = "wait" => pc[q] = "wait"
      BY <1>0, <3>1 DEF TypeOK
    <3>3. \A k \in CacheKeys : flight[k] # NoRequest => flight'[k] # NoRequest
      BY <1>0, <3>1, BrokerAssumption DEF TypeOK
    <3>4. QED
      BY <1>0, <1>a, <1>b, <1>1, <3>2, <3>3 DEF WaitInv
  <2>4. QED
    BY <2>2, <2>3
<1>5. ASSUME NEW r \in Requests, Return(r) PROVE WaitInv'
  <2>1. /\ flight' = [flight EXCEPT ![KeyOf(r)] = NoRequest]
        /\ pc' = [q \in Requests |-> IF q \in Flying(r) THEN "respond" ELSE pc[q]]
    BY <1>5 DEF Return
  <2>2. ASSUME NEW q \in Requests, pc'[q] = "wait"
        PROVE  flight'[KeyOf(q)'] # NoRequest
    <3>1. pc[q] = "wait" /\ KeyOf(q) # KeyOf(r)
      BY <2>1, <2>2 DEF Flying
    <3>2. KeyOf(q) \in CacheKeys /\ KeyOf(q)' = KeyOf(q) /\ flight[KeyOf(q)] # NoRequest
      BY <1>0, <1>a, <1>b, <1>1, <3>1 DEF WaitInv
    <3>3. QED
      BY <1>0, <2>1, <3>1, <3>2 DEF TypeOK
  <2>3. QED
    BY <2>2 DEF WaitInv
<1>6. ASSUME UNCHANGED <<flight, pc, input, prof>> PROVE WaitInv'
  BY <1>0, <1>6 DEF WaitInv, KeyOf
<1>7. ASSUME NEW r \in Requests, Disconnect(r) PROVE WaitInv'
  BY <1>6, <1>7 DEF Disconnect
<1>8. CASE Reload \/ Tick \/ UNCHANGED vars
  BY <1>6, <1>8 DEF Reload, Tick, vars
<1>9. CASE Restart
  BY <1>9 DEF Restart, Dead, WaitInv
<1>10. QED
  BY <1>3, <1>4, <1>5, <1>7, <1>8, <1>9 DEF Next, Handle

-----------------------------------------------------------------------------
(* The audit log.                                                          *)

(* Nothing deletes an event. *)
LEMMA LogGrows ==
  ASSUME [Next]_vars
  PROVE  log \subseteq log'
<1> USE DEF reqVars, limVars
<1>1. ASSUME NEW r, NEW e, RecordAnyway(r, e) PROVE log \subseteq log'
  BY <1>1 DEF RecordAnyway, RecordOk, RecordErr
<1>2. ASSUME NEW r \in Requests,
             \/ Authenticate(r) \/ DenyBadRequest(r) \/ Forbid(r)
             \/ RecordAuthorized(r) \/ IssueFailed(r) \/ RecordIssued(r)
             \/ CheckRateLimit(r)
      PROVE  log \subseteq log'
  BY <1>1, <1>2, BarrierRecords DEF Authenticate, DenyBadRequest, Forbid, RecordAuthorized,
     IssueFailed, RecordIssued, CheckRateLimit
<1>3. CASE UNCHANGED log
  BY <1>3
<1>4. CASE Restart
  BY <1>4 DEF Restart
<1>5. QED
  BY <1>2, <1>3, <1>4 DEF Next, Handle, Authorize, JoinFlight, GetValidCertificate, Issue,
     PutCertificate, Return, Disconnect, Reload, Tick, vars

(* auditBarrier: in fail_closed mode what passes is in the log. *)
LEMMA BarrierWrites ==
  ASSUME Strict, NEW r, NEW e, BarrierPasses(r, e)
  PROVE  e \in log'
BY DEF Strict, BarrierPasses, RecordOk

(* The two barriers keep the log ahead of the CA and of the answers. *)
LEMMA AuditStep ==
  ASSUME IInv, [Next]_vars
  PROVE  AuditInv'
<1> USE DEF reqVars, limVars
<1> SUFFICES ASSUME Strict PROVE AuditInv'
  BY DEF AuditInv, Strict
<1> DEFINE Ev(q) == Event(q, "authorized", NoRequest)
<1>0. TypeOK /\ RequestInv /\ CertInv
  BY DEF IInv
<1>a. /\ \A q \in Requests : pc[q] \in ClearedSteps => Ev(q) \in log
      /\ \A c \in orders : Ev(c.serial) \in log
      /\ \A q \in Requests : status[q] = 200 => IssuedEvent(q) \in log
  BY DEF IInv, AuditInv, OrdersAreAudited, ServedAreAudited
<1>b. log \subseteq log'
  BY LogGrows
<1>c. SUFFICES /\ \A q \in Requests : pc'[q] \in ClearedSteps => Ev(q) \in log'
               /\ \A c \in orders' : Ev(c.serial) \in log'
               /\ \A q \in Requests : status'[q] = 200 => IssuedEvent(q)' \in log'
  BY DEF AuditInv, OrdersAreAudited, ServedAreAudited, Event
<1> HIDE DEF Ev
(* A handler enters the cleared steps through the first barrier only. *)
<1>1. ASSUME NEW q \in Requests, pc'[q] \in ClearedSteps PROVE Ev(q) \in log'
  <2>1. CASE pc[q] \in ClearedSteps
    BY <1>a, <1>b, <2>1
  <2>2. CASE pc[q] \notin ClearedSteps
    <3>1. RecordAuthorized(q) /\ pc'[q] # "done"
      BY <1>0, <1>1, <2>2 DEF TypeOK, ClearedSteps, LeaderSteps, Next, Handle, Authenticate,
         DenyBadRequest, Authorize, Forbid, RecordAuthorized, CheckRateLimit, JoinFlight,
         GetValidCertificate, Issue, PutCertificate, Return, Flying, IssueFailed,
         RecordIssued, Disconnect, Reload, Tick, Restart, vars, Continue, Answer, Goto
    <3>2. BarrierPasses(q, Ev(q))
      BY <1>0, <3>1 DEF TypeOK, RecordAuthorized, Answer, Goto, Ev
    <3>3. QED
      BY <3>2, BarrierWrites
  <2>3. QED
    BY <2>1, <2>2
(* Orders are placed by cleared handlers. *)
<1>2. ASSUME NEW c \in orders' PROVE Ev(c.serial) \in log'
  <2>1. CASE c \in orders
    BY <1>a, <1>b, <2>1
  <2>2. CASE c \notin orders
    <3>1. PICK r \in Requests : Issue(r) /\ c = NewCert(r)
      BY <1>2, <2>2 DEF Next, Handle, Authenticate, DenyBadRequest, Authorize, Forbid,
         RecordAuthorized, CheckRateLimit, JoinFlight, GetValidCertificate, Issue,
         PutCertificate, Return, IssueFailed, RecordIssued, Disconnect, Reload, Tick,
         Restart, vars
    <3>2. c.serial = r /\ pc[r] \in ClearedSteps
      BY <3>1 DEF NewCert, Issue, ClearedSteps, LeaderSteps
    <3>3. QED
      BY <1>a, <1>b, <3>2
  <2>3. QED
    BY <2>1, <2>2
(* A 200 is behind the second barrier, and what it names does not change. *)
<1>3. ASSUME NEW q \in Requests, status'[q] = 200 PROVE IssuedEvent(q)' \in log'
  <2>1. CASE status[q] = 200
    <3>1. pc[q] = "done"
      BY <1>0, <2>1 DEF RequestInv
    <3>2. result'[q] = result[q]
      BY <1>0, <3>1 DEF TypeOK, Next, Handle, Authenticate, DenyBadRequest, Authorize,
         Forbid, RecordAuthorized, CheckRateLimit, JoinFlight, GetValidCertificate, Issue,
         PutCertificate, Return, Flying, IssueFailed, RecordIssued, Disconnect, Reload,
         Tick, Restart, vars
    <3>3. QED
      BY <1>a, <1>b, <2>1, <3>2 DEF IssuedEvent, Event
  <2>2. CASE status[q] # 200
    <3>1. RecordIssued(q)
      BY <1>0, <1>3, <2>2 DEF TypeOK, Next, Handle, Authenticate, DenyBadRequest, Authorize,
         Forbid, RecordAuthorized, CheckRateLimit, JoinFlight, GetValidCertificate, Issue,
         PutCertificate, Return, IssueFailed, RecordIssued, Disconnect, Reload, Tick,
         Restart, vars, Continue, Answer, Goto
    <3>2. BarrierPasses(q, IssuedEvent(q)) /\ result' = result
      BY <1>0, <1>3, <3>1 DEF TypeOK, RecordIssued, Answer
    <3>3. QED
      BY <3>2, BarrierWrites DEF IssuedEvent, Event
  <2>3. QED
    BY <2>1, <2>2
<1>4. QED
  BY <1>1, <1>2, <1>3

-----------------------------------------------------------------------------
(* Certificates.                                                           *)

(* What the CA issued to a request stays what it is. *)
LEMMA IssuedForStable ==
  ASSUME IInv, [Next]_vars, NEW c, NEW k, IssuedFor(c, k)
  PROVE  IssuedFor(c, k)'
<1>1. orders \subseteq orders'
  BY DEF Next, Handle, Authenticate, DenyBadRequest, Authorize, Forbid,
         RecordAuthorized, CheckRateLimit, JoinFlight, GetValidCertificate, Issue,
         PutCertificate, Return, IssueFailed, RecordIssued, Disconnect, Reload, Tick,
         Restart, vars, limVars, reqVars
<1>2. c.serial \in Requests /\ prof[c.serial] # NoProfile
  BY DEF IInv, TypeOK, CertInv, IssuedFor, Certs
<1>3. input'[c.serial] = input[c.serial] /\ prof'[c.serial] = prof[c.serial]
  BY <1>2, KeyStable
<1>4. QED
  BY <1>1, <1>3 DEF IssuedFor

LEMMA LaterPlus ==
  ASSUME NEW a \in Nat, NEW b \in Nat, NEW l \in Nat, a <= b
  PROVE  a + l <= b + l
OBVIOUS

(* Every certificate in the cache and in a result is the CA's answer to a  *)
(* request with the same cache key.                                        *)
LEMMA CertStep ==
  ASSUME IInv, [Next]_vars
  PROVE  CertInv'
<1> USE DEF reqVars, limVars
<1>0. TypeOK /\ RequestInv /\ CertInv
  BY DEF IInv
<1>a. \A q \in Requests : pc[q] \in ProfileSteps => prof[q] # NoProfile /\ input[q] \in Inputs
  BY <1>0 DEF RequestInv, ProfileSteps, ClearedSteps, LeaderSteps
<1>b. \A q \in Requests : prof[q] # NoProfile =>
        input'[q] = input[q] /\ prof'[q] = prof[q] /\ KeyOf(q)' = KeyOf(q)
  BY KeyStable
<1>c. \A q \in Requests : pc[q] \in ProfileSteps => KeyOf(q) \in CacheKeys
  BY <1>0, <1>a, KeyType
<1>1. ASSUME NEW c \in orders'
      PROVE  prof'[c.serial] # NoProfile /\ c.notAfter <= now' + Lifetime
  <2>1. now' \in Nat /\ now \in Nat /\ now <= now'
    BY <1>0, BrokerAssumption DEF TypeOK, Next, Handle, Authenticate, DenyBadRequest, Authorize, Forbid,
         RecordAuthorized, CheckRateLimit, JoinFlight, GetValidCertificate, Issue,
         PutCertificate, Return, IssueFailed, RecordIssued, Disconnect, Reload, Tick,
         Restart, vars
  <2>2. CASE c \in orders
    <3>1. c.serial \in Requests /\ c.notAfter \in Nat
      BY <1>0, <2>2 DEF TypeOK, Certs
    <3>2. QED
      BY <1>0, <1>b, <2>1, <2>2, <3>1, BrokerAssumption DEF CertInv
  <2>3. CASE c \notin orders
    <3>1. PICK r \in Requests : Issue(r) /\ c = NewCert(r)
      BY <1>1, <2>3 DEF Next, Handle, Authenticate, DenyBadRequest, Authorize, Forbid,
         RecordAuthorized, CheckRateLimit, JoinFlight, GetValidCertificate, Issue,
         PutCertificate, Return, IssueFailed, RecordIssued, Disconnect, Reload, Tick,
         Restart, vars
    <3>2. c.serial = r /\ c.notAfter = now + Lifetime /\ prof[r] # NoProfile
      BY <1>a, <3>1 DEF NewCert, Issue, ProfileSteps, ClearedSteps, LeaderSteps
    <3>3. prof'[r] # NoProfile
      BY <1>b, <3>2
    <3>4. Lifetime \in Nat
      BY BrokerAssumption
    <3>5. now + Lifetime <= now' + Lifetime
      BY <2>1, <3>4, LaterPlus
    <3>6. QED
      BY <3>2, <3>3, <3>5
  <2>4. QED
    BY <2>2, <2>3
<1>2. ASSUME NEW k \in CacheKeys, cache'[k] # NoCert PROVE IssuedFor(cache[k], k)'
  <2>1. CASE cache'[k] = cache[k]
    <3>1. IssuedFor(cache[k], k)
      BY <1>0, <1>2, <2>1 DEF CertInv
    <3>2. QED
      BY <2>1, <3>1, IssuedForStable DEF IssuedFor
  <2>2. CASE cache'[k] # cache[k]
    <3>1. PICK r \in Requests : PutCertificate(r)
      BY <2>2 DEF Next, Handle, Authenticate, DenyBadRequest, Authorize, Forbid,
         RecordAuthorized, CheckRateLimit, JoinFlight, GetValidCertificate, Issue,
         PutCertificate, Return, IssueFailed, RecordIssued, Disconnect, Reload, Tick,
         Restart, vars
    <3>2. cache'[k] = result[r].cert /\ k = KeyOf(r)
      BY <1>0, <2>2, <3>1 DEF PutCertificate, TypeOK
    <3>3. IssuedFor(result[r].cert, k)
      BY <1>0, <3>1, <3>2 DEF CertInv, PutCertificate
    <3>4. QED
      BY <3>2, <3>3, IssuedForStable DEF IssuedFor
  <2>3. QED
    BY <2>1, <2>2
<1>3. ASSUME NEW q \in Requests, result'[q] # NoResult
      PROVE  prof'[q] # NoProfile /\ IssuedFor(result[q].cert, KeyOf(q))'
  <2> DEFINE Good == /\ prof[q] # NoProfile
                     /\ \/ IssuedFor(result'[q].cert, KeyOf(q))
                        \/ NewCert(q) \in orders' /\ result'[q].cert = NewCert(q)
  <2>1. SUFFICES Good
    <3>1. prof'[q] # NoProfile /\ KeyOf(q)' = KeyOf(q)
      BY <1>b, <2>1
    <3>2. CASE IssuedFor(result'[q].cert, KeyOf(q))
      BY <3>1, <3>2, IssuedForStable DEF IssuedFor
    <3>3. CASE NewCert(q) \in orders' /\ result'[q].cert = NewCert(q)
      <4>1. prof[q].names = input[q].names
        BY <1>0, <2>1 DEF RequestInv
      <4>2. QED
        BY <1>b, <2>1, <3>1, <3>3, <4>1 DEF IssuedFor, NewCert, KeyOf
    <3>4. QED
      BY <2>1, <3>2, <3>3
  <2>2. CASE result'[q] = result[q]
    BY <1>0, <1>3, <2>2 DEF CertInv
  <2>3. CASE result'[q] # result[q]
    <3>1. \E r \in Requests : \/ GetValidCertificate(r) \/ Issue(r)
                              \/ PutCertificate(r) \/ Return(r)
      BY <2>3 DEF Next, Handle, Authenticate, DenyBadRequest, Authorize, Forbid,
         RecordAuthorized, CheckRateLimit, JoinFlight, GetValidCertificate, Issue,
         PutCertificate, Return, IssueFailed, RecordIssued, Disconnect, Reload, Tick,
         Restart, vars
    <3>2. ASSUME NEW r \in Requests, GetValidCertificate(r) PROVE Good
      <4>1. q = r /\ cache[KeyOf(q)] # NoCert /\ result'[q].cert = cache[KeyOf(q)]
        BY <1>0, <2>3, <3>2 DEF GetValidCertificate, Valid, TypeOK
      <4>2. pc[q] \in ProfileSteps
        BY <3>2, <4>1 DEF GetValidCertificate, ProfileSteps, ClearedSteps, LeaderSteps
      <4>3. QED
        BY <1>0, <1>a, <1>c, <4>1, <4>2 DEF CertInv
    <3>3. ASSUME NEW r \in Requests, Issue(r) PROVE Good
      <4>1. q = r /\ NewCert(q) \in orders' /\ result'[q].cert = NewCert(q)
        BY <1>0, <2>3, <3>3 DEF Issue, TypeOK
      <4>2. QED
        BY <1>a, <3>3, <4>1 DEF Issue, ProfileSteps, ClearedSteps, LeaderSteps
    <3>4. ASSUME NEW r \in Requests, PutCertificate(r) PROVE Good
      BY <1>0, <1>3, <2>3, <3>4 DEF PutCertificate, TypeOK
    <3>5. ASSUME NEW r \in Requests, Return(r) PROVE Good
      <4>1. q \in Flying(r) /\ result'[q] = result[r]
        BY <1>0, <2>3, <3>5 DEF Return, TypeOK
      <4>2. KeyOf(q) = KeyOf(r) /\ pc[q] \in ProfileSteps
        BY <3>5, <4>1 DEF Return, Flying, ProfileSteps, ClearedSteps, LeaderSteps
      <4>3. QED
        BY <1>0, <1>3, <1>a, <4>1, <4>2 DEF CertInv
    <3>6. QED
      BY <3>1, <3>2, <3>3, <3>4, <3>5
  <2>4. QED
    BY <2>2, <2>3
<1>4. ASSUME NEW q \in Requests, pc'[q] = "put" PROVE result'[q] # NoResult
  <2>1. CASE pc[q] = "put"
    BY <1>0, <1>4, <2>1 DEF TypeOK, CertInv, Flying, Continue, Goto, Next, Handle, Authenticate, DenyBadRequest, Authorize, Forbid,
         RecordAuthorized, CheckRateLimit, JoinFlight, GetValidCertificate, Issue,
         PutCertificate, Return, IssueFailed, RecordIssued, Disconnect, Reload, Tick,
         Restart, vars
  <2>2. CASE pc[q] # "put"
    <3>1. /\ Issue(q)
          /\ result' = [result EXCEPT ![q] = [cert |-> NewCert(q), cache |-> "miss"]]
      BY <1>0, <1>4, <2>2 DEF TypeOK, Flying, Continue, Answer, Goto, Next, Handle, Authenticate, DenyBadRequest, Authorize, Forbid,
         RecordAuthorized, CheckRateLimit, JoinFlight, GetValidCertificate, Issue,
         PutCertificate, Return, IssueFailed, RecordIssued, Disconnect, Reload, Tick,
         Restart, vars
    <3>2. [cert |-> NewCert(q), cache |-> "miss"] \in Results
      BY <1>0, <1>a, <3>1, CertType DEF Results, Issue, ProfileSteps, ClearedSteps, LeaderSteps
    <3>3. QED
      BY <1>0, <3>1, <3>2, BrokerAssumption DEF TypeOK
  <2>3. QED
    BY <2>1, <2>2
<1>5. ASSUME NEW q \in Requests, status'[q] = 200 PROVE result'[q] # NoResult
  <2>1. CASE status[q] = 200
    <3>1. pc[q] = "done" /\ result[q] # NoResult
      BY <1>0, <2>1 DEF RequestInv, CertInv
    <3>2. QED
      BY <1>0, <3>1 DEF TypeOK, Flying, Next, Handle, Authenticate, DenyBadRequest, Authorize, Forbid,
         RecordAuthorized, CheckRateLimit, JoinFlight, GetValidCertificate, Issue,
         PutCertificate, Return, IssueFailed, RecordIssued, Disconnect, Reload, Tick,
         Restart, vars
  <2>2. CASE status[q] # 200
    BY <1>0, <1>5, <2>2 DEF TypeOK, Continue, Answer, Goto, Next, Handle, Authenticate, DenyBadRequest, Authorize, Forbid,
         RecordAuthorized, CheckRateLimit, JoinFlight, GetValidCertificate, Issue,
         PutCertificate, Return, IssueFailed, RecordIssued, Disconnect, Reload, Tick,
         Restart, vars
  <2>3. QED
    BY <2>1, <2>2
<1>6. ASSUME NEW q \in Requests, result'[q] # NoResult
      PROVE  pc'[q] \in {"put", "return", "respond", "done"}
  <2>1. CASE result[q] # NoResult
    <3>1. pc[q] \in {"put", "return", "respond", "done"}
      BY <1>0, <2>1 DEF CertInv
    <3>2. QED
      BY <1>0, <3>1 DEF TypeOK, Flying, Continue, Answer, Goto, Next, Handle, Authenticate, DenyBadRequest, Authorize, Forbid,
         RecordAuthorized, CheckRateLimit, JoinFlight, GetValidCertificate, Issue,
         PutCertificate, Return, IssueFailed, RecordIssued, Disconnect, Reload, Tick,
         Restart, vars
  <2>2. CASE result[q] = NoResult
    BY <1>0, <1>6, <2>2 DEF TypeOK, Flying, Continue, Goto, Next, Handle, Authenticate, DenyBadRequest, Authorize, Forbid,
         RecordAuthorized, CheckRateLimit, JoinFlight, GetValidCertificate, Issue,
         PutCertificate, Return, IssueFailed, RecordIssued, Disconnect, Reload, Tick,
         Restart, vars
  <2>3. QED
    BY <2>1, <2>2
<1>7. QED
  BY <1>1, <1>2, <1>3, <1>4, <1>5, <1>6 DEF CertInv

-----------------------------------------------------------------------------
(* The cache.                                                              *)

(* Only PutCertificate writes the cache, and only its own key. *)
LEMMA CacheWriter ==
  ASSUME IInv, [Next]_vars, NEW k \in CacheKeys, cache'[k] # cache[k]
  PROVE  \E r \in Requests :
           PutCertificate(r) /\ KeyOf(r) = k /\ cache'[k] = result[r].cert
<1>1. PICK r \in Requests : PutCertificate(r)
  BY DEF Next, Handle, Authenticate, DenyBadRequest, Authorize, Forbid,
         RecordAuthorized, CheckRateLimit, JoinFlight, GetValidCertificate, Issue,
         PutCertificate, Return, IssueFailed, RecordIssued, Disconnect, Reload, Tick,
         Restart, vars, limVars, reqVars
<1>2. KeyOf(r) = k /\ cache'[k] = result[r].cert
  BY <1>1 DEF PutCertificate, IInv, TypeOK
<1>3. QED
  BY <1>1, <1>2

(* While a leader of key k is inside its call nobody else writes k. *)
LEMMA CacheKept ==
  ASSUME IInv, [Next]_vars, NEW q \in Requests, pc[q] \in LeaderSteps, ~PutCertificate(q)
  PROVE  cache'[KeyOf(q)] = cache[KeyOf(q)]
<1>1. KeyOf(q) \in CacheKeys
  BY KeyType DEF IInv, RequestInv, ProfileSteps, ClearedSteps, LeaderSteps
<1>2. ASSUME cache'[KeyOf(q)] # cache[KeyOf(q)] PROVE FALSE
  <2>1. PICK r \in Requests : PutCertificate(r) /\ KeyOf(r) = KeyOf(q)
    BY <1>1, <1>2, CacheWriter
  <2>2. flight[KeyOf(q)] = q /\ flight[KeyOf(r)] = r
    BY <2>1 DEF IInv, FlightInv, PutCertificate, LeaderSteps
  <2>3. QED
    BY <2>1, <2>2
<1>3. QED
  BY <1>2

(* An entry is only ever replaced by one that expires no earlier. *)
LEMMA CacheGrows ==
  ASSUME IInv, [Next]_vars, NEW k \in CacheKeys, cache[k] # NoCert
  PROVE  cache'[k] # NoCert /\ cache'[k].notAfter >= cache[k].notAfter
<1>1. CASE cache'[k] = cache[k]
  <2>1. cache[k].notAfter \in Nat
    BY DEF IInv, TypeOK, Certs
  <2>2. QED
    BY <1>1, <2>1
<1>2. CASE cache'[k] # cache[k]
  <2>1. PICK r \in Requests :
          PutCertificate(r) /\ KeyOf(r) = k /\ cache'[k] = result[r].cert
    BY <1>2, CacheWriter
  <2>2. result[r].cert \in Certs
    BY <2>1 DEF PutCertificate, IInv, CertInv, TypeOK, Results
  <2>3. cache[k].notAfter <= result[r].cert.notAfter
    BY <2>1 DEF PutCertificate, IInv, CacheInv
  <2>4. cache[k].notAfter \in Nat /\ result[r].cert.notAfter \in Nat
    BY <2>2 DEF IInv, TypeOK, Certs
  <2>5. QED
    BY <2>1, <2>2, <2>3, <2>4, BrokerAssumption
<1>3. QED
  BY <1>1, <1>2

(* What a leader learned from the cache stays true until it has written. *)
LEMMA CacheStep ==
  ASSUME IInv, [Next]_vars
  PROVE  CacheInv'
<1> USE DEF reqVars, limVars
<1>0. TypeOK /\ RequestInv /\ CertInv /\ CacheInv
  BY DEF IInv
<1>a. \A q \in Requests : pc[q] \in ProfileSteps =>
        /\ prof[q] # NoProfile /\ KeyOf(q) \in CacheKeys
        /\ prof'[q] = prof[q] /\ KeyOf(q)' = KeyOf(q)
        /\ prof[q].renewBefore \in Nat
  BY <1>0, KeyType, KeyStable, BrokerAssumption
     DEF TypeOK, RequestInv, ProfileType, ProfileSteps, ClearedSteps, LeaderSteps
<1>b. now' \in Nat /\ now \in Nat /\ now <= now'
  BY <1>0, BrokerAssumption DEF TypeOK, Next, Handle, Authenticate, DenyBadRequest, Authorize, Forbid,
         RecordAuthorized, CheckRateLimit, JoinFlight, GetValidCertificate, Issue,
         PutCertificate, Return, IssueFailed, RecordIssued, Disconnect, Reload, Tick,
         Restart, vars
<1>c. \A k \in CacheKeys : cache[k] # NoCert => cache[k] \in orders /\ cache[k].notAfter \in Nat
  BY <1>0 DEF TypeOK, CertInv, IssuedFor, Certs
<1>1. ASSUME NEW q \in Requests, pc'[q] = "obtain"
      PROVE  ~Valid(cache[KeyOf(q)], prof[q].renewBefore)'
  <2>1. pc[q] \in {"lookup", "obtain"} /\ ~PutCertificate(q)
    BY <1>0, <1>1 DEF TypeOK, Flying, Continue, Answer, Goto, Next, Handle, Authenticate, DenyBadRequest, Authorize, Forbid,
         RecordAuthorized, CheckRateLimit, JoinFlight, GetValidCertificate, Issue,
         PutCertificate, Return, IssueFailed, RecordIssued, Disconnect, Reload, Tick,
         Restart, vars
  <2>2. /\ pc[q] \in ProfileSteps
        /\ cache'[KeyOf(q)] = cache[KeyOf(q)]
    BY <2>1, CacheKept DEF ProfileSteps, ClearedSteps, LeaderSteps
  <2>3. ~Valid(cache[KeyOf(q)], prof[q].renewBefore)
    <3>1. CASE pc[q] = "obtain"
      BY <1>0, <3>1 DEF CacheInv
    <3>2. CASE pc[q] = "lookup"
      BY <1>0, <1>1, <3>2 DEF TypeOK, Flying, Continue, Answer, Goto, Next, Handle, Authenticate, DenyBadRequest, Authorize, Forbid,
         RecordAuthorized, CheckRateLimit, JoinFlight, GetValidCertificate, Issue,
         PutCertificate, Return, IssueFailed, RecordIssued, Disconnect, Reload, Tick,
         Restart, vars
    <3>3. QED
      BY <2>1, <3>1, <3>2
  <2>4. QED
    BY <1>a, <1>b, <1>c, <2>2, <2>3 DEF Valid
<1>2. ASSUME NEW q \in Requests, pc'[q] = "put", cache'[KeyOf(q)'] # NoCert
      PROVE  cache'[KeyOf(q)'].notAfter <= result'[q].cert.notAfter
  <2>1. CASE pc[q] = "put"
    <3>1. ~PutCertificate(q) /\ result'[q] = result[q]
      BY <1>0, <1>2, <2>1 DEF TypeOK, Flying, Continue, Answer, Goto, Next, Handle, Authenticate, DenyBadRequest, Authorize, Forbid,
         RecordAuthorized, CheckRateLimit, JoinFlight, GetValidCertificate, Issue,
         PutCertificate, Return, IssueFailed, RecordIssued, Disconnect, Reload, Tick,
         Restart, vars
    <3>2. pc[q] \in ProfileSteps /\ cache'[KeyOf(q)] = cache[KeyOf(q)]
      BY <2>1, <3>1, CacheKept DEF ProfileSteps, ClearedSteps, LeaderSteps
    <3>3. QED
      BY <1>0, <1>2, <1>a, <2>1, <3>1, <3>2 DEF CacheInv
  <2>2. CASE pc[q] # "put"
    <3>1. /\ Issue(q)
          /\ result' = [result EXCEPT ![q] = [cert |-> NewCert(q), cache |-> "miss"]]
      BY <1>0, <1>2, <2>2 DEF TypeOK, Flying, Continue, Answer, Goto, Next, Handle, Authenticate, DenyBadRequest, Authorize, Forbid,
         RecordAuthorized, CheckRateLimit, JoinFlight, GetValidCertificate, Issue,
         PutCertificate, Return, IssueFailed, RecordIssued, Disconnect, Reload, Tick,
         Restart, vars
    <3>2. pc[q] \in ProfileSteps /\ cache' = cache
      BY <3>1 DEF Issue, ProfileSteps, ClearedSteps, LeaderSteps
    <3>3. result'[q].cert.notAfter = now + Lifetime
      BY <1>0, <3>1 DEF TypeOK, NewCert
    <3>4. cache[KeyOf(q)].notAfter <= now + Lifetime
      BY <1>0, <1>2, <1>a, <1>c, <3>2 DEF CertInv
    <3>5. QED
      BY <1>a, <3>2, <3>3, <3>4
  <2>3. QED
    BY <2>1, <2>2
<1>3. ASSUME NEW q \in Requests, result'[q] # NoResult,
             pc'[q] \in {"return", "respond"} \/ status'[q] = 200
      PROVE  Holds(KeyOf(q), result[q].cert)'
  <2> DEFINE Settled(r) ==
        (pc[r] \in {"return", "respond"} \/ status[r] = 200) /\ result[r] # NoResult
  <2>a. \A r \in Requests : result[r] # NoResult =>
          /\ KeyOf(r) \in CacheKeys /\ KeyOf(r)' = KeyOf(r)
          /\ result[r].cert.notAfter \in Nat
    <3>1. \A r \in Requests : result[r] # NoResult => prof[r] # NoProfile /\ input[r] \in Inputs
      BY <1>0 DEF CertInv, RequestInv
    <3>2. QED
      BY <1>0, <3>1, KeyType, KeyStable DEF TypeOK, Results, Certs
  (* What settled before is still there. *)
  <2>1. ASSUME NEW r \in Requests, Settled(r), KeyOf(q)' = KeyOf(r), result'[q] = result[r]
        PROVE  Holds(KeyOf(q), result[q].cert)'
    <3>1. Holds(KeyOf(r), result[r].cert)
      BY <1>0, <2>1 DEF CacheInv
    <3>2. cache'[KeyOf(r)] # NoCert /\ cache'[KeyOf(r)].notAfter >= cache[KeyOf(r)].notAfter
      BY <2>1, <2>a, <3>1, CacheGrows DEF Holds
    <3>3. cache'[KeyOf(r)].notAfter \in Nat
      BY <2>1, <2>a, <3>2, TypeStep DEF TypeOK, Certs
    <3>4. QED
      BY <1>c, <2>1, <2>a, <3>1, <3>2, <3>3 DEF Holds
  <2>2. CASE Settled(q) /\ result'[q] = result[q]
    BY <2>1, <2>2, <2>a
  <2>3. ASSUME NEW r \in Requests, Return(r) PROVE Holds(KeyOf(q), result[q].cert)'
    <3>1. CASE q \in Flying(r)
      <4>1. pc[q] \in {"wait", "return"} /\ KeyOf(q) = KeyOf(r) /\ result'[q] = result[r]
        BY <2>3, <3>1 DEF Return, Flying
      <4>2. Settled(r) /\ KeyOf(q)' = KeyOf(r)
        BY <1>3, <1>a, <2>3, <4>1 DEF Return, ProfileSteps, ClearedSteps, LeaderSteps
      <4>3. QED
        BY <2>1, <4>1, <4>2
    <3>2. CASE q \notin Flying(r)
      BY <1>0, <1>3, <2>2, <2>3, <3>2 DEF Return, TypeOK
    <3>3. QED
      BY <3>1, <3>2
  <2>4. CASE GetValidCertificate(q)
    <3>1. result[q] = NoResult
      BY <1>0, <2>4 DEF CertInv, GetValidCertificate
    <3>2. /\ cache[KeyOf(q)] # NoCert
          /\ result'[q].cert = cache[KeyOf(q)]
          /\ cache' = cache
      BY <1>0, <1>3, <2>4, <3>1 DEF GetValidCertificate, Valid, TypeOK
    <3>3. pc[q] \in ProfileSteps
      BY <2>4 DEF GetValidCertificate, ProfileSteps, ClearedSteps, LeaderSteps
    <3>4. QED
      BY <1>a, <1>c, <3>2, <3>3 DEF Holds
  <2>5. CASE Issue(q)
    <3>1. result[q] = NoResult /\ status[q] = 0
      BY <1>0, <2>5 DEF CertInv, RequestInv, Issue
    <3>2. FALSE
      BY <1>0, <1>3, <2>5, <3>1 DEF Issue, TypeOK, Continue, Goto
    <3>3. QED
      BY <3>2
  <2>6. CASE PutCertificate(q)
    <3>1. result[q] # NoResult /\ pc[q] \in ProfileSteps
      BY <1>0, <2>6 DEF CertInv, PutCertificate, ProfileSteps, ClearedSteps, LeaderSteps
    <3>2. result'[q] = result[q] /\ cache'[KeyOf(q)] = result[q].cert
      BY <1>0, <1>3, <1>a, <2>6, <3>1 DEF PutCertificate, TypeOK
    <3>3. result[q].cert \in Certs
      BY <1>0, <3>1 DEF TypeOK, Results
    <3>4. QED
      BY <2>a, <3>1, <3>2, <3>3, BrokerAssumption DEF Holds
  <2>7. CASE /\ ~\E r \in Requests : Return(r)
             /\ ~GetValidCertificate(q) /\ ~Issue(q) /\ ~PutCertificate(q)
    <3>1. result'[q] = result[q]
      BY <1>0, <2>7 DEF TypeOK, Next, Handle, Authenticate, DenyBadRequest, Authorize, Forbid,
         RecordAuthorized, CheckRateLimit, JoinFlight, GetValidCertificate, Issue,
         PutCertificate, Return, IssueFailed, RecordIssued, Disconnect, Reload, Tick,
         Restart, vars
    <3>2. pc[q] \in {"return", "respond"} \/ status[q] = 200
      BY <1>0, <1>3, <2>7, <3>1 DEF TypeOK, Continue, Answer, Goto, Next, Handle, Authenticate, DenyBadRequest, Authorize, Forbid,
         RecordAuthorized, CheckRateLimit, JoinFlight, GetValidCertificate, Issue,
         PutCertificate, Return, IssueFailed, RecordIssued, Disconnect, Reload, Tick,
         Restart, vars
    <3>3. QED
      BY <1>3, <2>2, <3>1, <3>2
  <2>8. QED
    BY <2>3, <2>4, <2>5, <2>6, <2>7
<1>4. QED
  BY <1>1, <1>2, <1>3 DEF CacheInv

-----------------------------------------------------------------------------
(* The rate limit and the orders behind it.                                *)

(* ApplyDefaults leaves no limit at zero. *)
LEMMA LimitsPositive ==
  Limiter!PerIdentity \in Nat \ {0} /\ Limiter!PerIdentityProfile \in Nat \ {0}
BY BrokerAssumption
   DEF Limiter!PerIdentity, Limiter!PerIdentityProfile, Limiter!WithDefault

(* In the first hour prune drops nothing. *)
LEMMA PruneKeeps ==
  ASSUME now \in Nat, now < Hour, NEW list \in SUBSET Limiter!Admissions
  PROVE  Limiter!Prune(list) = list
BY BrokerAssumption DEF Limiter!Prune, Limiter!Admissions

(* Allow admits one more only below the limit. *)
LEMMA WithinGrows ==
  ASSUME NEW list, NEW limit \in Nat \ {0}, Within(list, limit),
         ~Limiter!Reached(limit, list), NEW a
  PROVE  Within(list \cup {a}, limit)
<1>1. IsFiniteSet(list)
  BY DEF Within
<1>2. Cardinality(list) \in Nat /\ Cardinality(list) < limit
  <2>1. Cardinality(list) \in Nat
    BY <1>1, FS_CardinalityType
  <2>2. Limiter!Cardinality(list) = Cardinality(list)
    BY DEF Limiter!Cardinality, Cardinality
  <2>3. QED
    BY <2>1, <2>2 DEF Limiter!Reached
<1>3. /\ IsFiniteSet(list \cup {a})
      /\ Cardinality(list \cup {a}) =
           IF a \in list THEN Cardinality(list) ELSE Cardinality(list) + 1
  BY <1>1, FS_AddElement
<1>4. QED
  BY <1>2, <1>3 DEF Within

(* The clock does not go back, so the first hour is over for good. *)
LEMMA FirstHourWas ==
  ASSUME IInv, [Next]_vars, FirstHour'
  PROVE  FirstHour /\ now \in Nat /\ ~Restart
<1>1. now \in Nat
  BY BrokerAssumption DEF IInv, TypeOK
<1>2. now' = now \/ now' = now + 1
  BY DEF Next, Handle, Authenticate, DenyBadRequest, Authorize, Forbid,
     RecordAuthorized, CheckRateLimit, JoinFlight, GetValidCertificate, Issue,
     PutCertificate, Return, IssueFailed, RecordIssued, Disconnect, Reload, Tick,
     Restart, vars
<1>3. QED
  BY <1>1, <1>2, BrokerAssumption DEF FirstHour, Restart

(* In the first hour a step leaves a list of the limiter alone, or adds    *)
(* the admission of the handler that passes it, below the limit.           *)
LEMMA ListsStep ==
  ASSUME IInv, [Next]_vars, FirstHour'
  PROVE  \/ UNCHANGED limVars /\ \A r \in Requests : ~CheckRateLimit(r) \/ pc'[r] = "done"
         \/ \E r \in Requests :
              LET in == input[r]
                  new == [call |-> r, at |-> now]
              IN  /\ CheckRateLimit(r)
                  /\ in.identity \in Identities /\ in.profile \in ProfileNames
                  /\ ~Limiter!Reached(Limiter!PerIdentity, limIdentity[in.identity])
                  /\ ~Limiter!Reached(Limiter!PerIdentityProfile,
                                      limProfile[in.identity][in.profile])
                  /\ limIdentity' = [limIdentity EXCEPT ![in.identity] = @ \cup {new}]
                  /\ limProfile' = [limProfile EXCEPT
                                      ![in.identity][in.profile] = @ \cup {new}]
<1>0. FirstHour /\ now \in Nat /\ ~Restart /\ now < Hour
  BY FirstHourWas DEF FirstHour
<1>1. ASSUME NEW r \in Requests, CheckRateLimit(r)
      PROVE  /\ input[r].identity \in Identities
             /\ input[r].profile \in ProfileNames
             /\ Limiter!Prune(limIdentity[input[r].identity]) = limIdentity[input[r].identity]
             /\ Limiter!Prune(limProfile[input[r].identity][input[r].profile])
                  = limProfile[input[r].identity][input[r].profile]
  <2>1. input[r] \in Inputs
    BY <1>1 DEF IInv, RequestInv, CheckRateLimit
  <2>2. input[r].identity \in Identities /\ input[r].profile \in ProfileNames
    BY <2>1, BrokerAssumption DEF InputType
  <2>3. /\ limIdentity[input[r].identity] \in SUBSET Limiter!Admissions
        /\ limProfile[input[r].identity][input[r].profile] \in SUBSET Limiter!Admissions
    BY <2>2 DEF IInv, TypeOK, Limiter!LimiterTypeOK
  <2>4. QED
    BY <1>0, <2>2, <2>3, PruneKeeps
<1>2. CASE \E r \in Requests :
              CheckRateLimit(r) /\ Limiter!Allow(r, input[r].identity, input[r].profile)
  BY <1>1, <1>2 DEF Limiter!Allow, Limiter!Admissible
<1>3. CASE \E r \in Requests :
              CheckRateLimit(r) /\ Limiter!Reject(input[r].identity, input[r].profile)
             /\ Answer(r, 429)
  <2>1. PICK r \in Requests :
          /\ CheckRateLimit(r)
          /\ Limiter!Reject(input[r].identity, input[r].profile)
          /\ Answer(r, 429)
    BY <1>3
  <2>2. /\ limIdentity' = [limIdentity EXCEPT
                           ![input[r].identity] = limIdentity[input[r].identity]]
        /\ limProfile' = [limProfile EXCEPT ![input[r].identity][input[r].profile] =
                            limProfile[input[r].identity][input[r].profile]]
    BY <1>1, <2>1 DEF Limiter!Reject
  <2>3. UNCHANGED limVars
    BY <1>1, <2>1, <2>2 DEF IInv, TypeOK, Limiter!LimiterTypeOK, limVars
  <2>4. ASSUME NEW q \in Requests, CheckRateLimit(q)
        PROVE  pc'[q] = "done"
    BY <2>1, <2>4 DEF IInv, TypeOK, Answer, Continue, Goto, CheckRateLimit
  <2>5. QED
    BY <2>3, <2>4
<1>4. CASE \A r \in Requests : ~CheckRateLimit(r)
  BY <1>0, <1>4 DEF Next, Handle, Authenticate, DenyBadRequest, Authorize, Forbid,
     RecordAuthorized, JoinFlight, GetValidCertificate, Issue,
     PutCertificate, Return, IssueFailed, RecordIssued, Disconnect, Reload, Tick,
     vars, limVars
<1>5. QED
  BY <1>2, <1>3, <1>4 DEF CheckRateLimit

(* A handler orders once: before it orders it has not, afterwards it has   *)
(* left the call of the CA.                                                *)
LEMMA OrderOnceStep ==
  ASSUME IInv, [Next]_vars
  PROVE  /\ (\A c \in orders : pc[c.serial] \in {"put", "return", "respond", "done"})'
         /\ (\A c, d \in orders : c.serial = d.serial => c = d)'
<1> DEFINE After == {"put", "return", "respond", "done"}
<1>0. /\ \A c \in orders : c.serial \in Requests /\ pc[c.serial] \in After
      /\ \A c, d \in orders : c.serial = d.serial => c = d
      /\ pc \in [Requests -> Steps]
  BY DEF IInv, TypeOK, Certs, LimitInv
<1>1. ASSUME NEW q \in Requests, pc[q] \in After
      PROVE  pc'[q] \in After
  <2>1. CASE UNCHANGED vars
    BY <1>1, <2>1 DEF vars
  <2>2. CASE Reload \/ Tick \/ \E r \in Requests : Disconnect(r)
    BY <1>1, <2>2 DEF Reload, Tick, Disconnect
  <2>3. CASE Restart
    BY <1>1, <2>3 DEF Restart
  <2>4. ASSUME NEW r \in Requests, Return(r)
        PROVE  pc'[q] \in After
    BY <1>1, <2>4 DEF Return
  <2>5. ASSUME NEW r \in Requests, PutCertificate(r) \/ IssueFailed(r) \/ RecordIssued(r)
        PROVE  pc'[q] \in After
    BY <1>0, <1>1, <2>5 DEF PutCertificate, IssueFailed, RecordIssued, Continue, Answer, Goto
  <2>6. ASSUME NEW r \in Requests, Handle(r), pc[r] \notin After
        PROVE  pc'[q] \in After
    BY <1>0, <1>1, <2>6 DEF Handle, Authenticate, DenyBadRequest, Authorize, Forbid,
       RecordAuthorized, CheckRateLimit, JoinFlight, GetValidCertificate, Issue,
       PutCertificate, Return, IssueFailed, RecordIssued, Continue, Answer, Goto
  <2>7. ASSUME NEW r \in Requests, Handle(r), pc[r] \in After
        PROVE  PutCertificate(r) \/ IssueFailed(r) \/ RecordIssued(r) \/ Return(r)
    BY <2>7 DEF Handle, Authenticate, DenyBadRequest, Authorize, Forbid,
       RecordAuthorized, CheckRateLimit, JoinFlight, GetValidCertificate, Issue
  <2>8. QED
    BY <2>1, <2>2, <2>3, <2>4, <2>5, <2>6, <2>7 DEF Next
<1>2. ASSUME NEW r \in Requests, Issue(r)
      PROVE  /\ orders' = orders \/ (orders' = orders \cup {NewCert(r)} /\ pc'[r] \in After)
             /\ \A c \in orders : c.serial # r
             /\ NewCert(r).serial = r
  BY <1>0, <1>2 DEF Issue, NewCert, Continue, Goto
<1>3. CASE \E r \in Requests : Issue(r)
  BY <1>0, <1>1, <1>2, <1>3
<1>4. CASE \A r \in Requests : ~Issue(r)
  <2>1. orders' = orders
    BY <1>4 DEF Next, Handle, Authenticate, DenyBadRequest, Authorize, Forbid,
       RecordAuthorized, CheckRateLimit, JoinFlight, GetValidCertificate,
       PutCertificate, Return, IssueFailed, RecordIssued, Disconnect, Reload, Tick,
       Restart, vars
  <2>2. QED
    BY <1>0, <1>1, <2>1
<1>5. QED
  BY <1>3, <1>4

(* A step admits, or what is past the limiter was past it before. *)
LEMMA AdmittedStep ==
  ASSUME IInv, [Next]_vars, FirstHour', NEW q \in Requests,
         \/ pc'[q] \in AdmittedSteps
         \/ \E c \in orders' : c.serial = q
  PROVE  /\ input'[q] = input[q] /\ input[q] \in Inputs
         /\ Admitted(q) \/ (CheckRateLimit(q) /\ pc'[q] # "done")
<1> DEFINE Past == pc[q] \in AdmittedSteps \/ \E c \in orders : c.serial = q
<1>0. /\ FirstHour /\ pc \in [Requests -> Steps] /\ ~Restart
      /\ input \in [Requests -> Inputs \cup {NoInput}]
      /\ \A c \in orders : pc[c.serial] \in {"put", "return", "respond", "done"}
  BY FirstHourWas DEF IInv, TypeOK, LimitInv
<1>1. Past \/ (CheckRateLimit(q) /\ pc'[q] # "done")
  <2>1. CASE \E c \in orders' : c \notin orders /\ c.serial = q
    <3>1. pc[q] = "obtain"
      BY <1>0, <2>1 DEF Next, Handle, Authenticate, DenyBadRequest, Authorize, Forbid,
         RecordAuthorized, CheckRateLimit, JoinFlight, GetValidCertificate, Issue, NewCert,
         PutCertificate, Return, IssueFailed, RecordIssued, Disconnect, Reload, Tick, vars
    <3>2. QED
      BY <3>1 DEF AdmittedSteps, LeaderSteps
  <2>2. CASE pc'[q] \in AdmittedSteps /\ pc[q] \notin AdmittedSteps
    BY <1>0, <2>2 DEF AdmittedSteps, LeaderSteps, Continue, Answer, Goto, Flying,
       Next, Handle, Authenticate, DenyBadRequest, Authorize, Forbid,
       RecordAuthorized, JoinFlight, GetValidCertificate, Issue, NewCert,
       PutCertificate, Return, IssueFailed, RecordIssued, Disconnect, Reload, Tick,
       CheckRateLimit, vars
  <2>3. QED
    BY <2>1, <2>2
<1>2. pc[q] # "idle"
  BY <1>0, <1>1 DEF AdmittedSteps, LeaderSteps, CheckRateLimit
<1>3. input'[q] = input[q] /\ input[q] \in Inputs
  <2>1. input[q] \in Inputs
    BY <1>2 DEF IInv, RequestInv
  <2>2. ASSUME NEW r \in Requests, Authenticate(r)
        PROVE  input'[q] = input[q]
    BY <1>0, <1>2, <2>2 DEF Authenticate
  <2>3. QED
    BY <1>0, <2>1, <2>2 DEF Next, Handle, DenyBadRequest, Authorize, Forbid,
       RecordAuthorized, CheckRateLimit, JoinFlight, GetValidCertificate, Issue,
       PutCertificate, Return, IssueFailed, RecordIssued, Disconnect, Reload, Tick,
       Restart, vars, reqVars
<1>4. Past => Admitted(q)
  BY <1>0 DEF IInv, LimitInv
<1>5. QED
  BY <1>1, <1>3, <1>4

LEMMA LimitStep ==
  ASSUME IInv, [Next]_vars
  PROVE  LimitInv'
<1> SUFFICES ASSUME FirstHour'
             PROVE  /\ (\A i \in Identities :
                          /\ Within(limIdentity[i], Limiter!PerIdentity)
                          /\ \A p \in ProfileNames :
                               Within(limProfile[i][p], Limiter!PerIdentityProfile))'
                    /\ (\A r \in Requests : pc[r] \in AdmittedSteps => Admitted(r))'
                    /\ (\A c \in orders : Admitted(c.serial))'
  BY OrderOnceStep DEF LimitInv
<1>0. /\ FirstHour
      /\ limIdentity \in [Identities -> SUBSET Limiter!Admissions]
      /\ limProfile \in [Identities -> [ProfileNames -> SUBSET Limiter!Admissions]]
      /\ \A c \in orders' : c.serial \in Requests
  BY FirstHourWas, TypeStep DEF IInv, TypeOK, Limiter!LimiterTypeOK, Certs
<1>1. \A i \in Identities :
        /\ Within(limIdentity[i], Limiter!PerIdentity)
        /\ \A p \in ProfileNames : Within(limProfile[i][p], Limiter!PerIdentityProfile)
  BY <1>0 DEF IInv, LimitInv
<1>2. ASSUME NEW q \in Requests,
             pc'[q] \in AdmittedSteps \/ \E c \in orders' : c.serial = q
      PROVE  Admitted(q)'
  <2> DEFINE i == input[q].identity
             p == input[q].profile
  <2>1. /\ input'[q] = input[q] /\ i \in Identities /\ p \in ProfileNames
        /\ Admitted(q) \/ (CheckRateLimit(q) /\ pc'[q] # "done")
    BY <1>2, AdmittedStep, BrokerAssumption DEF InputType
  <2>2. SUFFICES Admits(limIdentity'[i], q) /\ Admits(limProfile'[i][p], q)
    BY <2>1 DEF Admitted, Admits
  <2>3. CASE UNCHANGED limVars /\ \A r \in Requests : ~CheckRateLimit(r) \/ pc'[r] = "done"
    BY <2>1, <2>3 DEF Admitted, limVars
  <2>4. ASSUME NEW r \in Requests, CheckRateLimit(r),
               NEW new, new = [call |-> r, at |-> now],
               input[r].identity \in Identities, input[r].profile \in ProfileNames,
               limIdentity' = [limIdentity EXCEPT ![input[r].identity] = @ \cup {new}],
               limProfile' = [limProfile EXCEPT
                               ![input[r].identity][input[r].profile] = @ \cup {new}]
        PROVE  Admits(limIdentity'[i], q) /\ Admits(limProfile'[i][p], q)
    <3>1. limIdentity[i] \subseteq limIdentity'[i] /\ limProfile[i][p] \subseteq limProfile'[i][p]
      BY <1>0, <2>1, <2>4
    <3>2. CASE Admitted(q)
      BY <3>1, <3>2 DEF Admitted, Admits
    <3>3. CASE CheckRateLimit(q) /\ pc'[q] # "done"
      <4>1. q = r
        BY <2>4, <3>3 DEF CheckRateLimit, IInv, TypeOK, Continue, Answer, Goto
      <4>2. new \in limIdentity'[i] /\ new \in limProfile'[i][p] /\ new.call = q
        BY <1>0, <2>1, <2>4, <4>1
      <4>3. QED
        BY <4>2 DEF Admits
    <3>4. QED
      BY <2>1, <3>2, <3>3
  <2>5. QED
    BY <2>3, <2>4, ListsStep
<1>3. ASSUME NEW i \in Identities
      PROVE  /\ Within(limIdentity'[i], Limiter!PerIdentity)
             /\ \A p \in ProfileNames : Within(limProfile'[i][p], Limiter!PerIdentityProfile)
  <2>1. CASE UNCHANGED limVars
    BY <1>1, <2>1 DEF limVars
  <2>2. ASSUME NEW r \in Requests, NEW new,
               input[r].identity \in Identities, input[r].profile \in ProfileNames,
               ~Limiter!Reached(Limiter!PerIdentity, limIdentity[input[r].identity]),
               ~Limiter!Reached(Limiter!PerIdentityProfile,
                                limProfile[input[r].identity][input[r].profile]),
               limIdentity' = [limIdentity EXCEPT ![input[r].identity] = @ \cup {new}],
               limProfile' = [limProfile EXCEPT
                               ![input[r].identity][input[r].profile] = @ \cup {new}]
        PROVE  /\ Within(limIdentity'[i], Limiter!PerIdentity)
               /\ \A p \in ProfileNames : Within(limProfile'[i][p], Limiter!PerIdentityProfile)
    <3>1. /\ Within(limIdentity[input[r].identity] \cup {new}, Limiter!PerIdentity)
          /\ Within(limProfile[input[r].identity][input[r].profile] \cup {new},
                    Limiter!PerIdentityProfile)
      BY <1>1, <2>2, WithinGrows, LimitsPositive
    <3>2. Within(limIdentity'[i], Limiter!PerIdentity)
      BY <1>0, <1>1, <2>2, <3>1
    <3>3. ASSUME NEW p \in ProfileNames
          PROVE  Within(limProfile'[i][p], Limiter!PerIdentityProfile)
      BY <1>0, <1>1, <2>2, <3>1
    <3>4. QED
      BY <3>2, <3>3
  <2>3. QED
    BY <2>1, <2>2, ListsStep
<1>4. QED
  BY <1>0, <1>2, <1>3 DEF Within, Limiter!PerIdentity, Limiter!PerIdentityProfile,
     Limiter!WithDefault

-----------------------------------------------------------------------------
(* The results.                                                            *)

LEMMA IInvInit == Init => IInv
<1> SUFFICES ASSUME Init PROVE IInv
  OBVIOUS
<1>1. TypeOK
  BY BrokerAssumption DEF Init, TypeOK, Steps, Statuses, Limiter!LimiterInit,
     Limiter!LimiterTypeOK
<1>2. RequestInv /\ FlightInv /\ WaitInv /\ AuditInv /\ CertInv /\ CacheInv
  BY BrokerAssumption DEF Init, RequestInv, FlightInv, WaitInv, AuditInv, OrdersAreAudited,
     ServedAreAudited, CertInv, CacheInv, ProfileSteps, ClearedSteps, LeaderSteps
<1>3. LimitInv
  <2>1. Within({}, Limiter!PerIdentity) /\ Within({}, Limiter!PerIdentityProfile)
    BY FS_EmptySet, LimitsPositive DEF Within
  <2>2. QED
    BY <2>1 DEF Init, Limiter!LimiterInit, LimitInv, AdmittedSteps, LeaderSteps
<1>4. QED
  BY <1>1, <1>2, <1>3 DEF IInv

LEMMA IInvStep ==
  ASSUME IInv, [Next]_vars
  PROVE  IInv'
BY TypeStep, RequestStep, FlightStep, WaitStep, AuditStep, CertStep, CacheStep, LimitStep
   DEF IInv

(* The invariant of the request handlers is inductive. *)
THEOREM Invariance == Spec => []IInv
<1>1. IInv /\ [Next]_vars => IInv'
  BY IInvStep
<1>2. QED
  BY IInvInit, <1>1, PTL DEF Spec

(* Every variable of the handlers keeps its type. *)
THEOREM TypeCorrect == Spec => []TypeOK
BY Invariance, PTL DEF IInv

(* In fail_closed mode the CA issues nothing that the audit log cannot     *)
(* explain, whatever fails or restarts.                                    *)
THEOREM OrdersAudited == Spec => []OrdersAreAudited
<1>1. IInv => OrdersAreAudited
  BY DEF IInv, AuditInv, OrdersAreAudited
<1>2. QED
  BY Invariance, <1>1, PTL

(* In fail_closed mode no certificate is answered without its event. *)
THEOREM ServedAudited == Spec => []ServedAreAudited
<1>1. IInv => ServedAreAudited
  BY DEF IInv, AuditInv, ServedAreAudited
<1>2. QED
  BY Invariance, <1>1, PTL

(* Whoever led the flight and however old the entry: the certificate a     *)
(* request gets is for its key, its identity and its authorized profile,   *)
(* with no name besides that profile's but the common name of the CSR that *)
(* ordered it.                                                             *)
THEOREM ServedMatches == Spec => []ServedMatchesRequest
<1>1. IInv => ServedMatchesRequest
  BY DEF IInv, CertInv, IssuedFor, KeyOf, ServedMatchesRequest
<1>2. QED
  BY Invariance, <1>1, PTL

(* singleflight admits one order per cache key at a time. *)
THEOREM OneOrder == Spec => []OneOrderPerKey
<1>1. IInv => OneOrderPerKey
  BY DEF IInv, FlightInv, OneOrderPerKey, LeaderSteps
<1>2. QED
  BY Invariance, <1>1, PTL

(* A certificate that was answered can be asked for again. *)
THEOREM StaysCached == Spec => []ServedStaysCached
<1>1. IInv => ServedStaysCached
  BY DEF IInv, CertInv, CacheInv, Holds, ServedStaysCached
<1>2. QED
  BY Invariance, <1>1, PTL

(* The CA is never asked for what the cache can still give. *)
THEOREM NoNeedless == Spec => NoNeedlessOrder
<1> DEFINE Needed == \A c \in orders' \ orders :
             LET old == cache[KeyOf(c.serial)]
             IN  old # NoCert => old.notAfter <= now + prof[c.serial].renewBefore
<1>1. ASSUME IInv, [Next]_vars PROVE Needed
  <2>1. SUFFICES ASSUME NEW c \in orders' \ orders, cache[KeyOf(c.serial)] # NoCert
                 PROVE  cache[KeyOf(c.serial)].notAfter <= now + prof[c.serial].renewBefore
    OBVIOUS
  <2>2. PICK r \in Requests : Issue(r) /\ c = NewCert(r)
    BY <1>1, <2>1 DEF Next, Handle, Authenticate, DenyBadRequest, Authorize, Forbid,
         RecordAuthorized, CheckRateLimit, JoinFlight, GetValidCertificate, Issue,
         PutCertificate, Return, IssueFailed, RecordIssued, Disconnect, Reload, Tick,
         Restart, vars, reqVars, limVars
  <2>3. c.serial = r /\ pc[r] = "obtain" /\ prof[r] # NoProfile /\ input[r] \in Inputs
    BY <1>1, <2>2 DEF Issue, NewCert, IInv, RequestInv, ProfileSteps, ClearedSteps, LeaderSteps
  <2>4. ~Valid(cache[KeyOf(r)], prof[r].renewBefore) /\ KeyOf(r) \in CacheKeys
    BY <1>1, <2>3, KeyType DEF IInv, CacheInv
  <2>5. now \in Nat /\ prof[r].renewBefore \in Nat /\ cache[KeyOf(r)].notAfter \in Nat
    BY <1>1, <2>1, <2>3, <2>4, BrokerAssumption DEF IInv, TypeOK, ProfileType, Certs
  <2>6. QED
    BY <2>1, <2>3, <2>4, <2>5 DEF Valid
<1>2. QED
  BY Invariance, <1>1, PTL DEF Spec, NoNeedlessOrder

(* Cache entries only get better. *)
THEOREM NoRegress == Spec => CacheNeverRegresses
<1> DEFINE Grows == \A k \in CacheKeys :
             cache[k] # NoCert => /\ cache'[k] # NoCert
                                  /\ cache'[k].notAfter >= cache[k].notAfter
<1>1. ASSUME IInv, [Next]_vars PROVE Grows
  BY <1>1, CacheGrows
<1>2. QED
  BY Invariance, <1>1, PTL DEF Spec, CacheNeverRegresses

(* Distinct orders have distinct admissions, so that there are no more of  *)
(* them than a list admits.                                                *)
LEMMA OrdersWithin ==
  ASSUME NEW some, NEW list, NEW limit \in Nat, Within(list, limit),
         \A c \in some : Admits(list, c.serial),
         \A c, d \in some : c.serial = d.serial => c = d
  PROVE  Cardinality(some) <= limit
<1> DEFINE admission == [c \in some |-> CHOOSE a \in list : a.call = c.serial]
<1>1. \A c \in some : admission[c] \in list /\ admission[c].call = c.serial
  BY DEF Admits
<1>2. admission \in [some -> list]
  BY <1>1
<1> HIDE DEF admission
<1>3. admission \in Injection(some, list)
  BY <1>1, <1>2 DEF Injection, IsInjective
<1>4. IsFiniteSet(list) /\ Cardinality(list) <= limit
  BY DEF Within
<1>5. IsFiniteSet(some) /\ Cardinality(some) <= Cardinality(list)
  BY <1>3, <1>4, FS_Injection
<1>6. Cardinality(some) \in Nat /\ Cardinality(list) \in Nat
  BY <1>4, <1>5, FS_CardinalityType
<1>7. QED
  BY <1>4, <1>5, <1>6

(* The CA gets no more orders in the first hour than the limits allow. *)
THEOREM OrdersLimited == Spec => []OrdersWithinLimit
<1>1. ASSUME IInv, FirstHour, NEW i \in Identities, NEW some \in SUBSET orders,
             \A c \in some : input[c.serial].identity = i
      PROVE  /\ Cardinality(some) <= Limiter!PerIdentity
             /\ \A p \in ProfileNames :
                  (\A c \in some : input[c.serial].profile = p) =>
                    Cardinality(some) <= Limiter!PerIdentityProfile
  <2>1. \A c \in some : Admitted(c.serial)
    BY <1>1 DEF IInv, LimitInv
  <2>2. \A c, d \in some : c.serial = d.serial => c = d
    BY <1>1 DEF IInv, LimitInv
  <2>3. Cardinality(some) <= Limiter!PerIdentity
    <3>1. Within(limIdentity[i], Limiter!PerIdentity)
      BY <1>1 DEF IInv, LimitInv
    <3>2. \A c \in some : Admits(limIdentity[i], c.serial)
      BY <1>1, <2>1 DEF Admitted
    <3>3. QED
      BY <2>2, <3>1, <3>2, OrdersWithin, LimitsPositive
  <2>4. ASSUME NEW p \in ProfileNames, \A c \in some : input[c.serial].profile = p
        PROVE  Cardinality(some) <= Limiter!PerIdentityProfile
    <3>1. Within(limProfile[i][p], Limiter!PerIdentityProfile)
      BY <1>1 DEF IInv, LimitInv
    <3>2. \A c \in some : Admits(limProfile[i][p], c.serial)
      BY <1>1, <2>1, <2>4 DEF Admitted
    <3>3. QED
      BY <2>2, <3>1, <3>2, OrdersWithin, LimitsPositive
  <2>5. QED
    BY <2>3, <2>4
<1>2. IInv => OrdersWithinLimit
  <2> SUFFICES ASSUME IInv, FirstHour, NEW i \in Identities, NEW p \in ProfileNames
               PROVE  /\ Cardinality({c \in orders : input[c.serial].identity = i})
                            <= Limiter!PerIdentity
                      /\ Cardinality({c \in {d \in orders : input[d.serial].identity = i} :
                                         input[c.serial].profile = p})
                            <= Limiter!PerIdentityProfile
    BY <1>1 DEF OrdersWithinLimit
  <2> QED
    BY <1>1
<1>3. QED
  BY Invariance, <1>2, PTL

-----------------------------------------------------------------------------
(* Why every request ends, as far as it is a matter of safety: a handler   *)
(* goes through its steps once, and it never waits for nobody.             *)

(* A handler that waits for a flight waits for one that is inside          *)
(* issueOrLoad with the same cache key: no wake-up is ever lost, whenever  *)
(* it joined and however the call before it ended.                         *)
WaitersAreLed ==
  \A r \in Requests : pc[r] = "wait" =>
    \E l \in Requests : pc[l] \in LeaderSteps /\ KeyOf(l) = KeyOf(r)

(* JoinFlight never waits for a leader that is gone: whoever waits in      *)
(* singleflight waits for a handler of its key that is on its way to       *)
(* Return, never for nobody and never for another waiter.                  *)
THEOREM WaitsForSomebody == Spec => []WaitersAreLed
<1>1. IInv => WaitersAreLed
  <2>1. SUFFICES ASSUME IInv, NEW r \in Requests, pc[r] = "wait"
                 PROVE  \E l \in Requests : pc[l] \in LeaderSteps /\ KeyOf(l) = KeyOf(r)
    BY DEF WaitersAreLed
  <2>2. TypeOK /\ RequestInv /\ FlightInv /\ flight[KeyOf(r)] # NoRequest
    BY <2>1 DEF IInv, WaitInv
  <2>3. KeyOf(r) \in CacheKeys
    BY <2>1, <2>2, KeyType DEF RequestInv, ProfileSteps, ClearedSteps, LeaderSteps
  <2>4. flight[KeyOf(r)] \in Requests
    BY <2>2, <2>3 DEF TypeOK
  <2>5. QED
    BY <2>2, <2>3, <2>4 DEF FlightInv
<1>2. QED
  BY <1>1, Invariance, PTL

(* How far a handler is in issueCertificate. *)
Progress(step) ==
  CASE step = "idle" -> 0
    [] step = "authorize" -> 1
    [] step = "record" -> 2
    [] step = "ratelimit" -> 3
    [] step = "flight" -> 4
    [] step \in {"wait", "lookup"} -> 5
    [] step = "obtain" -> 6
    [] step = "put" -> 7
    [] step = "return" -> 8
    [] step = "respond" -> 9
    [] step = "done" -> 10

(* No handler does a step twice or goes back, whatever it joins and        *)
(* whoever fails: it is done, or dead, after at most ten of its steps, and *)
(* asks the CA at most once.                                               *)
HandlersAdvance ==
  [][\A r \in Requests : pc'[r] # pc[r] => Progress(pc[r]) < Progress(pc'[r])]_vars

(* issueCertificate has no loop and no retry: every step of a handler, and *)
(* every step of others that moves it, brings it nearer to its answer.     *)
THEOREM OnlyForward == Spec => HandlersAdvance
<1> USE DEF reqVars, limVars
<1> DEFINE Forward == \A r \in Requests : pc'[r] # pc[r] => Progress(pc[r]) < Progress(pc'[r])
<1>1. ASSUME IInv, [Next]_vars
      PROVE  Forward
  <2>0. pc \in [Requests -> Steps]
    BY <1>1 DEF IInv, TypeOK
  <2>1. ASSUME NEW r \in Requests, NEW step, Goto(r, step), Progress(pc[r]) < Progress(step)
        PROVE  Forward
    BY <2>0, <2>1 DEF Goto
  <2>2. /\ Progress("idle") = 0 /\ Progress("authorize") = 1 /\ Progress("record") = 2
        /\ Progress("ratelimit") = 3 /\ Progress("flight") = 4 /\ Progress("wait") = 5
        /\ Progress("lookup") = 5 /\ Progress("obtain") = 6 /\ Progress("put") = 7
        /\ Progress("return") = 8 /\ Progress("respond") = 9 /\ Progress("done") = 10
    BY DEF Progress
  <2> HIDE DEF Forward
  <2>3. ASSUME NEW r \in Requests,
               Authenticate(r) \/ DenyBadRequest(r) \/ Authorize(r) \/ Forbid(r)
        PROVE  Forward
    BY <2>1, <2>2, <2>3 DEF Authenticate, DenyBadRequest, Authorize, Forbid, Continue, Answer
  <2>4. ASSUME NEW r \in Requests, RecordAuthorized(r) \/ CheckRateLimit(r) \/ JoinFlight(r)
        PROVE  Forward
    BY <2>1, <2>2, <2>4 DEF RecordAuthorized, CheckRateLimit, JoinFlight, Continue, Answer
  <2>5. ASSUME NEW r \in Requests, GetValidCertificate(r) \/ Issue(r) \/ PutCertificate(r)
        PROVE  Forward
    BY <2>1, <2>2, <2>5 DEF GetValidCertificate, Issue, PutCertificate, Continue
  <2>6. ASSUME NEW r \in Requests, Return(r)
        PROVE  Forward
    <3>1. \A q \in Flying(r) : pc[q] \in {"return", "wait"}
      BY <2>6 DEF Return, Flying
    <3>2. pc' = [q \in Requests |-> IF q \in Flying(r) THEN "respond" ELSE pc[q]]
      BY <2>6 DEF Return
    <3>3. QED
      BY <2>2, <3>1, <3>2 DEF Forward
  <2>7. ASSUME NEW r \in Requests, IssueFailed(r) \/ RecordIssued(r)
        PROVE  Forward
    BY <2>1, <2>2, <2>7 DEF IssueFailed, RecordIssued, Answer
  <2>8. CASE Restart
    <3>1. \A q \in Requests : pc'[q] # pc[q] => pc'[q] = "done" /\ pc[q] \in Steps \ {"done"}
      BY <2>0, <2>8 DEF Restart, Dead
    <3>2. \A s \in Steps \ {"done"} : Progress(s) < 10
      BY <2>2 DEF Steps
    <3>3. QED
      BY <2>2, <3>1, <3>2 DEF Forward
  <2>9. CASE UNCHANGED pc
    BY <2>9 DEF Forward
  <2>10. (\E r \in Requests : Disconnect(r)) \/ Reload \/ Tick \/ UNCHANGED vars => UNCHANGED pc
    BY DEF Disconnect, Reload, Tick, vars
  <2>11. QED
    BY <1>1, <2>3, <2>4, <2>5, <2>6, <2>7, <2>8, <2>9, <2>10 DEF Next, Handle
<1>2. QED
  BY <1>1, Invariance, PTL DEF Spec, HandlersAdvance
=============================================================================
