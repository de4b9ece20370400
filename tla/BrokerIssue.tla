----------------------------- MODULE BrokerIssue -----------------------------
(***************************************************************************)
(* POST /v1/certificates of the broker: any number of handlers running     *)
(* issueCertificate concurrently over the shared policy, rate limiter,     *)
(* certificate cache, singleflight group and audit log, with an ACME CA    *)
(* behind them.                                                            *)
(*                                                                         *)
(* A request is one HTTP request and one handler goroutine.  pc[r] is the  *)
(* call the handler makes next; between two calls any other handler, the   *)
(* policy watcher, the clock, a disconnecting client or a restart of the   *)
(* process may intervene.  A certificate is identified by the request that *)
(* ordered it, so its serial is that request.                              *)
(***************************************************************************)
EXTENDS Integers, FiniteSets

CONSTANTS
  Requests,      \* HTTP requests; each is handled once
  Identities,    \* common names of client certificates
  ProfileNames,  \* profile names a request may ask for
  Keys,          \* fingerprints of CSR public keys
  Names,         \* canonical DNS names
  Profiles,      \* compiled profiles: names and renewal window
  Policies,      \* compiled policies the policy file may hold
  Inputs,        \* what a request may carry
  FailureMode,   \* audit.failure_mode
  AuditEnabled,  \* audit.enabled
  Driver,        \* store.driver
  Faults,        \* which parts of the environment misbehave
  Lifetime,      \* validity of a certificate the CA issues, in ticks
  MaxTime,       \* bound on the clock
  ConfiguredPerIdentity, ConfiguredPerIdentityProfile, Hour,
  NoRequest, NoProfile, NoInput, NoCert, NoResult

FaultKinds == {"audit", "store", "ca", "disconnect", "restart"}

(* "bad_request": unreadable body, bad JSON or a missing field; "bad_csr": *)
(* ParseCSRPEM fails; "bad_names": CanonicalList fails on the CSR's names. *)
Forms == {"ok", "bad_request", "bad_csr", "bad_names"}

(* A list of names after Canonical: sorted and without duplicates. *)
NameSets == SUBSET Names

(* cn is the common name in the CSR's subject, {} when it has none. *)
InputType ==
  [clientAuth : BOOLEAN, identity : Identities, form : Forms,
   profile : ProfileNames, names : NameSets, cn : NameSets, key : Keys]

ProfileType == [names : NameSets, renewBefore : Nat]

PolicyType ==
  [allows : [Identities -> SUBSET ProfileNames],
   profiles : [ProfileNames -> Profiles]]

VARIABLES
  now,         \* the clock
  policy,      \* policy.Manager.current
  pc,          \* next call of each handler
  input,       \* the request a handler reads
  prof,        \* reqCtx.Profile: the profile it was authorized with
  result,      \* what issueOrLoad returned to it; NoResult is an error
  status,      \* the status it wrote; 0 before, or if it was killed
  cancelled,   \* requests whose context is cancelled
  limIdentity, \* rate limiter: admissions per identity
  limProfile,  \* rate limiter: admissions per identity and profile
  flight,      \* singleflight.Group: the leader of the call per cache key
  cache,       \* the certificate cache of the store
  log,         \* the audit events the store holds
  orders       \* every certificate the CA has issued

limVars == <<limIdentity, limProfile>>
reqVars == <<input, prof, result>>
vars == <<now, policy, pc, reqVars, status, cancelled, limVars, flight, cache,
          log, orders>>

Limiter == INSTANCE RateLimiter
             WITH Calls <- Requests, identity <- limIdentity, profile <- limProfile

-----------------------------------------------------------------------------
(* Types.                                                                  *)

Steps == {"idle", "authorize", "record", "ratelimit", "flight", "lookup",
          "obtain", "put", "return", "wait", "respond", "done"}

(* A leader is inside singleflight's function call. *)
LeaderSteps == {"lookup", "obtain", "put", "return"}

Statuses == {0, 200, 400, 401, 403, 429, 502, 503}

CacheKeys ==
  [identity : Identities, profile : ProfileNames, hash : Profiles, key : Keys]

Certs == [serial : Requests, key : Keys, names : NameSets, notAfter : Nat]

Results == [cert : Certs, cache : {"hit", "miss"}]

EventTypes == {"broker_started", "request_received", "denied", "authorized",
               "issue_failed", "issued", "cache_hit"}

Events ==
  [req : Requests \cup {NoRequest}, type : EventTypes,
   serial : Requests \cup {NoRequest}]

ASSUME BrokerAssumption ==
  /\ Inputs \subseteq InputType
  /\ Profiles \subseteq ProfileType
  /\ Policies \subseteq PolicyType
  /\ FailureMode \in {"fail_closed", "fail_open"}
  /\ AuditEnabled \in BOOLEAN
  /\ Driver \in {"sqlite", "file"}
  /\ Faults \subseteq FaultKinds
  /\ Lifetime \in Nat
  /\ MaxTime \in Nat
  /\ ConfiguredPerIdentity \in Nat
  /\ ConfiguredPerIdentityProfile \in Nat
  /\ Hour \in Nat \ {0}
  /\ NoRequest \notin Requests
  /\ NoProfile \notin Profiles
  /\ NoInput \notin Inputs
  /\ NoCert \notin Certs
  /\ NoResult \notin Results

TypeOK ==
  /\ now \in 0..MaxTime
  /\ policy \in Policies
  /\ pc \in [Requests -> Steps]
  /\ input \in [Requests -> Inputs \cup {NoInput}]
  /\ prof \in [Requests -> Profiles \cup {NoProfile}]
  /\ result \in [Requests -> Results \cup {NoResult}]
  /\ status \in [Requests -> Statuses]
  /\ cancelled \in SUBSET Requests
  /\ Limiter!LimiterTypeOK
  /\ flight \in [CacheKeys -> Requests \cup {NoRequest}]
  /\ cache \in [CacheKeys -> Certs \cup {NoCert}]
  /\ log \in SUBSET Events
  /\ orders \in SUBSET Certs

Init ==
  /\ now = 0
  /\ policy \in Policies
  /\ pc = [r \in Requests |-> "idle"]
  /\ input = [r \in Requests |-> NoInput]
  /\ prof = [r \in Requests |-> NoProfile]
  /\ result = [r \in Requests |-> NoResult]
  /\ status = [r \in Requests |-> 0]
  /\ cancelled = {}
  /\ Limiter!LimiterInit
  /\ flight = [k \in CacheKeys |-> NoRequest]
  /\ cache = [k \in CacheKeys |-> NoCert]
  /\ log = {}
  /\ orders = {}

-----------------------------------------------------------------------------
(* Helpers of the handler.                                                 *)

Goto(r, step) == pc' = [pc EXCEPT ![r] = step]

Continue(r, step) == Goto(r, step) /\ UNCHANGED status

(* writeError and writeJSON: the handler returns. *)
Answer(r, code) == Goto(r, "done") /\ status' = [status EXCEPT ![r] = code]

(* database/sql refuses a call whose context is cancelled; the file store  *)
(* ignores the context.                                                    *)
StoreRefuses(r) == Driver = "sqlite" /\ r \in cancelled

(* The file or the database cannot be read or written. *)
StoreFails(r) == "store" \in Faults \/ StoreRefuses(r)

Event(r, type, serial) == [req |-> r, type |-> type, serial |-> serial]

(* What buildAuditRecorder's recorder makes of the log: it is the store,   *)
(* the store and stdout (mirror_to_log), or DiscardRecorder when auditing  *)
(* is off.                                                                 *)
Recorded(e) == IF AuditEnabled THEN log \cup {e} ELSE log

(* Server.record succeeds. *)
RecordOk(r, e) ==
  /\ ~AuditEnabled \/ ~StoreRefuses(r)
  /\ log' = Recorded(e)

(* Server.record fails.  The event may be in the store all the same: the   *)
(* file store can fail in Sync, MultiRecorder (mirror_to_log) joins the    *)
(* error of stdout to a write the store made, and the sqlite driver        *)
(* returns the context's error for a statement it may have committed.      *)
RecordErr(r, e) ==
  /\ AuditEnabled
  /\ "audit" \in Faults \/ StoreRefuses(r)
  /\ log' \in {log, log \cup {e}}

(* _ = s.record(ctx, event) *)
RecordAnyway(r, e) == RecordOk(r, e) \/ RecordErr(r, e)

(* A faulty variant of BarrierPasses: it forgets the failure mode. *)
BarrierAlwaysPasses(r, e) == RecordOk(r, e) \/ RecordErr(r, e)

(* auditBarrier returns nil. *)
BarrierPasses(r, e) ==
  \/ RecordOk(r, e)
  \/ FailureMode # "fail_closed" /\ RecordErr(r, e)

(* auditBarrier returns an error. *)
BarrierBlocks(r, e) == FailureMode = "fail_closed" /\ RecordErr(r, e)

(* A faulty variant of KeyOf: the profile hash does not distinguish entries. *)
KeyWithoutHash(r) ==
  [identity |-> input[r].identity, profile |-> input[r].profile,
   hash |-> CHOOSE h \in Profiles : TRUE, key |-> input[r].key]

(* A faulty variant of KeyOf: nor does the public key. *)
KeyWithoutKey(r) ==
  [identity |-> input[r].identity, profile |-> input[r].profile,
   hash |-> prof[r], key |-> CHOOSE k \in Keys : TRUE]

(* Server.cacheKey.  A profile's hash covers its whole content, so the     *)
(* content stands for it; issuer name, directory and account do not change *)
(* while the configuration stays the same.                                 *)
KeyOf(r) ==
  [identity |-> input[r].identity, profile |-> input[r].profile,
   hash |-> prof[r], key |-> input[r].key]

(* The cache entry a lookup with the handler's key finds. *)
Cached(r) == cache[KeyOf(r)]

(* The cache once the handler's certificate is inserted or has replaced    *)
(* the entry with its key.                                                 *)
Upserted(r) == [cache EXCEPT ![KeyOf(r)] = result[r].cert]

(* What a failed write leaves.  The file store can fail after the rename   *)
(* that makes the new entries visible: WriteFileAtomic then fails to sync  *)
(* the directory.  The sqlite driver can fail after the commit: a context  *)
(* cancelled meanwhile is what ExecContext returns.                        *)
FailedPut(r) == {cache, Upserted(r)}

(* A faulty variant of Valid: an entry is good until it expires. *)
ValidUntilExpiry(c, renewBefore) == c # NoCert /\ c.notAfter - now > 0

(* GetValidCertificate's test of an entry: time.Until(NotAfter) must       *)
(* exceed the renewal window.                                              *)
Valid(c, renewBefore) == c # NoCert /\ c.notAfter - now > renewBefore

(* IdentityFromRequest returns a name: the client certificate is a leaf in *)
(* its validity window with the clientAuth usage and a common name.        *)
Authenticated(in) == in.clientAuth

(* The fields are there and ParseCSRPEM accepts the CSR. *)
Parses(in) == in.form \notin {"bad_request", "bad_csr"}

(* CompiledPolicy.Authorize returns no error.  It compares the CSR's DNS   *)
(* names with the profile's and never looks at the CSR's common name.      *)
Authorized(pol, in) ==
  /\ in.form = "ok"
  /\ in.profile \in pol.allows[in.identity]
  /\ pol.profiles[in.profile].names = in.names

-----------------------------------------------------------------------------
(* The handler, in the order issueCertificate makes its calls.             *)

(* authenticateIssueRequest *)
Authenticate(r) ==
  /\ pc[r] = "idle"
  /\ \E in \in Inputs :
       /\ input' = [input EXCEPT ![r] = in]
       /\ \/ /\ Authenticated(in)
             /\ RecordAnyway(r, Event(r, "request_received", NoRequest))
             /\ Continue(r, "authorize")
          \/ /\ ~Authenticated(in)
             /\ RecordAnyway(r, Event(r, "denied", NoRequest))
             /\ Answer(r, 401)
  /\ UNCHANGED <<now, policy, prof, result, cancelled, limVars, flight, cache, orders>>

(* parseIssueRequest fails: denyBadRequest. *)
DenyBadRequest(r) ==
  /\ pc[r] = "authorize"
  /\ ~Parses(input[r])
  /\ RecordAnyway(r, Event(r, "denied", NoRequest))
  /\ Answer(r, 400)
  /\ UNCHANGED <<now, policy, reqVars, cancelled, limVars, flight, cache, orders>>

(* authorizeIssueRequest and attachPublicKeyFingerprint: the handler keeps *)
(* the profile of the policy that is current now.                          *)
Authorize(r) ==
  /\ pc[r] = "authorize"
  /\ Authorized(policy, input[r])
  /\ prof' = [prof EXCEPT ![r] = policy.profiles[input[r].profile]]
  /\ Continue(r, "record")
  /\ UNCHANGED <<now, policy, input, result, cancelled, limVars, flight, cache,
                 log, orders>>

(* authorizeIssueRequest denies. *)
Forbid(r) ==
  /\ pc[r] = "authorize"
  /\ Parses(input[r])
  /\ ~Authorized(policy, input[r])
  /\ RecordAnyway(r, Event(r, "denied", NoRequest))
  /\ Answer(r, 403)
  /\ UNCHANGED <<now, policy, reqVars, cancelled, limVars, flight, cache, orders>>

(* A faulty variant of RecordAuthorized: the result of the write is not    *)
(* looked at.                                                              *)
RecordAuthorizedAnyway(r) ==
  /\ pc[r] = "record"
  /\ RecordAnyway(r, Event(r, "authorized", NoRequest))
  /\ Continue(r, "ratelimit")
  /\ UNCHANGED <<now, policy, reqVars, cancelled, limVars, flight, cache, orders>>

(* recordAuthorizedIssue *)
RecordAuthorized(r) ==
  LET e == Event(r, "authorized", NoRequest)
  IN  /\ pc[r] = "record"
      /\ \/ BarrierPasses(r, e) /\ Continue(r, "ratelimit")
         \/ BarrierBlocks(r, e) /\ Answer(r, 503)
      /\ UNCHANGED <<now, policy, reqVars, cancelled, limVars, flight, cache, orders>>

(* A faulty variant of CheckRateLimit: the limiter is not asked. *)
CheckNoRateLimit(r) ==
  /\ pc[r] = "ratelimit"
  /\ Continue(r, "flight")
  /\ UNCHANGED <<now, policy, reqVars, cancelled, limVars, flight, cache, log,
                 orders>>

(* checkIssueRateLimit *)
CheckRateLimit(r) ==
  LET in == input[r]
  IN  /\ pc[r] = "ratelimit"
      /\ \/ /\ Limiter!Allow(r, in.identity, in.profile)
            /\ Continue(r, "flight")
            /\ UNCHANGED log
         \/ /\ Limiter!Reject(in.identity, in.profile)
            /\ RecordAnyway(r, Event(r, "denied", NoRequest))
            /\ Answer(r, 429)
      /\ UNCHANGED <<now, policy, reqVars, cancelled, flight, cache, orders>>

-----------------------------------------------------------------------------
(* issueOrLoadWithSingleflight and issueOrLoad.                            *)

(* A faulty variant of JoinFlight: calls are not merged. *)
JoinNoFlight(r) ==
  /\ pc[r] = "flight"
  /\ flight' = [flight EXCEPT ![KeyOf(r)] = r]
  /\ Continue(r, "lookup")
  /\ UNCHANGED <<now, policy, reqVars, cancelled, limVars, cache, log, orders>>

(* flightGroup.Do: the first caller with a key leads, the others wait for  *)
(* what its call returns.                                                  *)
JoinFlight(r) ==
  /\ pc[r] = "flight"
  /\ \/ /\ flight[KeyOf(r)] = NoRequest
        /\ flight' = [flight EXCEPT ![KeyOf(r)] = r]
        /\ Continue(r, "lookup")
     \/ /\ flight[KeyOf(r)] # NoRequest
        /\ UNCHANGED flight
        /\ Continue(r, "wait")
  /\ UNCHANGED <<now, policy, reqVars, cancelled, limVars, cache, log, orders>>

(* GetValidCertificate: a hit, a miss, or an error of the store.  All of   *)
(* issueOrLoad runs with the context of the leader's request.              *)
GetValidCertificate(r) ==
  /\ pc[r] = "lookup"
  /\ LET c == Cached(r)
     IN  \/ /\ ~StoreRefuses(r)
            /\ Valid(c, prof[r].renewBefore)
            /\ result' = [result EXCEPT ![r] = [cert |-> c, cache |-> "hit"]]
            /\ Continue(r, "return")
         \/ /\ ~StoreRefuses(r)
            /\ ~Valid(c, prof[r].renewBefore)
            /\ Continue(r, "obtain")
            /\ UNCHANGED result
         \/ /\ StoreFails(r)
            /\ Continue(r, "return")
            /\ UNCHANGED result
  /\ UNCHANGED <<now, policy, input, prof, cancelled, limVars, flight, cache,
                 log, orders>>

(* What the CA issues for a CSR.  ObtainForCSR orders the CSR's common     *)
(* name along with its DNS names, and a CA certifies what was ordered.     *)
NewCert(r) ==
  [serial |-> r, key |-> input[r].key, names |-> input[r].names \cup input[r].cn,
   notAfter |-> now + Lifetime]

(* Issuer.Issue.  It may fail before the CA issues, or after: lego may     *)
(* fail to fetch what the CA issued.  ObtainForCSR takes no context; only  *)
(* the lookup of the DNS credentials before it may see a cancelled one.    *)
Issue(r) ==
  /\ pc[r] = "obtain"
  /\ \/ /\ orders' = orders \cup {NewCert(r)}
        /\ result' = [result EXCEPT ![r] = [cert |-> NewCert(r), cache |-> "miss"]]
        /\ Continue(r, "put")
     \/ /\ "ca" \in Faults \/ r \in cancelled
        /\ Continue(r, "return")
        /\ UNCHANGED <<orders, result>>
     \/ /\ "ca" \in Faults
        /\ orders' = orders \cup {NewCert(r)}
        /\ Continue(r, "return")
        /\ UNCHANGED result
  /\ UNCHANGED <<now, policy, input, prof, cancelled, limVars, flight, cache, log>>

(* A faulty variant of PutCertificate: it returns before it writes. *)
PutNothing(r) ==
  /\ pc[r] = "put"
  /\ Continue(r, "return")
  /\ UNCHANGED <<now, policy, reqVars, cancelled, limVars, flight, cache, log,
                 orders>>

(* The end of issueOrLoad: the CA's certificate counts only once it is in  *)
(* the cache.                                                              *)
PutCertificate(r) ==
  /\ pc[r] = "put"
  /\ \/ /\ ~StoreRefuses(r)
        /\ cache' = Upserted(r)
        /\ UNCHANGED result
     \/ /\ StoreFails(r)
        /\ cache' \in FailedPut(r)
        /\ result' = [result EXCEPT ![r] = NoResult]
  /\ Continue(r, "return")
  /\ UNCHANGED <<now, policy, input, prof, cancelled, limVars, flight, log,
                 orders>>

(* The requests that get what the leader r returns. *)
Flying(r) == {r} \cup {q \in Requests : pc[q] = "wait" /\ KeyOf(q) = KeyOf(r)}

(* A faulty variant of Return: the waiters are not woken. *)
ReturnToLeader(r) ==
  /\ pc[r] = "return"
  /\ flight' = [flight EXCEPT ![KeyOf(r)] = NoRequest]
  /\ Continue(r, "respond")
  /\ UNCHANGED <<now, policy, reqVars, cancelled, limVars, cache, log, orders>>

(* The end of singleflight's doCall: under the group's lock the call is    *)
(* forgotten and everyone who waits for it gets its result.  Until then a  *)
(* request with the same key still joins it.                               *)
Return(r) ==
  /\ pc[r] = "return"
  /\ flight' = [flight EXCEPT ![KeyOf(r)] = NoRequest]
  /\ result' = [q \in Requests |-> IF q \in Flying(r) THEN result[r] ELSE result[q]]
  /\ pc' = [q \in Requests |-> IF q \in Flying(r) THEN "respond" ELSE pc[q]]
  /\ UNCHANGED <<now, policy, input, prof, status, cancelled, limVars, cache,
                 log, orders>>

(* issueOrLoadWithSingleflight after an error. *)
IssueFailed(r) ==
  /\ pc[r] = "respond"
  /\ result[r] = NoResult
  /\ RecordAnyway(r, Event(r, "issue_failed", NoRequest))
  /\ Answer(r, 502)
  /\ UNCHANGED <<now, policy, reqVars, cancelled, limVars, flight, cache, orders>>

(* issuedEvent *)
IssuedEvent(r) ==
  Event(r, IF result[r].cache = "hit" THEN "cache_hit" ELSE "issued",
        result[r].cert.serial)

(* recordIssuedResult and the response. *)
RecordIssued(r) ==
  /\ pc[r] = "respond"
  /\ result[r] # NoResult
  /\ \/ BarrierPasses(r, IssuedEvent(r)) /\ Answer(r, 200)
     \/ BarrierBlocks(r, IssuedEvent(r)) /\ Answer(r, 503)
  /\ UNCHANGED <<now, policy, reqVars, cancelled, limVars, flight, cache, orders>>

-----------------------------------------------------------------------------
(* Everyone else.                                                          *)

(* net/http cancels the request's context when the client goes away. *)
Disconnect(r) ==
  /\ "disconnect" \in Faults
  /\ pc[r] \notin {"idle", "done"}
  /\ cancelled' = cancelled \cup {r}
  /\ UNCHANGED <<now, policy, pc, reqVars, status, limVars, flight, cache, log,
                 orders>>

(* policy.Manager.Reload stores another compiled policy (PolicyManager     *)
(* says when).                                                             *)
Reload ==
  /\ policy' \in Policies
  /\ UNCHANGED <<now, pc, reqVars, status, cancelled, limVars, flight, cache,
                 log, orders>>

Tick ==
  /\ now < MaxTime
  /\ now' = now + 1
  /\ UNCHANGED <<policy, pc, reqVars, status, cancelled, limVars, flight, cache,
                 log, orders>>

(* The handlers of a process that ends.  A stop signal does not spare      *)
(* them: ListenAndServeTLS returns as soon as Shutdown begins, runServe    *)
(* closes the store and the process exits under the handlers.              *)
Dead == [r \in Requests |-> IF pc[r] = "idle" THEN "idle" ELSE "done"]

(* The process dies or is stopped, and starts again.  The store stays;     *)
(* limiter, flights and handlers are gone, the policy is read again and    *)
(* the start is recorded if that works.                                    *)
Restart ==
  /\ "restart" \in Faults
  /\ pc' = Dead
  /\ policy' \in Policies
  /\ Limiter!LimiterReset
  /\ flight' = [k \in CacheKeys |-> NoRequest]
  /\ \/ UNCHANGED log
     \/ log' = Recorded(Event(NoRequest, "broker_started", NoRequest))
  /\ UNCHANGED <<now, reqVars, status, cancelled, cache, orders>>

-----------------------------------------------------------------------------
Handle(r) ==
  \/ Authenticate(r)
  \/ DenyBadRequest(r)
  \/ Authorize(r)
  \/ Forbid(r)
  \/ RecordAuthorized(r)
  \/ CheckRateLimit(r)
  \/ JoinFlight(r)
  \/ GetValidCertificate(r)
  \/ Issue(r)
  \/ PutCertificate(r)
  \/ Return(r)
  \/ IssueFailed(r)
  \/ RecordIssued(r)

Next ==
  \/ \E r \in Requests : Handle(r)
  \/ \E r \in Requests : Disconnect(r)
  \/ Reload
  \/ Tick
  \/ Restart

Spec == Init /\ [][Next]_vars

(* A handler that has started keeps running: the Go scheduler is fair to   *)
(* goroutines, database/sql and lego's polling have timeouts, and file     *)
(* writes return.  No request has to arrive, nothing else has to happen.   *)
Fairness == \A r \in Requests : WF_vars(pc[r] # "idle" /\ Handle(r))

FairSpec == Spec /\ Fairness

-----------------------------------------------------------------------------
(* Properties.                                                             *)

Strict == FailureMode = "fail_closed" /\ AuditEnabled

(* In fail_closed mode the CA never issues a certificate that the audit    *)
(* log cannot explain: the certificate_authorized event of the request     *)
(* whose handler ordered it is in the log, whatever writes failed and      *)
(* whatever was restarted since (recordAuthorizedIssue is a barrier).      *)
OrdersAreAudited ==
  Strict => \A c \in orders : Event(c.serial, "authorized", NoRequest) \in log

(* In fail_closed mode no certificate leaves the broker unaudited: a       *)
(* request answered 200, leader or follower, hit or miss, has its own      *)
(* event with the serial it was given (recordIssuedResult is a barrier).   *)
ServedAreAudited ==
  Strict => \A r \in Requests : status[r] = 200 => IssuedEvent(r) \in log

(* A request answered 200 gets a certificate the CA issued for the public  *)
(* key of its own CSR, ordered by a request of the same identity for the   *)
(* same profile in the same version, however the policy changed and        *)
(* however old the cache entry is.  Its names are those of that profile    *)
(* and, since nobody compares it, the common name of the CSR that ordered  *)
(* it: nothing else gets in.                                               *)
ServedMatchesRequest ==
  \A r \in Requests : status[r] = 200 =>
    LET c == result[r].cert
    IN  /\ c \in orders
        /\ c.names = prof[r].names \cup input[c.serial].cn
        /\ c.key = input[r].key
        /\ input[c.serial].identity = input[r].identity
        /\ input[c.serial].profile = input[r].profile
        /\ prof[c.serial] = prof[r]

(* At most one handler at a time is between the cache miss and the write   *)
(* of the cache for a cache key: singleflight merges the others.           *)
OneOrderPerKey ==
  \A q, r \in Requests :
    (/\ pc[q] \in {"obtain", "put"}
     /\ pc[r] \in {"obtain", "put"}
     /\ KeyOf(q) = KeyOf(r)) => q = r

(* The CA is asked for a certificate only while the cache holds none for   *)
(* the key that is outside its renewal window: what GetValidCertificate    *)
(* said before the order still holds when the CA answers.                  *)
NoNeedlessOrder ==
  [][\A c \in orders' \ orders :
       LET old == cache[KeyOf(c.serial)]
       IN  old # NoCert => old.notAfter <= now + prof[c.serial].renewBefore]_vars

(* PutCertificate never replaces an entry by one that expires earlier, and *)
(* an entry never disappears.                                              *)
CacheNeverRegresses ==
  [][\A k \in CacheKeys :
       cache[k] # NoCert => /\ cache'[k] # NoCert
                            /\ cache'[k].notAfter >= cache[k].notAfter]_vars

(* A certificate answered with 200 is in the cache, or one that expires no *)
(* earlier: a client that lost the answer gets it again from a retry.      *)
ServedStaysCached ==
  \A r \in Requests : status[r] = 200 =>
    /\ cache[KeyOf(r)] # NoCert
    /\ cache[KeyOf(r)].notAfter >= result[r].cert.notAfter

(* The process has run for less than an hour, and without a restart. *)
FirstHour == now < Hour /\ "restart" \notin Faults

(* The CA's orders in the first hour of a process stay within both hourly  *)
(* limits, per identity and per identity and profile: every order is       *)
(* behind an admission of its own, however requests are merged, answered   *)
(* from the cache or fail between checkIssueRateLimit and the CA.  (Later  *)
(* the limits bound admissions: a handler may order long after its own.)   *)
OrdersWithinLimit ==
  FirstHour =>
    \A i \in Identities :
      LET mine == {c \in orders : input[c.serial].identity = i}
      IN  /\ Cardinality(mine) <= Limiter!PerIdentity
          /\ \A p \in ProfileNames :
               Cardinality({c \in mine : input[c.serial].profile = p})
                 <= Limiter!PerIdentityProfile

(* Every request the broker began to handle is answered or dies with the   *)
(* process: no handler waits forever for a flight, whoever led it and      *)
(* however it ended.                                                       *)
EveryRequestEnds == \A r \in Requests : pc[r] # "idle" ~> pc[r] = "done"

-----------------------------------------------------------------------------
(* The inductive invariant (BrokerIssueProofs), in named parts.            *)

(* Steps at which the handler holds a profile, and a recorded              *)
(* authorization.                                                          *)
ClearedSteps == {"ratelimit", "flight", "wait", "respond"} \cup LeaderSteps
ProfileSteps == {"record"} \cup ClearedSteps

(* A profile, once kept, is final, names what the CSR names, and belongs   *)
(* to a request whose input is final too.                                  *)
RequestInv ==
  \A r \in Requests :
    /\ pc[r] # "idle" => input[r] \in Inputs
    /\ pc[r] \in ProfileSteps => prof[r] # NoProfile
    /\ prof[r] # NoProfile => /\ pc[r] \notin {"idle", "authorize"}
                              /\ prof[r].names = input[r].names
    /\ status[r] # 0 => pc[r] = "done"

(* A key is in the group exactly while its leader is inside the call. *)
FlightInv ==
  /\ \A r \in Requests : pc[r] \in LeaderSteps => flight[KeyOf(r)] = r
  /\ \A k \in CacheKeys, r \in Requests : flight[k] = r =>
       pc[r] \in LeaderSteps /\ KeyOf(r) = k

(* Nobody waits for a call that is over. *)
WaitInv == \A r \in Requests : pc[r] = "wait" => flight[KeyOf(r)] # NoRequest

AuditInv ==
  Strict =>
    /\ \A r \in Requests : pc[r] \in ClearedSteps =>
         Event(r, "authorized", NoRequest) \in log
    /\ OrdersAreAudited
    /\ ServedAreAudited

(* c was issued, to a request with cache key k. *)
IssuedFor(c, k) ==
  /\ c \in orders
  /\ c.key = k.key
  /\ c.names = k.hash.names \cup input[c.serial].cn
  /\ prof[c.serial] = k.hash
  /\ input[c.serial].identity = k.identity
  /\ input[c.serial].profile = k.profile

CertInv ==
  /\ \A c \in orders : /\ prof[c.serial] # NoProfile
                       /\ c.notAfter <= now + Lifetime
  /\ \A k \in CacheKeys : cache[k] # NoCert => IssuedFor(cache[k], k)
  /\ \A r \in Requests : result[r] # NoResult =>
       prof[r] # NoProfile /\ IssuedFor(result[r].cert, KeyOf(r))
  /\ \A r \in Requests : pc[r] = "put" => result[r] # NoResult
  /\ \A r \in Requests : result[r] # NoResult =>
       pc[r] \in {"put", "return", "respond", "done"}
  /\ \A r \in Requests : status[r] = 200 => result[r] # NoResult

Holds(k, c) == cache[k] # NoCert /\ cache[k].notAfter >= c.notAfter

(* What a leader learned from the cache stays true until it has written.   *)
CacheInv ==
  \A r \in Requests :
    /\ pc[r] = "obtain" => ~Valid(cache[KeyOf(r)], prof[r].renewBefore)
    /\ (pc[r] = "put" /\ cache[KeyOf(r)] # NoCert) =>
         cache[KeyOf(r)].notAfter <= result[r].cert.notAfter
    /\ (pc[r] \in {"return", "respond"} \/ status[r] = 200) /\ result[r] # NoResult =>
         Holds(KeyOf(r), result[r].cert)

(* A handler past the rate limiter, and behind every order, has an         *)
(* admission of its own in both of its lists. *)
AdmittedSteps == {"flight", "wait", "respond"} \cup LeaderSteps

Admits(list, r) == \E a \in list : a.call = r

Admitted(r) ==
  /\ Admits(limIdentity[input[r].identity], r)
  /\ Admits(limProfile[input[r].identity][input[r].profile], r)

Within(list, limit) == IsFiniteSet(list) /\ Cardinality(list) <= limit

(* A handler orders once.  In the first hour nothing leaves the limiter's  *)
(* lists, so they still hold every admission, and are within the limits.   *)
LimitInv ==
  /\ \A c \in orders : pc[c.serial] \in {"put", "return", "respond", "done"}
  /\ \A c, d \in orders : c.serial = d.serial => c = d
  /\ FirstHour =>
       /\ \A i \in Identities :
            /\ Within(limIdentity[i], Limiter!PerIdentity)
            /\ \A p \in ProfileNames :
                 Within(limProfile[i][p], Limiter!PerIdentityProfile)
       /\ \A r \in Requests : pc[r] \in AdmittedSteps => Admitted(r)
       /\ \A c \in orders : Admitted(c.serial)

(* The whole.  The types are one part; the others say that a request's     *)
(* input and profile are final once kept, that a flight has one leader     *)
(* inside issueOrLoad and waiters only then, that what a handler holds is  *)
(* audited and was issued for its cache key, that what it read from the    *)
(* cache is still so when it writes there, and that every order was        *)
(* admitted.                                                               *)
IInv ==
  /\ TypeOK
  /\ RequestInv
  /\ FlightInv
  /\ WaitInv
  /\ AuditInv
  /\ CertInv
  /\ CacheInv
  /\ LimitInv
=============================================================================
