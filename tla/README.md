# Certplane in TLA+

Certplane hands out TLS certificates to hosts without giving them CA or DNS
credentials.  An **agent** on each host has a private mTLS identity (from a
step-ca), makes its own keys and CSRs, and asks the **broker**; the broker
authenticates it, checks the request against a **policy**, takes a certificate
from its cache or orders one from an ACME CA, and writes an **audit log**.

This directory models the parts of that system in which order matters: what
concurrent handlers, overlapping processes, crashes, lost answers and failed
writes can do to shared state.  TLC checks small instances; TLAPS proves the
main results for every instance.

## 1. Inventory

| Part | State | Operations | Talks to | What is hard |
|---|---|---|---|---|
| Issue handler (`internal/broker/issue*.go`) | the request context; a singleflight group | POST /v1/certificates: authenticate, parse, authorize, record, rate limit, look up or issue, record, answer | policy manager, limiter, store, recorder, ACME issuer | handlers interleave; a leader's context decides for its followers; any call may fail; the process may stop |
| Rate limiter (`broker/ratelimit`) | admission times per identity and per identity/profile, in memory | Allow | called by the handler | lazy pruning of one key at a time; boundaries of window and limit |
| Policy manager (`broker/policy/manager.go`) | current compiled policy, last mtime seen | load, reload, watch | reads a file an operator edits | stat and read are two steps; mtimes may go back; edits during start-up |
| Policy compiler, hashes, Authorize (`broker/policy`) | none | Compile, hash, Authorize | handler | some texts are trimmed and some are not; the hash is part of the cache key |
| Stores (`broker/store`) | certificate cache and audit events, as files or in SQLite | open and migrate, Get, Put, Record, List, WriteAuditEvents | handler, `certs` and `audit` commands | several processes and one connection each; failure after the effect; cancelled contexts; torn lines |
| Audit recorders (`broker/audit`) | none | Record, fan-out, discard | store, stdout | an error although the event is stored |
| ACME issuer (`broker/issuer/acme`) | an account key file | Issue | lego, DNS providers, secrets | failure after the CA has issued |
| HTTP server and process (`broker/http.go`, `cmd/broker`) | the store handle | start, stop | all of the broker | Shutdown races the handlers |
| Agent commands (`internal/agent`, `cmd/agent`) | identity, service keys and certificates as files | enroll, run, check | lock, step-ca, broker, reload command | overlapping processes, crash between two files, one-time token |
| Lock file (`fileutil/lock.go`) | agent.lock | AcquireLock, Release | agent commands | the dead do not release |
| Atomic replacement (`fileutil/fs.go`) | a file and its temporary | WriteFileAtomic | everything that writes files | power loss, concurrent callers, error paths |
| Keys, CSRs, certificates (`internal/pki`) | key files | generate, parse, compare, WriteToDisk | agent, broker | three files make one bundle |
| Identity CA (`internal/ca`) | none | Enroll, Renew | step-ca | the answer may be lost after the token is spent |
| DNS names (`internal/dnsname`) | none | canonical lists, set equality | policy, pki | pure; edges of labels, dots and wildcards |
| Configuration, secrets, command line, logging | none | parse, validate, default, print | all | a default hides a configured zero |

What makes each part correct is stated in section 4; PROJECT.json lists the
hazards line by line.

## 2. Modules

| Module | Models | Uses |
|---|---|---|
| `RateLimiter` | Allow, prune, defaulting of the limits; no behaviour of its own | |
| `RateLimiterHistory` | the limiter under a clock and callers, with the whole history of admissions as the reference | extends `RateLimiter` |
| `BrokerIssue` | all handlers of POST /v1/certificates over the shared state | instance of `RateLimiter` |
| `Fleet` | agents as clients of the broker: when they ask, wait, give up and install | extends `BrokerIssue` |
| `PolicyManager` | load, reload and watch of the policy file | |
| `DnsName` | canonical DNS names, and a reference for them; no behaviour of its own | |
| `PolicyCompile` | what a policy file compiles to, its hashes, and Authorize, while an operator edits it | extends `DnsName` |
| `Store` | processes that open, migrate, write and read one store | |
| `DurableFile` | abstract: what a reader and a power loss may see of a file | |
| `WriteFileAtomic` | the system calls of WriteFileAtomic over a file system with writeback | implements `DurableFile` |
| `Agent` | processes running enroll, run and check on one host | |
| `MCBrokerIssue`, `MCFleet`, `MCPolicyCompile`, `MCStore`, `MCAgent` | instances for TLC | |
| `*Proofs` | the theorems | extend the module they are about |

### BrokerIssue

One handler is one request; `pc[r]` is its next call, in the order of
`issueCertificate`.  Between two calls everything else may happen: other
handlers, a policy reload, the clock, a client that disconnects (its context is
cancelled), a restart.  `flight` is the singleflight group: the first request
with a cache key runs `issueOrLoad` with *its* context, later ones wait and get
what it returns.  `cache`, `log` and `orders` (what the CA has issued) survive a
restart, the limiter and the flights do not.  A stop signal is a restart:
`ListenAndServeTLS` returns as soon as `Shutdown` begins, `runServe` returns and
the process exits under the handlers.

Faults are a parameter: `audit` and `store` writes fail, with and without effect
(the file store can fail after the rename, SQLite after the commit if the context
is cancelled meanwhile, the mirror after the store has the event), the `ca` fails
before or after it issues, clients `disconnect`, the broker is `restart`ed.

Data: a profile is its names and renewal window and stands for its own hash
(`hash.go` hashes the whole profile); a public key stands for its fingerprint; a
certificate's serial is the request that ordered it.  A CSR has a key, DNS names
and at most one common name; lego's `ObtainForCSR` orders both kinds of name
(`NewCert`), while Authorize compares the DNS names only.  Issuer name, directory and
account in the cache key are fixed by the configuration.  The 503 for a missing
policy and the error of the fingerprint cannot happen after NewManager and
ParseCSRPEM have succeeded and are left out.

### Fleet

`BrokerIssue` lets any request arrive at any time.  In `Fleet` a request exists
because an agent's certificate is missing or within its renewal window (`Due`),
it carries what the agent is configured with, and its answer goes back to an
agent that waits, tests it (`Accepts`) and installs it, or has given up meanwhile
(`GiveUp`: the 30 s of http.Client, or the agent died), which the broker sees as
a cancelled context.  `Reconfigure` changes what an agent asks for between two
runs.  The clock moves only while no request is under way: a tick stands for
days, requests take minutes.  An agent's CSR has the first of its DNS names as
its common name (`FleetAssumption`, from GenerateServiceCSR).  Each agent has a
renewal window of its own, of any length: nothing in the code compares it with
the profile's.  `WindowsFit` says of one agent that its window is no longer than
that of the profile its request was authorized with and shorter than a
certificate's life.

### DnsName and PolicyCompile

Names are sequences of characters (letters, capitals, dots, stars, hyphens,
white space, other ASCII, other Unicode).  `LowerOf` may contain characters
above 127: strings.ToLower turns the Kelvin sign into k before the test for
ASCII, so that such a name is accepted as the name with a k.  `WellFormed` and
`Meanings` say the same as `Canonical` without trimming and splitting.

A text of the policy file keeps the white space around it, because Compile trims
references, identities and the names it stores, but keeps profiles under the key
as written.  A map is a function and a hash the value that is hashed.  Lists of
names are sets: CanonicalList sorts and removes duplicates.  The operator sets
and removes profiles, hosts and the version and types characters into names;
`Reload` is Manager.Reload, and does nothing if the file does not compile.

### Store

`proc` is a process that has the store open, a caller one of its goroutines.
With SQLite, opening begins a transaction on the only connection
(SetMaxOpenConns(1)), which creates the migration table, looks at each migration,
applies what is missing and commits; Record is a statement with its own
transaction, audit tail a query that holds its read lock until the rows are
closed.  SQLite is external and modelled from its documented locks (rollback
journal, deferred transactions): one writer, EXCLUSIVE to commit only when nobody
reads; whoever does not get a lock waits and may fail with SQLITE_BUSY at any
time.  `blame` remembers who was in the way.  The file driver appends a line and
syncs; a write may be cut off by a full disk and, when it was not synced, by a
power loss, and `file` is what each write left.  An event has its second and,
as a history, the events acknowledged before it was made.  Faults: `disk`,
`cancel` (of a context), `kill`, `power`.  What a power loss may take: of the
audit file all that was not synced, or the whole file as long as the kernel has
not written the directory back on its own (`SyncDirectory`; Record creates the
file and never syncs its directory), and of the database the last commit, since
with the default rollback journal and synchronous=FULL a commit is the removal
of the journal, which is not synced (`undo` is what the journal restores).
`since` is the last event lost with a file, `outages` counts power losses.  The
statements on the certificate cache take the same locks in the
same way; what they do to the cache is in `BrokerIssue`.

### RateLimiter

The Go code keeps lists of times; nothing reads their order, so a list is a set
of admissions, each with the name of its call.  A zero limit becomes the default
before the limiter is built (`WithDefault`).

### PolicyManager

The watcher's tick is two steps, `Stat` (lastMod moves) and `Reload` (the file
is read), because the operator may write in between.  The operator writes in
several steps (invalid or missing content in between) and, with
`OldMtimes = TRUE`, gives the file any mtime up to now.

### WriteFileAtomic and DurableFile

Each call goes through write, chmod, fsync, close, rename and fsync of the
directory; any may fail, and the deferred os.Remove may fail too.  An inode has
an image in memory and one on disk; the kernel writes back (part of) it when it
likes, and the directory likewise.  A power loss leaves the disk images and any
subset of the temporary names.  The abstract register has versions in the order
of the renames: `Replace`, `Persist`, `PowerLoss`.  The mapping is
`visible <- Version(path, mem)`, `durable <- Version(pathDisk, disk)`, where an
incomplete or wrongly-moded file is no version at all.  Durability of directories
that MkdirAll has just made is not modelled.

### Agent

`pc[p]` is the next file operation or remote call of process p.  Replacing a
file is one step, as `WriteFileAtomic` is shown to make it, and an error of it
may come before or after the replacement.  enroll and run take the lock file;
check does not.  `unit` is the systemd unit of the Ansible role: check
(ExecStartPre), then run.  Faults: the identity CA (before or after it has
accepted the one-time token), the `broker` (errors, or a certificate for another
key or other names), the `bundle` (a chain or full chain of another certificate),
writes, unlinks, reload commands that fail or `hang`, and kills.  An answer has
three parts, of which run tests the first and WriteToDisk writes each to a file of
its own; a chain or full chain is modelled by the certificate it belongs to, and
`ChainOfAnother` stands for that of any other certificate.  A
reload command hangs when its shell has ended or was killed and a process it
started still has its output open: `OutputCloses` ends that, if ever.  An operator
removes a lock whose process is gone and, as the role does, provides a new token
as long as there is no identity certificate.  Every service has a reload command.
Configuration is constant; PEM and X.509 details are left out, as are read
errors of files that exist.

## 3. Runs and bounds

| Run | Instance | Result |
|---|---|---|
| `broker_faults` | 2 requests, 2 policies that disagree, good and bad inputs, all faults, fail_closed, file driver, clock 0..1 with lifetime 2 and windows 0 and 1, a CSR whose common name is none of its DNS names | passes |
| `fleet` | 3 requests of 2 agents (two certificates of one host, a key each), a configuration that changes to names the policy refuses, disconnects, limit 2, sqlite, clock 0..1 with lifetime 2, a profile with window 1 and agents with windows 1 and 2, weak fairness | passes |
| `rate_limiter` | 2 identities, 2 profiles, 5 calls, limits 2 and 1, window 2, clock 0..5 | passes |
| `policy_manager` | 3 edits with any mtimes, clock 1..3, restarts, weak fairness | passes |
| `policy_watch_gap` | 2 edits with growing mtimes | violation |
| `policy_compile` | 2 edits (with reloads anywhere) of a file with a plain or a wildcard profile; 4 profiles, 3 hosts and 3 keys, some padded, repeated or invalid; any character typed anywhere in a name; labels of at most 2 characters | passes |
| `store` | serve with 2 handlers and a second process that records or tails, 2 events, 2 migrations of which 0, 1 or 2 are there already, limits 0 and 1 (default 1), clock 0..1, all faults with one power loss, both drivers, weak and strong fairness, deadlock checked | passes |
| `write_file_atomic` | 3 concurrent calls, every failure, kills, power losses | passes |
| `agent` | 2 processes, 1 service, all commands, all faults but `bundle` (so that the chains are checked too), 3 keys, clock 0..2 with lifetime 1 | passes |
| `agent_lock` | 2 processes, 2 services, broker, bundle and reload faults, weak fairness | passes |
| `agent_install` | 1 process, write and reload faults | violation |
| `agent_first_unit` | 1 process, enroll then the unit, no faults, weak fairness | violation |

Why the bounds are enough to see the interesting cases: two handlers are the
least that can race, three the least with a leader, a follower and a newcomer
after the flight; the clock passes issue, renewal window and expiry; two
policies suffice for "changed since it was read"; the limiter's clock passes
more than two windows and its calls exceed both limits; in `fleet` three
requests are a first order, a renewal and one beyond the limit (broker restarts
are left to `broker_faults` and to the proofs, since a restart empties the
limiter and `OrdersWithinLimit` is about a process's first hour); two edits are
one that makes two entries collide and one that makes a difference between them;
two migrations are the least with a crash between them, two handlers and a
second process the least in which one can be in the way of its own process or of
another; three writers are the
least with a rename between another's rename and its directory sync; two
processes race for the lock, three keys are identity, service and one to be
confused with.  The theorems of section 5 do not depend on any of them.

Symmetry (requests; processes and keys of `Agent`) is used only in runs without
liveness properties.  Except in `store` deadlock is not checked: the other
systems may come to rest when all requests are answered, all edits made or the
clock is at its bound.

**Fairness.**  `BrokerIssue`: a handler that has begun takes its next step; the
Go scheduler is fair, database/sql and lego's polling have timeouts, file writes
return.  No request has to arrive.  `Fleet`: the same, and an agent whose answer
is there reads it.  `Store`: statements fail rather than wait for ever, so a
caller that can go on does; database/sql gives a free connection to one of those
that wait, picked at random or in order, so no waiting caller is passed over for
ever (strong fairness of `TakeConnection`).  `Agent`: a process that runs takes its next
step; the CA and broker clients have timeouts, and the shell of a reload command
is killed after one.  Nothing is assumed of `OutputCloses`: the timeout does not
reach the processes the shell has started.  In `agent_first_unit` also the timer keeps starting the unit.  `PolicyManager`: the
start-up gets to the watcher and its ticker keeps going.

## 4. Properties

Broker: `OrdersAreAudited` and `ServedAreAudited` (in fail_closed mode neither
an order nor an answer lacks its event), `ServedMatchesRequest` (own key,
identity and profile, and the names of the profile and of the CSR's common name,
even from an old cache entry and across reloads),
`OneOrderPerKey`, `NoNeedlessOrder` (what the cache lookup said still holds when
the CA answers), `CacheNeverRegresses`, `ServedStaysCached` (a retry gets what a
lost answer held), `OrdersWithinLimit` (in the first hour of a process the orders
of an identity, and of an identity and profile, stay within the hourly limits;
later the limits bound admissions, and a handler may order long after its own),
`EveryRequestEnds`.

Fleet: `AnswerIsNewer` (for an agent whose window fits: what the broker takes for
valid is what the agent takes for not yet due, so a renewal never brings back the
old certificate),
`AgentAccepts` (the agent's own tests never fail on a 200), `LostOnlyByDisconnect`
(the one way to lose what the CA has issued while everything works).

Policy: `AuthorizesAsWritten`, `ReferencesResolve`, `CanonicalMeaning`,
`HashFollowsEffect`, `HashIdentifiesPolicy`, and from the watcher
`NoticedEditsTakeEffect`.

Store: `SchemaIsWhole`, `BusyComesFromOutside`, `AckedIsStored` (only a power loss
takes an acknowledged event, from SQLite at most one each time, from the file all
of them or none, depending on whether the directory was ever written back),
`TornSpoilsOne`, `TailIsRecent`, `EveryCallEnds`.

Limiter: `IdentityWindowBound`, `ProfileWindowBound` for every window of an
hour, and `RejectsOnlyWhenFull`, all against the full history.

Files: `AtomicAndDurable` (the refinement), `NoLitter`.

Agent: `MutualExclusion`, `KeysMatch` (of the certificates whatever the broker
sends, of the chains if it sends the right ones), `NoFalseMismatch` (although
check reads without the lock), `TokenOrIdentity`, `SuccessServesAll`,
`LockIsReleased` (as long as reload commands let go of their output).

A module's `IInv` (`FleetInv` for `Fleet`, `PolicyIsCompiled` for
`PolicyCompile`) is the inductive invariant of its proofs; the runs of
`BrokerIssue`, `Fleet` and `Agent` check theirs too (`FleetInv` contains the
`IInv` of `BrokerIssue`).  Definitions marked "a faulty variant" are plausible bugs; with one of them
in place of the definition it is a variant of, TLC finds the property violated.

### Where code and documentation disagree

* `EveryEditTakesEffect`: the schema says the policy is reloaded when it changes
  on disk; an edit between the first load and the watcher's first stat (the
  store is opened and the ACME issuer built in between) is never noticed.
* `SuccessCompletesInstall`: run decides from `cert` alone; after a failure
  between cert and fullchain, or of the reload command, later runs skip the
  service and report success with a stale fullchain or a service not reloaded.
* `UnitWritesServiceKey`: the unit runs check first, check needs the service key,
  and only run creates it: on a freshly enrolled host the unit never succeeds.

Those three have runs that TLC ends with a violation.  Others were met on the way
and are part of the model, without a run of their own:

* Common name: the comment on Authorize says it verifies that the CSR requests
  exactly the names of the profile.  A common name outside them is not compared,
  is ordered by lego and ends up in the certificate; `ServedMatchesRequest`
  therefore allows it, and `broker_faults` has such a CSR.
* fail_closed: the schema says it rejects the request on audit failure.  The
  result of recording certificate_request_received, and of denials, is ignored
  (`RecordAnyway`), so such a request is answered 200.  The two barriers, before
  the order and before the answer, are sound.
* renew_before: the schema says the agent requests a new certificate within its
  window.  If the profile's is shorter, the broker answers from its cache with the
  certificate the agent has, and every run installs it and reloads the service
  again, until the profile's window begins.  `AnswerIsNewer` is about the agents
  for whom this cannot happen (`WindowsFit`).
* Zero limits: the schema says 0 disables a limit, ApplyDefaults turns it into 50
  or 20 (`WithDefault`).
* Policy hash: `hash.go` says the hashes identify the policy version.  The policy
  hash is made of trimmed names in the order of the untrimmed ones, so white space
  around keys of "profiles" can give two different policies one hash.  It goes to
  audit events and logs only; the profile hash, which keys the cache, is not
  affected.
* Expired identity: `renew.go:34` asks for a new enrollment, which `enroll.go:28`
  refuses as long as the expired certificate is there.  That no command of the
  agent gets out of this is theorem `NoWayBack`.
* reload_timeout: the schema calls it the maximum time allowed for the reload
  command.  Only /bin/sh is killed, and CombinedOutput waits for whoever has
  inherited its output; the run keeps the lock meanwhile (step `hung`).

## 5. What is proved

All for any values of the constants under the named assumptions
(`BrokerAssumption`, `LimitsAssumption`, `HistoryAssumption`,
`PolicyAssumption`, `NoFileAssumption`, `AgentAssumption`, `DnsNameAssumption`,
`PolicyCompileAssumption`, `StoreAssumption`), which only fix types and keep the
null values apart; `FleetAssumption` also says that an agent's common name is
among its DNS names, and `StoreAssumption` says that audit tail is alone in its process.

**BrokerIssueProofs.**  `Invariance`, then `OrdersAudited`, `ServedAudited`,
`ServedMatches`, `OneOrder`, `StaysCached`, `NoNeedless`, `NoRegress`,
`OrdersLimited`, `WaitsForSomebody`, `OnlyForward`.  The
properties are not inductive: that an answer fits its request rests on what the
*cache* holds (`CertInv`: an entry was issued to a request with that very key),
which rests on a request's input and profile being final once kept
(`RequestInv`) and the profile naming what the CSR's DNS names are; the common
name is not compared and so appears in the statement.  That the cache never
goes back rests on what the leader read being still true when it writes
(`CacheInv`), which needs that only it can write the entry (`FlightInv`: a key
is in the group exactly while its one leader is inside the call).  `AuditInv`
carries the authorized event from the first barrier to the order.  `OrdersLimited`
is an injection: a handler orders once, behind an admission of its own, and in the
first hour (`FirstHour`) nothing is pruned from the limiter's lists, which are
within the limits and so bound the orders (`LimitInv`).  `WaitInv` (nobody waits
for a call that is over) gives `WaitsForSomebody`, and with `OnlyForward` all of
`EveryRequestEnds` but the fairness.

**RateLimiterProofs.**  `IdentityBound`, `ProfileBound`, `RejectsWhenFull`.
The invariant says a pruned list is a subset of its key's history and that what
it lost is an hour old at least (`Remembers`); the bound for *every* window, not
only the current one, is carried along.

**AgentProofs.**  `Invariant`, then `LockExcludes`, `FilesMatch`, `ChecksAgree`,
`CanEnroll`, `RunServesAll`, `NoWayBack`, `NoLockLeak`, `BoundedWork`.  `FilesMatch`
needs no faith in the broker's certificate, which run tests; of chain and full
chain, which it does not test, it is conditional on the `bundle` fault being absent.
`LockInv` says that whoever is in a critical step
has the lock file; with it, what a process read of identity (`IdentityInv`) or
service (`ServiceInv`) is still on disk when it writes.  The lock-free check is
covered because service keys are written once: nobody replaces a key that
exists.  `EarlierInv` carries the services already served through Run's loop.
The last two are `LockIsReleased` without the fairness: a lock file has an owner,
unless somebody was killed or os.Remove failed, and its owner needs at most
9 * NServices + 4 steps, none of which makes the rest longer.  Steps, not time: the
step out of a reload that hangs may never come.

**WriteFileAtomicProofs.**  `Refinement` (Spec implies `DurableFile`'s
specification) and `CleansUp`.  The mapping is sound because an inode that gets
the target's name is complete in memory and on disk (`InodeInv`, from fsync
before rename) and because a call that is about to return has a rank no higher
than what the path names (`RankInv`), whatever later renames did.

**PolicyManagerProofs.**  `Invariant` and `NothingOwedIsLost`:
although Watch moves lastMod before it reloads, and the reload reads whatever the
file holds by then, no valid version it could notice is forgotten.

**FleetProofs.**  `FleetImplementsBroker` (every step is a step of `BrokerIssue`
or leaves it alone, so all of its theorems hold in the composition), then
`FleetInvariance`, `AnswersAreNewer`, `AgentsAccept`, `LossNeedsDisconnect`,
`FleetOrdersLimited`.  An
agent that waits is still due, with its configuration unchanged (`AskInv`);
what is on its way to it is outside the profile's window or just ordered
(`ResultInv`), because it comes from `Valid` or from the CA, and so expires after
the agent's window if that one fits; its own request is honest about the common name (`HonestInv`); and an order whose client is there goes from
the leader's hands to the cache without a step in between (`OrderInv`).

**PolicyCompileProofs.**  `CanonicalIsIdempotent` for names of any length (what
is valid has nothing to trim at its ends and nothing to lower), then
`PolicyInvariance`, `GrantsAsWritten`, `NoUnknownProfile`, `WildcardsOnlyThere`,
`HashIsEffect`, `FileTypes`, `HashIdentifies`, `CanonicalMeans` for any file.
For the grants the key is that trimming is idempotent and
identities are distinct after it, so that the CHOOSE in `hostsByIdentity` (the
last write to a Go map) has one candidate.  `HashIdentifies` needs that a sorted
list of keys has every key exactly once (`SortedHasAll`): a key's place is the
number of keys before it, so no induction over lists is involved; the files have
to stay finite, which `FileTypes` says.  `CanonicalIsMeant` compares Canonical
with the reference definition for names of any length: a label is what two
neighbouring dots delimit, so the labels are good exactly if no forbidden pair of
characters meets anywhere in the name (`ValidMeans`), and what trimming leaves is
the one part of the input that the reference definition allows (`TrimsTo`).

**StoreProofs.**  `StoreInvariance`, then `MigratesWhole`, `NeverBusyInside`,
`RecordIsDurable`, `TornLinesAreBounded`, `TailsRecently`, `NoWaitBehindWaiter`,
`CallsAreBounded`.  `OneConnection` ties
locks to the one connection of a process; `MigratesInOrder` says that what a
transaction has written is a prefix of the migrations and that only the writer
has written anything, so that what it read before it got the lock is still true;
`FileInOrder` that an event comes after those it was made after, on disk;
`UndoIsNear` that what a power loss can bring back of the database is a whole
schema and misses one event at most, which `RecordIsDurable` needs.  The
bound on spoiled lines is an injection from a spoiled event to the torn write
before it.  The last two are `EveryCallEnds` without the fairness: opening takes
at most 3 * NMigrations + 4 steps, a Record or a tail at most 4, and the only wait
in them is for a caller that does not wait.

Only model-checked, because fairness is out of the prover's reach:
`EveryRequestEnds`, `EveryCallEnds`, `LockIsReleased`, `NoticedEditsTakeEffect`.
What the provers can say of each is said above: a measure that every step lowers
and no wait for one that waits too, and for the watcher that nothing it can notice
is forgotten.  Every invariant and every other action property
that a run checks is proved.

## 6. Not modelled

The stores' List and the codecs of columns and JSON files, the length of audit
lines (bufio.Scanner's limit), the durability of directories that MkdirAll has just
made, FileJSONLRecorder (no command uses it), a change of the ACME
account, the secrets providers (stateless lookups), TLS and X.509, PEM, the ACME
protocol, DNS providers, configuration parsing and validation (pure, before
anything runs; only defaults that change behaviour appear), the command line,
logging, and the wording and reason codes of answers and events.  Of a CSR's
subject only the common name matters, to the CA; that a common name the CA refuses
makes the order fail is one of the ways in which Issue fails.

## 7. Plan

1. `OrdersWithinLimit` after a restart and after the first hour, where the bound
   is on admissions: how many orders a handler that was admitted long ago can add
   to an hour.
2. The rest of the stores: List and the length of audit lines.
