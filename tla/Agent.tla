-------------------------------- MODULE Agent --------------------------------
(***************************************************************************)
(* The agent of one host: processes running enroll, run and check over the *)
(* same files, started by hand or by the systemd unit (check, then run).   *)
(* enroll and run take the lock file, check does not.  A process may be    *)
(* killed at any point, a write or a remote call may fail, and an operator *)
(* removes the lock a dead process left and provides bootstrap tokens.     *)
(*                                                                         *)
(* A file is replaced in one step, as WriteFileAtomic is shown to do; an   *)
(* error of it may come before or after the file is replaced.  pc[p] is    *)
(* the next file operation or remote call of process p.                    *)
(***************************************************************************)
EXTENDS Integers

CONSTANTS
  Procs,          \* processes; one may run several commands in turn
  NServices,      \* entries of "certificates", handled in order
  Keys,           \* private keys that may be generated
  Commands,       \* commands that are started on this host
  Faults,         \* which parts of the environment misbehave
  Lifetime,       \* longest validity of a certificate, in ticks
  IdRenewBefore,  \* identity.renew_before
  RenewBefore,    \* renew_before of every service certificate
  MaxTime,        \* bound on the clock
  NoKey, NoCert

Services == 1..NServices

FaultKinds == {"ca", "broker", "bundle", "write", "unlink", "reload", "hang", "kill"}

(* "configured": the canonical set of the entry's dns_names. *)
Certs == [key : Keys, notAfter : Nat, names : {"configured", "other"}]

Chains == [chain : Certs \cup {NoCert}, full : Certs \cup {NoCert}]

NoChains == [chain |-> NoCert, full |-> NoCert]

ASSUME AgentAssumption ==
  /\ NServices \in Nat \ {0}
  /\ Commands \subseteq {"enroll", "run", "check", "unit"}
  /\ Faults \subseteq FaultKinds
  /\ Lifetime \in Nat \ {0}
  /\ IdRenewBefore \in Nat
  /\ RenewBefore \in Nat
  /\ MaxTime \in Nat
  /\ NoKey \notin Keys
  /\ NoCert \notin Certs

VARIABLES
  now,      \* the clock
  lock,     \* agent.lock exists
  cmd,      \* the command of a process
  pc,       \* its next step; "off" when it has exited
  svc,      \* the service it handles
  key,      \* the private key it has in memory
  got,      \* the certificate it got and has not installed yet
  rest,     \* the chain and the full chain that came with it
  outcome,  \* how the last command of a process ended
  idKey,    \* identity.key
  idCert,   \* identity.cert
  token,    \* identity.bootstrap_token exists
  spent,    \* the identity CA has accepted that token
  skey,     \* key of each service
  scert,    \* cert of each service
  schain,   \* chain of each service, by the certificate it belongs to
  sfull,    \* fullchain of each service, by its leaf
  loaded    \* the certificate each service loaded at its last reload

local == <<svc, key, got, rest>>
idFiles == <<idKey, idCert, token, spent>>
certFiles == <<scert, schain, sfull>>
svcFiles == <<skey, certFiles>>
vars == <<now, lock, cmd, pc, local, outcome, idFiles, svcFiles, loaded>>

-----------------------------------------------------------------------------
(* Types.                                                                  *)

(* Steps between AcquireLock and Release. *)
EnrollSteps == {"enroll_key", "enroll_token", "enroll_sign", "enroll_write",
                "enroll_remove"}
RunSteps == {"client", "renew", "renew_write", "key", "cert", "issue",
             "write_cert", "write_chain", "write_full", "reload", "hung"}
Critical == {"exists", "release"} \cup EnrollSteps \cup RunSteps

CheckSteps == {"check_identity", "check_key", "check_cert"}

Outcomes == {"none", "ok", "failed", "locked", "exists", "expired", "mismatch",
             "killed"}

TypeOK ==
  /\ now \in 0..MaxTime
  /\ lock \in BOOLEAN
  /\ cmd \in [Procs -> {"none", "enroll", "run", "check", "unit"}]
  /\ pc \in [Procs -> {"off", "lock"} \cup Critical \cup CheckSteps]
  /\ svc \in [Procs -> Services]
  /\ key \in [Procs -> Keys \cup {NoKey}]
  /\ got \in [Procs -> Certs \cup {NoCert}]
  /\ rest \in [Procs -> Chains]
  /\ outcome \in [Procs -> Outcomes]
  /\ idKey \in Keys \cup {NoKey}
  /\ idCert \in Certs \cup {NoCert}
  /\ token \in BOOLEAN
  /\ spent \in BOOLEAN
  /\ skey \in [Services -> Keys \cup {NoKey}]
  /\ scert \in [Services -> Certs \cup {NoCert}]
  /\ schain \in [Services -> Certs \cup {NoCert}]
  /\ sfull \in [Services -> Certs \cup {NoCert}]
  /\ loaded \in [Services -> Certs \cup {NoCert}]

(* A host as the Ansible role leaves it before enroll. *)
Init ==
  /\ now = 0
  /\ lock = FALSE
  /\ cmd = [p \in Procs |-> "none"]
  /\ pc = [p \in Procs |-> "off"]
  /\ svc = [p \in Procs |-> 1]
  /\ key = [p \in Procs |-> NoKey]
  /\ got = [p \in Procs |-> NoCert]
  /\ rest = [p \in Procs |-> NoChains]
  /\ outcome = [p \in Procs |-> "none"]
  /\ idKey = NoKey
  /\ idCert = NoCert
  /\ token = TRUE
  /\ spent = FALSE
  /\ skey = [s \in Services |-> NoKey]
  /\ scert = [s \in Services |-> NoCert]
  /\ schain = [s \in Services |-> NoCert]
  /\ sfull = [s \in Services |-> NoCert]
  /\ loaded = [s \in Services |-> NoCert]

-----------------------------------------------------------------------------
(* Control flow of a process.                                              *)

Goto(p, step) == pc' = [pc EXCEPT ![p] = step]

Continue(p, step) == Goto(p, step) /\ UNCHANGED outcome

(* The command returns; the deferred Release is its last step. *)
Finish(p, how) == Goto(p, "release") /\ outcome' = [outcome EXCEPT ![p] = how]

(* The command returns without having the lock. *)
Exit(p, how) == Goto(p, "off") /\ outcome' = [outcome EXCEPT ![p] = how]

(* A file is replaced, or the write fails before or after the rename. *)
Replaces(file, new) == file' = new

FailsToReplace(file, new) == "write" \in Faults /\ file' \in {file, new}

(* Keys nobody has: ecdsa.GenerateKey returns one. *)
FreshKeys ==
  {k \in Keys : /\ k # idKey
                /\ \A s \in Services : k # skey[s]
                /\ \A p \in Procs : pc[p] # "off" => k # key[p]}

(* time.Until(NotAfter) <= d *)
ExpiresWithin(c, d) == c.notAfter - now <= d

IsExpired(c) == now > c.notAfter

Matches(c, k) == c.key = k

HasNames(c) == c.names = "configured"

(* What the identity CA's answer to a CSR with key k holds. *)
Signed(k) == [key |-> k, notAfter |-> now + Lifetime, names |-> "configured"]

(* step-ca renews for the key of the certificate the client shows it. *)
Renewed(c) == [c EXCEPT !.notAfter = now + Lifetime]

Start(p, c) ==
  /\ pc[p] = "off"
  /\ c \in Commands
  /\ cmd' = [cmd EXCEPT ![p] = c]
  /\ svc' = [svc EXCEPT ![p] = 1]
  /\ key' = [key EXCEPT ![p] = NoKey]
  /\ got' = [got EXCEPT ![p] = NoCert]
  /\ rest' = [rest EXCEPT ![p] = NoChains]
  /\ outcome' = [outcome EXCEPT ![p] = "none"]
  /\ Goto(p, IF c \in {"check", "unit"} THEN "check_identity" ELSE "lock")
  /\ UNCHANGED <<now, lock, idFiles, svcFiles, loaded>>

(* A faulty variant of AcquireLock: O_EXCL is missing. *)
AcquireAnyLock(p) ==
  /\ pc[p] = "lock"
  /\ lock' = TRUE
  /\ Continue(p, "exists")
  /\ UNCHANGED <<now, cmd, local, idFiles, svcFiles, loaded>>

(* AcquireLock: O_CREATE|O_EXCL. *)
AcquireLock(p) ==
  /\ pc[p] = "lock"
  /\ \/ ~lock /\ lock' = TRUE /\ Continue(p, "exists")
     \/ lock /\ UNCHANGED lock /\ Exit(p, "locked")
     \/ "write" \in Faults /\ UNCHANGED lock /\ Exit(p, "failed")
  /\ UNCHANGED <<now, cmd, local, idFiles, svcFiles, loaded>>

(* A faulty variant of Release: the file is closed but not removed. *)
ReleaseCloses(p) ==
  /\ pc[p] = "release"
  /\ Goto(p, "off")
  /\ UNCHANGED <<now, lock, cmd, outcome, local, idFiles, svcFiles, loaded>>

(* Lock.Release; its error is dropped. *)
Release(p) ==
  /\ pc[p] = "release"
  /\ \/ lock' = FALSE
     \/ "unlink" \in Faults /\ UNCHANGED lock
  /\ Goto(p, "off")
  /\ UNCHANGED <<now, cmd, outcome, local, idFiles, svcFiles, loaded>>

(* FileExists(cfg.Identity.Cert), in Enroll and in Run. *)
IdentityExists(p) ==
  /\ pc[p] = "exists"
  /\ \/ cmd[p] = "enroll" /\ idCert # NoCert /\ Finish(p, "exists")
     \/ cmd[p] = "enroll" /\ idCert = NoCert /\ Continue(p, "enroll_key")
     \/ cmd[p] # "enroll" /\ idCert # NoCert /\ Continue(p, "client")
     \/ cmd[p] # "enroll" /\ idCert = NoCert /\ Finish(p, "failed")
  /\ UNCHANGED <<now, lock, cmd, local, idFiles, svcFiles, loaded>>

-----------------------------------------------------------------------------
(* Enroll.                                                                 *)

(* EnsureECDSAPrivateKey, and reading the key back. *)
EnsureIdentityKey(p) ==
  /\ pc[p] = "enroll_key"
  /\ \/ /\ idKey # NoKey
        /\ key' = [key EXCEPT ![p] = idKey]
        /\ UNCHANGED idKey
        /\ Continue(p, "enroll_token")
     \/ /\ idKey = NoKey
        /\ \E k \in FreshKeys :
             /\ key' = [key EXCEPT ![p] = k]
             /\ \/ Replaces(idKey, k) /\ Continue(p, "enroll_token")
                \/ FailsToReplace(idKey, k) /\ Finish(p, "failed")
  /\ UNCHANGED <<now, lock, cmd, svc, got, rest, idCert, token, spent, svcFiles,
                 loaded>>

ReadToken(p) ==
  /\ pc[p] = "enroll_token"
  /\ \/ token /\ Continue(p, "enroll_sign")
     \/ ~token /\ Finish(p, "failed")
  /\ UNCHANGED <<now, lock, cmd, local, idFiles, svcFiles, loaded>>

(* identityCA.Enroll.  The CA accepts a token once; its answer may be      *)
(* lost, time out or come after the context was cancelled.                 *)
EnrollSign(p) ==
  /\ pc[p] = "enroll_sign"
  /\ \/ /\ ~spent
        /\ spent' = TRUE
        /\ got' = [got EXCEPT ![p] = Signed(key[p])]
        /\ Continue(p, "enroll_write")
     \/ /\ spent \/ "ca" \in Faults
        /\ \/ UNCHANGED spent
           \/ "ca" \in Faults /\ spent' = TRUE
        /\ UNCHANGED got
        /\ Finish(p, "failed")
  /\ UNCHANGED <<now, lock, cmd, svc, key, rest, idKey, idCert, token, svcFiles,
                 loaded>>

(* A faulty variant of EnrollWrite: the token goes before the certificate  *)
(* is known to be on disk.                                                 *)
EnrollWriteLast(p) ==
  /\ pc[p] = "enroll_write"
  /\ token' = FALSE
  /\ \/ Replaces(idCert, got[p]) /\ Finish(p, "ok")
     \/ FailsToReplace(idCert, got[p]) /\ Finish(p, "failed")
  /\ UNCHANGED <<now, lock, cmd, local, idKey, spent, svcFiles, loaded>>

EnrollWrite(p) ==
  /\ pc[p] = "enroll_write"
  /\ \/ Replaces(idCert, got[p]) /\ Continue(p, "enroll_remove")
     \/ FailsToReplace(idCert, got[p]) /\ Finish(p, "failed")
  /\ UNCHANGED <<now, lock, cmd, local, idKey, token, spent, svcFiles, loaded>>

RemoveToken(p) ==
  /\ pc[p] = "enroll_remove"
  /\ \/ token' = FALSE /\ Finish(p, "ok")
     \/ "unlink" \in Faults /\ UNCHANGED token /\ Finish(p, "failed")
  /\ UNCHANGED <<now, lock, cmd, local, idKey, idCert, spent, svcFiles, loaded>>

-----------------------------------------------------------------------------
(* Run: the identity.                                                      *)

(* NewBrokerClient loads the identity's key pair. *)
NewBrokerClient(p) ==
  /\ pc[p] = "client"
  /\ \/ Matches(idCert, idKey) /\ Continue(p, "renew")
     \/ ~Matches(idCert, idKey) /\ Finish(p, "mismatch")
  /\ UNCHANGED <<now, lock, cmd, local, idFiles, svcFiles, loaded>>

(* RenewIdentityIfNeeded up to the CA's answer. *)
RenewIdentity(p) ==
  /\ pc[p] = "renew"
  /\ \/ IsExpired(idCert) /\ Finish(p, "expired") /\ UNCHANGED got
     \/ /\ ~IsExpired(idCert)
        /\ ~ExpiresWithin(idCert, IdRenewBefore)
        /\ Continue(p, "key")
        /\ UNCHANGED got
     \/ /\ ~IsExpired(idCert)
        /\ ExpiresWithin(idCert, IdRenewBefore)
        /\ \/ /\ got' = [got EXCEPT ![p] = Renewed(idCert)]
              /\ Continue(p, "renew_write")
           \/ "ca" \in Faults /\ UNCHANGED got /\ Finish(p, "failed")
  /\ UNCHANGED <<now, lock, cmd, svc, key, rest, idFiles, svcFiles, loaded>>

WriteRenewed(p) ==
  /\ pc[p] = "renew_write"
  /\ \/ Replaces(idCert, got[p]) /\ Continue(p, "key")
     \/ FailsToReplace(idCert, got[p]) /\ Finish(p, "failed")
  /\ UNCHANGED <<now, lock, cmd, local, idKey, token, spent, svcFiles, loaded>>

-----------------------------------------------------------------------------
(* Run: ensureServiceCertificate for one service after the other.          *)

(* A faulty variant of NextService: Run returns after one service. *)
NextServiceStops(p) == UNCHANGED svc /\ Finish(p, "ok")

(* The loop of Run goes on, or Run returns nil. *)
NextService(p) ==
  IF svc[p] < NServices
    THEN /\ svc' = [svc EXCEPT ![p] = @ + 1]
         /\ Continue(p, "key")
    ELSE /\ UNCHANGED svc
         /\ Finish(p, "ok")

(* A faulty variant of EnsureServiceKey: a key that exists is replaced. *)
EnsureNewServiceKey(p) ==
  /\ pc[p] = "key"
  /\ \E k \in FreshKeys :
       LET new == [skey EXCEPT ![svc[p]] = k]
       IN  /\ key' = [key EXCEPT ![p] = k]
           /\ \/ Replaces(skey, new) /\ Continue(p, "cert")
              \/ FailsToReplace(skey, new) /\ Finish(p, "failed")
  /\ UNCHANGED <<now, lock, cmd, svc, got, rest, idFiles, certFiles, loaded>>

EnsureServiceKey(p) ==
  /\ pc[p] = "key"
  /\ \/ /\ skey[svc[p]] # NoKey
        /\ key' = [key EXCEPT ![p] = skey[svc[p]]]
        /\ UNCHANGED skey
        /\ Continue(p, "cert")
     \/ /\ skey[svc[p]] = NoKey
        /\ \E k \in FreshKeys :
             LET new == [skey EXCEPT ![svc[p]] = k]
             IN  /\ key' = [key EXCEPT ![p] = k]
                 /\ \/ Replaces(skey, new) /\ Continue(p, "cert")
                    \/ FailsToReplace(skey, new) /\ Finish(p, "failed")
  /\ UNCHANGED <<now, lock, cmd, svc, got, rest, idFiles, certFiles, loaded>>

(* The certificate on disk does not fit, need not be renewed, or must be.  *)
ExistingCertificate(p) ==
  LET c == scert[svc[p]]
  IN  /\ pc[p] = "cert"
      /\ \/ /\ c = NoCert
            /\ Continue(p, "issue")
            /\ UNCHANGED svc
         \/ /\ c # NoCert
            /\ ~Matches(c, key[p])
            /\ Finish(p, "mismatch")
            /\ UNCHANGED svc
         \/ /\ c # NoCert
            /\ Matches(c, key[p])
            /\ ~ExpiresWithin(c, RenewBefore)
            /\ NextService(p)
         \/ /\ c # NoCert
            /\ Matches(c, key[p])
            /\ ExpiresWithin(c, RenewBefore)
            /\ Continue(p, "issue")
            /\ UNCHANGED svc
      /\ UNCHANGED <<now, lock, cmd, key, got, rest, idFiles, svcFiles, loaded>>

(* Stands for the chain of any certificate but c. *)
ChainOfAnother(c) == [c EXCEPT !.names = "other"]

(* What the broker may answer with: a certificate for the CSR, fresh or    *)
(* from its cache, with its chain and full chain.  If it is faulty the     *)
(* certificate is for another key or other names, and the chains, which    *)
(* are fields of their own, may belong to another one.                     *)
BrokerAnswers(p) ==
  LET CertsNow == {c \in [key : Keys, notAfter : (now + 1)..(now + Lifetime),
                          names : {"configured", "other"}] :
                     "broker" \in Faults \/ (Matches(c, key[p]) /\ HasNames(c))}
      Sent(c) == IF "bundle" \in Faults THEN {c, ChainOfAnother(c)} ELSE {c}
  IN  UNION {[cert : {c}, chain : Sent(c), full : Sent(c)] : c \in CertsNow}

Receives(p, a) ==
  /\ got' = [got EXCEPT ![p] = a.cert]
  /\ rest' = [rest EXCEPT ![p] = [chain |-> a.chain, full |-> a.full]]

(* A faulty variant of IssueCertificate: the answer is taken as it is. *)
IssueUnchecked(p) ==
  /\ pc[p] = "issue"
  /\ \E a \in BrokerAnswers(p) : Receives(p, a)
  /\ Continue(p, "write_cert")
  /\ UNCHANGED <<now, lock, cmd, svc, key, idFiles, svcFiles, loaded>>

(* BrokerClient.Issue and the tests of its answer, of which there are none *)
(* for the chains.                                                         *)
IssueCertificate(p) ==
  /\ pc[p] = "issue"
  /\ \/ \E a \in BrokerAnswers(p) :
          /\ Matches(a.cert, key[p])
          /\ HasNames(a.cert)
          /\ Receives(p, a)
          /\ Continue(p, "write_cert")
     \/ /\ "broker" \in Faults
        /\ Finish(p, "failed")
        /\ UNCHANGED <<got, rest>>
  /\ UNCHANGED <<now, lock, cmd, svc, key, idFiles, svcFiles, loaded>>

(* Bundle.WriteToDisk: three parts to three files, one after the other. *)
WriteBundle(p, step, file, part, next) ==
  LET new == [file EXCEPT ![svc[p]] = part]
  IN  /\ pc[p] = step
      /\ \/ Replaces(file, new) /\ Continue(p, next)
         \/ FailsToReplace(file, new) /\ Finish(p, "failed")
      /\ UNCHANGED <<now, lock, cmd, local, idFiles, skey, loaded>>

WriteCert(p) ==
  /\ WriteBundle(p, "write_cert", scert, got[p], "write_chain")
  /\ UNCHANGED <<schain, sfull>>

WriteChain(p) ==
  /\ WriteBundle(p, "write_chain", schain, rest[p].chain, "write_full")
  /\ UNCHANGED <<scert, sfull>>

WriteFullChain(p) ==
  /\ WriteBundle(p, "write_full", sfull, rest[p].full, "reload")
  /\ UNCHANGED <<scert, schain>>

(* runReload: the service loads what is on disk, or the command fails or   *)
(* is killed after its timeout, before or after it had its effect.  Only   *)
(* the shell is killed: if a process it started has its output open,       *)
(* CombinedOutput still waits for that one.                                *)
RunReload(p) ==
  LET new == [loaded EXCEPT ![svc[p]] = scert[svc[p]]]
  IN  /\ pc[p] = "reload"
      /\ \/ loaded' = new /\ NextService(p)
         \/ /\ "reload" \in Faults
            /\ loaded' \in {loaded, new}
            /\ Finish(p, "failed")
            /\ UNCHANGED svc
         \/ /\ "hang" \in Faults
            /\ loaded' \in {loaded, new}
            /\ Continue(p, "hung")
            /\ UNCHANGED svc
      /\ UNCHANGED <<now, lock, cmd, key, got, rest, idFiles, svcFiles>>

(* That process ends or closes its output, if it ever does: CombinedOutput *)
(* returns, in time or not.                                                *)
OutputCloses(p) ==
  /\ pc[p] = "hung"
  /\ \/ loaded[svc[p]] = scert[svc[p]] /\ NextService(p)
     \/ Finish(p, "failed") /\ UNCHANGED svc
  /\ UNCHANGED <<now, lock, cmd, key, got, rest, idFiles, svcFiles, loaded>>

-----------------------------------------------------------------------------
(* Check.  The unit goes on with run if check succeeds.                    *)

CheckIdentity(p) ==
  /\ pc[p] = "check_identity"
  /\ \/ idKey # NoKey /\ idCert # NoCert /\ Continue(p, "check_key")
     \/ (idKey = NoKey \/ idCert = NoCert) /\ Exit(p, "failed")
  /\ UNCHANGED <<now, lock, cmd, local, idFiles, svcFiles, loaded>>

CheckKey(p) ==
  /\ pc[p] = "check_key"
  /\ \/ /\ skey[svc[p]] # NoKey
        /\ key' = [key EXCEPT ![p] = skey[svc[p]]]
        /\ Continue(p, "check_cert")
     \/ /\ skey[svc[p]] = NoKey
        /\ UNCHANGED key
        /\ Exit(p, "failed")
  /\ UNCHANGED <<now, lock, cmd, svc, got, rest, idFiles, svcFiles, loaded>>

CheckCert(p) ==
  LET c == scert[svc[p]]
      fits == c # NoCert => Matches(c, key[p])
  IN  /\ pc[p] = "check_cert"
      /\ \/ ~fits /\ Exit(p, "mismatch") /\ UNCHANGED svc
         \/ /\ fits
            /\ svc[p] < NServices
            /\ svc' = [svc EXCEPT ![p] = @ + 1]
            /\ Continue(p, "check_key")
         \/ /\ fits
            /\ svc[p] = NServices
            /\ svc' = [svc EXCEPT ![p] = 1]
            /\ IF cmd[p] = "unit" THEN Continue(p, "lock") ELSE Exit(p, "ok")
      /\ UNCHANGED <<now, lock, cmd, key, got, rest, idFiles, svcFiles, loaded>>

-----------------------------------------------------------------------------
(* Everyone else.                                                          *)

(* The process dies where it is; its deferred calls do not run. *)
Kill(p) ==
  /\ "kill" \in Faults
  /\ pc[p] # "off"
  /\ Exit(p, "killed")
  /\ UNCHANGED <<now, lock, cmd, local, idFiles, svcFiles, loaded>>

(* An operator removes a lock once the process that left it is gone. *)
RemoveStaleLock ==
  /\ lock
  /\ \A p \in Procs : pc[p] \notin Critical
  /\ lock' = FALSE
  /\ UNCHANGED <<now, cmd, pc, local, outcome, idFiles, svcFiles, loaded>>

(* The Ansible role deploys a token as long as there is no identity        *)
(* certificate.                                                            *)
ProvideToken ==
  /\ idCert = NoCert
  /\ ~lock
  /\ spent
  /\ token' = TRUE
  /\ spent' = FALSE
  /\ UNCHANGED <<now, lock, cmd, pc, local, outcome, idKey, idCert, svcFiles, loaded>>

Tick ==
  /\ now < MaxTime
  /\ now' = now + 1
  /\ UNCHANGED <<lock, cmd, pc, local, outcome, idFiles, svcFiles, loaded>>

Step(p) ==
  \/ AcquireLock(p)
  \/ Release(p)
  \/ IdentityExists(p)
  \/ EnsureIdentityKey(p)
  \/ ReadToken(p)
  \/ EnrollSign(p)
  \/ EnrollWrite(p)
  \/ RemoveToken(p)
  \/ NewBrokerClient(p)
  \/ RenewIdentity(p)
  \/ WriteRenewed(p)
  \/ EnsureServiceKey(p)
  \/ ExistingCertificate(p)
  \/ IssueCertificate(p)
  \/ WriteCert(p)
  \/ WriteChain(p)
  \/ WriteFullChain(p)
  \/ RunReload(p)
  \/ CheckIdentity(p)
  \/ CheckKey(p)
  \/ CheckCert(p)

Next ==
  \/ \E p \in Procs, c \in Commands : Start(p, c)
  \/ \E p \in Procs : Step(p)
  \/ \E p \in Procs : OutputCloses(p)
  \/ \E p \in Procs : Kill(p)
  \/ RemoveStaleLock
  \/ ProvideToken
  \/ Tick

Spec == Init /\ [][Next]_vars

(* A process that runs keeps running: system calls return, the CA and the  *)
(* broker are called with timeouts (step_ca.timeout, broker.timeout) and   *)
(* the shell of the reload command is killed after reload_timeout.  There  *)
(* is no bound on OutputCloses.                                            *)
Fairness == \A p \in Procs : WF_vars(Step(p))

FairSpec == Spec /\ Fairness

(* The timer starts the unit again and again. *)
TimerSpec == FairSpec /\ \A p \in Procs : WF_vars(Start(p, "unit"))

-----------------------------------------------------------------------------
(* Properties.                                                             *)

(* At most one process is between AcquireLock and Release, although the    *)
(* lock is only a file that the dead leave behind, operators remove and    *)
(* Release may fail to remove.                                             *)
MutualExclusion ==
  \A p, q \in Procs : pc[p] \in Critical /\ pc[q] \in Critical => p = q

Fits(c, s) == c # NoCert => c.key = skey[s] /\ c.names = "configured"

(* At every moment each certificate on disk, of the identity and of the    *)
(* services, is for the private key on disk and, for a service, for its    *)
(* names: a service that restarts or a process that crashes in the middle  *)
(* of an enrollment, a renewal or an installation always finds a pair that *)
(* fits.  This needs no faith in the broker, but Run tests its certificate *)
(* only: of chain and full chain it holds as long as the broker sends the  *)
(* ones of that certificate.                                               *)
KeysMatch ==
  /\ idCert # NoCert => idCert.key = idKey
  /\ \A s \in Services :
       /\ Fits(scert[s], s) /\ Fits(loaded[s], s)
       /\ "bundle" \notin Faults => Fits(schain[s], s) /\ Fits(sfull[s], s)

(* Neither run nor check, which reads key and certificate without the lock *)
(* while a run may replace them, ever reports that they do not match.      *)
NoFalseMismatch == \A p \in Procs : outcome[p] # "mismatch"

(* Enroll removes the bootstrap token only when the identity certificate   *)
(* is on disk: no failure or crash leaves the host with neither.           *)
TokenOrIdentity == token \/ idCert # NoCert

(* A run that reports success leaves every service with a key and a        *)
(* certificate, also the services behind one that was skipped.             *)
SuccessServesAll ==
  \A p \in Procs :
    outcome[p] = "ok" /\ cmd[p] \in {"run", "unit"} =>
      \A s \in Services : skey[s] # NoKey /\ scert[s] # NoCert

(* The lock is given back on every path of Enroll and Run, as long as no   *)
(* process is killed, nobody keeps the output of a reload command open and *)
(* the lock file can be removed.                                           *)
LockIsReleased == lock ~> ~lock

(* What schemas/agent.schema.json says of fullchain, "Path where the agent *)
(* writes the full chain (leaf + intermediates, PEM)", and of              *)
(* reload_command, "Shell command executed after the certificate is        *)
(* installed or renewed": when a run reports success, the leaf of every    *)
(* fullchain is the certificate in cert, and every service has been        *)
(* reloaded since.                                                         *)
SuccessCompletesInstall ==
  \A p \in Procs :
    pc[p] = "release" /\ outcome[p] = "ok" /\ cmd[p] = "run" =>
      \A s \in Services : sfull[s] = scert[s] /\ loaded[s] = scert[s]

(* What schemas/agent.schema.json says of key: "Path where the agent       *)
(* writes the service private key (PEM)".  On an enrolled host whose timer *)
(* keeps starting the unit, every service gets its key.                    *)
UnitWritesServiceKey ==
  \A s \in Services : idCert # NoCert ~> skey[s] # NoKey
-----------------------------------------------------------------------------
(* The inductive invariant (AgentProofs), in named parts.                  *)

(* The steps at which run works on service svc[p] with the key it read. *)
KeySteps == {"cert", "issue", "write_cert", "write_chain", "write_full", "reload", "hung"}
InstallSteps == {"write_cert", "write_chain", "write_full"}
InstalledSteps == {"write_chain", "write_full", "reload", "hung"}

LockInv ==
  /\ \A p \in Procs : pc[p] \in Critical => lock
  /\ MutualExclusion

(* What the process that has the lock knows of the identity. *)
IdentityInv ==
  \A p \in Procs :
    /\ pc[p] \in EnrollSteps => cmd[p] = "enroll"
    /\ pc[p] \in EnrollSteps \ {"enroll_remove"} => idCert = NoCert
    /\ pc[p] = "enroll_remove" => idCert # NoCert
    /\ pc[p] \in EnrollSteps \ {"enroll_key"} => key[p] = idKey /\ idKey # NoKey
    /\ pc[p] \in RunSteps => cmd[p] # "enroll" /\ idCert # NoCert
    /\ pc[p] \in {"enroll_write", "renew_write"} =>
         got[p] # NoCert /\ got[p].key = idKey

(* What it knows of the service it handles; check knows the key it read.   *)
ServiceInv ==
  \A p \in Procs :
    /\ pc[p] \in KeySteps \cup {"check_cert"} =>
         key[p] = skey[svc[p]] /\ skey[svc[p]] # NoKey
    /\ pc[p] \in InstallSteps =>
         /\ got[p] # NoCert
         /\ got[p].key = key[p]
         /\ got[p].names = "configured"
         /\ "bundle" \notin Faults => rest[p].chain = got[p] /\ rest[p].full = got[p]
    /\ pc[p] \in InstalledSteps => scert[svc[p]] # NoCert

(* Services before the one a run handles have a key and a certificate. *)
Served(s) == skey[s] # NoKey /\ scert[s] # NoCert

EarlierInv ==
  \A p \in Procs :
    pc[p] \in {"key"} \cup KeySteps => \A s \in 1..(svc[p] - 1) : Served(s)

(* A run begins with the first service, and only a command that has ended  *)
(* has an outcome.                                                         *)
CommandInv ==
  \A p \in Procs :
    /\ pc[p] \in {"lock", "exists", "client", "renew", "renew_write"} => svc[p] = 1
    /\ pc[p] \notin {"off", "release"} => outcome[p] = "none"
    /\ pc[p] \in CheckSteps => cmd[p] \in {"check", "unit"}

FileInv == KeysMatch /\ NoFalseMismatch /\ TokenOrIdentity /\ SuccessServesAll

(* The whole: what makes key and certificate match, and the token safe, is *)
(* that whoever writes holds the lock and that what it read before is      *)
(* still on disk when it writes.                                           *)
IInv ==
  /\ TypeOK
  /\ LockInv
  /\ IdentityInv
  /\ ServiceInv
  /\ EarlierInv
  /\ CommandInv
  /\ FileInv
=============================================================================
