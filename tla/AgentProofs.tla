----------------------------- MODULE AgentProofs -----------------------------
(***************************************************************************)
(* Proofs about Agent, for any number of processes, services and keys, any *)
(* commands and faults, and any lifetime and renewal times.                *)
(***************************************************************************)
EXTENDS Agent, TLAPS

(* One-line helpers of the actions, expanded everywhere. *)
USE DEF Matches, HasNames, Signed, Renewed, Receives, Fits

-----------------------------------------------------------------------------
(* Types.                                                                  *)

(* The control flow helpers keep pc and outcome well typed. *)
PcTypeOK ==
  /\ pc \in [Procs -> {"off", "lock"} \cup Critical \cup CheckSteps]
  /\ outcome \in [Procs -> Outcomes]

LEMMA ContinueType ==
  ASSUME TypeOK, NEW p \in Procs,
         NEW step \in {"lock"} \cup Critical \cup CheckSteps, Continue(p, step)
  PROVE  PcTypeOK'
BY DEF TypeOK, PcTypeOK, Continue, Goto

LEMMA FinishType ==
  ASSUME TypeOK, NEW p \in Procs, NEW how \in Outcomes, Finish(p, how)
  PROVE  PcTypeOK'
BY DEF TypeOK, PcTypeOK, Finish, Goto, Critical

LEMMA ExitType ==
  ASSUME TypeOK, NEW p \in Procs, NEW how \in Outcomes, Exit(p, how)
  PROVE  PcTypeOK'
BY DEF TypeOK, PcTypeOK, Exit, Goto

LEMMA NextServiceType ==
  ASSUME TypeOK, NEW p \in Procs, NextService(p)
  PROVE  PcTypeOK' /\ svc' \in [Procs -> Services]
<1>1. PcTypeOK'
  BY ContinueType, FinishType DEF NextService, Critical, RunSteps, Outcomes
<1>2. svc[p] < NServices => svc[p] + 1 \in Services
  BY AgentAssumption DEF TypeOK, Services
<1>3. svc' \in [Procs -> Services]
  BY <1>2 DEF TypeOK, NextService
<1>4. QED
  BY <1>1, <1>3

(* An answer of the broker has the types of what Receives keeps of it. *)
LEMMA AnswersType ==
  ASSUME TypeOK, NEW p \in Procs
  PROVE  \A a \in BrokerAnswers(p) :
           a.cert \in Certs /\ [chain |-> a.chain, full |-> a.full] \in Chains
<1> DEFINE CertsNow == [key : Keys, notAfter : (now + 1)..(now + Lifetime),
                        names : {"configured", "other"}]
<1>1. \A c \in CertsNow : c \in Certs /\ ChainOfAnother(c) \in Certs
  BY AgentAssumption DEF TypeOK, Certs, ChainOfAnother
<1>2. ASSUME NEW a \in BrokerAnswers(p)
      PROVE  /\ a.cert \in CertsNow
             /\ a.chain \in {a.cert, ChainOfAnother(a.cert)}
             /\ a.full \in {a.cert, ChainOfAnother(a.cert)}
  BY <1>2 DEF BrokerAnswers
<1>3. QED
  BY <1>1, <1>2 DEF Chains

(* Types are preserved by every step. *)
LEMMA TypeStep ==
  ASSUME IInv, [Next]_vars
  PROVE  TypeOK'
<1> USE AgentAssumption DEF local, idFiles, certFiles, svcFiles
<1>0. TypeOK /\ IdentityInv /\ ServiceInv
  BY DEF IInv
<1>1. ASSUME NEW p \in Procs, NEW c \in Commands, Start(p, c) PROVE TypeOK'
  BY <1>0, <1>1
     DEF Start, Goto, TypeOK, Chains, NoChains, Services, Outcomes, Critical,
         EnrollSteps, RunSteps, CheckSteps
<1>2. ASSUME NEW p \in Procs, AcquireLock(p) PROVE TypeOK'
  <2>1. PcTypeOK'
    BY <1>0, <1>2, ContinueType, ExitType DEF AcquireLock, Outcomes, Critical
  <2>2. lock' \in BOOLEAN
    BY <1>0, <1>2 DEF AcquireLock, TypeOK
  <2>3. QED
    BY <1>0, <1>2, <2>1, <2>2 DEF AcquireLock, TypeOK, PcTypeOK
<1>3. ASSUME NEW p \in Procs, Release(p) PROVE TypeOK'
  BY <1>0, <1>3
     DEF Release, Goto, TypeOK, Services, Outcomes, Critical, EnrollSteps,
         RunSteps, CheckSteps
<1>4. ASSUME NEW p \in Procs, IdentityExists(p) PROVE TypeOK'
  <2>1. PcTypeOK'
    BY <1>0, <1>4, ContinueType, FinishType
       DEF IdentityExists, Outcomes, Critical, EnrollSteps, RunSteps
  <2>2. QED
    BY <1>0, <1>4, <2>1 DEF IdentityExists, TypeOK, PcTypeOK
<1>5. ASSUME NEW p \in Procs, EnsureIdentityKey(p) PROVE TypeOK'
  <2>1. PcTypeOK'
    BY <1>0, <1>5, ContinueType, FinishType
       DEF EnsureIdentityKey, Outcomes, Critical, EnrollSteps, RunSteps,
           CheckSteps
  <2>2. idKey' \in Keys \cup {NoKey} /\ key' \in [Procs -> Keys \cup {NoKey}]
    BY <1>0, <1>5
       DEF EnsureIdentityKey, TypeOK, FreshKeys, Replaces, FailsToReplace
  <2>3. QED
    BY <1>0, <1>5, <2>1, <2>2 DEF EnsureIdentityKey, TypeOK, PcTypeOK
<1>6. ASSUME NEW p \in Procs, ReadToken(p) PROVE TypeOK'
  BY <1>0, <1>6
     DEF ReadToken, Continue, Finish, Goto, TypeOK, Services, Outcomes,
         Critical, EnrollSteps, RunSteps, CheckSteps
<1>7. ASSUME NEW p \in Procs, EnrollSign(p) PROVE TypeOK'
  <2>1. PcTypeOK'
    BY <1>0, <1>7, ContinueType, FinishType
       DEF EnrollSign, Outcomes, Critical, EnrollSteps, RunSteps, CheckSteps
  <2>2. [key |-> key[p], notAfter |-> now + Lifetime, names |-> "configured"] \in Certs
    BY <1>0, <1>7, AgentAssumption
       DEF EnrollSign, IdentityInv, EnrollSteps, TypeOK, Certs
  <2>3. got' \in [Procs -> Certs \cup {NoCert}] /\ spent' \in BOOLEAN
    <3>1. got \in [Procs -> Certs \cup {NoCert}] /\ spent \in BOOLEAN
      BY <1>0 DEF TypeOK
    <3>2. QED
      BY <1>7, <2>2, <3>1 DEF EnrollSign
  <2>4. QED
    BY <1>0, <1>7, <2>1, <2>2, <2>3 DEF EnrollSign, TypeOK, PcTypeOK
<1>8. ASSUME NEW p \in Procs, EnrollWrite(p) PROVE TypeOK'
  <2>1. PcTypeOK'
    BY <1>0, <1>8, ContinueType, FinishType
       DEF EnrollWrite, Outcomes, Critical, EnrollSteps, RunSteps, CheckSteps
  <2>2. idCert' \in Certs \cup {NoCert}
    BY <1>0, <1>8 DEF EnrollWrite, TypeOK, Replaces, FailsToReplace
  <2>3. QED
    BY <1>0, <1>8, <2>1, <2>2 DEF EnrollWrite, TypeOK, PcTypeOK
<1>9. ASSUME NEW p \in Procs, RemoveToken(p) PROVE TypeOK'
  BY <1>0, <1>9
     DEF RemoveToken, Finish, Goto, TypeOK, Services, Outcomes, Critical,
         EnrollSteps, RunSteps, CheckSteps
<1>10. ASSUME NEW p \in Procs, NewBrokerClient(p) PROVE TypeOK'
  <2>1. PcTypeOK'
    BY <1>0, <1>10, ContinueType, FinishType
       DEF NewBrokerClient, Outcomes, Critical, EnrollSteps, RunSteps
  <2>2. QED
    BY <1>0, <1>10, <2>1 DEF NewBrokerClient, TypeOK, PcTypeOK
<1>11. ASSUME NEW p \in Procs, RenewIdentity(p) PROVE TypeOK'
  <2>1. PcTypeOK'
    BY <1>0, <1>11, ContinueType, FinishType
       DEF RenewIdentity, Outcomes, Critical, EnrollSteps, RunSteps, CheckSteps
  <2>2. [idCert EXCEPT !.notAfter = now + Lifetime] \in Certs
    BY <1>0, <1>11, AgentAssumption
       DEF RenewIdentity, IdentityInv, RunSteps, TypeOK, Certs
  <2>3. got' \in [Procs -> Certs \cup {NoCert}]
    BY <1>0, <1>11, <2>2 DEF RenewIdentity, TypeOK
  <2>4. QED
    BY <1>0, <1>11, <2>1, <2>2, <2>3 DEF RenewIdentity, TypeOK, PcTypeOK
<1>12. ASSUME NEW p \in Procs, WriteRenewed(p) PROVE TypeOK'
  <2>1. PcTypeOK'
    BY <1>0, <1>12, ContinueType, FinishType
       DEF WriteRenewed, Outcomes, Critical, EnrollSteps, RunSteps, CheckSteps
  <2>2. idCert' \in Certs \cup {NoCert}
    BY <1>0, <1>12 DEF WriteRenewed, TypeOK, Replaces, FailsToReplace
  <2>3. QED
    BY <1>0, <1>12, <2>1, <2>2 DEF WriteRenewed, TypeOK, PcTypeOK
<1>13. ASSUME NEW p \in Procs, EnsureServiceKey(p) PROVE TypeOK'
  <2>1. PcTypeOK'
    BY <1>0, <1>13, ContinueType, FinishType
       DEF EnsureServiceKey, Outcomes, Critical, EnrollSteps, RunSteps,
           CheckSteps
  <2>2. key' \in [Procs -> Keys \cup {NoKey}]
    BY <1>0, <1>13
       DEF EnsureServiceKey, TypeOK, FreshKeys, Replaces, FailsToReplace
  <2>3. skey' \in [Services -> Keys \cup {NoKey}]
    BY <1>0, <1>13
       DEF EnsureServiceKey, TypeOK, FreshKeys, Replaces, FailsToReplace
  <2>4. QED
    BY <1>0, <1>13, <2>1, <2>2, <2>3 DEF EnsureServiceKey, TypeOK, PcTypeOK
<1>14. ASSUME NEW p \in Procs, ExistingCertificate(p) PROVE TypeOK'
  <2>1. PcTypeOK'
    BY <1>0, <1>14, ContinueType, FinishType, NextServiceType
       DEF ExistingCertificate, Outcomes, Critical, EnrollSteps, RunSteps,
           CheckSteps
  <2>2. svc' \in [Procs -> Services]
    BY <1>0, <1>14, NextServiceType DEF ExistingCertificate, TypeOK
  <2>3. QED
    BY <1>0, <1>14, <2>1, <2>2 DEF ExistingCertificate, TypeOK, PcTypeOK
<1>15. ASSUME NEW p \in Procs, IssueCertificate(p) PROVE TypeOK'
  <2>1. PcTypeOK'
    BY <1>0, <1>15, ContinueType, FinishType
       DEF IssueCertificate, Outcomes, Critical, EnrollSteps, RunSteps,
           CheckSteps
  <2>2. \A a \in BrokerAnswers(p) :
          a.cert \in Certs /\ [chain |-> a.chain, full |-> a.full] \in Chains
    BY <1>0, AnswersType
  <2>3. got' \in [Procs -> Certs \cup {NoCert}] /\ rest' \in [Procs -> Chains]
    BY <1>0, <1>15, <2>2 DEF IssueCertificate, TypeOK
  <2>4. QED
    BY <1>0, <1>15, <2>1, <2>2, <2>3 DEF IssueCertificate, TypeOK, PcTypeOK
<1>16. ASSUME NEW p \in Procs, WriteCert(p) PROVE TypeOK'
  <2>1. PcTypeOK'
    BY <1>0, <1>16, ContinueType, FinishType
       DEF WriteCert, WriteBundle, Outcomes, Critical, EnrollSteps, RunSteps,
           CheckSteps
  <2>2. scert' \in [Services -> Certs \cup {NoCert}]
    BY <1>0, <1>16 DEF WriteCert, WriteBundle, TypeOK, Replaces, FailsToReplace
  <2>3. QED
    BY <1>0, <1>16, <2>1, <2>2 DEF WriteCert, WriteBundle, TypeOK, PcTypeOK
<1>17. ASSUME NEW p \in Procs, WriteChain(p) PROVE TypeOK'
  <2>1. PcTypeOK'
    BY <1>0, <1>17, ContinueType, FinishType
       DEF WriteChain, WriteBundle, Outcomes, Critical, EnrollSteps, RunSteps,
           CheckSteps
  <2>2. schain' \in [Services -> Certs \cup {NoCert}]
    BY <1>0, <1>17
       DEF WriteChain, WriteBundle, TypeOK, Chains, Replaces, FailsToReplace
  <2>3. QED
    BY <1>0, <1>17, <2>1, <2>2 DEF WriteChain, WriteBundle, TypeOK, PcTypeOK
<1>18. ASSUME NEW p \in Procs, WriteFullChain(p) PROVE TypeOK'
  <2>1. PcTypeOK'
    BY <1>0, <1>18, ContinueType, FinishType
       DEF WriteFullChain, WriteBundle, Outcomes, Critical, EnrollSteps,
           RunSteps, CheckSteps
  <2>2. sfull' \in [Services -> Certs \cup {NoCert}]
    BY <1>0, <1>18
       DEF WriteFullChain, WriteBundle, TypeOK, Chains, Replaces, FailsToReplace
  <2>3. QED
    BY <1>0, <1>18, <2>1, <2>2 DEF WriteFullChain, WriteBundle, TypeOK, PcTypeOK
<1>19. ASSUME NEW p \in Procs, RunReload(p) \/ OutputCloses(p) PROVE TypeOK'
  <2>1. PcTypeOK'
    BY <1>0, <1>19, ContinueType, FinishType, NextServiceType
       DEF RunReload, OutputCloses, Outcomes, Critical, EnrollSteps, RunSteps, CheckSteps
  <2>2. svc' \in [Procs -> Services]
    BY <1>0, <1>19, NextServiceType DEF RunReload, OutputCloses, TypeOK
  <2>3. loaded' \in [Services -> Certs \cup {NoCert}]
    BY <1>0, <1>19 DEF RunReload, OutputCloses, TypeOK
  <2>4. QED
    BY <1>0, <1>19, <2>1, <2>2, <2>3 DEF RunReload, OutputCloses, TypeOK, PcTypeOK
<1>20. ASSUME NEW p \in Procs, CheckIdentity(p) PROVE TypeOK'
  BY <1>0, <1>20
     DEF CheckIdentity, Continue, Exit, Goto, TypeOK, Services, Outcomes,
         Critical, EnrollSteps, RunSteps, CheckSteps
<1>21. ASSUME NEW p \in Procs, CheckKey(p) PROVE TypeOK'
  <2>1. PcTypeOK'
    BY <1>0, <1>21, ContinueType, ExitType
       DEF CheckKey, Outcomes, Critical, EnrollSteps, RunSteps, CheckSteps
  <2>2. key' \in [Procs -> Keys \cup {NoKey}]
    BY <1>0, <1>21 DEF CheckKey, TypeOK
  <2>3. QED
    BY <1>0, <1>21, <2>1, <2>2 DEF CheckKey, TypeOK, PcTypeOK
<1>22. ASSUME NEW p \in Procs, CheckCert(p) PROVE TypeOK'
  <2>1. PcTypeOK'
    BY <1>0, <1>22, ContinueType, ExitType
       DEF CheckCert, Outcomes, Critical, EnrollSteps, RunSteps, CheckSteps
  <2>2. 1 \in Services /\ (svc[p] < NServices => svc[p] + 1 \in Services)
    BY <1>0, <1>22, AgentAssumption DEF TypeOK, Services
  <2>3. svc' \in [Procs -> Services]
    BY <1>0, <1>22, <2>2 DEF CheckCert, TypeOK
  <2>4. QED
    BY <1>0, <1>22, <2>1, <2>2, <2>3 DEF CheckCert, TypeOK, PcTypeOK
<1>23. ASSUME NEW p \in Procs, Kill(p) PROVE TypeOK'
  BY <1>0, <1>23
     DEF Kill, Exit, Goto, TypeOK, Services, Outcomes, Critical, EnrollSteps,
         RunSteps, CheckSteps
<1>24. CASE RemoveStaleLock
  BY <1>0, <1>24
     DEF RemoveStaleLock, TypeOK, Services, Outcomes, Critical, EnrollSteps,
         RunSteps, CheckSteps
<1>25. CASE ProvideToken
  BY <1>0, <1>25
     DEF ProvideToken, TypeOK, Services, Outcomes, Critical, EnrollSteps,
         RunSteps, CheckSteps
<1>26. CASE Tick
  BY <1>0, <1>26
     DEF Tick, TypeOK, Services, Outcomes, Critical, EnrollSteps, RunSteps,
         CheckSteps
<1>27. CASE UNCHANGED vars
  BY <1>0, <1>27
     DEF vars, TypeOK, Services, Outcomes, Critical, EnrollSteps, RunSteps,
         CheckSteps
<1>28. QED
  BY <1>1, <1>2, <1>3, <1>4, <1>5, <1>6, <1>7, <1>8, <1>9, <1>10, <1>11,
     <1>12, <1>13, <1>14, <1>15, <1>16, <1>17, <1>18, <1>19, <1>20, <1>21,
     <1>22, <1>23, <1>24, <1>25, <1>26, <1>27 DEF Next, Step

-----------------------------------------------------------------------------
(* The parts of the inductive invariant, one after the other.              *)

(* Whoever is between AcquireLock and Release has the lock file to itself. *)
LEMMA LockStep ==
  ASSUME IInv, [Next]_vars
  PROVE  LockInv'
<1> USE AgentAssumption DEF local, idFiles, certFiles, svcFiles, Critical,
   EnrollSteps, RunSteps, CheckSteps
<1>0. TypeOK /\ LockInv
  BY DEF IInv
<1>1. ASSUME NEW p \in Procs, NEW c \in Commands, Start(p, c) PROVE LockInv'
  BY <1>0, <1>1 DEF Start, Goto, TypeOK, LockInv, MutualExclusion
<1>2. ASSUME NEW p \in Procs, AcquireLock(p) PROVE LockInv'
  BY <1>0, <1>2
     DEF AcquireLock, Continue, Exit, Goto, TypeOK, LockInv, MutualExclusion
<1>3. ASSUME NEW p \in Procs, Release(p) PROVE LockInv'
  BY <1>0, <1>3 DEF Release, Goto, TypeOK, LockInv, MutualExclusion
<1>4. ASSUME NEW p \in Procs, IdentityExists(p) PROVE LockInv'
  BY <1>0, <1>4
     DEF IdentityExists, Continue, Finish, Goto, TypeOK, LockInv,
         MutualExclusion
<1>5. ASSUME NEW p \in Procs, EnsureIdentityKey(p) PROVE LockInv'
  BY <1>0, <1>5
     DEF EnsureIdentityKey, Continue, Finish, Goto, Replaces, FailsToReplace,
         FreshKeys, TypeOK, LockInv, MutualExclusion
<1>6. ASSUME NEW p \in Procs, ReadToken(p) PROVE LockInv'
  BY <1>0, <1>6
     DEF ReadToken, Continue, Finish, Goto, TypeOK, LockInv, MutualExclusion
<1>7. ASSUME NEW p \in Procs, EnrollSign(p) PROVE LockInv'
  BY <1>0, <1>7
     DEF EnrollSign, Continue, Finish, Goto, TypeOK, LockInv, MutualExclusion
<1>8. ASSUME NEW p \in Procs, EnrollWrite(p) PROVE LockInv'
  BY <1>0, <1>8
     DEF EnrollWrite, Continue, Finish, Goto, Replaces, FailsToReplace,
         TypeOK, LockInv, MutualExclusion
<1>9. ASSUME NEW p \in Procs, RemoveToken(p) PROVE LockInv'
  BY <1>0, <1>9 DEF RemoveToken, Finish, Goto, TypeOK, LockInv, MutualExclusion
<1>10. ASSUME NEW p \in Procs, NewBrokerClient(p) PROVE LockInv'
  BY <1>0, <1>10
     DEF NewBrokerClient, Continue, Finish, Goto, TypeOK, LockInv,
         MutualExclusion
<1>11. ASSUME NEW p \in Procs, RenewIdentity(p) PROVE LockInv'
  BY <1>0, <1>11
     DEF RenewIdentity, Continue, Finish, Goto, IsExpired, ExpiresWithin,
         TypeOK, LockInv, MutualExclusion
<1>12. ASSUME NEW p \in Procs, WriteRenewed(p) PROVE LockInv'
  BY <1>0, <1>12
     DEF WriteRenewed, Continue, Finish, Goto, Replaces, FailsToReplace,
         TypeOK, LockInv, MutualExclusion
<1>13. ASSUME NEW p \in Procs, EnsureServiceKey(p) PROVE LockInv'
  BY <1>0, <1>13
     DEF EnsureServiceKey, Continue, Finish, Goto, Replaces, FailsToReplace,
         FreshKeys, TypeOK, LockInv, MutualExclusion
<1>14. ASSUME NEW p \in Procs, ExistingCertificate(p) PROVE LockInv'
  BY <1>0, <1>14
     DEF ExistingCertificate, NextService, Continue, Finish, Goto, TypeOK,
         LockInv, MutualExclusion
<1>15. ASSUME NEW p \in Procs, IssueCertificate(p) PROVE LockInv'
  BY <1>0, <1>15
     DEF IssueCertificate, Continue, Finish, Goto, TypeOK,
         LockInv, MutualExclusion
<1>16. ASSUME NEW p \in Procs, WriteCert(p) PROVE LockInv'
  BY <1>0, <1>16
     DEF WriteCert, WriteBundle, Replaces, FailsToReplace, Continue, Finish,
         Goto, TypeOK, LockInv, MutualExclusion
<1>17. ASSUME NEW p \in Procs, WriteChain(p) PROVE LockInv'
  BY <1>0, <1>17
     DEF WriteChain, WriteBundle, Replaces, FailsToReplace, Continue, Finish,
         Goto, TypeOK, LockInv, MutualExclusion
<1>18. ASSUME NEW p \in Procs, WriteFullChain(p) PROVE LockInv'
  BY <1>0, <1>18
     DEF WriteFullChain, WriteBundle, Replaces, FailsToReplace, Continue,
         Finish, Goto, TypeOK, LockInv, MutualExclusion
<1>19. ASSUME NEW p \in Procs, RunReload(p) \/ OutputCloses(p) PROVE LockInv'
  BY <1>0, <1>19
     DEF RunReload, OutputCloses, NextService, Continue, Finish, Goto, TypeOK, LockInv,
         MutualExclusion
<1>20. ASSUME NEW p \in Procs, CheckIdentity(p) PROVE LockInv'
  BY <1>0, <1>20
     DEF CheckIdentity, Continue, Exit, Goto, TypeOK, LockInv, MutualExclusion
<1>21. ASSUME NEW p \in Procs, CheckKey(p) PROVE LockInv'
  BY <1>0, <1>21
     DEF CheckKey, Continue, Exit, Goto, TypeOK, LockInv, MutualExclusion
<1>22. ASSUME NEW p \in Procs, CheckCert(p) PROVE LockInv'
  BY <1>0, <1>22
     DEF CheckCert, Continue, Exit, Goto, TypeOK, LockInv, MutualExclusion
<1>23. ASSUME NEW p \in Procs, Kill(p) PROVE LockInv'
  BY <1>0, <1>23 DEF Kill, Exit, Goto, TypeOK, LockInv, MutualExclusion
<1>24. CASE RemoveStaleLock
  BY <1>0, <1>24 DEF RemoveStaleLock, TypeOK, LockInv, MutualExclusion
<1>25. CASE ProvideToken
  BY <1>0, <1>25 DEF ProvideToken, TypeOK, LockInv, MutualExclusion
<1>26. CASE Tick
  BY <1>0, <1>26 DEF Tick, TypeOK, LockInv, MutualExclusion
<1>27. CASE UNCHANGED vars
  BY <1>0, <1>27 DEF vars, TypeOK, LockInv, MutualExclusion
<1>28. QED
  BY <1>1, <1>2, <1>3, <1>4, <1>5, <1>6, <1>7, <1>8, <1>9, <1>10, <1>11,
     <1>12, <1>13, <1>14, <1>15, <1>16, <1>17, <1>18, <1>19, <1>20, <1>21,
     <1>22, <1>23, <1>24, <1>25, <1>26, <1>27 DEF Next, Step

(* What a process read of the identity is still on disk when it uses it. *)
LEMMA IdentityStep ==
  ASSUME IInv, [Next]_vars
  PROVE  IdentityInv'
<1> USE AgentAssumption DEF local, idFiles, certFiles, svcFiles, Critical,
   EnrollSteps, RunSteps, CheckSteps
<1>0. TypeOK /\ LockInv /\ IdentityInv /\ FileInv
  BY DEF IInv
<1>1. ASSUME NEW p \in Procs, NEW c \in Commands, Start(p, c) PROVE IdentityInv'
  BY <1>0, <1>1
     DEF Start, Goto, TypeOK, LockInv, MutualExclusion, IdentityInv, FileInv,
         KeysMatch
<1>2. ASSUME NEW p \in Procs, AcquireLock(p) PROVE IdentityInv'
  BY <1>0, <1>2
     DEF AcquireLock, Continue, Exit, Goto, TypeOK, LockInv, MutualExclusion,
         IdentityInv, FileInv, KeysMatch
<1>3. ASSUME NEW p \in Procs, Release(p) PROVE IdentityInv'
  BY <1>0, <1>3
     DEF Release, Goto, TypeOK, LockInv, MutualExclusion, IdentityInv,
         FileInv, KeysMatch
<1>4. ASSUME NEW p \in Procs, IdentityExists(p) PROVE IdentityInv'
  BY <1>0, <1>4
     DEF IdentityExists, Continue, Finish, Goto, TypeOK, LockInv,
         MutualExclusion, IdentityInv, FileInv, KeysMatch
<1>5. ASSUME NEW p \in Procs, EnsureIdentityKey(p) PROVE IdentityInv'
  BY <1>0, <1>5
     DEF EnsureIdentityKey, Continue, Finish, Goto, Replaces, FailsToReplace,
         FreshKeys, TypeOK, LockInv, MutualExclusion, IdentityInv, FileInv,
         KeysMatch
<1>6. ASSUME NEW p \in Procs, ReadToken(p) PROVE IdentityInv'
  BY <1>0, <1>6
     DEF ReadToken, Continue, Finish, Goto, TypeOK, LockInv, MutualExclusion,
         IdentityInv, FileInv, KeysMatch
<1>7. ASSUME NEW p \in Procs, EnrollSign(p) PROVE IdentityInv'
  <2> DEFINE new == [key |-> key[p], notAfter |-> now + Lifetime,
                     names |-> "configured"]
  <2>1. new # NoCert /\ new.key = idKey
    BY <1>0, <1>7, AgentAssumption
       DEF EnrollSign, IdentityInv, EnrollSteps, TypeOK, Certs
  <2> HIDE DEF new
  <2>2. /\ pc[p] = "enroll_sign"
        /\ \/ got' = [got EXCEPT ![p] = new] /\ pc' = [pc EXCEPT ![p] = "enroll_write"]
           \/ UNCHANGED got /\ pc' = [pc EXCEPT ![p] = "release"]
        /\ UNCHANGED <<cmd, key, idKey, idCert>>
    BY <1>7 DEF EnrollSign, Continue, Finish, Goto, new
  <2>3. QED
    BY <1>0, <2>1, <2>2
       DEF TypeOK, LockInv, MutualExclusion, IdentityInv, Critical,
           EnrollSteps, RunSteps, CheckSteps
<1>8. ASSUME NEW p \in Procs, EnrollWrite(p) PROVE IdentityInv'
  BY <1>0, <1>8
     DEF EnrollWrite, Continue, Finish, Goto, Replaces, FailsToReplace,
         TypeOK, LockInv, MutualExclusion, IdentityInv, FileInv, KeysMatch
<1>9. ASSUME NEW p \in Procs, RemoveToken(p) PROVE IdentityInv'
  BY <1>0, <1>9
     DEF RemoveToken, Finish, Goto, TypeOK, LockInv, MutualExclusion,
         IdentityInv, FileInv, KeysMatch
<1>10. ASSUME NEW p \in Procs, NewBrokerClient(p) PROVE IdentityInv'
  BY <1>0, <1>10
     DEF NewBrokerClient, Continue, Finish, Goto, TypeOK, LockInv,
         MutualExclusion, IdentityInv, FileInv, KeysMatch
<1>11. ASSUME NEW p \in Procs, RenewIdentity(p) PROVE IdentityInv'
  <2> DEFINE new == [idCert EXCEPT !.notAfter = now + Lifetime]
  <2>1. new # NoCert /\ new.key = idKey
    BY <1>0, <1>11, AgentAssumption
       DEF RenewIdentity, IdentityInv, RunSteps, FileInv, KeysMatch, TypeOK,
          Certs
  <2> HIDE DEF new
  <2>2. /\ pc[p] = "renew"
        /\ \/ got' = [got EXCEPT ![p] = new] /\ pc' = [pc EXCEPT ![p] = "renew_write"]
           \/ UNCHANGED got /\ pc' = [pc EXCEPT ![p] = "release"]
           \/ UNCHANGED got /\ pc' = [pc EXCEPT ![p] = "key"]
        /\ UNCHANGED <<cmd, key, idKey, idCert>>
    BY <1>11 DEF RenewIdentity, Continue, Finish, Goto, new
  <2>3. QED
    BY <1>0, <2>1, <2>2
       DEF TypeOK, LockInv, MutualExclusion, IdentityInv, Critical,
           EnrollSteps, RunSteps, CheckSteps
<1>12. ASSUME NEW p \in Procs, WriteRenewed(p) PROVE IdentityInv'
  BY <1>0, <1>12
     DEF WriteRenewed, Continue, Finish, Goto, Replaces, FailsToReplace,
         TypeOK, LockInv, MutualExclusion, IdentityInv, FileInv, KeysMatch
<1>13. ASSUME NEW p \in Procs, EnsureServiceKey(p) PROVE IdentityInv'
  BY <1>0, <1>13
     DEF EnsureServiceKey, Continue, Finish, Goto, Replaces, FailsToReplace,
         FreshKeys, TypeOK, LockInv, MutualExclusion, IdentityInv, FileInv,
         KeysMatch
<1>14. ASSUME NEW p \in Procs, ExistingCertificate(p) PROVE IdentityInv'
  BY <1>0, <1>14
     DEF ExistingCertificate, NextService, Continue, Finish, Goto, TypeOK,
         LockInv, MutualExclusion, IdentityInv, FileInv, KeysMatch
<1>15. ASSUME NEW p \in Procs, IssueCertificate(p) PROVE IdentityInv'
  BY <1>0, <1>15
     DEF IssueCertificate, Continue, Finish, Goto, TypeOK,
         LockInv, MutualExclusion, IdentityInv, FileInv, KeysMatch
<1>16. ASSUME NEW p \in Procs, WriteCert(p) PROVE IdentityInv'
  BY <1>0, <1>16
     DEF WriteCert, WriteBundle, Replaces, FailsToReplace, Continue, Finish,
         Goto, TypeOK, LockInv, MutualExclusion, IdentityInv, FileInv, KeysMatch
<1>17. ASSUME NEW p \in Procs, WriteChain(p) PROVE IdentityInv'
  BY <1>0, <1>17
     DEF WriteChain, WriteBundle, Replaces, FailsToReplace, Continue, Finish,
         Goto, TypeOK, LockInv, MutualExclusion, IdentityInv, FileInv, KeysMatch
<1>18. ASSUME NEW p \in Procs, WriteFullChain(p) PROVE IdentityInv'
  BY <1>0, <1>18
     DEF WriteFullChain, WriteBundle, Replaces, FailsToReplace, Continue,
         Finish, Goto, TypeOK, LockInv, MutualExclusion, IdentityInv, FileInv,
         KeysMatch
<1>19. ASSUME NEW p \in Procs, RunReload(p) \/ OutputCloses(p) PROVE IdentityInv'
  BY <1>0, <1>19
     DEF RunReload, OutputCloses, NextService, Continue, Finish, Goto, TypeOK, LockInv,
         MutualExclusion, IdentityInv, FileInv, KeysMatch
<1>20. ASSUME NEW p \in Procs, CheckIdentity(p) PROVE IdentityInv'
  BY <1>0, <1>20
     DEF CheckIdentity, Continue, Exit, Goto, TypeOK, LockInv,
         MutualExclusion, IdentityInv, FileInv, KeysMatch
<1>21. ASSUME NEW p \in Procs, CheckKey(p) PROVE IdentityInv'
  BY <1>0, <1>21
     DEF CheckKey, Continue, Exit, Goto, TypeOK, LockInv, MutualExclusion,
         IdentityInv, FileInv, KeysMatch
<1>22. ASSUME NEW p \in Procs, CheckCert(p) PROVE IdentityInv'
  BY <1>0, <1>22
     DEF CheckCert, Continue, Exit, Goto, TypeOK, LockInv, MutualExclusion,
         IdentityInv, FileInv, KeysMatch
<1>23. ASSUME NEW p \in Procs, Kill(p) PROVE IdentityInv'
  BY <1>0, <1>23
     DEF Kill, Exit, Goto, TypeOK, LockInv, MutualExclusion, IdentityInv,
         FileInv, KeysMatch
<1>24. CASE RemoveStaleLock
  BY <1>0, <1>24
     DEF RemoveStaleLock, TypeOK, LockInv, MutualExclusion, IdentityInv,
         FileInv, KeysMatch
<1>25. CASE ProvideToken
  BY <1>0, <1>25
     DEF ProvideToken, TypeOK, LockInv, MutualExclusion, IdentityInv, FileInv,
         KeysMatch
<1>26. CASE Tick
  BY <1>0, <1>26
     DEF Tick, TypeOK, LockInv, MutualExclusion, IdentityInv, FileInv, KeysMatch
<1>27. CASE UNCHANGED vars
  BY <1>0, <1>27
     DEF vars, TypeOK, LockInv, MutualExclusion, IdentityInv, FileInv, KeysMatch
<1>28. QED
  BY <1>1, <1>2, <1>3, <1>4, <1>5, <1>6, <1>7, <1>8, <1>9, <1>10, <1>11,
     <1>12, <1>13, <1>14, <1>15, <1>16, <1>17, <1>18, <1>19, <1>20, <1>21,
     <1>22, <1>23, <1>24, <1>25, <1>26, <1>27 DEF Next, Step

(* So is what it read of the service it handles; the check, which has no   *)
(* lock, relies on service keys never being replaced.                      *)
LEMMA ServiceStep ==
  ASSUME IInv, [Next]_vars
  PROVE  ServiceInv'
<1> USE AgentAssumption DEF local, idFiles, certFiles, svcFiles, Services,
   KeySteps, InstallSteps, InstalledSteps, Critical, EnrollSteps, RunSteps,
   CheckSteps
<1>0. TypeOK /\ LockInv /\ ServiceInv
  BY DEF IInv
<1>1. ASSUME NEW p \in Procs, NEW c \in Commands, Start(p, c) PROVE ServiceInv'
  BY <1>0, <1>1 DEF Start, Goto, TypeOK, LockInv, MutualExclusion, ServiceInv
<1>2. ASSUME NEW p \in Procs, AcquireLock(p) PROVE ServiceInv'
  BY <1>0, <1>2
     DEF AcquireLock, Continue, Exit, Goto, TypeOK, LockInv, MutualExclusion,
         ServiceInv
<1>3. ASSUME NEW p \in Procs, Release(p) PROVE ServiceInv'
  BY <1>0, <1>3 DEF Release, Goto, TypeOK, LockInv, MutualExclusion, ServiceInv
<1>4. ASSUME NEW p \in Procs, IdentityExists(p) PROVE ServiceInv'
  BY <1>0, <1>4
     DEF IdentityExists, Continue, Finish, Goto, TypeOK, LockInv,
         MutualExclusion, ServiceInv
<1>5. ASSUME NEW p \in Procs, EnsureIdentityKey(p) PROVE ServiceInv'
  BY <1>0, <1>5
     DEF EnsureIdentityKey, Continue, Finish, Goto, Replaces, FailsToReplace,
         FreshKeys, TypeOK, LockInv, MutualExclusion, ServiceInv
<1>6. ASSUME NEW p \in Procs, ReadToken(p) PROVE ServiceInv'
  BY <1>0, <1>6
     DEF ReadToken, Continue, Finish, Goto, TypeOK, LockInv, MutualExclusion,
         ServiceInv
<1>7. ASSUME NEW p \in Procs, EnrollSign(p) PROVE ServiceInv'
  BY <1>0, <1>7
     DEF EnrollSign, Continue, Finish, Goto, TypeOK, LockInv, MutualExclusion,
         ServiceInv
<1>8. ASSUME NEW p \in Procs, EnrollWrite(p) PROVE ServiceInv'
  BY <1>0, <1>8
     DEF EnrollWrite, Continue, Finish, Goto, Replaces, FailsToReplace,
         TypeOK, LockInv, MutualExclusion, ServiceInv
<1>9. ASSUME NEW p \in Procs, RemoveToken(p) PROVE ServiceInv'
  BY <1>0, <1>9
     DEF RemoveToken, Finish, Goto, TypeOK, LockInv, MutualExclusion, ServiceInv
<1>10. ASSUME NEW p \in Procs, NewBrokerClient(p) PROVE ServiceInv'
  BY <1>0, <1>10
     DEF NewBrokerClient, Continue, Finish, Goto, TypeOK, LockInv,
         MutualExclusion, ServiceInv
<1>11. ASSUME NEW p \in Procs, RenewIdentity(p) PROVE ServiceInv'
  BY <1>0, <1>11
     DEF RenewIdentity, Continue, Finish, Goto, IsExpired, ExpiresWithin,
         TypeOK, LockInv, MutualExclusion, ServiceInv
<1>12. ASSUME NEW p \in Procs, WriteRenewed(p) PROVE ServiceInv'
  BY <1>0, <1>12
     DEF WriteRenewed, Continue, Finish, Goto, Replaces, FailsToReplace,
         TypeOK, LockInv, MutualExclusion, ServiceInv
<1>13. ASSUME NEW p \in Procs, EnsureServiceKey(p) PROVE ServiceInv'
  BY <1>0, <1>13
     DEF EnsureServiceKey, Continue, Finish, Goto, Replaces, FailsToReplace,
         FreshKeys, TypeOK, LockInv, MutualExclusion, ServiceInv
<1>14. ASSUME NEW p \in Procs, ExistingCertificate(p) PROVE ServiceInv'
  BY <1>0, <1>14
     DEF ExistingCertificate, NextService, Continue, Finish, Goto, TypeOK,
         LockInv, MutualExclusion, ServiceInv
<1>15. ASSUME NEW p \in Procs, IssueCertificate(p) PROVE ServiceInv'
  <2>1. /\ pc[p] = "issue"
        /\ \/ \E c \in Certs, r \in Chains :
                /\ c.key = key[p] /\ c.names = "configured"
                /\ "bundle" \notin Faults => r.chain = c /\ r.full = c
                /\ got' = [got EXCEPT ![p] = c]
                /\ rest' = [rest EXCEPT ![p] = r]
                /\ pc' = [pc EXCEPT ![p] = "write_cert"]
           \/ UNCHANGED <<got, rest>> /\ pc' = [pc EXCEPT ![p] = "release"]
        /\ UNCHANGED <<svc, key, skey, scert>>
    <3>1. ASSUME NEW a \in BrokerAnswers(p)
          PROVE  /\ a.cert \in Certs /\ [chain |-> a.chain, full |-> a.full] \in Chains
                 /\ "bundle" \notin Faults => a.chain = a.cert /\ a.full = a.cert
      BY <1>0, AnswersType DEF BrokerAnswers
    <3>2. QED
      BY <1>15, <3>1 DEF IssueCertificate, Continue, Finish, Goto
  <2>2. QED
    BY <1>0, <2>1, AgentAssumption
       DEF TypeOK, LockInv, MutualExclusion, ServiceInv,
       KeySteps, InstallSteps, InstalledSteps, Critical, EnrollSteps, RunSteps,
       CheckSteps
<1>16. ASSUME NEW p \in Procs, WriteCert(p) PROVE ServiceInv'
  BY <1>0, <1>16
     DEF WriteCert, WriteBundle, Replaces, FailsToReplace, Continue, Finish,
         Goto, TypeOK, LockInv, MutualExclusion, ServiceInv
<1>17. ASSUME NEW p \in Procs, WriteChain(p) PROVE ServiceInv'
  BY <1>0, <1>17
     DEF WriteChain, WriteBundle, Replaces, FailsToReplace, Continue, Finish,
         Goto, TypeOK, LockInv, MutualExclusion, ServiceInv
<1>18. ASSUME NEW p \in Procs, WriteFullChain(p) PROVE ServiceInv'
  BY <1>0, <1>18
     DEF WriteFullChain, WriteBundle, Replaces, FailsToReplace, Continue,
         Finish, Goto, TypeOK, LockInv, MutualExclusion, ServiceInv
<1>19. ASSUME NEW p \in Procs, RunReload(p) \/ OutputCloses(p) PROVE ServiceInv'
  BY <1>0, <1>19
     DEF RunReload, OutputCloses, NextService, Continue, Finish, Goto, TypeOK, LockInv,
         MutualExclusion, ServiceInv
<1>20. ASSUME NEW p \in Procs, CheckIdentity(p) PROVE ServiceInv'
  BY <1>0, <1>20
     DEF CheckIdentity, Continue, Exit, Goto, TypeOK, LockInv,
         MutualExclusion, ServiceInv
<1>21. ASSUME NEW p \in Procs, CheckKey(p) PROVE ServiceInv'
  BY <1>0, <1>21
     DEF CheckKey, Continue, Exit, Goto, TypeOK, LockInv, MutualExclusion,
         ServiceInv
<1>22. ASSUME NEW p \in Procs, CheckCert(p) PROVE ServiceInv'
  BY <1>0, <1>22
     DEF CheckCert, Continue, Exit, Goto, TypeOK, LockInv, MutualExclusion,
         ServiceInv
<1>23. ASSUME NEW p \in Procs, Kill(p) PROVE ServiceInv'
  BY <1>0, <1>23
     DEF Kill, Exit, Goto, TypeOK, LockInv, MutualExclusion, ServiceInv
<1>24. CASE RemoveStaleLock
  BY <1>0, <1>24
     DEF RemoveStaleLock, TypeOK, LockInv, MutualExclusion, ServiceInv
<1>25. CASE ProvideToken
  BY <1>0, <1>25 DEF ProvideToken, TypeOK, LockInv, MutualExclusion, ServiceInv
<1>26. CASE Tick
  BY <1>0, <1>26 DEF Tick, TypeOK, LockInv, MutualExclusion, ServiceInv
<1>27. CASE UNCHANGED vars
  BY <1>0, <1>27 DEF vars, TypeOK, LockInv, MutualExclusion, ServiceInv
<1>28. QED
  BY <1>1, <1>2, <1>3, <1>4, <1>5, <1>6, <1>7, <1>8, <1>9, <1>10, <1>11,
     <1>12, <1>13, <1>14, <1>15, <1>16, <1>17, <1>18, <1>19, <1>20, <1>21,
     <1>22, <1>23, <1>24, <1>25, <1>26, <1>27 DEF Next, Step

(* The loop of Run leaves no service behind without a certificate. *)
LEMMA EarlierStep ==
  ASSUME IInv, [Next]_vars
  PROVE  EarlierInv'
<1> USE AgentAssumption DEF local, idFiles, certFiles, svcFiles, KeySteps
<1>0. TypeOK /\ ServiceInv /\ CommandInv /\ EarlierInv
  BY DEF IInv
<1>1. ASSUME NEW p \in Procs, NEW c \in Commands, Start(p, c) PROVE EarlierInv'
  BY <1>0, <1>1 DEF Start, Goto, TypeOK, CommandInv, EarlierInv, Served
<1>2. ASSUME NEW p \in Procs, AcquireLock(p) PROVE EarlierInv'
  BY <1>0, <1>2
     DEF AcquireLock, Continue, Exit, Goto, TypeOK, CommandInv, EarlierInv,
         Served
<1>3. ASSUME NEW p \in Procs, Release(p) PROVE EarlierInv'
  BY <1>0, <1>3 DEF Release, Goto, TypeOK, CommandInv, EarlierInv, Served
<1>4. ASSUME NEW p \in Procs, IdentityExists(p) PROVE EarlierInv'
  BY <1>0, <1>4
     DEF IdentityExists, Continue, Finish, Goto, TypeOK, CommandInv,
         EarlierInv, Served
<1>5. ASSUME NEW p \in Procs, EnsureIdentityKey(p) PROVE EarlierInv'
  BY <1>0, <1>5
     DEF EnsureIdentityKey, Continue, Finish, Goto, Replaces, FailsToReplace,
         FreshKeys, TypeOK, CommandInv, EarlierInv, Served
<1>6. ASSUME NEW p \in Procs, ReadToken(p) PROVE EarlierInv'
  BY <1>0, <1>6
     DEF ReadToken, Continue, Finish, Goto, TypeOK, CommandInv, EarlierInv,
         Served
<1>7. ASSUME NEW p \in Procs, EnrollSign(p) PROVE EarlierInv'
  BY <1>0, <1>7
     DEF EnrollSign, Continue, Finish, Goto, TypeOK, CommandInv, EarlierInv,
         Served
<1>8. ASSUME NEW p \in Procs, EnrollWrite(p) PROVE EarlierInv'
  BY <1>0, <1>8
     DEF EnrollWrite, Continue, Finish, Goto, Replaces, FailsToReplace,
         TypeOK, CommandInv, EarlierInv, Served
<1>9. ASSUME NEW p \in Procs, RemoveToken(p) PROVE EarlierInv'
  BY <1>0, <1>9
     DEF RemoveToken, Finish, Goto, TypeOK, CommandInv, EarlierInv, Served
<1>10. ASSUME NEW p \in Procs, NewBrokerClient(p) PROVE EarlierInv'
  BY <1>0, <1>10
     DEF NewBrokerClient, Continue, Finish, Goto, TypeOK, CommandInv,
         EarlierInv, Served
<1>11. ASSUME NEW p \in Procs, RenewIdentity(p) PROVE EarlierInv'
  BY <1>0, <1>11
     DEF RenewIdentity, Continue, Finish, Goto, IsExpired, ExpiresWithin,
         TypeOK, CommandInv, EarlierInv, Served
<1>12. ASSUME NEW p \in Procs, WriteRenewed(p) PROVE EarlierInv'
  BY <1>0, <1>12
     DEF WriteRenewed, Continue, Finish, Goto, Replaces, FailsToReplace,
         TypeOK, CommandInv, EarlierInv, Served
<1>13. ASSUME NEW p \in Procs, EnsureServiceKey(p) PROVE EarlierInv'
  <2>1. \A s \in Services : Served(s) => Served(s)'
    BY <1>0, <1>13
       DEF EnsureServiceKey, Replaces, FailsToReplace, TypeOK, Served
  <2>2. \A q \in Procs : 1..(svc[q] - 1) \subseteq Services
    BY <1>0, AgentAssumption DEF TypeOK, Services
  <2>3. \A q \in Procs :
          pc'[q] \in {"key"} \cup KeySteps => pc[q] \in {"key"} \cup KeySteps
    <3>1. pc[p] = "key" /\ (Goto(p, "cert") \/ Goto(p, "release"))
      BY <1>13 DEF EnsureServiceKey, Continue, Finish
    <3>2. QED
      BY <1>0, <3>1 DEF Goto, TypeOK, KeySteps
  <2>4. QED
    BY <1>0, <1>13, <2>1, <2>2, <2>3 DEF EnsureServiceKey, EarlierInv
<1>14. ASSUME NEW p \in Procs, ExistingCertificate(p) PROVE EarlierInv'
  <2>1. \A s \in 1..(svc[p] - 1) : Served(s)
    BY <1>0, <1>14 DEF ExistingCertificate, EarlierInv, KeySteps
  <2>2. scert[svc[p]] # NoCert => Served(svc[p])
    BY <1>0, <1>14
       DEF ExistingCertificate, ServiceInv, KeySteps, InstalledSteps, Served
  <2>3. \A s : Served(s)' = Served(s)
    BY <1>14 DEF ExistingCertificate, Served
  <2>4. \/ UNCHANGED svc
        \/ svc' = [svc EXCEPT ![p] = svc[p] + 1] /\ scert[svc[p]] # NoCert
    BY <1>14 DEF ExistingCertificate, NextService
  <2>5. \A q \in Procs :
          /\ pc'[q] \in {"key"} \cup KeySteps => pc[q] \in {"key"} \cup KeySteps
          /\ svc[q] \in Nat
    BY <1>0, <1>14, AgentAssumption
       DEF ExistingCertificate, NextService, Continue, Finish, Goto, TypeOK,
          KeySteps, Services
  <2>6. ASSUME NEW q \in Procs, pc'[q] \in {"key"} \cup KeySteps,
               NEW s \in 1..(svc'[q] - 1)
        PROVE  Served(s)
    <3>1. s \in 1..(svc[q] - 1) \/ (q = p /\ s = svc[p] /\ scert[svc[p]] # NoCert)
      BY <1>0, <2>4, <2>5, <2>6 DEF TypeOK
    <3>2. QED
      BY <1>0, <2>1, <2>2, <2>5, <2>6, <3>1 DEF EarlierInv
  <2>7. QED
    BY <2>3, <2>6 DEF EarlierInv
<1>15. ASSUME NEW p \in Procs, IssueCertificate(p) PROVE EarlierInv'
  BY <1>0, <1>15
     DEF IssueCertificate, Continue, Finish, Goto, TypeOK,
         CommandInv, EarlierInv, Served
<1>16. ASSUME NEW p \in Procs, WriteCert(p) PROVE EarlierInv'
  <2>1. \A s \in Services : Served(s) => Served(s)'
    BY <1>0, <1>16
       DEF WriteCert, WriteBundle, Replaces, FailsToReplace, TypeOK, ServiceInv,
       InstallSteps, Served
  <2>2. \A q \in Procs : 1..(svc[q] - 1) \subseteq Services
    BY <1>0, AgentAssumption DEF TypeOK, Services
  <2>3. \A q \in Procs :
          pc'[q] \in {"key"} \cup KeySteps => pc[q] \in {"key"} \cup KeySteps
    BY <1>0, <1>16
       DEF WriteCert, WriteBundle, Continue, Finish, Goto, TypeOK, KeySteps
  <2>4. QED
    BY <1>0, <1>16, <2>1, <2>2, <2>3 DEF WriteCert, WriteBundle, EarlierInv
<1>17. ASSUME NEW p \in Procs, WriteChain(p) PROVE EarlierInv'
  BY <1>0, <1>17
     DEF WriteChain, WriteBundle, Replaces, FailsToReplace, Continue, Finish,
         Goto, TypeOK, CommandInv, EarlierInv, Served
<1>18. ASSUME NEW p \in Procs, WriteFullChain(p) PROVE EarlierInv'
  BY <1>0, <1>18
     DEF WriteFullChain, WriteBundle, Replaces, FailsToReplace, Continue,
         Finish, Goto, TypeOK, CommandInv, EarlierInv, Served
<1>19. ASSUME NEW p \in Procs, RunReload(p) \/ OutputCloses(p) PROVE EarlierInv'
  <2>1. \A s \in 1..(svc[p] - 1) : Served(s)
    BY <1>0, <1>19 DEF RunReload, OutputCloses, EarlierInv, KeySteps
  <2>2. Served(svc[p])
    BY <1>0, <1>19 DEF RunReload, OutputCloses, ServiceInv, KeySteps, InstalledSteps, Served
  <2>3. \A s : Served(s)' = Served(s)
    BY <1>19 DEF RunReload, OutputCloses, Served
  <2>4. \/ UNCHANGED svc
        \/ svc' = [svc EXCEPT ![p] = svc[p] + 1]
    BY <1>19 DEF RunReload, OutputCloses, NextService
  <2>5. \A q \in Procs :
          /\ pc'[q] \in {"key"} \cup KeySteps => pc[q] \in {"key"} \cup KeySteps
          /\ svc[q] \in Nat
    BY <1>0, <1>19, AgentAssumption
       DEF RunReload, OutputCloses, NextService, Continue, Finish, Goto, TypeOK, KeySteps,
          Services
  <2>6. ASSUME NEW q \in Procs, pc'[q] \in {"key"} \cup KeySteps,
               NEW s \in 1..(svc'[q] - 1)
        PROVE  Served(s)
    <3>1. s \in 1..(svc[q] - 1) \/ (q = p /\ s = svc[p])
      BY <1>0, <2>4, <2>5, <2>6 DEF TypeOK
    <3>2. QED
      BY <1>0, <2>1, <2>2, <2>5, <2>6, <3>1 DEF EarlierInv
  <2>7. QED
    BY <2>3, <2>6 DEF EarlierInv
<1>20. ASSUME NEW p \in Procs, CheckIdentity(p) PROVE EarlierInv'
  BY <1>0, <1>20
     DEF CheckIdentity, Continue, Exit, Goto, TypeOK, CommandInv, EarlierInv,
         Served
<1>21. ASSUME NEW p \in Procs, CheckKey(p) PROVE EarlierInv'
  BY <1>0, <1>21
     DEF CheckKey, Continue, Exit, Goto, TypeOK, CommandInv, EarlierInv, Served
<1>22. ASSUME NEW p \in Procs, CheckCert(p) PROVE EarlierInv'
  BY <1>0, <1>22
     DEF CheckCert, Continue, Exit, Goto, TypeOK, CommandInv, EarlierInv, Served
<1>23. ASSUME NEW p \in Procs, Kill(p) PROVE EarlierInv'
  BY <1>0, <1>23 DEF Kill, Exit, Goto, TypeOK, CommandInv, EarlierInv, Served
<1>24. CASE RemoveStaleLock
  BY <1>0, <1>24 DEF RemoveStaleLock, TypeOK, CommandInv, EarlierInv, Served
<1>25. CASE ProvideToken
  BY <1>0, <1>25 DEF ProvideToken, TypeOK, CommandInv, EarlierInv, Served
<1>26. CASE Tick
  BY <1>0, <1>26 DEF Tick, TypeOK, CommandInv, EarlierInv, Served
<1>27. CASE UNCHANGED vars
  BY <1>0, <1>27 DEF vars, TypeOK, CommandInv, EarlierInv, Served
<1>28. QED
  BY <1>1, <1>2, <1>3, <1>4, <1>5, <1>6, <1>7, <1>8, <1>9, <1>10, <1>11,
     <1>12, <1>13, <1>14, <1>15, <1>16, <1>17, <1>18, <1>19, <1>20, <1>21,
     <1>22, <1>23, <1>24, <1>25, <1>26, <1>27 DEF Next, Step

(* Where a command is, and that it has no outcome before it ends. *)
LEMMA CommandStep ==
  ASSUME IInv, [Next]_vars
  PROVE  CommandInv'
<1> USE AgentAssumption DEF local, idFiles, certFiles, svcFiles, CheckSteps
<1>0. TypeOK /\ CommandInv
  BY DEF IInv
<1>1. ASSUME NEW p \in Procs, NEW c \in Commands, Start(p, c) PROVE CommandInv'
  BY <1>0, <1>1 DEF Start, Goto, TypeOK, CommandInv
<1>2. ASSUME NEW p \in Procs, AcquireLock(p) PROVE CommandInv'
  BY <1>0, <1>2 DEF AcquireLock, Continue, Exit, Goto, TypeOK, CommandInv
<1>3. ASSUME NEW p \in Procs, Release(p) PROVE CommandInv'
  BY <1>0, <1>3 DEF Release, Goto, TypeOK, CommandInv
<1>4. ASSUME NEW p \in Procs, IdentityExists(p) PROVE CommandInv'
  BY <1>0, <1>4 DEF IdentityExists, Continue, Finish, Goto, TypeOK, CommandInv
<1>5. ASSUME NEW p \in Procs, EnsureIdentityKey(p) PROVE CommandInv'
  BY <1>0, <1>5
     DEF EnsureIdentityKey, Continue, Finish, Goto, Replaces, FailsToReplace,
         FreshKeys, TypeOK, CommandInv
<1>6. ASSUME NEW p \in Procs, ReadToken(p) PROVE CommandInv'
  BY <1>0, <1>6 DEF ReadToken, Continue, Finish, Goto, TypeOK, CommandInv
<1>7. ASSUME NEW p \in Procs, EnrollSign(p) PROVE CommandInv'
  BY <1>0, <1>7 DEF EnrollSign, Continue, Finish, Goto, TypeOK, CommandInv
<1>8. ASSUME NEW p \in Procs, EnrollWrite(p) PROVE CommandInv'
  BY <1>0, <1>8
     DEF EnrollWrite, Continue, Finish, Goto, Replaces, FailsToReplace,
         TypeOK, CommandInv
<1>9. ASSUME NEW p \in Procs, RemoveToken(p) PROVE CommandInv'
  BY <1>0, <1>9 DEF RemoveToken, Finish, Goto, TypeOK, CommandInv
<1>10. ASSUME NEW p \in Procs, NewBrokerClient(p) PROVE CommandInv'
  BY <1>0, <1>10 DEF NewBrokerClient, Continue, Finish, Goto, TypeOK, CommandInv
<1>11. ASSUME NEW p \in Procs, RenewIdentity(p) PROVE CommandInv'
  BY <1>0, <1>11
     DEF RenewIdentity, Continue, Finish, Goto, IsExpired, ExpiresWithin,
         TypeOK, CommandInv
<1>12. ASSUME NEW p \in Procs, WriteRenewed(p) PROVE CommandInv'
  BY <1>0, <1>12
     DEF WriteRenewed, Continue, Finish, Goto, Replaces, FailsToReplace,
         TypeOK, CommandInv
<1>13. ASSUME NEW p \in Procs, EnsureServiceKey(p) PROVE CommandInv'
  BY <1>0, <1>13
     DEF EnsureServiceKey, Continue, Finish, Goto, Replaces, FailsToReplace,
         FreshKeys, TypeOK, CommandInv
<1>14. ASSUME NEW p \in Procs, ExistingCertificate(p) PROVE CommandInv'
  BY <1>0, <1>14
     DEF ExistingCertificate, NextService, Continue, Finish, Goto, TypeOK,
         CommandInv
<1>15. ASSUME NEW p \in Procs, IssueCertificate(p) PROVE CommandInv'
  BY <1>0, <1>15
     DEF IssueCertificate, Continue, Finish, Goto, TypeOK,
         CommandInv
<1>16. ASSUME NEW p \in Procs, WriteCert(p) PROVE CommandInv'
  BY <1>0, <1>16
     DEF WriteCert, WriteBundle, Replaces, FailsToReplace, Continue, Finish,
         Goto, TypeOK, CommandInv
<1>17. ASSUME NEW p \in Procs, WriteChain(p) PROVE CommandInv'
  BY <1>0, <1>17
     DEF WriteChain, WriteBundle, Replaces, FailsToReplace, Continue, Finish,
         Goto, TypeOK, CommandInv
<1>18. ASSUME NEW p \in Procs, WriteFullChain(p) PROVE CommandInv'
  BY <1>0, <1>18
     DEF WriteFullChain, WriteBundle, Replaces, FailsToReplace, Continue,
         Finish, Goto, TypeOK, CommandInv
<1>19. ASSUME NEW p \in Procs, RunReload(p) \/ OutputCloses(p) PROVE CommandInv'
  BY <1>0, <1>19
     DEF RunReload, OutputCloses, NextService, Continue, Finish, Goto, TypeOK, CommandInv
<1>20. ASSUME NEW p \in Procs, CheckIdentity(p) PROVE CommandInv'
  BY <1>0, <1>20 DEF CheckIdentity, Continue, Exit, Goto, TypeOK, CommandInv
<1>21. ASSUME NEW p \in Procs, CheckKey(p) PROVE CommandInv'
  BY <1>0, <1>21 DEF CheckKey, Continue, Exit, Goto, TypeOK, CommandInv
<1>22. ASSUME NEW p \in Procs, CheckCert(p) PROVE CommandInv'
  BY <1>0, <1>22 DEF CheckCert, Continue, Exit, Goto, TypeOK, CommandInv
<1>23. ASSUME NEW p \in Procs, Kill(p) PROVE CommandInv'
  BY <1>0, <1>23 DEF Kill, Exit, Goto, TypeOK, CommandInv
<1>24. CASE RemoveStaleLock
  BY <1>0, <1>24 DEF RemoveStaleLock, TypeOK, CommandInv
<1>25. CASE ProvideToken
  BY <1>0, <1>25 DEF ProvideToken, TypeOK, CommandInv
<1>26. CASE Tick
  BY <1>0, <1>26 DEF Tick, TypeOK, CommandInv
<1>27. CASE UNCHANGED vars
  BY <1>0, <1>27 DEF vars, TypeOK, CommandInv
<1>28. QED
  BY <1>1, <1>2, <1>3, <1>4, <1>5, <1>6, <1>7, <1>8, <1>9, <1>10, <1>11,
     <1>12, <1>13, <1>14, <1>15, <1>16, <1>17, <1>18, <1>19, <1>20, <1>21,
     <1>22, <1>23, <1>24, <1>25, <1>26, <1>27 DEF Next, Step

-----------------------------------------------------------------------------
(* The properties of the files, from those parts.                          *)

(* Key and certificate files match after every step. *)
LEMMA KeysStep ==
  ASSUME IInv, [Next]_vars
  PROVE  KeysMatch'
<1> USE AgentAssumption DEF local, idFiles, certFiles, svcFiles, Services,
   KeySteps, InstallSteps, InstalledSteps, Critical, EnrollSteps, RunSteps,
   CheckSteps
<1>0. TypeOK /\ LockInv /\ IdentityInv /\ ServiceInv /\ FileInv
  BY DEF IInv
<1>1. ASSUME NEW p \in Procs, NEW c \in Commands, Start(p, c) PROVE KeysMatch'
  BY <1>0, <1>1
     DEF Start, Goto, TypeOK, LockInv, MutualExclusion, IdentityInv,
         ServiceInv, FileInv, KeysMatch
<1>2. ASSUME NEW p \in Procs, AcquireLock(p) PROVE KeysMatch'
  BY <1>0, <1>2
     DEF AcquireLock, Continue, Exit, Goto, TypeOK, LockInv, MutualExclusion,
         IdentityInv, ServiceInv, FileInv, KeysMatch
<1>3. ASSUME NEW p \in Procs, Release(p) PROVE KeysMatch'
  BY <1>0, <1>3
     DEF Release, Goto, TypeOK, LockInv, MutualExclusion, IdentityInv,
         ServiceInv, FileInv, KeysMatch
<1>4. ASSUME NEW p \in Procs, IdentityExists(p) PROVE KeysMatch'
  BY <1>0, <1>4
     DEF IdentityExists, Continue, Finish, Goto, TypeOK, LockInv,
         MutualExclusion, IdentityInv, ServiceInv, FileInv, KeysMatch
<1>5. ASSUME NEW p \in Procs, EnsureIdentityKey(p) PROVE KeysMatch'
  BY <1>0, <1>5
     DEF EnsureIdentityKey, Continue, Finish, Goto, Replaces, FailsToReplace,
         FreshKeys, TypeOK, LockInv, MutualExclusion, IdentityInv, ServiceInv,
         FileInv, KeysMatch
<1>6. ASSUME NEW p \in Procs, ReadToken(p) PROVE KeysMatch'
  BY <1>0, <1>6
     DEF ReadToken, Continue, Finish, Goto, TypeOK, LockInv, MutualExclusion,
         IdentityInv, ServiceInv, FileInv, KeysMatch
<1>7. ASSUME NEW p \in Procs, EnrollSign(p) PROVE KeysMatch'
  BY <1>0, <1>7
     DEF EnrollSign, Continue, Finish, Goto, TypeOK, LockInv, MutualExclusion,
         IdentityInv, ServiceInv, FileInv, KeysMatch
<1>8. ASSUME NEW p \in Procs, EnrollWrite(p) PROVE KeysMatch'
  BY <1>0, <1>8
     DEF EnrollWrite, Continue, Finish, Goto, Replaces, FailsToReplace,
         TypeOK, LockInv, MutualExclusion, IdentityInv, ServiceInv, FileInv,
         KeysMatch
<1>9. ASSUME NEW p \in Procs, RemoveToken(p) PROVE KeysMatch'
  BY <1>0, <1>9
     DEF RemoveToken, Finish, Goto, TypeOK, LockInv, MutualExclusion,
         IdentityInv, ServiceInv, FileInv, KeysMatch
<1>10. ASSUME NEW p \in Procs, NewBrokerClient(p) PROVE KeysMatch'
  BY <1>0, <1>10
     DEF NewBrokerClient, Continue, Finish, Goto, TypeOK, LockInv,
         MutualExclusion, IdentityInv, ServiceInv, FileInv, KeysMatch
<1>11. ASSUME NEW p \in Procs, RenewIdentity(p) PROVE KeysMatch'
  BY <1>0, <1>11
     DEF RenewIdentity, Continue, Finish, Goto, IsExpired, ExpiresWithin,
         TypeOK, LockInv, MutualExclusion, IdentityInv, ServiceInv, FileInv,
         KeysMatch
<1>12. ASSUME NEW p \in Procs, WriteRenewed(p) PROVE KeysMatch'
  BY <1>0, <1>12
     DEF WriteRenewed, Continue, Finish, Goto, Replaces, FailsToReplace,
         TypeOK, LockInv, MutualExclusion, IdentityInv, ServiceInv, FileInv,
         KeysMatch
<1>13. ASSUME NEW p \in Procs, EnsureServiceKey(p) PROVE KeysMatch'
  <2>1. \A s \in Services : skey[s] = NoKey =>
          /\ scert[s] = NoCert /\ loaded[s] = NoCert
          /\ "bundle" \notin Faults => schain[s] = NoCert /\ sfull[s] = NoCert
    BY <1>0, AgentAssumption DEF TypeOK, Certs, FileInv, KeysMatch
  <2>2. \A s \in Services : skey'[s] = skey[s] \/ skey[s] = NoKey
    BY <1>0, <1>13 DEF EnsureServiceKey, Replaces, FailsToReplace, TypeOK
  <2>3. QED
    BY <1>0, <1>13, <2>1, <2>2 DEF EnsureServiceKey, FileInv, KeysMatch
<1>14. ASSUME NEW p \in Procs, ExistingCertificate(p) PROVE KeysMatch'
  BY <1>0, <1>14
     DEF ExistingCertificate, NextService, Continue, Finish, Goto, TypeOK,
         LockInv, MutualExclusion, IdentityInv, ServiceInv, FileInv, KeysMatch
<1>15. ASSUME NEW p \in Procs, IssueCertificate(p) PROVE KeysMatch'
  BY <1>0, <1>15
     DEF IssueCertificate, Continue, Finish, Goto, TypeOK,
         LockInv, MutualExclusion, IdentityInv, ServiceInv, FileInv, KeysMatch
<1>16. ASSUME NEW p \in Procs, WriteCert(p) PROVE KeysMatch'
  <2>1. got[p] # NoCert => got[p].key = skey[svc[p]] /\ got[p].names = "configured"
    BY <1>0, <1>16
       DEF WriteCert, WriteBundle, ServiceInv, InstallSteps, KeySteps
  <2>2. \A s \in Services : scert'[s] = scert[s] \/ (s = svc[p] /\ scert'[s] = got[p])
    BY <1>0, <1>16 DEF WriteCert, WriteBundle, Replaces, FailsToReplace, TypeOK
  <2>3. QED
    BY <1>0, <1>16, <2>1, <2>2 DEF WriteCert, WriteBundle, FileInv, KeysMatch
<1>17. ASSUME NEW p \in Procs, WriteChain(p) PROVE KeysMatch'
  <2>1. "bundle" \notin Faults => Fits(rest[p].chain, svc[p])
    BY <1>0, <1>17
       DEF WriteChain, WriteBundle, ServiceInv, InstallSteps, KeySteps
  <2>2. \A s \in Services : schain'[s] = schain[s] \/ (s = svc[p] /\ schain'[s] = rest[p].chain)
    BY <1>0, <1>17 DEF WriteChain, WriteBundle, Replaces, FailsToReplace, TypeOK
  <2>3. QED
    BY <1>0, <1>17, <2>1, <2>2 DEF WriteChain, WriteBundle, FileInv, KeysMatch
<1>18. ASSUME NEW p \in Procs, WriteFullChain(p) PROVE KeysMatch'
  <2>1. "bundle" \notin Faults => Fits(rest[p].full, svc[p])
    BY <1>0, <1>18
       DEF WriteFullChain, WriteBundle, ServiceInv, InstallSteps, KeySteps
  <2>2. \A s \in Services : sfull'[s] = sfull[s] \/ (s = svc[p] /\ sfull'[s] = rest[p].full)
    BY <1>0, <1>18
       DEF WriteFullChain, WriteBundle, Replaces, FailsToReplace, TypeOK
  <2>3. QED
    BY <1>0, <1>18, <2>1, <2>2
       DEF WriteFullChain, WriteBundle, FileInv, KeysMatch
<1>19. ASSUME NEW p \in Procs, RunReload(p) \/ OutputCloses(p) PROVE KeysMatch'
  <2>1. \A s \in Services : loaded'[s] = loaded[s] \/ loaded'[s] = scert[s]
    BY <1>0, <1>19 DEF RunReload, OutputCloses, TypeOK
  <2>2. QED
    BY <1>0, <1>19, <2>1 DEF RunReload, OutputCloses, FileInv, KeysMatch
<1>20. ASSUME NEW p \in Procs, CheckIdentity(p) PROVE KeysMatch'
  BY <1>0, <1>20
     DEF CheckIdentity, Continue, Exit, Goto, TypeOK, LockInv,
         MutualExclusion, IdentityInv, ServiceInv, FileInv, KeysMatch
<1>21. ASSUME NEW p \in Procs, CheckKey(p) PROVE KeysMatch'
  BY <1>0, <1>21
     DEF CheckKey, Continue, Exit, Goto, TypeOK, LockInv, MutualExclusion,
         IdentityInv, ServiceInv, FileInv, KeysMatch
<1>22. ASSUME NEW p \in Procs, CheckCert(p) PROVE KeysMatch'
  BY <1>0, <1>22
     DEF CheckCert, Continue, Exit, Goto, TypeOK, LockInv, MutualExclusion,
         IdentityInv, ServiceInv, FileInv, KeysMatch
<1>23. ASSUME NEW p \in Procs, Kill(p) PROVE KeysMatch'
  BY <1>0, <1>23
     DEF Kill, Exit, Goto, TypeOK, LockInv, MutualExclusion, IdentityInv,
         ServiceInv, FileInv, KeysMatch
<1>24. CASE RemoveStaleLock
  BY <1>0, <1>24
     DEF RemoveStaleLock, TypeOK, LockInv, MutualExclusion, IdentityInv,
         ServiceInv, FileInv, KeysMatch
<1>25. CASE ProvideToken
  BY <1>0, <1>25
     DEF ProvideToken, TypeOK, LockInv, MutualExclusion, IdentityInv,
         ServiceInv, FileInv, KeysMatch
<1>26. CASE Tick
  BY <1>0, <1>26
     DEF Tick, TypeOK, LockInv, MutualExclusion, IdentityInv, ServiceInv,
         FileInv, KeysMatch
<1>27. CASE UNCHANGED vars
  BY <1>0, <1>27
     DEF vars, TypeOK, LockInv, MutualExclusion, IdentityInv, ServiceInv,
         FileInv, KeysMatch
<1>28. QED
  BY <1>1, <1>2, <1>3, <1>4, <1>5, <1>6, <1>7, <1>8, <1>9, <1>10, <1>11,
     <1>12, <1>13, <1>14, <1>15, <1>16, <1>17, <1>18, <1>19, <1>20, <1>21,
     <1>22, <1>23, <1>24, <1>25, <1>26, <1>27 DEF Next, Step

(* No command finds a certificate that does not fit its key. *)
LEMMA MismatchStep ==
  ASSUME IInv, [Next]_vars
  PROVE  NoFalseMismatch'
<1> USE AgentAssumption DEF local, idFiles, certFiles, svcFiles, KeySteps,
   RunSteps
<1>0. TypeOK /\ IdentityInv /\ ServiceInv /\ FileInv
  BY DEF IInv
<1>1. ASSUME NEW p \in Procs, NEW c \in Commands, Start(p, c) PROVE NoFalseMismatch'
  BY <1>0, <1>1
     DEF Start, Goto, TypeOK, IdentityInv, ServiceInv, FileInv, KeysMatch,
         NoFalseMismatch
<1>2. ASSUME NEW p \in Procs, AcquireLock(p) PROVE NoFalseMismatch'
  BY <1>0, <1>2
     DEF AcquireLock, Continue, Exit, Goto, TypeOK, IdentityInv, ServiceInv,
         FileInv, KeysMatch, NoFalseMismatch
<1>3. ASSUME NEW p \in Procs, Release(p) PROVE NoFalseMismatch'
  BY <1>0, <1>3
     DEF Release, Goto, TypeOK, IdentityInv, ServiceInv, FileInv, KeysMatch,
         NoFalseMismatch
<1>4. ASSUME NEW p \in Procs, IdentityExists(p) PROVE NoFalseMismatch'
  BY <1>0, <1>4
     DEF IdentityExists, Continue, Finish, Goto, TypeOK, IdentityInv,
         ServiceInv, FileInv, KeysMatch, NoFalseMismatch
<1>5. ASSUME NEW p \in Procs, EnsureIdentityKey(p) PROVE NoFalseMismatch'
  BY <1>0, <1>5
     DEF EnsureIdentityKey, Continue, Finish, Goto, Replaces, FailsToReplace,
         FreshKeys, TypeOK, IdentityInv, ServiceInv, FileInv, KeysMatch,
         NoFalseMismatch
<1>6. ASSUME NEW p \in Procs, ReadToken(p) PROVE NoFalseMismatch'
  BY <1>0, <1>6
     DEF ReadToken, Continue, Finish, Goto, TypeOK, IdentityInv, ServiceInv,
         FileInv, KeysMatch, NoFalseMismatch
<1>7. ASSUME NEW p \in Procs, EnrollSign(p) PROVE NoFalseMismatch'
  BY <1>0, <1>7
     DEF EnrollSign, Continue, Finish, Goto, TypeOK, IdentityInv, ServiceInv,
         FileInv, KeysMatch, NoFalseMismatch
<1>8. ASSUME NEW p \in Procs, EnrollWrite(p) PROVE NoFalseMismatch'
  BY <1>0, <1>8
     DEF EnrollWrite, Continue, Finish, Goto, Replaces, FailsToReplace,
         TypeOK, IdentityInv, ServiceInv, FileInv, KeysMatch, NoFalseMismatch
<1>9. ASSUME NEW p \in Procs, RemoveToken(p) PROVE NoFalseMismatch'
  BY <1>0, <1>9
     DEF RemoveToken, Finish, Goto, TypeOK, IdentityInv, ServiceInv, FileInv,
         KeysMatch, NoFalseMismatch
<1>10. ASSUME NEW p \in Procs, NewBrokerClient(p) PROVE NoFalseMismatch'
  BY <1>0, <1>10
     DEF NewBrokerClient, Continue, Finish, Goto, TypeOK, IdentityInv,
         ServiceInv, FileInv, KeysMatch, NoFalseMismatch
<1>11. ASSUME NEW p \in Procs, RenewIdentity(p) PROVE NoFalseMismatch'
  BY <1>0, <1>11
     DEF RenewIdentity, Continue, Finish, Goto, IsExpired, ExpiresWithin,
         TypeOK, IdentityInv, ServiceInv, FileInv, KeysMatch, NoFalseMismatch
<1>12. ASSUME NEW p \in Procs, WriteRenewed(p) PROVE NoFalseMismatch'
  BY <1>0, <1>12
     DEF WriteRenewed, Continue, Finish, Goto, Replaces, FailsToReplace,
         TypeOK, IdentityInv, ServiceInv, FileInv, KeysMatch, NoFalseMismatch
<1>13. ASSUME NEW p \in Procs, EnsureServiceKey(p) PROVE NoFalseMismatch'
  BY <1>0, <1>13
     DEF EnsureServiceKey, Continue, Finish, Goto, Replaces, FailsToReplace,
         FreshKeys, TypeOK, IdentityInv, ServiceInv, FileInv, KeysMatch,
         NoFalseMismatch
<1>14. ASSUME NEW p \in Procs, ExistingCertificate(p) PROVE NoFalseMismatch'
  BY <1>0, <1>14
     DEF ExistingCertificate, NextService, Continue, Finish, Goto, TypeOK,
         IdentityInv, ServiceInv, FileInv, KeysMatch, NoFalseMismatch
<1>15. ASSUME NEW p \in Procs, IssueCertificate(p) PROVE NoFalseMismatch'
  BY <1>0, <1>15
     DEF IssueCertificate, Continue, Finish, Goto, TypeOK,
         IdentityInv, ServiceInv, FileInv, KeysMatch, NoFalseMismatch
<1>16. ASSUME NEW p \in Procs, WriteCert(p) PROVE NoFalseMismatch'
  BY <1>0, <1>16
     DEF WriteCert, WriteBundle, Replaces, FailsToReplace, Continue, Finish,
         Goto, TypeOK, IdentityInv, ServiceInv, FileInv, KeysMatch,
         NoFalseMismatch
<1>17. ASSUME NEW p \in Procs, WriteChain(p) PROVE NoFalseMismatch'
  BY <1>0, <1>17
     DEF WriteChain, WriteBundle, Replaces, FailsToReplace, Continue, Finish,
         Goto, TypeOK, IdentityInv, ServiceInv, FileInv, KeysMatch,
         NoFalseMismatch
<1>18. ASSUME NEW p \in Procs, WriteFullChain(p) PROVE NoFalseMismatch'
  BY <1>0, <1>18
     DEF WriteFullChain, WriteBundle, Replaces, FailsToReplace, Continue,
         Finish, Goto, TypeOK, IdentityInv, ServiceInv, FileInv, KeysMatch,
         NoFalseMismatch
<1>19. ASSUME NEW p \in Procs, RunReload(p) \/ OutputCloses(p) PROVE NoFalseMismatch'
  BY <1>0, <1>19
     DEF RunReload, OutputCloses, NextService, Continue, Finish, Goto, TypeOK, IdentityInv,
         ServiceInv, FileInv, KeysMatch, NoFalseMismatch
<1>20. ASSUME NEW p \in Procs, CheckIdentity(p) PROVE NoFalseMismatch'
  BY <1>0, <1>20
     DEF CheckIdentity, Continue, Exit, Goto, TypeOK, IdentityInv, ServiceInv,
         FileInv, KeysMatch, NoFalseMismatch
<1>21. ASSUME NEW p \in Procs, CheckKey(p) PROVE NoFalseMismatch'
  BY <1>0, <1>21
     DEF CheckKey, Continue, Exit, Goto, TypeOK, IdentityInv, ServiceInv,
         FileInv, KeysMatch, NoFalseMismatch
<1>22. ASSUME NEW p \in Procs, CheckCert(p) PROVE NoFalseMismatch'
  BY <1>0, <1>22
     DEF CheckCert, Continue, Exit, Goto, TypeOK, IdentityInv, ServiceInv,
         FileInv, KeysMatch, NoFalseMismatch
<1>23. ASSUME NEW p \in Procs, Kill(p) PROVE NoFalseMismatch'
  BY <1>0, <1>23
     DEF Kill, Exit, Goto, TypeOK, IdentityInv, ServiceInv, FileInv,
         KeysMatch, NoFalseMismatch
<1>24. CASE RemoveStaleLock
  BY <1>0, <1>24
     DEF RemoveStaleLock, TypeOK, IdentityInv, ServiceInv, FileInv, KeysMatch,
         NoFalseMismatch
<1>25. CASE ProvideToken
  BY <1>0, <1>25
     DEF ProvideToken, TypeOK, IdentityInv, ServiceInv, FileInv, KeysMatch,
         NoFalseMismatch
<1>26. CASE Tick
  BY <1>0, <1>26
     DEF Tick, TypeOK, IdentityInv, ServiceInv, FileInv, KeysMatch,
         NoFalseMismatch
<1>27. CASE UNCHANGED vars
  BY <1>0, <1>27
     DEF vars, TypeOK, IdentityInv, ServiceInv, FileInv, KeysMatch,
         NoFalseMismatch
<1>28. QED
  BY <1>1, <1>2, <1>3, <1>4, <1>5, <1>6, <1>7, <1>8, <1>9, <1>10, <1>11,
     <1>12, <1>13, <1>14, <1>15, <1>16, <1>17, <1>18, <1>19, <1>20, <1>21,
     <1>22, <1>23, <1>24, <1>25, <1>26, <1>27 DEF Next, Step

(* The token or the identity certificate is there after every step. *)
LEMMA TokenStep ==
  ASSUME IInv, [Next]_vars
  PROVE  TokenOrIdentity'
<1> USE AgentAssumption DEF local, idFiles, certFiles, svcFiles, EnrollSteps,
   RunSteps
<1>0. TypeOK /\ IdentityInv /\ FileInv
  BY DEF IInv
<1>1. ASSUME NEW p \in Procs, NEW c \in Commands, Start(p, c) PROVE TokenOrIdentity'
  BY <1>0, <1>1 DEF Start, Goto, IdentityInv, FileInv, TokenOrIdentity
<1>2. ASSUME NEW p \in Procs, AcquireLock(p) PROVE TokenOrIdentity'
  BY <1>0, <1>2
     DEF AcquireLock, Continue, Exit, Goto, IdentityInv, FileInv,
         TokenOrIdentity
<1>3. ASSUME NEW p \in Procs, Release(p) PROVE TokenOrIdentity'
  BY <1>0, <1>3 DEF Release, Goto, IdentityInv, FileInv, TokenOrIdentity
<1>4. ASSUME NEW p \in Procs, IdentityExists(p) PROVE TokenOrIdentity'
  BY <1>0, <1>4
     DEF IdentityExists, Continue, Finish, Goto, IdentityInv, FileInv,
         TokenOrIdentity
<1>5. ASSUME NEW p \in Procs, EnsureIdentityKey(p) PROVE TokenOrIdentity'
  BY <1>0, <1>5
     DEF EnsureIdentityKey, Continue, Finish, Goto, Replaces, FailsToReplace,
         FreshKeys, IdentityInv, FileInv, TokenOrIdentity
<1>6. ASSUME NEW p \in Procs, ReadToken(p) PROVE TokenOrIdentity'
  BY <1>0, <1>6
     DEF ReadToken, Continue, Finish, Goto, IdentityInv, FileInv,
         TokenOrIdentity
<1>7. ASSUME NEW p \in Procs, EnrollSign(p) PROVE TokenOrIdentity'
  BY <1>0, <1>7
     DEF EnrollSign, Continue, Finish, Goto, IdentityInv, FileInv,
         TokenOrIdentity
<1>8. ASSUME NEW p \in Procs, EnrollWrite(p) PROVE TokenOrIdentity'
  BY <1>0, <1>8
     DEF EnrollWrite, Continue, Finish, Goto, Replaces, FailsToReplace,
         IdentityInv, FileInv, TokenOrIdentity
<1>9. ASSUME NEW p \in Procs, RemoveToken(p) PROVE TokenOrIdentity'
  BY <1>0, <1>9
     DEF RemoveToken, Finish, Goto, IdentityInv, FileInv, TokenOrIdentity
<1>10. ASSUME NEW p \in Procs, NewBrokerClient(p) PROVE TokenOrIdentity'
  BY <1>0, <1>10
     DEF NewBrokerClient, Continue, Finish, Goto, IdentityInv, FileInv,
         TokenOrIdentity
<1>11. ASSUME NEW p \in Procs, RenewIdentity(p) PROVE TokenOrIdentity'
  BY <1>0, <1>11
     DEF RenewIdentity, Continue, Finish, Goto, IsExpired, ExpiresWithin,
         IdentityInv, FileInv, TokenOrIdentity
<1>12. ASSUME NEW p \in Procs, WriteRenewed(p) PROVE TokenOrIdentity'
  BY <1>0, <1>12
     DEF WriteRenewed, Continue, Finish, Goto, Replaces, FailsToReplace,
         IdentityInv, FileInv, TokenOrIdentity
<1>13. ASSUME NEW p \in Procs, EnsureServiceKey(p) PROVE TokenOrIdentity'
  BY <1>0, <1>13
     DEF EnsureServiceKey, Continue, Finish, Goto, Replaces, FailsToReplace,
         FreshKeys, IdentityInv, FileInv, TokenOrIdentity
<1>14. ASSUME NEW p \in Procs, ExistingCertificate(p) PROVE TokenOrIdentity'
  BY <1>0, <1>14
     DEF ExistingCertificate, NextService, Continue, Finish, Goto,
         IdentityInv, FileInv, TokenOrIdentity
<1>15. ASSUME NEW p \in Procs, IssueCertificate(p) PROVE TokenOrIdentity'
  BY <1>0, <1>15
     DEF IssueCertificate, Continue, Finish, Goto, IdentityInv,
         FileInv, TokenOrIdentity
<1>16. ASSUME NEW p \in Procs, WriteCert(p) PROVE TokenOrIdentity'
  BY <1>0, <1>16
     DEF WriteCert, WriteBundle, Replaces, FailsToReplace, Continue, Finish,
         Goto, IdentityInv, FileInv, TokenOrIdentity
<1>17. ASSUME NEW p \in Procs, WriteChain(p) PROVE TokenOrIdentity'
  BY <1>0, <1>17
     DEF WriteChain, WriteBundle, Replaces, FailsToReplace, Continue, Finish,
         Goto, IdentityInv, FileInv, TokenOrIdentity
<1>18. ASSUME NEW p \in Procs, WriteFullChain(p) PROVE TokenOrIdentity'
  BY <1>0, <1>18
     DEF WriteFullChain, WriteBundle, Replaces, FailsToReplace, Continue,
         Finish, Goto, IdentityInv, FileInv, TokenOrIdentity
<1>19. ASSUME NEW p \in Procs, RunReload(p) \/ OutputCloses(p) PROVE TokenOrIdentity'
  BY <1>0, <1>19
     DEF RunReload, OutputCloses, NextService, Continue, Finish, Goto, IdentityInv, FileInv,
         TokenOrIdentity
<1>20. ASSUME NEW p \in Procs, CheckIdentity(p) PROVE TokenOrIdentity'
  BY <1>0, <1>20
     DEF CheckIdentity, Continue, Exit, Goto, IdentityInv, FileInv,
         TokenOrIdentity
<1>21. ASSUME NEW p \in Procs, CheckKey(p) PROVE TokenOrIdentity'
  BY <1>0, <1>21
     DEF CheckKey, Continue, Exit, Goto, IdentityInv, FileInv, TokenOrIdentity
<1>22. ASSUME NEW p \in Procs, CheckCert(p) PROVE TokenOrIdentity'
  BY <1>0, <1>22
     DEF CheckCert, Continue, Exit, Goto, IdentityInv, FileInv, TokenOrIdentity
<1>23. ASSUME NEW p \in Procs, Kill(p) PROVE TokenOrIdentity'
  BY <1>0, <1>23 DEF Kill, Exit, Goto, IdentityInv, FileInv, TokenOrIdentity
<1>24. CASE RemoveStaleLock
  BY <1>0, <1>24 DEF RemoveStaleLock, IdentityInv, FileInv, TokenOrIdentity
<1>25. CASE ProvideToken
  BY <1>0, <1>25 DEF ProvideToken, IdentityInv, FileInv, TokenOrIdentity
<1>26. CASE Tick
  BY <1>0, <1>26 DEF Tick, IdentityInv, FileInv, TokenOrIdentity
<1>27. CASE UNCHANGED vars
  BY <1>0, <1>27 DEF vars, IdentityInv, FileInv, TokenOrIdentity
<1>28. QED
  BY <1>1, <1>2, <1>3, <1>4, <1>5, <1>6, <1>7, <1>8, <1>9, <1>10, <1>11,
     <1>12, <1>13, <1>14, <1>15, <1>16, <1>17, <1>18, <1>19, <1>20, <1>21,
     <1>22, <1>23, <1>24, <1>25, <1>26, <1>27 DEF Next, Step

(* A successful run has served every service. *)
LEMMA ServedStep ==
  ASSUME IInv, [Next]_vars
  PROVE  SuccessServesAll'
<1> USE AgentAssumption DEF local, idFiles, certFiles, svcFiles
<1>0. TypeOK /\ IdentityInv /\ ServiceInv /\ EarlierInv /\ CommandInv /\ FileInv
  BY DEF IInv
<1>1. ASSUME NEW p \in Procs, NEW c \in Commands, Start(p, c) PROVE SuccessServesAll'
  BY <1>0, <1>1 DEF Start, Goto, TypeOK, FileInv, SuccessServesAll
<1>2. ASSUME NEW p \in Procs, AcquireLock(p) PROVE SuccessServesAll'
  BY <1>0, <1>2
     DEF AcquireLock, Continue, Exit, Goto, TypeOK, FileInv, SuccessServesAll
<1>3. ASSUME NEW p \in Procs, Release(p) PROVE SuccessServesAll'
  BY <1>0, <1>3 DEF Release, Goto, TypeOK, FileInv, SuccessServesAll
<1>4. ASSUME NEW p \in Procs, IdentityExists(p) PROVE SuccessServesAll'
  BY <1>0, <1>4
     DEF IdentityExists, Continue, Finish, Goto, TypeOK, FileInv,
         SuccessServesAll
<1>5. ASSUME NEW p \in Procs, EnsureIdentityKey(p) PROVE SuccessServesAll'
  BY <1>0, <1>5
     DEF EnsureIdentityKey, Continue, Finish, Goto, Replaces, FailsToReplace,
         FreshKeys, TypeOK, FileInv, SuccessServesAll
<1>6. ASSUME NEW p \in Procs, ReadToken(p) PROVE SuccessServesAll'
  BY <1>0, <1>6
     DEF ReadToken, Continue, Finish, Goto, TypeOK, FileInv, SuccessServesAll
<1>7. ASSUME NEW p \in Procs, EnrollSign(p) PROVE SuccessServesAll'
  BY <1>0, <1>7
     DEF EnrollSign, Continue, Finish, Goto, TypeOK, FileInv, SuccessServesAll
<1>8. ASSUME NEW p \in Procs, EnrollWrite(p) PROVE SuccessServesAll'
  BY <1>0, <1>8
     DEF EnrollWrite, Continue, Finish, Goto, Replaces, FailsToReplace,
         TypeOK, FileInv, SuccessServesAll
<1>9. ASSUME NEW p \in Procs, RemoveToken(p) PROVE SuccessServesAll'
  BY <1>0, <1>9
     DEF RemoveToken, Finish, IdentityInv, EnrollSteps, TypeOK, FileInv,
     SuccessServesAll
<1>10. ASSUME NEW p \in Procs, NewBrokerClient(p) PROVE SuccessServesAll'
  BY <1>0, <1>10
     DEF NewBrokerClient, Continue, Finish, Goto, TypeOK, FileInv,
         SuccessServesAll
<1>11. ASSUME NEW p \in Procs, RenewIdentity(p) PROVE SuccessServesAll'
  BY <1>0, <1>11
     DEF RenewIdentity, Continue, Finish, Goto, IsExpired, ExpiresWithin,
         TypeOK, FileInv, SuccessServesAll
<1>12. ASSUME NEW p \in Procs, WriteRenewed(p) PROVE SuccessServesAll'
  BY <1>0, <1>12
     DEF WriteRenewed, Continue, Finish, Goto, Replaces, FailsToReplace,
         TypeOK, FileInv, SuccessServesAll
<1>13. ASSUME NEW p \in Procs, EnsureServiceKey(p) PROVE SuccessServesAll'
  <2>1. \A s \in Services : skey[s] # NoKey => skey'[s] # NoKey
    BY <1>0, <1>13 DEF EnsureServiceKey, Replaces, FailsToReplace, TypeOK
  <2>2. \/ UNCHANGED outcome
        \/ outcome' = [outcome EXCEPT ![p] = "failed"]
    BY <1>13 DEF EnsureServiceKey, Continue, Finish
  <2>3. QED
    BY <1>0, <1>13, <2>1, <2>2
       DEF EnsureServiceKey, TypeOK, FileInv, SuccessServesAll
<1>14. ASSUME NEW p \in Procs, ExistingCertificate(p) PROVE SuccessServesAll'
  <2>1. svc[p] = NServices /\ scert[svc[p]] # NoCert => \A s \in Services : Served(s)
    <3>1. \A s \in 1..(svc[p] - 1) : Served(s)
      BY <1>0, <1>14 DEF ExistingCertificate, EarlierInv, KeySteps
    <3>2. scert[svc[p]] # NoCert => Served(svc[p])
      BY <1>0, <1>14 DEF ExistingCertificate, ServiceInv, KeySteps, Served
    <3>3. QED
      BY <1>0, <3>1, <3>2, AgentAssumption DEF TypeOK, Services
  <2>2. \/ UNCHANGED outcome
        \/ outcome' = [outcome EXCEPT ![p] = "ok"]
           /\ svc[p] = NServices /\ scert[svc[p]] # NoCert
        \/ \E how \in {"failed", "mismatch"} : outcome' = [outcome EXCEPT ![p] = how]
    BY <1>0, <1>14, AgentAssumption
       DEF ExistingCertificate, NextService, Continue, Finish, TypeOK, Services
  <2>3. QED
    BY <1>0, <1>14, <2>1, <2>2
       DEF ExistingCertificate, Served, TypeOK, FileInv, SuccessServesAll
<1>15. ASSUME NEW p \in Procs, IssueCertificate(p) PROVE SuccessServesAll'
  BY <1>0, <1>15
     DEF IssueCertificate, Continue, Finish, Goto, TypeOK,
         FileInv, SuccessServesAll
<1>16. ASSUME NEW p \in Procs, WriteCert(p) PROVE SuccessServesAll'
  <2>1. \A s \in Services : scert[s] # NoCert => scert'[s] # NoCert
    BY <1>0, <1>16
       DEF WriteCert, WriteBundle, Replaces, FailsToReplace, TypeOK, ServiceInv,
       InstallSteps
  <2>2. \/ UNCHANGED outcome
        \/ outcome' = [outcome EXCEPT ![p] = "failed"]
    BY <1>16 DEF WriteCert, WriteBundle, Continue, Finish
  <2>3. QED
    BY <1>0, <1>16, <2>1, <2>2
       DEF WriteCert, WriteBundle, TypeOK, FileInv, SuccessServesAll
<1>17. ASSUME NEW p \in Procs, WriteChain(p) PROVE SuccessServesAll'
  BY <1>0, <1>17
     DEF WriteChain, WriteBundle, Replaces, FailsToReplace, Continue, Finish,
         Goto, TypeOK, FileInv, SuccessServesAll
<1>18. ASSUME NEW p \in Procs, WriteFullChain(p) PROVE SuccessServesAll'
  BY <1>0, <1>18
     DEF WriteFullChain, WriteBundle, Replaces, FailsToReplace, Continue,
         Finish, Goto, TypeOK, FileInv, SuccessServesAll
<1>19. ASSUME NEW p \in Procs, RunReload(p) \/ OutputCloses(p) PROVE SuccessServesAll'
  <2>1. svc[p] = NServices => \A s \in Services : Served(s)
    <3>1. \A s \in 1..(svc[p] - 1) : Served(s)
      BY <1>0, <1>19 DEF RunReload, OutputCloses, EarlierInv, KeySteps
    <3>2. Served(svc[p])
      BY <1>0, <1>19 DEF RunReload, OutputCloses, ServiceInv, KeySteps, InstalledSteps, Served
    <3>3. QED
      BY <1>0, <3>1, <3>2, AgentAssumption DEF TypeOK, Services
  <2>2. \/ UNCHANGED outcome
        \/ outcome' = [outcome EXCEPT ![p] = "ok"] /\ svc[p] = NServices
        \/ \E how \in {"failed", "mismatch"} : outcome' = [outcome EXCEPT ![p] = how]
    BY <1>0, <1>19, AgentAssumption
       DEF RunReload, OutputCloses, NextService, Continue, Finish, TypeOK, Services
  <2>3. QED
    BY <1>0, <1>19, <2>1, <2>2
       DEF RunReload, OutputCloses, Served, TypeOK, FileInv, SuccessServesAll
<1>20. ASSUME NEW p \in Procs, CheckIdentity(p) PROVE SuccessServesAll'
  BY <1>0, <1>20
     DEF CheckIdentity, Continue, Exit, Goto, TypeOK, FileInv, SuccessServesAll
<1>21. ASSUME NEW p \in Procs, CheckKey(p) PROVE SuccessServesAll'
  BY <1>0, <1>21
     DEF CheckKey, Continue, Exit, Goto, TypeOK, FileInv, SuccessServesAll
<1>22. ASSUME NEW p \in Procs, CheckCert(p) PROVE SuccessServesAll'
  <2>1. cmd[p] \in {"check", "unit"}
    BY <1>0, <1>22 DEF CheckCert, CommandInv, CheckSteps
  <2>2. \/ UNCHANGED outcome
        \/ outcome' = [outcome EXCEPT ![p] = "ok"] /\ cmd[p] # "unit"
        \/ outcome' = [outcome EXCEPT ![p] = "mismatch"]
    BY <1>22 DEF CheckCert, Continue, Exit
  <2>3. QED
    BY <1>0, <1>22, <2>1, <2>2 DEF CheckCert, TypeOK, FileInv, SuccessServesAll
<1>23. ASSUME NEW p \in Procs, Kill(p) PROVE SuccessServesAll'
  BY <1>0, <1>23 DEF Kill, Exit, Goto, TypeOK, FileInv, SuccessServesAll
<1>24. CASE RemoveStaleLock
  BY <1>0, <1>24 DEF RemoveStaleLock, TypeOK, FileInv, SuccessServesAll
<1>25. CASE ProvideToken
  BY <1>0, <1>25 DEF ProvideToken, TypeOK, FileInv, SuccessServesAll
<1>26. CASE Tick
  BY <1>0, <1>26 DEF Tick, TypeOK, FileInv, SuccessServesAll
<1>27. CASE UNCHANGED vars
  BY <1>0, <1>27 DEF vars, TypeOK, FileInv, SuccessServesAll
<1>28. QED
  BY <1>1, <1>2, <1>3, <1>4, <1>5, <1>6, <1>7, <1>8, <1>9, <1>10, <1>11,
     <1>12, <1>13, <1>14, <1>15, <1>16, <1>17, <1>18, <1>19, <1>20, <1>21,
     <1>22, <1>23, <1>24, <1>25, <1>26, <1>27 DEF Next, Step

-----------------------------------------------------------------------------
(* The theorems.                                                           *)

(* The inductive invariant holds of every behaviour of the agent's         *)
(* processes, with any of the faults.                                      *)
THEOREM Invariant == Spec => []IInv
<1>1. Init => IInv
  <2> USE DEF Init
  <2>1. Init => TypeOK
    <3>1. 0 \in 0..MaxTime /\ 1 \in Services
      BY AgentAssumption DEF Services
    <3>2. Init => /\ cmd \in [Procs -> {"none", "enroll", "run", "check", "unit"}]
                  /\ pc \in [Procs -> {"off", "lock"} \cup Critical \cup CheckSteps]
                  /\ outcome \in [Procs -> Outcomes]
      BY DEF Outcomes
    <3>3. Init => /\ svc \in [Procs -> Services]
                  /\ key \in [Procs -> Keys \cup {NoKey}]
                  /\ got \in [Procs -> Certs \cup {NoCert}]
                  /\ rest \in [Procs -> Chains]
                  /\ skey \in [Services -> Keys \cup {NoKey}]
                  /\ scert \in [Services -> Certs \cup {NoCert}]
                  /\ schain \in [Services -> Certs \cup {NoCert}]
                  /\ sfull \in [Services -> Certs \cup {NoCert}]
                  /\ loaded \in [Services -> Certs \cup {NoCert}]
      BY <3>1 DEF Chains, NoChains
    <3>4. Init => lock \in BOOLEAN /\ token \in BOOLEAN /\ spent \in BOOLEAN
      OBVIOUS
    <3>5. QED
      BY <3>1, <3>2, <3>3, <3>4 DEF TypeOK
  <2>2. Init => LockInv /\ IdentityInv /\ ServiceInv /\ EarlierInv /\ CommandInv
    BY DEF LockInv, MutualExclusion, IdentityInv, ServiceInv, EarlierInv,
       CommandInv,
           Critical, EnrollSteps, RunSteps, CheckSteps, KeySteps, InstallSteps,
           InstalledSteps
  <2>3. Init => FileInv
    BY DEF FileInv, KeysMatch, NoFalseMismatch, TokenOrIdentity,
       SuccessServesAll
  <2>4. QED
    BY <2>1, <2>2, <2>3 DEF IInv
<1>2. IInv /\ [Next]_vars => IInv'
  BY TypeStep, LockStep, IdentityStep, ServiceStep, EarlierStep, CommandStep,
     KeysStep, MismatchStep, TokenStep, ServedStep
     DEF IInv, FileInv
<1>3. QED
  BY <1>1, <1>2, PTL DEF Spec

(* At most one process is between AcquireLock and Release, whatever dies,  *)
(* however often an operator removes a stale lock.                         *)
THEOREM LockExcludes == Spec => []MutualExclusion
<1>1. IInv => MutualExclusion
  BY DEF IInv, LockInv
<1>2. QED
  BY <1>1, Invariant, PTL

(* The certificates of the identity and of every service are for the key   *)
(* on disk at every moment of Enroll, Run and of what a crash leaves of    *)
(* them, whatever the broker answers; so are chain and full chain if the   *)
(* broker sends the ones of the certificate, which Run does not test.      *)
THEOREM FilesMatch == Spec => []KeysMatch
<1>1. IInv => KeysMatch
  BY DEF IInv, FileInv
<1>2. QED
  BY <1>1, Invariant, PTL

(* Neither Run nor the lock-free Check ever reports a mismatch of key and  *)
(* certificate.                                                            *)
THEOREM ChecksAgree == Spec => []NoFalseMismatch
<1>1. IInv => NoFalseMismatch
  BY DEF IInv, FileInv
<1>2. QED
  BY <1>1, Invariant, PTL

(* The host can always enroll or is enrolled: Enroll removes the token     *)
(* last.                                                                   *)
THEOREM CanEnroll == Spec => []TokenOrIdentity
<1>1. IInv => TokenOrIdentity
  BY DEF IInv, FileInv
<1>2. QED
  BY <1>1, Invariant, PTL

(* A Run that reports success has left no service without a certificate.   *)
THEOREM RunServesAll == Spec => []SuccessServesAll
<1>1. IInv => SuccessServesAll
  BY DEF IInv, FileInv
<1>2. QED
  BY <1>1, Invariant, PTL

(* The identity certificate has expired and no process still holds the     *)
(* answer to a renewal it asked for in time.                               *)
Stranded ==
  /\ idCert # NoCert
  /\ IsExpired(idCert)
  /\ \A p \in Procs : pc[p] # "renew_write"

(* No step of Enroll, Run or anyone else replaces an expired identity. *)
ExpiredStays == [][Stranded => Stranded']_vars

(* The code never does what it asks for: once the identity has             *)
(* expired, no sequence of commands, crashes and operator actions of the   *)
(* model brings the host back, since RenewIdentityIfNeeded asks for an     *)
(* enrollment and Enroll refuses one as long as the old certificate is     *)
(* there.  Someone has to remove that file by hand.                        *)
THEOREM NoWayBack == Spec => ExpiredStays
<1>1. ASSUME IInv, Stranded, [Next]_vars PROVE Stranded'
  <2>a. TypeOK /\ IdentityInv
    BY <1>1 DEF IInv
  <2>b. /\ idCert # NoCert
        /\ IsExpired(idCert)
        /\ \A p \in Procs : pc[p] # "renew_write"
    BY <1>1 DEF Stranded
  <2>c. /\ now \in Nat
        /\ idCert.notAfter \in Nat
    BY <2>a, <2>b, AgentAssumption DEF TypeOK, Certs
  <2>d. ASSUME UNCHANGED idCert, now' = now \/ now' = now + 1,
               \A p \in Procs : pc'[p] # "renew_write"
        PROVE  Stranded'
    BY <2>b, <2>c, <2>d DEF Stranded, IsExpired
  <2>e. ASSUME NEW p \in Procs, NEW step, step # "renew_write", Goto(p, step)
        PROVE  \A q \in Procs : pc'[q] # "renew_write"
    BY <2>a, <2>b, <2>e DEF TypeOK, Goto
  <2>1. ASSUME NEW p \in Procs, NEW c \in Commands, Start(p, c)
        PROVE  Stranded'
    <3>1. UNCHANGED idCert /\ now' = now
      BY <2>1 DEF Start, idFiles
    <3>2. \A q \in Procs : pc'[q] # "renew_write"
      BY <2>1, <2>a, <2>b DEF Start, TypeOK, Goto
    <3>3. QED
      BY <2>d, <3>1, <3>2
  <2>2. ASSUME NEW p \in Procs, Step(p)
        PROVE  Stranded'
    <3>1. ASSUME EnrollWrite(p) \/ WriteRenewed(p)
          PROVE  FALSE
      BY <2>a, <2>b, <3>1 DEF EnrollWrite, WriteRenewed, IdentityInv, EnrollSteps
    <3>2. UNCHANGED idCert /\ now' = now
      BY <2>2, <3>1
      DEF Step, AcquireLock, Release, IdentityExists, EnsureIdentityKey, ReadToken,
          EnrollSign, RemoveToken, NewBrokerClient, RenewIdentity, EnsureServiceKey,
          ExistingCertificate, IssueCertificate, WriteBundle, WriteCert, WriteChain,
          WriteFullChain, RunReload, CheckIdentity, CheckKey, CheckCert, idFiles
    <3>3. PICK step : step # "renew_write" /\ Goto(p, step)
      BY <2>2, <2>b, <3>1
      DEF Step, AcquireLock, Release, IdentityExists, EnsureIdentityKey, ReadToken,
          EnrollSign, RemoveToken, NewBrokerClient, RenewIdentity, EnsureServiceKey,
          ExistingCertificate, IssueCertificate, WriteBundle, WriteCert, WriteChain,
          WriteFullChain, RunReload, CheckIdentity, CheckKey, CheckCert, NextService,
          Continue, Finish, Exit
    <3>4. QED
      BY <2>d, <2>e, <3>2, <3>3
  <2>3. ASSUME NEW p \in Procs, Kill(p) \/ OutputCloses(p)
        PROVE  Stranded'
    <3>1. UNCHANGED idCert /\ now' = now
      BY <2>3 DEF Kill, OutputCloses, idFiles
    <3>2. PICK step : step # "renew_write" /\ Goto(p, step)
      BY <2>3 DEF Kill, OutputCloses, NextService, Continue, Finish, Exit
    <3>3. QED
      BY <2>d, <2>e, <3>1, <3>2
  <2>4. CASE RemoveStaleLock \/ ProvideToken \/ Tick \/ UNCHANGED vars
    BY <2>4, <2>b, <2>d DEF RemoveStaleLock, ProvideToken, Tick, idFiles, vars
  <2>5. QED
    BY <1>1, <2>1, <2>2, <2>3, <2>4 DEF Next
<1>2. QED
  BY <1>1, Invariant, PTL DEF Spec, ExpiredStays
-----------------------------------------------------------------------------
(* Why the lock is released, as far as it is a matter of safety: no path   *)
(* of Enroll or Run leaves the lock behind, and none runs for ever.        *)

(* Unless processes are killed or os.Remove fails, a lock file belongs to  *)
(* a process that runs: every early return of Enroll and Run goes through  *)
(* Release.                                                                *)
LocksAreHeld ==
  {"kill", "unlink"} \cap Faults = {} /\ lock => \E p \in Procs : pc[p] \in Critical

(* The steps that are left of a service, or of enroll. *)
Left(step) ==
  CASE step = "exists" -> 12
    [] step = "client" -> 11
    [] step = "renew" -> 10
    [] step = "renew_write" -> 9
    [] step = "key" -> 8
    [] step = "cert" -> 7
    [] step = "issue" -> 6
    [] step \in {"write_cert", "enroll_key"} -> 5
    [] step \in {"write_chain", "enroll_token"} -> 4
    [] step \in {"write_full", "enroll_sign"} -> 3
    [] step \in {"reload", "enroll_write"} -> 2
    [] step \in {"hung", "enroll_remove"} -> 1
    [] step = "release" -> 0

(* A bound on the steps until Release. *)
Work(p) == 9 * (NServices - svc[p]) + Left(pc[p])

(* A process that has the lock comes nearer to Release with every step of  *)
(* its own, and nobody else moves it: it has the lock for no more than     *)
(* 9 * NServices + 4 steps.  That bounds the steps, not their time: the    *)
(* one from "hung" waits for whoever keeps the output of a reload command  *)
(* open.                                                                   *)
WorkShrinks ==
  [][\A p \in Procs :
       pc[p] \in Critical /\ (pc'[p] # pc[p] \/ svc'[p] # svc[p]) =>
         pc'[p] = "off" \/ (pc'[p] \in Critical /\ Work(p)' < Work(p))]_vars

LEMMA LeftIs ==
  /\ Left("exists") = 12 /\ Left("client") = 11 /\ Left("renew") = 10
  /\ Left("renew_write") = 9 /\ Left("key") = 8 /\ Left("cert") = 7
  /\ Left("issue") = 6 /\ Left("write_cert") = 5 /\ Left("write_chain") = 4
  /\ Left("write_full") = 3 /\ Left("reload") = 2 /\ Left("hung") = 1
  /\ Left("release") = 0
  /\ Left("enroll_key") = 5 /\ Left("enroll_token") = 4 /\ Left("enroll_sign") = 3
  /\ Left("enroll_write") = 2 /\ Left("enroll_remove") = 1
BY DEF Left

LEMMA LeftIsInt == \A step \in Critical : Left(step) \in Int
<1>1. \A step \in {"exists", "release"} \cup EnrollSteps : Left(step) \in Int
  BY LeftIs DEF EnrollSteps
<1>2. \A step \in RunSteps : Left(step) \in Int
  BY LeftIs DEF RunSteps
<1>3. QED
  BY <1>1, <1>2 DEF Critical

(* What a step with the lock may do: finish, go on with the same service,  *)
(* or begin the next one.                                                  *)
Advances(p, step) ==
  /\ Goto(p, step)
  /\ step \in Critical
  /\ \/ UNCHANGED svc /\ Left(step) < Left(pc[p])
     \/ /\ svc[p] < NServices
        /\ svc' = [svc EXCEPT ![p] = @ + 1]
        /\ step = "key"
        /\ pc[p] \in {"cert", "reload", "hung"}

LEMMA CriticalAdvances ==
  ASSUME NEW p \in Procs, Step(p) \/ OutputCloses(p),
         pc[p] \in Critical, pc[p] # "release"
  PROVE  UNCHANGED lock /\ \E step : Advances(p, step)
<1> USE LeftIs DEF local, Critical, EnrollSteps, RunSteps
<1>1. CASE IdentityExists(p) \/ NewBrokerClient(p) \/ ReadToken(p)
  BY <1>1 DEF IdentityExists, NewBrokerClient, ReadToken, Continue, Finish, Advances
<1>2. CASE EnsureIdentityKey(p)
  BY <1>2 DEF EnsureIdentityKey, Continue, Finish, Advances
<1>3. CASE EnrollSign(p) \/ EnrollWrite(p) \/ RemoveToken(p)
  BY <1>3 DEF EnrollSign, EnrollWrite, RemoveToken, Continue, Finish, Advances
<1>4. CASE RenewIdentity(p) \/ WriteRenewed(p)
  BY <1>4 DEF RenewIdentity, WriteRenewed, Continue, Finish, Advances
<1>5. CASE EnsureServiceKey(p)
  <2>1. /\ pc[p] = "key" /\ UNCHANGED <<lock, svc>>
        /\ Goto(p, "cert") \/ Goto(p, "release")
    BY <1>5 DEF EnsureServiceKey, Continue, Finish
  <2>2. QED
    BY <2>1 DEF Advances
<1>6. CASE ExistingCertificate(p)
  BY <1>6 DEF ExistingCertificate, NextService, Continue, Finish, Advances
<1>7. CASE IssueCertificate(p)
  BY <1>7 DEF IssueCertificate, Continue, Finish, Advances
<1>8. CASE WriteCert(p) \/ WriteChain(p) \/ WriteFullChain(p)
  BY <1>8 DEF WriteCert, WriteChain, WriteFullChain, WriteBundle, Continue, Finish, Advances
<1>9. CASE RunReload(p) \/ OutputCloses(p)
  BY <1>9 DEF RunReload, OutputCloses, NextService, Continue, Finish, Advances
<1>10. QED
  BY <1>1, <1>2, <1>3, <1>4, <1>5, <1>6, <1>7, <1>8, <1>9
  DEF Step, AcquireLock, Release, CheckIdentity, CheckKey, CheckCert

(* A step without the lock. *)
LEMMA OthersAdvance ==
  ASSUME NEW p \in Procs, Step(p), pc[p] \notin Critical
  PROVE  /\ \E step : Goto(p, step)
         /\ \A q \in Procs \ {p} : TypeOK => svc'[q] = svc[q]
         /\ UNCHANGED lock \/ Goto(p, "exists")
<1> USE DEF local, Critical, EnrollSteps, RunSteps
<1>1. AcquireLock(p) \/ CheckIdentity(p) \/ CheckKey(p) \/ CheckCert(p)
  BY DEF Step, Release, IdentityExists, EnsureIdentityKey, ReadToken, EnrollSign,
     EnrollWrite, RemoveToken, NewBrokerClient, RenewIdentity, WriteRenewed,
     EnsureServiceKey, ExistingCertificate, IssueCertificate, WriteCert, WriteChain,
     WriteFullChain, WriteBundle, RunReload
<1>2. QED
  BY <1>1 DEF AcquireLock, CheckIdentity, CheckKey, CheckCert, Continue, Exit, TypeOK

(* Nobody leaves the lock behind. *)
THEOREM NoLockLeak == Spec => []LocksAreHeld
<1> USE DEF local, Critical, EnrollSteps, RunSteps
<1>1. Init => LocksAreHeld
  BY DEF Init, LocksAreHeld
<1>2. ASSUME TypeOK, LocksAreHeld, [Next]_vars
      PROVE  LocksAreHeld'
  <2>0. pc \in [Procs -> {"off", "lock"} \cup Critical \cup CheckSteps]
    BY <1>2 DEF TypeOK
  <2>1. SUFFICES ASSUME {"kill", "unlink"} \cap Faults = {}, lock'
                 PROVE  \E p \in Procs : pc'[p] \in Critical
    BY DEF LocksAreHeld
  <2>2. lock => \E p \in Procs : pc[p] \in Critical
    BY <1>2, <2>1 DEF LocksAreHeld
  <2>3. ASSUME NEW p \in Procs, NEW step, Goto(p, step), step \in Critical
        PROVE  \E q \in Procs : pc'[q] \in Critical
    BY <2>0, <2>3 DEF Goto
  <2>4. ASSUME NEW p \in Procs, NEW step, Goto(p, step), pc[p] \notin Critical, lock' = lock
        PROVE  \E q \in Procs : pc'[q] \in Critical
    BY <2>0, <2>1, <2>2, <2>4 DEF Goto
  <2>5. ASSUME NEW p \in Procs, NEW c \in Commands, Start(p, c)
        PROVE  \E q \in Procs : pc'[q] \in Critical
    BY <2>4, <2>5 DEF Start
  <2>6. ASSUME NEW p \in Procs, Step(p)
        PROVE  \E q \in Procs : pc'[q] \in Critical
    <3>1. CASE pc[p] = "release"
      <4>1. Release(p)
        BY <2>6, <3>1 DEF Step, AcquireLock, IdentityExists, EnsureIdentityKey, ReadToken,
           EnrollSign, EnrollWrite, RemoveToken, NewBrokerClient, RenewIdentity,
           WriteRenewed, EnsureServiceKey, ExistingCertificate, IssueCertificate,
           WriteCert, WriteChain, WriteFullChain, WriteBundle, RunReload, CheckIdentity,
           CheckKey, CheckCert
      <4>2. QED
        BY <2>1, <4>1 DEF Release
    <3>2. CASE pc[p] \in Critical /\ pc[p] # "release"
      BY <2>3, <2>6, <3>2, CriticalAdvances DEF Advances
    <3>3. CASE pc[p] \notin Critical
      BY <2>3, <2>4, <2>6, <3>3, OthersAdvance
    <3>4. QED
      BY <3>1, <3>2, <3>3
  <2>7. ASSUME NEW p \in Procs, Kill(p)
        PROVE  FALSE
    BY <2>1, <2>7 DEF Kill
  <2>7a. ASSUME NEW p \in Procs, OutputCloses(p)
         PROVE  \E q \in Procs : pc'[q] \in Critical
    <3>1. pc[p] \in Critical /\ pc[p] # "release"
      BY <2>7a DEF OutputCloses
    <3>2. QED
      BY <2>3, <2>7a, <3>1, CriticalAdvances DEF Advances
  <2>8. CASE RemoveStaleLock
    BY <2>1, <2>8 DEF RemoveStaleLock
  <2>9. CASE ProvideToken \/ Tick \/ UNCHANGED vars
    BY <2>1, <2>2, <2>9 DEF ProvideToken, Tick, vars
  <2>10. QED
    BY <1>2, <2>5, <2>6, <2>7, <2>7a, <2>8, <2>9 DEF Next
<1>3. IInv => TypeOK
  BY DEF IInv
<1>4. QED
  BY <1>1, <1>2, <1>3, Invariant, PTL DEF Spec

(* Whoever has the lock gets to Release. *)
THEOREM BoundedWork == Spec => WorkShrinks
<1> DEFINE Shrinks(p) ==
      pc[p] \in Critical /\ (pc'[p] # pc[p] \/ svc'[p] # svc[p]) =>
        pc'[p] = "off" \/ (pc'[p] \in Critical /\ Work(p)' < Work(p))
<1>1. ASSUME TypeOK, [Next]_vars
      PROVE  \A p \in Procs : Shrinks(p)
  <2>0. /\ pc \in [Procs -> {"off", "lock"} \cup Critical \cup CheckSteps]
        /\ svc \in [Procs -> Services] /\ NServices \in Nat /\ Services \subseteq Int
    BY <1>1, AgentAssumption DEF TypeOK, Services
  <2>1. SUFFICES ASSUME NEW p \in Procs, pc[p] \in Critical
                 PROVE  Shrinks(p)
    OBVIOUS
  <2>2. ASSUME pc'[p] = pc[p], svc'[p] = svc[p]
        PROVE  Shrinks(p)
    BY <2>2
  <2>3. ASSUME NEW step, Advances(p, step)
        PROVE  Shrinks(p)
    <3>1. pc'[p] = step /\ step \in Critical
      BY <2>0, <2>3 DEF Advances, Goto
    <3>2. /\ svc[p] \in Int /\ Left(pc[p]) \in Int /\ Left(step) \in Int
      BY <2>0, <2>1, <3>1, LeftIsInt
    <3>3. CASE UNCHANGED svc /\ Left(step) < Left(pc[p])
      BY <2>0, <3>1, <3>2, <3>3 DEF Work
    <3>4. CASE svc'[p] = svc[p] + 1 /\ Left(step) = 8 /\ Left(pc[p]) > 0
      BY <2>0, <3>1, <3>2, <3>4 DEF Work
    <3>5. QED
      BY <2>0, <2>3, <3>3, <3>4, LeftIs DEF Advances
  <2>4. ASSUME NEW q \in Procs, Step(q)
        PROVE  Shrinks(p)
    <3>1. CASE q = p /\ pc[p] # "release"
      BY <2>1, <2>3, <2>4, <3>1, CriticalAdvances
    <3>2. CASE q = p /\ pc[p] = "release"
      <4>1. Release(p)
        BY <2>4, <3>2 DEF Step, AcquireLock, IdentityExists, EnsureIdentityKey, ReadToken,
           EnrollSign, EnrollWrite, RemoveToken, NewBrokerClient, RenewIdentity,
           WriteRenewed, EnsureServiceKey, ExistingCertificate, IssueCertificate,
           WriteCert, WriteChain, WriteFullChain, WriteBundle, RunReload, CheckIdentity,
           CheckKey, CheckCert
      <4>2. QED
        BY <2>0, <4>1 DEF Release, Goto
    <3>3. CASE q # p /\ pc[q] \notin Critical
      BY <1>1, <2>0, <2>2, <2>4, <3>3, OthersAdvance DEF Goto
    <3>4. CASE q # p /\ pc[q] = "release"
      <4>1. Release(q)
        BY <2>4, <3>4 DEF Step, AcquireLock, IdentityExists, EnsureIdentityKey, ReadToken,
           EnrollSign, EnrollWrite, RemoveToken, NewBrokerClient, RenewIdentity,
           WriteRenewed, EnsureServiceKey, ExistingCertificate, IssueCertificate,
           WriteCert, WriteChain, WriteFullChain, WriteBundle, RunReload, CheckIdentity,
           CheckKey, CheckCert
      <4>2. QED
        BY <2>0, <2>2, <3>4, <4>1 DEF Release, Goto, local
    <3>5. CASE q # p /\ pc[q] \in Critical /\ pc[q] # "release"
      BY <2>0, <2>2, <2>4, <3>5, CriticalAdvances DEF Advances, Goto
    <3>6. QED
      BY <3>1, <3>2, <3>3, <3>4, <3>5
  <2>5. ASSUME NEW q \in Procs, NEW c \in Commands, Start(q, c)
        PROVE  Shrinks(p)
    <3>1. q # p
      BY <2>1, <2>5 DEF Start, Critical, EnrollSteps, RunSteps
    <3>2. QED
      BY <2>0, <2>2, <2>5, <3>1 DEF Start, Goto
  <2>6. ASSUME NEW q \in Procs, Kill(q)
        PROVE  Shrinks(p)
    BY <2>0, <2>2, <2>6 DEF Kill, Exit, Goto, local
  <2>7. ASSUME NEW q \in Procs, OutputCloses(q)
        PROVE  Shrinks(p)
    <3>1. pc[q] \in Critical /\ pc[q] # "release"
      BY <2>7 DEF OutputCloses, Critical, RunSteps
    <3>2. CASE q = p
      BY <2>3, <2>7, <3>1, <3>2, CriticalAdvances
    <3>3. CASE q # p
      BY <2>0, <2>2, <2>7, <3>1, <3>3, CriticalAdvances DEF Advances, Goto
    <3>4. QED
      BY <3>2, <3>3
  <2>8. CASE RemoveStaleLock \/ ProvideToken \/ Tick \/ UNCHANGED vars
    BY <2>2, <2>8 DEF RemoveStaleLock, ProvideToken, Tick, vars, local
  <2>9. QED
    BY <1>1, <2>4, <2>5, <2>6, <2>7, <2>8 DEF Next
<1>2. IInv => TypeOK
  BY DEF IInv
<1>3. QED
  BY <1>1, <1>2, Invariant, PTL DEF Spec, WorkShrinks
=============================================================================
