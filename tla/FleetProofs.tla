----------------------------- MODULE FleetProofs -----------------------------
(***************************************************************************)
(* Proofs about Fleet: the fleet is a broker in the sense of BrokerIssue,  *)
(* so what is proved there holds for it, and what the agents may rely on.  *)
(***************************************************************************)
EXTENDS Fleet, BrokerIssueProofs

-----------------------------------------------------------------------------
(* The fleet implements the broker.                                        *)

(* What the agents do is a request, a disconnect or nothing to the broker. *)
LEMMA FleetStep ==
  ASSUME [FleetNext]_fleetVars
  PROVE  [Next]_vars
<1>1. ASSUME NEW a \in Agents, Ask(a) PROVE Next
  BY <1>1 DEF Ask, Next, Handle
<1>2. ASSUME NEW a \in Agents, Receive(a) PROVE [Next]_vars
  BY <1>2 DEF Receive
<1>3. ASSUME NEW a \in Agents, GiveUp(a) PROVE [Next]_vars
  BY <1>3 DEF GiveUp, Next
<1>4. ASSUME NEW a \in Agents, Reconfigure(a) PROVE [Next]_vars
  BY <1>4 DEF Reconfigure
<1>5. ASSUME NEW r \in Requests, Broker(r) PROVE [Next]_vars
  BY <1>5 DEF Broker, Next
<1>6. CASE Operate \/ Tick
  BY <1>6 DEF Operate, Next
<1>7. CASE UNCHANGED fleetVars
  BY <1>7 DEF fleetVars
<1>8. QED
  BY <1>1, <1>2, <1>3, <1>4, <1>5, <1>6, <1>7 DEF FleetNext

(* A fleet is a broker: every behaviour of broker and agents together is a *)
(* behaviour of BrokerIssue, so its theorems hold of the fleet.            *)
THEOREM FleetImplementsBroker == FleetSpec => Spec
<1>1. FleetInit => Init
  BY DEF FleetInit
<1>2. [FleetNext]_fleetVars => [Next]_vars
  BY FleetStep
<1>3. QED
  BY <1>1, <1>2, PTL DEF FleetSpec, Spec

-----------------------------------------------------------------------------
(* What the broker's steps leave alone.                                    *)

(* A request is read once and ends once. *)
LEMMA RequestKept ==
  ASSUME TypeOK, [Next]_vars, NEW q \in Requests, pc[q] # "idle"
  PROVE  /\ pc'[q] # "idle"
         /\ input'[q] = input[q]
         /\ pc[q] = "done" => pc'[q] = "done"
<1> USE DEF reqVars, limVars
<1>1. ASSUME NEW r \in Requests, Handle(r)
      PROVE  /\ pc'[q] # "idle"
             /\ input'[q] = input[q]
             /\ pc[q] = "done" => pc'[q] = "done"
  BY <1>1 DEF TypeOK, Handle, Authenticate, DenyBadRequest, Authorize, Forbid,
     RecordAuthorized, CheckRateLimit, JoinFlight, GetValidCertificate, Issue,
     PutCertificate, Return, Flying, IssueFailed, RecordIssued, Continue, Answer, Goto
<1>2. QED
  BY <1>1 DEF Next, Disconnect, Reload, Tick, Restart, Dead, vars

LEMMA HandlersKeepTime ==
  ASSUME NEW r \in Requests, Handle(r)
  PROVE  now' = now
BY DEF Handle, Authenticate, DenyBadRequest, Authorize, Forbid,
   RecordAuthorized, CheckRateLimit, JoinFlight, GetValidCertificate, Issue,
   PutCertificate, Return, IssueFailed, RecordIssued

(* What a handler is given comes from the cache, from the CA or from the   *)
(* leader it waited for, whose cache key, and so profile, is its own.      *)
LEMMA ResultOrigin ==
  ASSUME IInv, NEW r \in Requests, Handle(r), NEW q \in Requests,
         result'[q] # NoResult, result'[q] # result[q]
  PROVE  /\ UNCHANGED prof
         /\ \/ Fresh(result'[q].cert, prof[q])
            \/ pc[r] = "return" /\ result'[q] = result[r] /\ prof[q] = prof[r]
<1> USE DEF reqVars, limVars
<1>0. TypeOK
  BY DEF IInv
<1>1. CASE GetValidCertificate(r)
  BY <1>0, <1>1 DEF GetValidCertificate, TypeOK, Valid, Fresh
<1>2. CASE Issue(r)
  <2>1. q = r /\ result'[q].cert = NewCert(r)
    BY <1>0, <1>2 DEF Issue, TypeOK
  <2>2. now \in Nat /\ Lifetime \in Nat
    BY <1>0, BrokerAssumption DEF TypeOK
  <2>3. result'[q].cert.notAfter = now + Lifetime
    BY <2>1 DEF NewCert
  <2>4. QED
    BY <1>2, <2>2, <2>3 DEF Fresh, Issue
<1>3. CASE PutCertificate(r)
  BY <1>0, <1>3 DEF PutCertificate, TypeOK
<1>4. CASE Return(r)
  <2>1. q \in Flying(r) /\ result'[q] = result[r]
    BY <1>0, <1>4 DEF Return, TypeOK
  <2>2. prof[q] = prof[r]
    BY <2>1 DEF Flying, KeyOf
  <2>3. QED
    BY <1>4, <2>1, <2>2 DEF Return
<1>5. QED
  BY <1>1, <1>2, <1>3, <1>4 DEF Handle, Authenticate, DenyBadRequest, Authorize, Forbid,
     RecordAuthorized, CheckRateLimit, JoinFlight, IssueFailed, RecordIssued

-----------------------------------------------------------------------------
(* The invariant of the agents.                                            *)

LEMMA AgentTypeStep ==
  ASSUME IInv, AgentTypeOK, [FleetNext]_fleetVars
  PROVE  AgentTypeOK'
<1>1. ASSUME NEW a \in Agents, Ask(a) PROVE AgentTypeOK'
  BY <1>1 DEF Ask, AgentTypeOK
<1>2. ASSUME NEW a \in Agents, Receive(a) PROVE AgentTypeOK'
  <2>1. PICK r \in Requests :
          \/ Usable(a, r) /\ disk' = [disk EXCEPT ![a] = result[r].cert]
          \/ ~Usable(a, r) /\ UNCHANGED disk
    BY <1>2 DEF Receive
  <2>2. Usable(a, r) => result[r].cert \in Certs
    BY DEF Usable, IInv, CertInv, TypeOK, Results
  <2>3. QED
    BY <1>2, <2>1, <2>2 DEF Receive, AgentTypeOK
<1>3. ASSUME NEW a \in Agents, GiveUp(a) PROVE AgentTypeOK'
  BY <1>3 DEF GiveUp, AgentTypeOK
<1>4. ASSUME NEW a \in Agents, Reconfigure(a) PROVE AgentTypeOK'
  <2>1. PICK in \in Configs[a] : want' = [want EXCEPT ![a] = in]
    BY <1>4 DEF Reconfigure
  <2>2. in \in Inputs
    BY FleetAssumption
  <2>3. QED
    BY <1>4, <2>1, <2>2 DEF Reconfigure, AgentTypeOK
<1>5. CASE UNCHANGED agentVars
  BY <1>5 DEF agentVars, AgentTypeOK
<1>6. QED
  BY <1>1, <1>2, <1>3, <1>4, <1>5 DEF FleetNext, Broker, fleetVars

(* Nobody answers, changes or re-reads the request of an agent that waits. *)
LEMMA AskStep ==
  ASSUME IInv, AgentTypeOK, AskInv, [FleetNext]_fleetVars
  PROVE  AskInv'
<1>0. TypeOK /\ [Next]_vars
  BY FleetStep DEF IInv
<1>a. \A q \in Requests : pc[q] # "idle" => pc'[q] # "idle" /\ input'[q] = input[q]
  BY <1>0, RequestKept
<1>1. ASSUME NEW a \in Agents, Ask(a) PROVE AskInv'
  <2>1. PICK r \in Requests :
          /\ Authenticate(r)
          /\ input'[r] = want[a]
          /\ asking' = [asking EXCEPT ![a] = r]
    BY <1>1 DEF Ask
  <2>2. pc[r] = "idle" /\ pc'[r] # "idle" /\ now' = now
    BY <1>0, <2>1 DEF Authenticate, Continue, Answer, Goto, TypeOK
  <2>3. Due(a) /\ UNCHANGED <<want, disk>>
    BY <1>1 DEF Ask
  <2>4. QED
    BY <1>a, <2>1, <2>2, <2>3 DEF AskInv, AgentTypeOK, Due
<1>2. ASSUME NEW a \in Agents, Receive(a) PROVE AskInv'
  <2>1. /\ asking' = [asking EXCEPT ![a] = NoRequest]
        /\ UNCHANGED <<now, pc, input, want>>
        /\ \A b \in Agents : b # a => disk'[b] = disk[b]
    BY <1>2 DEF Receive, AgentTypeOK, vars, reqVars
  <2>2. QED
    BY <2>1 DEF AskInv, AgentTypeOK, Due
<1>3. ASSUME NEW a \in Agents, GiveUp(a) PROVE AskInv'
  <2>1. /\ asking' = [asking EXCEPT ![a] = NoRequest]
        /\ UNCHANGED <<now, pc, input, want, disk>>
    BY <1>3 DEF GiveUp, Disconnect, vars, reqVars
  <2>2. QED
    BY <2>1 DEF AskInv, AgentTypeOK, Due
<1>4. ASSUME NEW a \in Agents, Reconfigure(a) PROVE AskInv'
  <2>1. /\ asking[a] = NoRequest
        /\ UNCHANGED <<now, pc, input, asking, disk>>
        /\ \A b \in Agents : b # a => want'[b] = want[b]
    BY <1>4 DEF Reconfigure, AgentTypeOK, vars, reqVars
  <2>2. QED
    BY <2>1 DEF AskInv, AgentTypeOK, Due
<1>5. ASSUME now' = now, UNCHANGED agentVars PROVE AskInv'
  BY <1>a, <1>5 DEF AskInv, AgentTypeOK, Due, agentVars
<1>6. CASE Quiet /\ UNCHANGED agentVars
  BY <1>6 DEF Quiet, AskInv, agentVars
<1>7. ASSUME NEW r \in Requests, Broker(r) PROVE AskInv'
  BY <1>5, <1>7, HandlersKeepTime DEF Broker
<1>8. QED
  BY <1>1, <1>2, <1>3, <1>4, <1>5, <1>6, <1>7
  DEF FleetNext, Operate, Reload, Restart, fleetVars, vars

(* Only agents ask, and what they are configured to ask for is honest.     *)
LEMMA HonestStep ==
  ASSUME IInv, AgentTypeOK, HonestInv, [FleetNext]_fleetVars
  PROVE  HonestInv'
<1>0. TypeOK /\ [Next]_vars
  BY FleetStep DEF IInv
<1>1. SUFFICES ASSUME NEW q \in Requests, pc'[q] # "idle"
               PROVE  input'[q].cn \subseteq input'[q].names
  BY DEF HonestInv
<1>2. CASE pc[q] # "idle"
  BY <1>0, <1>2, RequestKept DEF HonestInv
<1>3. CASE pc[q] = "idle"
  <2>1. PICK a \in Agents : Ask(a)
    <3>1. ASSUME NEW a \in Agents, Receive(a) \/ GiveUp(a) \/ Reconfigure(a)
          PROVE  pc' = pc
      BY <3>1 DEF Receive, GiveUp, Reconfigure, Disconnect, vars
    <3>2. ASSUME NEW r \in Requests, Broker(r) PROVE pc'[q] = "idle"
      BY <1>0, <1>3, <3>2 DEF Broker, TypeOK, Handle, Authenticate, DenyBadRequest,
         Authorize, Forbid, RecordAuthorized, CheckRateLimit, JoinFlight,
         GetValidCertificate, Issue, PutCertificate, Return, Flying, IssueFailed,
         RecordIssued, Continue, Answer, Goto
    <3>3. CASE Operate \/ Tick
      BY <1>1, <1>3, <3>3 DEF Operate, Reload, Restart, Dead, Tick
    <3>4. QED
      BY <1>1, <1>3, <3>1, <3>2, <3>3 DEF FleetNext, fleetVars, vars
  <2>2. PICK r \in Requests : Authenticate(r) /\ input'[r] = want[a]
    BY <2>1 DEF Ask
  <2>3. q = r
    BY <1>0, <1>1, <1>3, <2>2 DEF Authenticate, Continue, Answer, Goto, TypeOK
  <2>4. QED
    BY <2>2, <2>3, FleetAssumption DEF AgentTypeOK
<1>4. QED
  BY <1>2, <1>3

(* What is on its way to an agent stays as fresh as it was, because the    *)
(* clock waits for it.                                                     *)
LEMMA ResultStep ==
  ASSUME IInv, AgentTypeOK, AskInv, ResultInv, [FleetNext]_fleetVars
  PROVE  ResultInv'
<1> DEFINE Live(r) == pc[r] # "done" \/ \E a \in Agents : asking[a] = r
<1>0. TypeOK /\ CertInv /\ [Next]_vars
  BY FleetStep DEF IInv
<1>a. \A q \in Requests : pc[q] = "done" => pc'[q] = "done"
  BY <1>0, RequestKept
<1>b. SUFFICES ASSUME NEW q \in Requests, result'[q] # NoResult, Live(q)'
               PROVE  Fresh(result[q].cert, prof[q])'
  BY DEF ResultInv, Fresh
<1>c. ASSUME result'[q] = result[q], now' = now, Live(q)
      PROVE  Fresh(result[q].cert, prof[q])'
  <2>1. Fresh(result[q].cert, prof[q]) /\ prof[q] # NoProfile
    BY <1>0, <1>b, <1>c DEF ResultInv, CertInv, Fresh
  <2>2. prof'[q] = prof[q]
    BY <1>0, <2>1, KeyStable
  <2>3. QED
    BY <1>c, <2>1, <2>2 DEF Fresh
<1>1. ASSUME NEW a \in Agents, Ask(a)
      PROVE  Fresh(result[q].cert, prof[q])'
  <2>1. PICK r \in Requests :
          Authenticate(r) /\ asking' = [asking EXCEPT ![a] = r]
    BY <1>1 DEF Ask
  <2>2. pc[r] = "idle" /\ UNCHANGED <<now, result>>
    BY <2>1 DEF Authenticate
  <2>3. q # r
    BY <1>0, <1>b, <2>2 DEF CertInv
  <2>4. Live(q)
    BY <1>a, <1>b, <2>1, <2>3 DEF AgentTypeOK
  <2>5. QED
    BY <1>c, <2>2, <2>4
<1>2. ASSUME NEW a \in Agents, Receive(a) \/ GiveUp(a)
      PROVE  Fresh(result[q].cert, prof[q])'
  <2>1. /\ asking' = [asking EXCEPT ![a] = NoRequest]
        /\ UNCHANGED <<now, result>>
    BY <1>2 DEF Receive, GiveUp, Disconnect, vars, reqVars
  <2>2. Live(q)
    BY <1>a, <1>b, <2>1, BrokerAssumption DEF AgentTypeOK
  <2>3. QED
    BY <1>c, <2>1, <2>2
<1>3. ASSUME UNCHANGED asking, UNCHANGED <<now, result>>
      PROVE  Fresh(result[q].cert, prof[q])'
  <2>1. Live(q)
    BY <1>a, <1>b, <1>3
  <2>2. QED
    BY <1>c, <1>3, <2>1
<1>4. ASSUME NEW r \in Requests, Broker(r)
      PROVE  Fresh(result[q].cert, prof[q])'
  <2>1. now' = now /\ UNCHANGED asking
    BY <1>4, HandlersKeepTime DEF Broker, agentVars
  <2>2. CASE result'[q] = result[q]
    <3>1. Live(q)
      BY <1>a, <1>b, <2>1
    <3>2. QED
      BY <1>c, <2>1, <2>2, <3>1
  <2>3. CASE /\ pc[r] = "return" /\ result'[q] = result[r] /\ prof[q] = prof[r]
             /\ UNCHANGED prof
    <3>1. result[r] # NoResult /\ pc[r] # "done"
      BY <1>b, <2>3
    <3>2. Fresh(result[r].cert, prof[r])
      BY <3>1 DEF ResultInv, Fresh
    <3>3. QED
      BY <2>1, <2>3, <3>2 DEF Fresh
  <2>4. CASE Fresh(result'[q].cert, prof[q]) /\ UNCHANGED prof
    BY <2>1, <2>4 DEF Fresh
  <2>5. QED
    BY <1>4, <1>b, <2>1, <2>2, <2>3, <2>4, ResultOrigin DEF Broker
<1>5. ASSUME Quiet, Tick, UNCHANGED agentVars
      PROVE  FALSE
  <2>1. pc'[q] = pc[q] /\ result'[q] = result[q] /\ asking' = asking
    BY <1>5 DEF Tick, agentVars, reqVars
  <2>2. pc[q] = "idle"
    BY <1>5, <1>b, <2>1, BrokerAssumption DEF Quiet
  <2>3. QED
    BY <1>0, <1>b, <2>1, <2>2 DEF CertInv
<1>6. CASE UNCHANGED fleetVars
  BY <1>3, <1>6 DEF fleetVars, agentVars, vars, reqVars
<1>7. QED
  BY <1>1, <1>2, <1>3, <1>4, <1>5, <1>6
  DEF FleetNext, Reconfigure, Operate, Reload, Restart, agentVars, vars, reqVars

-----------------------------------------------------------------------------
(* What the CA has issued.                                                 *)

(* Only Issue adds to the orders: the certificate it hands to the handler, *)
(* unless the CA is at fault.                                              *)
LEMMA NewOrder ==
  ASSUME IInv, [Next]_vars, NEW c \in orders', c \notin orders, "ca" \notin Faults
  PROVE  /\ c.serial \in Requests
         /\ pc'[c.serial] = "put"
         /\ result'[c.serial].cert = c
<1>1. PICK r \in Requests : Issue(r)
  BY DEF Next, Handle, Authenticate, DenyBadRequest, Authorize, Forbid,
     RecordAuthorized, CheckRateLimit, JoinFlight, GetValidCertificate, Issue,
     PutCertificate, Return, IssueFailed, RecordIssued, Disconnect, Reload, Tick,
     Restart, vars, limVars, reqVars
<1>2. /\ orders' = orders \cup {NewCert(r)}
      /\ result' = [result EXCEPT ![r] = [cert |-> NewCert(r), cache |-> "miss"]]
      /\ pc' = [pc EXCEPT ![r] = "put"]
  BY <1>1 DEF Issue, Continue, Goto
<1>3. c = NewCert(r) /\ c.serial = r
  BY <1>2 DEF NewCert
<1>4. QED
  BY <1>2, <1>3 DEF IInv, TypeOK

(* A handler past the order goes to the write of the cache and on from     *)
(* there; as long as its client stays and the store works, that succeeds.  *)
LEMMA AfterOrder ==
  ASSUME IInv, [Next]_vars, NEW r \in Requests, pc[r] = "put", r \notin cancelled,
         Faults \cap {"ca", "store", "restart"} = {}
  PROVE  \/ pc'[r] = "put" /\ result'[r] = result[r]
         \/ pc'[r] = "return" /\ cache'[KeyOf(r)] = result[r].cert
<1> USE DEF reqVars, limVars
<1>0. TypeOK /\ RequestInv
  BY DEF IInv
<1>1. KeyOf(r) \in CacheKeys
  BY <1>0, KeyType DEF RequestInv, ProfileSteps, ClearedSteps, LeaderSteps
<1>2. CASE PutCertificate(r)
  BY <1>0, <1>1, <1>2 DEF PutCertificate, StoreFails, StoreRefuses, Upserted, Continue,
     Goto, TypeOK
<1>3. ASSUME NEW q \in Requests, Handle(q), ~PutCertificate(r)
      PROVE  pc'[r] = "put" /\ result'[r] = result[r]
  BY <1>0, <1>3 DEF TypeOK, Handle, Authenticate, DenyBadRequest, Authorize, Forbid,
     RecordAuthorized, CheckRateLimit, JoinFlight, GetValidCertificate, Issue,
     PutCertificate, Return, Flying, IssueFailed, RecordIssued, Continue, Answer, Goto
<1>4. QED
  BY <1>2, <1>3 DEF Next, Disconnect, Reload, Tick, Restart, vars

(* The steps after the write of the cache. *)
LEMMA AfterPut ==
  ASSUME IInv, [Next]_vars, NEW r \in Requests, pc[r] \in {"return", "respond", "done"}
  PROVE  pc'[r] \in {"return", "respond", "done"}
<1> USE DEF reqVars, limVars
<1>0. TypeOK
  BY DEF IInv
<1>1. ASSUME NEW q \in Requests, Handle(q) PROVE pc'[r] \in {"return", "respond", "done"}
  BY <1>0, <1>1 DEF TypeOK, Handle, Authenticate, DenyBadRequest, Authorize, Forbid,
     RecordAuthorized, CheckRateLimit, JoinFlight, GetValidCertificate, Issue,
     PutCertificate, Return, Flying, IssueFailed, RecordIssued, Continue, Answer, Goto
<1>2. QED
  BY <1>0, <1>1 DEF TypeOK, Next, Disconnect, Reload, Tick, Restart, Dead, vars

LEMMA CancelledGrows ==
  ASSUME [Next]_vars
  PROVE  cancelled \subseteq cancelled'
BY DEF Next, Handle, Authenticate, DenyBadRequest, Authorize, Forbid,
   RecordAuthorized, CheckRateLimit, JoinFlight, GetValidCertificate, Issue,
   PutCertificate, Return, IssueFailed, RecordIssued, Disconnect, Reload, Tick,
   Restart, vars, limVars, reqVars

(* An order whose client stays is kept. *)
LEMMA OrderStep ==
  ASSUME IInv, OrderInv, [Next]_vars
  PROVE  OrderInv'
<1>1. SUFFICES ASSUME Faults \cap {"ca", "store", "restart"} = {},
                      NEW c \in orders', c.serial \notin cancelled'
               PROVE  /\ pc'[c.serial] \in {"put", "return", "respond", "done"}
                      /\ pc'[c.serial] = "put" => result'[c.serial].cert = c
                      /\ pc'[c.serial] # "put" => Holds(KeyOf(c.serial), c)'
  BY DEF OrderInv
<1> DEFINE r == c.serial
<1>2. CASE c \notin orders
  BY <1>1, <1>2, NewOrder
<1>3. CASE c \in orders
  <2>1. /\ r \in Requests /\ r \notin cancelled /\ prof[r] # NoProfile
        /\ c.notAfter \in Nat
    BY <1>1, <1>3, CancelledGrows DEF IInv, TypeOK, CertInv, Certs
  <2>2. KeyOf(r)' = KeyOf(r)
    BY <2>1, KeyStable
  <2>3. KeyOf(r) \in CacheKeys
    BY <2>1, KeyType DEF IInv, RequestInv
  <2>4. CASE pc[r] = "put"
    <3>1. result[r].cert = c
      BY <1>1, <1>3, <2>1, <2>4 DEF OrderInv
    <3>2. c # NoCert
      BY <1>3, BrokerAssumption DEF IInv, TypeOK
    <3>3. QED
      BY <1>1, <2>1, <2>2, <2>4, <3>1, <3>2, AfterOrder DEF Holds
  <2>5. CASE pc[r] # "put"
    <3>1. pc[r] \in {"return", "respond", "done"} /\ Holds(KeyOf(r), c)
      BY <1>1, <1>3, <2>1, <2>5 DEF OrderInv
    <3>2. /\ cache'[KeyOf(r)] # NoCert
          /\ cache'[KeyOf(r)].notAfter >= cache[KeyOf(r)].notAfter
      BY <2>3, <3>1, CacheGrows DEF Holds
    <3>3. cache[KeyOf(r)].notAfter \in Nat /\ cache'[KeyOf(r)].notAfter \in Nat
      BY <2>3, <3>1, <3>2, TypeStep DEF IInv, TypeOK, Holds, Certs
    <3>4. cache'[KeyOf(r)].notAfter >= c.notAfter
      BY <2>1, <3>1, <3>2, <3>3 DEF Holds
    <3>5. QED
      BY <2>1, <2>2, <3>1, <3>2, <3>4, AfterPut DEF Holds
  <2>6. QED
    BY <2>4, <2>5
<1>4. QED
  BY <1>2, <1>3

-----------------------------------------------------------------------------
(* The theorems.                                                           *)

(* The invariant of broker and agents together. *)
THEOREM FleetInvariance == FleetSpec => []FleetInv
<1>1. FleetInit => FleetInv
  <2>1. SUFFICES ASSUME FleetInit PROVE FleetInv
    OBVIOUS
  <2>2. orders = {} /\ result = [r \in Requests |-> NoResult]
    BY <2>1 DEF FleetInit, Init
  <2>3. /\ asking = [a \in Agents |-> NoRequest]
        /\ disk = [a \in Agents |-> NoCert]
        /\ want \in [Agents -> Inputs]
        /\ \A a \in Agents : want[a] \in Configs[a]
        /\ pc = [r \in Requests |-> "idle"]
    BY <2>1 DEF FleetInit, Init
  <2>4. AgentTypeOK /\ AskInv /\ HonestInv
    BY <2>3 DEF AgentTypeOK, AskInv, HonestInv
  <2>5. ResultInv /\ OrderInv
    BY <2>2 DEF ResultInv, OrderInv
  <2>6. QED
    BY <2>1, <2>4, <2>5, IInvInit DEF FleetInit, FleetInv
<1>2. FleetInv /\ [FleetNext]_fleetVars => FleetInv'
  BY FleetStep, IInvStep, AgentTypeStep, AskStep, HonestStep, ResultStep, OrderStep DEF FleetInv
<1>3. QED
  BY <1>1, <1>2, PTL DEF FleetSpec

(* An agent whose window is no larger than its profile's, and smaller than *)
(* a certificate's lifetime, is never given what it would have to replace  *)
(* at once, for any policies, configurations, caches, faults and windows   *)
(* of the others.  An agent with a longer window may be.                   *)
THEOREM AnswersAreNewer == FleetSpec => []AnswerIsNewer
<1>1. FleetInv => AnswerIsNewer
  <2>1. SUFFICES ASSUME FleetInv, NEW a \in Agents, asking[a] # NoRequest,
                        status[asking[a]] = 200, disk[a] # NoCert, WindowsFit(a)
                 PROVE  result[asking[a]].cert.notAfter > disk[a].notAfter
    BY DEF AnswerIsNewer, Newer
  <2> DEFINE r == asking[a]
  <2>2. r \in Requests /\ result[r] # NoResult
    BY <2>1 DEF FleetInv, AgentTypeOK, IInv, CertInv
  <2>3. \/ result[r].cert.notAfter - now > prof[r].renewBefore
        \/ result[r].cert.notAfter - now >= Lifetime
    BY <2>1, <2>2 DEF FleetInv, ResultInv, Fresh
  <2>4. /\ disk[a].notAfter - now <= Window[a]
        /\ Window[a] <= prof[r].renewBefore /\ Window[a] < Lifetime
    BY <2>1 DEF FleetInv, AskInv, Due, WindowsFit
  <2>5. now \in Nat /\ Window[a] \in Nat /\ Lifetime \in Nat /\ prof[r].renewBefore \in Nat
    <3>1. prof[r] \in Profiles
      BY <2>1, <2>2 DEF FleetInv, IInv, TypeOK, CertInv
    <3>2. QED
      BY <2>1, <3>1, FleetAssumption, BrokerAssumption
      DEF FleetInv, IInv, TypeOK, ProfileType
  <2>6. result[r].cert.notAfter \in Nat /\ disk[a].notAfter \in Nat
    BY <2>1, <2>2 DEF IInv, TypeOK, Results, Certs, FleetInv, AgentTypeOK
  <2>7. QED
    BY <2>3, <2>4, <2>5, <2>6
<1>2. QED
  BY FleetInvariance, <1>1, PTL

(* The agent's tests of key and names never fail on a certificate the      *)
(* broker answers with.                                                    *)
THEOREM AgentsAccept == FleetSpec => []AgentAccepts
<1>1. FleetInv => AgentAccepts
  <2>1. SUFFICES ASSUME FleetInv, NEW a \in Agents, asking[a] # NoRequest,
                        status[asking[a]] = 200
                 PROVE  Accepts(a, result[asking[a]].cert)
    BY DEF AgentAccepts
  <2> DEFINE r == asking[a]
  <2>2. r \in Requests /\ result[r] # NoResult /\ input[r] = want[a]
    BY <2>1 DEF FleetInv, AgentTypeOK, AskInv, IInv, CertInv
  <2>3. prof[r] # NoProfile /\ IssuedFor(result[r].cert, KeyOf(r))
    BY <2>1, <2>2 DEF FleetInv, IInv, CertInv
  <2> DEFINE c == result[r].cert
  <2>4. /\ prof[r].names = input[r].names
        /\ c.serial \in Requests
        /\ prof[c.serial].names = input[c.serial].names
    BY <2>1, <2>2, <2>3 DEF FleetInv, IInv, RequestInv, IssuedFor, KeyOf, TypeOK, Certs
  <2>5. input[c.serial].cn \subseteq input[c.serial].names
    BY <2>1, <2>3, <2>4 DEF FleetInv, HonestInv, IInv, RequestInv, IssuedFor, KeyOf
  <2>6. prof[c.serial] = prof[r]
    BY <2>3 DEF IssuedFor, KeyOf
  <2>7. c.names = want[a].names /\ c.key = want[a].key
    BY <2>2, <2>3, <2>4, <2>5, <2>6 DEF IssuedFor, KeyOf
  <2>8. QED
    BY <2>7 DEF Accepts
<1>2. QED
  BY FleetInvariance, <1>1, PTL

(* Nothing but a client that goes away makes a working broker lose a       *)
(* certificate the CA has issued.                                          *)
THEOREM LossNeedsDisconnect == FleetSpec => []LostOnlyByDisconnect
<1>1. FleetInv => LostOnlyByDisconnect
  BY DEF FleetInv, OrderInv, LostOnlyByDisconnect
<1>2. QED
  BY FleetInvariance, <1>1, PTL

(* The agents of one host share its identity and its rate limit: in the    *)
(* first hour of a broker they cannot make it order more than the limits   *)
(* allow, however often they give up and ask again.                        *)
THEOREM FleetOrdersLimited == FleetSpec => []OrdersWithinLimit
BY FleetImplementsBroker, OrdersLimited, PTL
=============================================================================
