-------------------------------- MODULE Fleet --------------------------------
(***************************************************************************)
(* The broker and the agents that use it.  BrokerIssue lets any request    *)
(* arrive at any time; here a request is one that an agent sends when its  *)
(* certificate is missing or close to expiry, the agent waits for the      *)
(* answer with a timeout, tests what it gets and installs it.  Agent says  *)
(* what happens to the files of one host meanwhile; here an entry of       *)
(* "certificates" is one agent with one installed certificate.             *)
(*                                                                         *)
(* A tick of the clock is long beside a request: the timeouts of client    *)
(* and server are seconds, renewal windows are days.  So the clock moves   *)
(* only while no request is under way; BrokerIssue's own runs have no such *)
(* restriction.                                                            *)
(***************************************************************************)
EXTENDS BrokerIssue

CONSTANTS
  Agents,    \* entries of "certificates" in the agents' configurations
  Configs,   \* what each of them may be configured to ask for
  Window     \* renew_before of each of them

VARIABLES
  want,      \* the configured request of each agent
  asking,    \* the request whose answer an agent waits for, or NoRequest
  disk       \* the certificate it has installed, or NoCert

agentVars == <<want, asking, disk>>
fleetVars == <<vars, agentVars>>

(* GenerateServiceCSR makes the first of the names the common name.        *)
ASSUME FleetAssumption ==
  /\ Requests \subseteq Nat
  /\ Configs \in [Agents -> SUBSET Inputs]
  /\ \A a \in Agents : Configs[a] # {}
  /\ \A a \in Agents : \A in \in Configs[a] : in.cn \subseteq in.names
  /\ Window \in [Agents -> Nat]

AgentTypeOK ==
  /\ want \in [Agents -> Inputs]
  /\ \A a \in Agents : want[a] \in Configs[a]
  /\ asking \in [Agents -> Requests \cup {NoRequest}]
  /\ disk \in [Agents -> Certs \cup {NoCert}]

FleetInit ==
  /\ Init
  /\ want \in [Agents -> Inputs]
  /\ \A a \in Agents : want[a] \in Configs[a]
  /\ asking = [a \in Agents |-> NoRequest]
  /\ disk = [a \in Agents |-> NoCert]

-----------------------------------------------------------------------------
(* The agents.                                                             *)

(* pki.ExpiresWithin of the certificate on disk, or there is none.         *)
Due(a) == disk[a] # NoCert => disk[a].notAfter - now <= Window[a]

(* ensureServiceCertificate up to the call of the broker, which begins to  *)
(* handle the request.  Requests are numbered in the order they arrive.    *)
Ask(a) ==
  /\ asking[a] = NoRequest
  /\ Due(a)
  /\ \E r \in Requests :
       /\ \A q \in Requests : pc[q] = "idle" => r <= q
       /\ Authenticate(r)
       /\ input'[r] = want[a]
       /\ asking' = [asking EXCEPT ![a] = r]
  /\ UNCHANGED <<want, disk>>

(* CertificateMatchesPrivateKey and CertificateHasExactDNSNames.           *)
Accepts(a, c) == c.key = want[a].key /\ c.names = want[a].names

Usable(a, r) == status[r] = 200 /\ Accepts(a, result[r].cert)

(* BrokerClient.Issue returns: the agent installs what fits its key and    *)
(* its configuration.  A request that died with the broker has no status.  *)
Receive(a) ==
  /\ \E r \in Requests :
       /\ asking[a] = r
       /\ pc[r] = "done"
       /\ \/ Usable(a, r) /\ disk' = [disk EXCEPT ![a] = result[r].cert]
          \/ ~Usable(a, r) /\ UNCHANGED disk
  /\ asking' = [asking EXCEPT ![a] = NoRequest]
  /\ UNCHANGED <<vars, want>>

(* http.Client's timeout, or the agent dies: the broker's handler goes on  *)
(* with a cancelled context, unless it had answered already.               *)
GiveUp(a) ==
  /\ "disconnect" \in Faults
  /\ \E r \in Requests :
       /\ asking[a] = r
       /\ \/ Disconnect(r)
          \/ pc[r] = "done" /\ UNCHANGED vars
  /\ asking' = [asking EXCEPT ![a] = NoRequest]
  /\ UNCHANGED <<want, disk>>

(* The configuration is rendered again; the next run reads it. *)
Reconfigure(a) ==
  /\ asking[a] = NoRequest
  /\ \E in \in Configs[a] : want' = [want EXCEPT ![a] = in]
  /\ UNCHANGED <<vars, asking, disk>>

-----------------------------------------------------------------------------
(* The broker beside them.                                                 *)

(* A handler that has begun takes its next step. *)
Broker(r) == pc[r] # "idle" /\ Handle(r) /\ UNCHANGED agentVars

(* The watcher reads the policy again, or the process is restarted. *)
Operate == Reload \/ Restart

Quiet ==
  /\ \A a \in Agents : asking[a] = NoRequest
  /\ \A r \in Requests : pc[r] \in {"idle", "done"}

FleetNext ==
  \/ \E a \in Agents : Ask(a)
  \/ \E a \in Agents : Receive(a)
  \/ \E a \in Agents : GiveUp(a)
  \/ \E a \in Agents : Reconfigure(a)
  \/ \E r \in Requests : Broker(r)
  \/ Operate /\ UNCHANGED agentVars
  \/ Quiet /\ Tick /\ UNCHANGED agentVars

FleetSpec == FleetInit /\ [][FleetNext]_fleetVars

(* Handlers keep running (see Fairness), and an agent whose answer is      *)
(* there reads it.  Nobody has to ask.                                     *)
FleetFairness ==
  /\ \A r \in Requests : WF_fleetVars(Broker(r))
  /\ \A a \in Agents : WF_fleetVars(Receive(a))

FairFleetSpec == FleetSpec /\ FleetFairness

-----------------------------------------------------------------------------
(* Properties.                                                             *)

(* The windows fit: what the broker serves the agent from its cache, and   *)
(* what the CA issues, is nothing the agent would replace at once.         *)
(* renew_before of agents and of profiles are configured apart and nothing *)
(* compares them; both are 30 days by default.                             *)
WindowsFit(a) ==
  Window[a] <= prof[asking[a]].renewBefore /\ Window[a] < Lifetime

(* The certificate in the answer the agent is waiting for expires after    *)
(* the one the agent has. *)
Newer(a) == result[asking[a]].cert.notAfter > disk[a].notAfter

(* An agent whose window fits the profile its request was authorized with  *)
(* is given a certificate that expires after the one it wants to replace,  *)
(* whatever the broker's cache held, whatever windows the other agents     *)
(* have, however often policy and configuration changed in between and     *)
(* whoever ordered it: what GetValidCertificate takes for valid is outside *)
(* the window in which ExpiresWithin makes the agent ask.                  *)
AnswerIsNewer ==
  \A a \in Agents :
    /\ asking[a] # NoRequest /\ status[asking[a]] = 200 /\ disk[a] # NoCert
    /\ WindowsFit(a)
    => Newer(a)

(* The agent's own tests of an answer never fail: what comes with status   *)
(* 200 is for its key and for the names in its configuration, although the *)
(* broker compared them with a policy that may have changed and may have   *)
(* taken the certificate from its cache or from another request's order.   *)
AgentAccepts ==
  \A a \in Agents :
    asking[a] # NoRequest /\ status[asking[a]] = 200 =>
      Accepts(a, result[asking[a]].cert)

(* As long as CA, store and process work, the only way to lose a           *)
(* certificate the CA has issued is that the client of the request that    *)
(* ordered it went away: PutCertificate runs with that request's context.  *)
LostOnlyByDisconnect ==
  Faults \cap {"ca", "store", "restart"} = {} =>
    \A c \in orders :
      pc[c.serial] = "done" /\ c.serial \notin cancelled =>
        Holds(KeyOf(c.serial), c)

-----------------------------------------------------------------------------
(* What is inductive beside the broker's own invariant (FleetProofs).      *)

(* An agent that waits had to ask: its request is the one in its           *)
(* configuration, and its certificate is still in the window.              *)
AskInv ==
  \A a \in Agents : asking[a] # NoRequest =>
    /\ pc[asking[a]] # "idle"
    /\ input[asking[a]] = want[a]
    /\ Due(a)

(* A certificate that an agent may be given: outside the renewal window of *)
(* profile p, or with a whole lifetime left.                               *)
Fresh(c, p) == c.notAfter - now > p.renewBefore \/ c.notAfter - now >= Lifetime

(* What is on its way to an agent is fresh. *)
ResultInv ==
  \A r \in Requests :
    result[r] # NoResult /\ (pc[r] # "done" \/ \E a \in Agents : asking[a] = r) =>
      Fresh(result[r].cert, prof[r])

(* Agents ask for no common name that is not one of their names. *)
HonestInv ==
  \A r \in Requests : pc[r] # "idle" => input[r].cn \subseteq input[r].names

(* What a request has ordered is in its hands, or in the cache. *)
OrderInv ==
  Faults \cap {"ca", "store", "restart"} = {} =>
    \A c \in orders : c.serial \notin cancelled =>
      /\ pc[c.serial] \in {"put", "return", "respond", "done"}
      /\ pc[c.serial] = "put" => result[c.serial].cert = c
      /\ pc[c.serial] # "put" => Holds(KeyOf(c.serial), c)

(* The whole, with the broker's invariant as one part. *)
FleetInv == IInv /\ AgentTypeOK /\ AskInv /\ HonestInv /\ ResultInv /\ OrderInv
=============================================================================
