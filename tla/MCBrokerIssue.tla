---------------------------- MODULE MCBrokerIssue ----------------------------
(***************************************************************************)
(* An instance of BrokerIssue for TLC.  Two policies disagree on the names *)
(* of the one profile and on its renewal window; one of two identities may *)
(* use it.                                                                 *)
(***************************************************************************)
EXTENDS BrokerIssue, TLC

MCIdentities == {"alice", "bob"}

MCProfileNames == {"web"}

MCKeys == {"k1"}

MCNames == {"a", "b"}

ProfileA == [names |-> {"a"}, renewBefore |-> 1]

ProfileB == [names |-> {"b"}, renewBefore |-> 0]

MCProfiles == {ProfileA, ProfileB}

Granting(profile) ==
  [allows |-> [i \in MCIdentities |-> IF i = "alice" THEN {"web"} ELSE {}],
   profiles |-> [p \in MCProfileNames |-> profile]]

MCPolicies == {Granting(p) : p \in MCProfiles}

(* As the agent asks: the common name is one of the names. *)
Asks(i, n) == [clientAuth |-> TRUE, identity |-> i, form |-> "ok",
               profile |-> "web", names |-> {n}, cn |-> {n}, key |-> "k1"]

(* Well-formed requests, each authorized by one of the policies; the       *)
(* common name of the second is not one of its DNS names.                  *)
GoodInputs ==
  {Asks("alice", "a"), [Asks("alice", "b") EXCEPT !.cn = {"a"}]}

(* Requests the handler turns away before it looks at the policy or in it. *)
(* (A CSR that does not parse goes the way of a body that does not.)       *)
BadInputs ==
  {[Asks("alice", "a") EXCEPT !.clientAuth = FALSE],
   [Asks("alice", "a") EXCEPT !.form = "bad_request"],
   [Asks("alice", "a") EXCEPT !.form = "bad_names"],
   Asks("bob", "a")}

AllInputs == GoodInputs \cup BadInputs

Permutable == Permutations(Requests)
=============================================================================
