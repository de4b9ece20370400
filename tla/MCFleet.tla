------------------------------- MODULE MCFleet -------------------------------
(***************************************************************************)
(* Two certificates of one host, with a key each, that share the host's    *)
(* identity and so its rate limit.  The second one may be configured with  *)
(* names the policy does not grant, and has a larger renewal window than   *)
(* the profile.                                                            *)
(***************************************************************************)
EXTENDS Fleet

MCIdentities == {"alice"}

MCProfileNames == {"web"}

MCKeys == {"k1", "k2"}

MCNames == {"a", "b"}

WebProfile == [names |-> {"a", "b"}, renewBefore |-> 1]

MCProfiles == {WebProfile}

MCPolicies ==
  {[allows |-> [i \in MCIdentities |-> MCProfileNames],
    profiles |-> [p \in MCProfileNames |-> WebProfile]]}

Asks(k, n, cn) == [clientAuth |-> TRUE, identity |-> "alice", form |-> "ok",
                   profile |-> "web", names |-> n, cn |-> {cn}, key |-> k]

MCAgents == {"a1", "a2"}

MCConfigs ==
  [a \in MCAgents |->
     IF a = "a1" THEN {Asks("k1", {"a", "b"}, "a")}
     ELSE {Asks("k2", {"a", "b"}, "a"), Asks("k2", {"b"}, "b")}]

MCWindow == [a \in MCAgents |-> IF a = "a1" THEN 1 ELSE 2]

MCInputs == UNION {MCConfigs[a] : a \in MCAgents}
=============================================================================
