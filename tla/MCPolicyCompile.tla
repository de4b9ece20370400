--------------------------- MODULE MCPolicyCompile ---------------------------
EXTENDS PolicyCompile, TLC

MCLowerOf == [c \in {"A", "KELVIN"} |-> "a"]

MCTexts == {"", "web", "api", "host", "wildcard", "multi_san", "dns-01"}

MCRank == [t \in MCTexts |->
  CASE t = "" -> 0 [] t = "api" -> 1 [] t = "dns-01" -> 2 [] t = "host" -> 3
    [] t = "multi_san" -> 4 [] t = "web" -> 5 [] t = "wildcard" -> 6]

Padded(t) == [left |-> 1, text |-> t, right |-> 0]

Name == <<"a", ".", "a">>
Capital == <<"A", ".", "a", ".">>
Wildcard == <<"*", ".", "a", ".", "a">>
Hyphen == <<"a", "-", "a", ".", "a">>

Profile(type, names, challenge, renew) ==
  [type |-> Str(type), dnsNames |-> names, challenge |-> Str(challenge),
   credentials |-> Str(""), renewBefore |-> renew]

Web == Profile("multi_san", {Name}, "dns-01", 0)
Wild == Profile("wildcard", {Wildcard}, "dns-01", 0)

MCRawProfiles ==
  {Web, Wild,
   Profile("multi_san", {Name, Capital}, "dns-01", 30),
   Profile("multi_san", {Hyphen}, "dns-01", -1)}

WebHost == [identity |-> Str("host"), profiles |-> {Str("web")}]

MCRawHosts ==
  {WebHost,
   [identity |-> Padded("host"), profiles |-> {Padded("web"), Str("api")}],
   [identity |-> Str("api"), profiles |-> {Str("api")}]}

MCFirstFiles ==
  {[version |-> 0, profiles |-> (Str("web") :> p), hosts |-> (Str("web") :> WebHost)] :
     p \in {Web, Wild}}

MCRawNames == {Str("web"), Padded("web"), Str("api")}

MCCsrNames == {{Name}, {Capital}, {Wildcard}, {Name, Hyphen}, {}, {<<"a">>}}
=============================================================================
