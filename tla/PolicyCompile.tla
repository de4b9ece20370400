---------------------------- MODULE PolicyCompile ----------------------------
(***************************************************************************)
(* What policy.Load makes of a policy file and what the result authorizes. *)
(* An operator edits the file, the broker compiles it, and if that         *)
(* succeeds the compiled policy replaces the one before (PolicyManager has *)
(* the timing of it).                                                      *)
(*                                                                         *)
(* Texts of the file keep the white space around them, since some of the   *)
(* code trims it and some does not.  Maps are functions.  Lists whose      *)
(* order and repetitions do not matter to the code are sets.  A hash is    *)
(* the value that is hashed: SHA-256 of its JSON form has no collisions.   *)
(***************************************************************************)
EXTENDS DnsName

CONSTANTS
  Texts,        \* texts without white space, the empty one included
  Rank,         \* their order as sort.Strings has it
  RawProfiles,  \* profiles an operator may write
  RawHosts,     \* hosts an operator may write
  RawNames,     \* keys of "profiles" and "hosts" that may be written
  Versions,     \* versions that may be written
  FirstFiles,   \* the file may be one of these at first
  CsrNames,     \* lists of DNS names that requests may come with
  MaxEdits,     \* bound on the edits
  NoPolicy      \* before the first policy is loaded

(* A string: its text, and whether white space is before and after it. *)
Strings == {s \in [left : {0, 1}, text : Texts, right : {0, 1}] :
              s.text = "" => s.right = 0}

Str(t) == [left |-> 0, text |-> t, right |-> 0]

ProfileType ==
  [type : Strings, dnsNames : SUBSET Names, challenge : Strings,
   credentials : Strings, renewBefore : Int]

HostType == [identity : Strings, profiles : SUBSET Strings]

ASSUME PolicyCompileAssumption ==
  /\ "" \in Texts
  /\ Rank \in [Texts -> Nat]
  /\ \A t, u \in Texts : Rank[t] = Rank[u] => t = u
  /\ RawProfiles \subseteq ProfileType
  /\ RawHosts \subseteq HostType
  /\ RawNames \subseteq Strings
  /\ Versions \subseteq Nat
  /\ FirstFiles \subseteq
       [version : Versions,
        profiles : UNION {[D -> RawProfiles] : D \in SUBSET RawNames},
        hosts : UNION {[D -> RawHosts] : D \in SUBSET RawNames}]
  /\ \A f \in FirstFiles : IsFiniteSet(DOMAIN f.profiles) /\ IsFiniteSet(DOMAIN f.hosts)
  /\ CsrNames \subseteq SUBSET Names
  /\ MaxEdits \in Nat

VARIABLES
  file,    \* the policy file, decoded: version, profiles, hosts
  edits,   \* edits made to it so far
  policy,  \* Manager.current
  loaded   \* the file that was compiled to it

vars == <<file, edits, policy, loaded>>

(* A map of the file has finitely many keys. *)
IsMap(m, values) ==
  /\ m \in [DOMAIN m -> values]
  /\ DOMAIN m \subseteq Strings
  /\ IsFiniteSet(DOMAIN m)

IsFile(f) ==
  /\ f = [version |-> f.version, profiles |-> f.profiles, hosts |-> f.hosts]
  /\ f.version \in Versions
  /\ IsMap(f.profiles, ProfileType)
  /\ IsMap(f.hosts, HostType)

TypeOK ==
  /\ IsFile(file)
  /\ IsFile(loaded)
  /\ edits \in 0..MaxEdits

-----------------------------------------------------------------------------
(* Compile.                                                                *)

CurrentVersion == 1

DefaultRenewBefore == 30

(* strings.TrimSpace *)
Trim(s) == Str(s.text)

IsEmpty(s) == Trim(s) = Str("")

Type(raw) == Trim(raw.type).text

(* validateProfileType *)
ValidateProfileType(raw) ==
  LET names == CanonicalList(raw.dnsNames)
  IN  /\ Trim(raw.challenge) = Str("dns-01")
      /\ \/ Type(raw) = "wildcard" /\ \A s \in names : IsValidWildcard(s)
         \/ Type(raw) = "multi_san" /\ \A s \in names : ~IsValidWildcard(s)

(* compileProfile succeeds. *)
ProfileOK(name, raw) ==
  /\ ~IsEmpty(name)
  /\ ListOK(raw.dnsNames)
  /\ raw.dnsNames # {}
  /\ ValidateProfileType(raw)
  /\ raw.renewBefore >= 0

(* A faulty variant of RenewBefore: the default is not filled in. *)
RenewBeforeAsWritten(raw) == raw.renewBefore

RenewBefore(raw) ==
  IF raw.renewBefore = 0 THEN DefaultRenewBefore ELSE raw.renewBefore

(* profileHashInput *)
ProfileHash(raw) ==
  [type |-> Trim(raw.type),
   dnsNames |-> CanonicalList(raw.dnsNames),
   acme |-> <<Trim(raw.challenge), Trim(raw.credentials)>>,
   renewBefore |-> RenewBefore(raw)]

CompileProfile(name, raw) ==
  [name |-> Trim(name),
   type |-> Trim(raw.type),
   dnsNames |-> CanonicalList(raw.dnsNames),
   acme |-> <<Trim(raw.challenge), Trim(raw.credentials)>>,
   renewBefore |-> RenewBefore(raw),
   hash |-> ProfileHash(raw)]

(* A faulty variant of HostOK: references are not looked up. *)
HostWithAnyProfile(name, raw, profiles) ==
  /\ ~IsEmpty(name)
  /\ ~IsEmpty(raw.identity)
  /\ raw.profiles # {}
  /\ \A p \in raw.profiles : ~IsEmpty(p)

(* compileHost succeeds.  A profile is found under the key as it is        *)
(* written, a reference is trimmed first.                                  *)
HostOK(name, raw, profiles) ==
  /\ ~IsEmpty(name)
  /\ ~IsEmpty(raw.identity)
  /\ raw.profiles # {}
  /\ \A p \in raw.profiles : ~IsEmpty(p) /\ Trim(p) \in DOMAIN profiles

CompileHost(name, raw) ==
  [name |-> Trim(name),
   identity |-> Trim(raw.identity),
   profiles |-> {Trim(p) : p \in raw.profiles}]

(* The order of sort.Strings: white space before everything else. *)
Precedes(s, t) ==
  \/ s.left > t.left
  \/ s.left = t.left /\ Rank[s.text] < Rank[t.text]
  \/ s.left = t.left /\ s.text = t.text /\ s.right < t.right

(* The i-th key is the one that i - 1 others precede. *)
SortedMapKeys(map) ==
  LET keys == DOMAIN map
      before(k) == Cardinality({x \in keys : Precedes(x, k)})
  IN  [i \in 1..Cardinality(keys) |-> CHOOSE k \in keys : before(k) = i - 1]

(* A faulty variant of PolicyHash: what a host may have is left out. *)
PolicyHashWithoutProfiles(version, profiles, hosts) ==
  LET ps == SortedMapKeys(profiles)
      hs == SortedMapKeys(hosts)
  IN  [version |-> version,
       profiles |-> [k \in DOMAIN ps |-> <<profiles[ps[k]].name, profiles[ps[k]].hash>>],
       hosts |-> [k \in DOMAIN hs |-> <<hosts[hs[k]].name, hosts[hs[k]].identity>>]]

(* computePolicyHash *)
PolicyHash(version, profiles, hosts) ==
  LET ps == SortedMapKeys(profiles)
      hs == SortedMapKeys(hosts)
  IN  [version |-> version,
       profiles |-> [k \in DOMAIN ps |-> <<profiles[ps[k]].name, profiles[ps[k]].hash>>],
       hosts |-> [k \in DOMAIN hs |-> hosts[hs[k]]]]

(* A faulty variant of DistinctIdentities: identities are compared as they *)
(* are written.                                                            *)
DistinctRawIdentities(hosts) ==
  \A h, k \in DOMAIN hosts : hosts[h].identity = hosts[k].identity => h = k

(* The test for a duplicate identity in Compile. *)
DistinctIdentities(hosts) ==
  \A h, k \in DOMAIN hosts :
    Trim(hosts[h].identity) = Trim(hosts[k].identity) => h = k

Compiles(f) ==
  /\ f.version \in {0, CurrentVersion}
  /\ DOMAIN f.profiles # {}
  /\ DOMAIN f.hosts # {}
  /\ \A n \in DOMAIN f.profiles : ProfileOK(n, f.profiles[n])
  /\ \A h \in DOMAIN f.hosts : HostOK(h, f.hosts[h], f.profiles)
  /\ DistinctIdentities(f.hosts)

(* The policy of a file that compiles. *)
Compile(f) ==
  LET profiles == [n \in DOMAIN f.profiles |-> CompileProfile(n, f.profiles[n])]
      hosts == [h \in DOMAIN f.hosts |-> CompileHost(h, f.hosts[h])]
  IN  [profiles |-> profiles,
       hostsByIdentity |->
         [i \in {hosts[h].identity : h \in DOMAIN hosts} |->
            hosts[CHOOSE h \in DOMAIN hosts : hosts[h].identity = i]],
       hash |-> PolicyHash(CurrentVersion, profiles, hosts)]

-----------------------------------------------------------------------------
(* CompiledPolicy.Authorize.                                               *)

SameNames(names, profile) == CanonicalList(names) = profile.dnsNames

Authorize(pol, identity, name, names) ==
  IF identity \notin DOMAIN pol.hostsByIdentity THEN "unknown identity"
  ELSE IF name \notin pol.hostsByIdentity[identity].profiles THEN "profile not allowed"
  ELSE IF name \notin DOMAIN pol.profiles THEN "unknown profile"
  ELSE IF ~ListOK(names) THEN "invalid csr"
  ELSE IF ~SameNames(names, pol.profiles[name]) THEN "names mismatch"
  ELSE "ok"

-----------------------------------------------------------------------------
(* The operator.                                                           *)

Init ==
  /\ file \in FirstFiles
  /\ edits = 0
  /\ policy = NoPolicy
  /\ loaded = file

Edits(f) ==
  /\ edits < MaxEdits
  /\ edits' = edits + 1
  /\ file' = f
  /\ UNCHANGED <<policy, loaded>>

With(map, n, v) == [m \in DOMAIN map \cup {n} |-> IF m = n THEN v ELSE map[m]]

Without(map, n) == [m \in DOMAIN map \ {n} |-> map[m]]

SetVersion == \E v \in Versions : Edits([file EXCEPT !.version = v])

SetProfile ==
  \E n \in RawNames, p \in RawProfiles : Edits([file EXCEPT !.profiles = With(@, n, p)])

RemoveProfile ==
  \E n \in DOMAIN file.profiles : Edits([file EXCEPT !.profiles = Without(@, n)])

SetHost ==
  \E h \in RawNames, v \in RawHosts : Edits([file EXCEPT !.hosts = With(@, h, v)])

RemoveHost ==
  \E h \in DOMAIN file.hosts : Edits([file EXCEPT !.hosts = Without(@, h)])

(* A character is typed somewhere in a DNS name. *)
Retype ==
  \E n \in DOMAIN file.profiles :
    \E s \in file.profiles[n].dnsNames : \E i \in 0..Len(s), c \in Chars :
      LET t == SubSeq(s, 1, i) \o <<c>> \o SubSeq(s, i + 1, Len(s))
      IN  Edits([file EXCEPT !.profiles[n].dnsNames = (@ \ {s}) \cup {t}])

(* Manager.Reload: Load and, unless it fails, Store. *)
Reload ==
  /\ Compiles(file)
  /\ policy' = Compile(file)
  /\ loaded' = file
  /\ UNCHANGED <<file, edits>>

Next ==
  \/ SetVersion
  \/ SetProfile
  \/ RemoveProfile
  \/ SetHost
  \/ RemoveHost
  \/ Retype
  \/ Reload

Spec == Init /\ [][Next]_vars

-----------------------------------------------------------------------------
(* Properties.                                                             *)

(* The policy in use is always the whole of a file that compiled, never a  *)
(* part of one that did not: a failed Reload leaves no trace.              *)
PolicyIsCompiled ==
  policy # NoPolicy => Compiles(loaded) /\ policy = Compile(loaded)

(* What the file says: some host with this identity lists the profile, and *)
(* the names are those of the profile that is written under exactly that   *)
(* name.                                                                   *)
Written(f, identity, name, names) ==
  \E h \in DOMAIN f.hosts :
    /\ Trim(f.hosts[h].identity) = identity
    /\ name \in {Trim(p) : p \in f.hosts[h].profiles}
    /\ name \in DOMAIN f.profiles
    /\ EqualSet(names, f.profiles[name].dnsNames)

(* Authorize grants exactly what the file says, whatever white space,      *)
(* capitals, padded keys, repeated or conflicting entries it has: nothing  *)
(* is granted through a host that another one with the same identity hides, *)
(* or through a profile whose key only looks like the reference.           *)
AuthorizesAsWritten ==
  policy # NoPolicy =>
    \A i \in Strings, n \in Strings, names \in CsrNames :
      Authorize(policy, i, n, names) = "ok" <=> Written(loaded, i, n, names)

(* ErrUnknownProfile, which Authorize can return once the host allows the  *)
(* profile, never happens: Compile has looked up every reference.          *)
ReferencesResolve ==
  policy # NoPolicy =>
    \A i \in Strings, n \in Strings, names \in CsrNames :
      Authorize(policy, i, n, names) # "unknown profile"

(* What Canonical accepts, and what it makes of it, is what the names mean *)
(* character by character.                                                 *)
CanonicalMeaning ==
  \A n \in DOMAIN file.profiles : \A s \in file.profiles[n].dnsNames :
    Meanings(s) = {Canonical(s)} \ {Invalid}

(* A wildcard is in the hands only of hosts whose profile is of type       *)
(* wildcard, and such a profile has nothing else.                          *)
WildcardsApart ==
  policy # NoPolicy =>
    \A n \in DOMAIN policy.profiles :
      LET p == policy.profiles[n]
      IN  \A s \in p.dnsNames : Where(s, "*") # {} <=> p.type = Str("wildcard")

(* An edit changes the hash of a profile, and so makes the broker forget   *)
(* its cached certificates, exactly if it changes what is issued or when   *)
(* it is renewed.  Writing the default out, other capitals, a final dot or *)
(* white space do not.                                                     *)
HashFollowsEffect ==
  [][\A n \in DOMAIN loaded.profiles \cap DOMAIN loaded'.profiles :
       policy # NoPolicy /\ policy' # NoPolicy =>
         (policy.profiles[n].hash = policy'.profiles[n].hash <=>
            LET a == loaded.profiles[n]
                b == loaded'.profiles[n]
            IN  /\ Type(a) = Type(b)
                /\ EqualSet(a.dnsNames, b.dnsNames)
                /\ Trim(a.challenge) = Trim(b.challenge)
                /\ Trim(a.credentials) = Trim(b.credentials)
                /\ \/ a.renewBefore = b.renewBefore
                   \/ {a.renewBefore, b.renewBefore} = {0, DefaultRenewBefore})]_vars

(* Everything a policy grants, and under which profile hash. *)
Grants(pol) ==
  {<<x[1], x[2], pol.profiles[x[2]].hash>> :
     x \in {y \in Strings \X Strings :
            /\ y[1] \in DOMAIN pol.hostsByIdentity
            /\ y[2] \in pol.hostsByIdentity[y[1]].profiles}}

(* What hash.go says of the hashes, that they "identify the policy/profile *)
(* version under which a certificate was issued": two policies in a row    *)
(* with the same hash grant the same, as long as no key of "profiles" has  *)
(* white space around it.  computePolicyHash sorts by the key and hashes   *)
(* the trimmed name, so <<" web", "web">> and <<"web", "web ">> would look *)
(* the same, and only one of each pair can be referred to.                 *)
HashIdentifiesPolicy ==
  [][/\ policy # NoPolicy
     /\ \A n \in DOMAIN policy.profiles \cup DOMAIN policy'.profiles : Trim(n) = n
     /\ policy.hash = policy'.hash
     => Grants(policy) = Grants(policy')]_vars
=============================================================================
