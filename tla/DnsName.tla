------------------------------- MODULE DnsName -------------------------------
(***************************************************************************)
(* internal/dnsname: the form in which DNS names are compared everywhere,  *)
(* in the policy, in CSRs, in certificates and in the agent's              *)
(* configuration.  A name is a sequence of characters.                     *)
(***************************************************************************)
EXTENDS Integers, Sequences, FiniteSets

CONSTANTS
  Plain,     \* lower-case letters and digits
  LowerOf,   \* characters that ToLower changes to one of Plain: the capitals,
             \* and the Kelvin sign, which is not ASCII and becomes a k
  Foreign,   \* the other characters above 127, spaces excepted
  MaxLabel   \* 63

(* " " is white space, "_" any other ASCII character. *)
Special == {" ", ".", "*", "-", "_"}

Chars == Plain \cup DOMAIN LowerOf \cup Foreign \cup Special

ASSUME DnsNameAssumption ==
  /\ LowerOf \in [DOMAIN LowerOf -> Plain]
  /\ Plain \cap (DOMAIN LowerOf \cup Foreign \cup Special) = {}
  /\ DOMAIN LowerOf \cap (Foreign \cup Special) = {}
  /\ Foreign \cap Special = {}
  /\ MaxLabel \in Nat \ {0}

Names == Seq(Chars)

(* What Canonical returns with an error; no name is empty. *)
Invalid == <<>>

-----------------------------------------------------------------------------
Least(S) == CHOOSE i \in S : \A k \in S : i <= k
Greatest(S) == CHOOSE i \in S : \A k \in S : k <= i

Where(s, c) == {i \in DOMAIN s : s[i] = c}

TrimSpace(s) ==
  LET kept == DOMAIN s \ Where(s, " ")
  IN  IF kept = {} THEN <<>> ELSE SubSeq(s, Least(kept), Greatest(kept))

TrimDot(s) ==
  IF s # <<>> /\ s[Len(s)] = "." THEN SubSeq(s, 1, Len(s) - 1) ELSE s

ToLower(s) ==
  [i \in DOMAIN s |-> IF s[i] \in DOMAIN LowerOf THEN LowerOf[s[i]] ELSE s[i]]

(* The first three lines of Canonical. *)
Cleaned(s) == ToLower(TrimDot(TrimSpace(s)))

(* strings.Split(s, "."), as a set: what lies between neighbouring dots. *)
Bounds(s) == {0, Len(s) + 1} \cup Where(s, ".")

Labels(s) ==
  {SubSeq(s, b[1] + 1, b[2] - 1) :
     b \in {c \in Bounds(s) \X Bounds(s) :
              /\ c[1] < c[2]
              /\ \A k \in Bounds(s) : k <= c[1] \/ c[2] <= k}}

(* The star is the whole first label, and two labels follow it. *)
IsValidWildcard(s) ==
  LET rest == SubSeq(s, 3, Len(s))
      dots == Where(rest, ".")
  IN  /\ Len(s) >= 2 /\ s[1] = "*" /\ s[2] = "."
      /\ Where(s, "*") = {1}
      /\ dots # {}
      /\ 1 \notin dots
      /\ Least(dots) + 1 \in DOMAIN rest \ dots

(* A faulty variant of LabelOK: only the first character is tested for "-". *)
LabelMayEndInHyphen(l) ==
  /\ Len(l) \in 1..MaxLabel
  /\ l # <<"*">> => l[1] # "-" /\ \A i \in DOMAIN l : l[i] \in Plain \cup {"-"}

(* The loop over the labels in Canonical. *)
LabelOK(l) ==
  /\ Len(l) \in 1..MaxLabel
  /\ l # <<"*">> => /\ l[1] # "-"
                    /\ l[Len(l)] # "-"
                    /\ \A i \in DOMAIN l : l[i] \in Plain \cup {"-"}

(* The tests of Canonical. *)
Valid(s) ==
  /\ s # <<>>
  /\ Where(s, " ") = {}
  /\ \A i \in DOMAIN s : s[i] \notin Foreign
  /\ Where(s, "*") # {} => IsValidWildcard(s)
  /\ Where(s, ".") # {}
  /\ \A l \in Labels(s) : LabelOK(l)

Canonical(s) == IF Valid(Cleaned(s)) THEN Cleaned(s) ELSE Invalid

(* CanonicalList sorts and removes duplicates, so that two lists are equal *)
(* exactly if they hold the same names: a list is the set of its names.    *)
(* It fails if one name is not valid.                                      *)
CanonicalList(names) == {Canonical(s) : s \in names}

ListOK(names) == Invalid \notin CanonicalList(names)

EqualSet(a, b) == ListOK(a) /\ ListOK(b) /\ CanonicalList(a) = CanonicalList(b)

-----------------------------------------------------------------------------
(* What the tests amount to, character by character and without labels:    *)
(* the reference Canonical is checked against.                             *)
WellFormed(s) ==
  LET n == Len(s)
      dots == Where(s, ".")
      stars == Where(s, "*")
      hyphens == Where(s, "-")
  IN  /\ \A i \in 1..n : s[i] \in Plain \cup {".", "-", "*"}
      /\ dots # {}
      /\ dots \cap {1, n} = {}
      /\ \A i \in dots : i + 1 \notin dots
      /\ hyphens \cap {1, n} = {}
      /\ \A i \in dots : {i - 1, i + 1} \cap hyphens = {}
      /\ stars \subseteq {1}
      /\ stars # {} => 2 \in dots /\ Cardinality(dots) >= 2
      /\ \A i \in 1..(n - MaxLabel) : \E k \in i..(i + MaxLabel) : k \in dots

(* Names that differ from r only in case, white space around them and a    *)
(* final dot mean r.                                                       *)
Meanings(s) ==
  {r \in {ToLower(SubSeq(s, i, j)) : i \in DOMAIN s, j \in DOMAIN s} :
     /\ WellFormed(r)
     /\ \E i \in DOMAIN s, j \in DOMAIN s :
          /\ r = ToLower(SubSeq(s, i, j))
          /\ \A k \in 1..(i - 1) : s[k] = " "
          /\ \A k \in (j + 1)..Len(s) : s[k] = " " \/ (k = j + 1 /\ s[k] = ".")}
=============================================================================
