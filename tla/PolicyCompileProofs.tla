------------------------- MODULE PolicyCompileProofs -------------------------
(***************************************************************************)
(* Proofs about DnsName and PolicyCompile, for every alphabet, all texts   *)
(* and any files, requests and number of edits.                            *)
(***************************************************************************)
EXTENDS PolicyCompile, SequenceTheorems, FiniteSetTheorems, TLAPS

-----------------------------------------------------------------------------
(* DNS names.                                                              *)

LEMMA NameLength ==
  ASSUME NEW s \in Names, s # <<>>
  PROVE  Len(s) \in Nat /\ Len(s) > 0 /\ DOMAIN s = 1..Len(s)
<1>1. Len(s) \in Nat \ {0}
  BY EmptySeq DEF Names
<1>2. DOMAIN s = 1..Len(s)
  BY DEF Names
<1>3. QED
  BY <1>1, <1>2

LEMMA SmallestOf ==
  ASSUME NEW S \in SUBSET Nat, S # {}
  PROVE  \E i \in S : \A k \in S : i <= k
<1>1. IsWellFoundedOn(OpToRel(<, Nat), Nat)
  BY NatLessThanWellFounded
<1>2. PICK i \in S : \A k \in S : ~(<<k, i>> \in OpToRel(<, Nat))
  BY <1>1, WFMin
<1>3. \A k \in S : ~(k < i)
  BY <1>2 DEF OpToRel
<1>4. QED
  BY <1>3

LEMMA BoundsOfInterval ==
  ASSUME NEW n \in Nat, n > 0
  PROVE  Least(1..n) = 1 /\ Greatest(1..n) = n
<1>1. \E i \in 1..n : \A k \in 1..n : i <= k
  <2>1. 1 \in 1..n /\ \A k \in 1..n : 1 <= k
    OBVIOUS
  <2>2. QED
    BY <2>1
<1>2. \E i \in 1..n : \A k \in 1..n : k <= i
  <2>1. n \in 1..n /\ \A k \in 1..n : k <= n
    OBVIOUS
  <2>2. QED
    BY <2>1
<1>3. Least(1..n) \in 1..n /\ \A k \in 1..n : Least(1..n) <= k
  BY <1>1 DEF Least
<1>4. Greatest(1..n) \in 1..n /\ \A k \in 1..n : k <= Greatest(1..n)
  BY <1>2 DEF Greatest
<1>5. 1 \in 1..n /\ n \in 1..n
  OBVIOUS
<1>6. QED
  BY <1>3, <1>4, <1>5

(* A valid name does not end in a dot: its last label would be empty. *)
LEMMA NoFinalDot ==
  ASSUME NEW s \in Names, Valid(s)
  PROVE  s[Len(s)] # "."
<1>1. SUFFICES ASSUME s[Len(s)] = "." PROVE FALSE
  OBVIOUS
<1> DEFINE n == Len(s)
<1>2. n \in Nat /\ n > 0 /\ DOMAIN s = 1..n
  BY NameLength DEF Valid
<1>3. n \in Bounds(s) /\ n + 1 \in Bounds(s)
  <2>1. n \in DOMAIN s /\ s[n] = "."
    BY <1>1, <1>2
  <2>2. QED
    BY <2>1 DEF Bounds, Where
<1>4. \A k \in Bounds(s) : k \in Int
  BY <1>2 DEF Bounds, Where
<1>5. \A k \in Bounds(s) : k <= n \/ n + 1 <= k
  BY <1>2, <1>4
<1> DEFINE b == <<n, n + 1>>
<1>6. /\ b \in Bounds(s) \X Bounds(s)
      /\ b[1] < b[2]
      /\ \A k \in Bounds(s) : k <= b[1] \/ b[2] <= k
  BY <1>2, <1>3, <1>5
<1>7. SubSeq(s, b[1] + 1, b[2] - 1) \in Labels(s)
  BY <1>6 DEF Labels
<1>8. Len(SubSeq(s, b[1] + 1, b[2] - 1)) = 0
  BY <1>2 DEF Names
<1>9. LabelOK(SubSeq(s, b[1] + 1, b[2] - 1))
  BY <1>7 DEF Valid
<1>10. QED
  BY <1>8, <1>9, DnsNameAssumption DEF LabelOK

LEMMA CleanIsClean ==
  ASSUME NEW s \in Names, Valid(s), ToLower(s) = s
  PROVE  Cleaned(s) = s
<1>1. Len(s) \in Nat /\ Len(s) > 0 /\ DOMAIN s = 1..Len(s)
  BY NameLength DEF Valid
<1>2. DOMAIN s \ Where(s, " ") = 1..Len(s)
  BY <1>1 DEF Valid
<1>3. TrimSpace(s) = SubSeq(s, 1, Len(s))
  <2>1. Least(1..Len(s)) = 1 /\ Greatest(1..Len(s)) = Len(s)
    BY <1>1, BoundsOfInterval
  <2>2. 1..Len(s) # {}
    BY <1>1
  <2>3. QED
    BY <1>2, <2>1, <2>2 DEF TrimSpace
<1>4. SubSeq(s, 1, Len(s)) = s
  BY <1>1 DEF Names
<1>5. TrimDot(s) = s
  BY NoFinalDot DEF TrimDot
<1>6. QED
  BY <1>3, <1>4, <1>5 DEF Cleaned

LEMMA HasBounds ==
  ASSUME NEW n \in Nat, NEW S \in SUBSET (1..n), S # {}
  PROVE  Least(S) \in S /\ Greatest(S) \in S
<1>1. PICK i \in S : \A k \in S : i <= k
  <2>1. S \in SUBSET Nat
    OBVIOUS
  <2>2. QED
    BY <2>1, SmallestOf
<1>2. PICK j \in S : \A k \in S : k <= j
  <2> DEFINE D == {n - k : k \in S}
  <2>1. D \in SUBSET Nat /\ D # {}
    OBVIOUS
  <2>2. PICK d \in D : \A e \in D : d <= e
    BY <2>1, SmallestOf
  <2>3. PICK j \in S : d = n - j
    BY <2>2
  <2>4. \A k \in S : n - j <= n - k
    BY <2>2, <2>3
  <2>5. \A k \in S : k <= j
    BY <2>4
  <2>6. QED
    BY <2>5
<1>3. QED
  BY <1>1, <1>2 DEF Least, Greatest

LEMMA PartOfName ==
  ASSUME NEW s \in Names, NEW i \in 1..Len(s), NEW j \in 1..Len(s)
  PROVE  SubSeq(s, i, j) \in Names
<1>1. i \in Int /\ j \in Int /\ \A k \in i..j : s[k] \in Chars
  BY DEF Names
<1>2. QED
  BY <1>1, SubSeqProperties DEF Names

LEMMA CleanedIsName ==
  ASSUME NEW s \in Names
  PROVE  Cleaned(s) \in Names /\ ToLower(Cleaned(s)) = Cleaned(s)
<1>1. TrimSpace(s) \in Names
  <2> DEFINE kept == DOMAIN s \ Where(s, " ")
  <2>1. TrimSpace(s) = IF kept = {} THEN <<>>
                       ELSE SubSeq(s, Least(kept), Greatest(kept))
    BY DEF TrimSpace
  <2>2. Len(s) \in Nat /\ kept \in SUBSET (1..Len(s))
    <3>1. Len(s) \in Nat /\ DOMAIN s = 1..Len(s)
      BY DEF Names
    <3>2. kept \subseteq DOMAIN s
      OBVIOUS
    <3>3. QED
      BY <3>1, <3>2
  <2> HIDE DEF kept
  <2>3. CASE kept = {}
    BY <2>1, <2>3, EmptySeq DEF Names
  <2>4. CASE kept # {}
    <3>1. Least(kept) \in 1..Len(s) /\ Greatest(kept) \in 1..Len(s)
      BY <2>2, <2>4, HasBounds
    <3>2. QED
      BY <2>1, <2>4, <3>1, PartOfName
  <2>5. QED
    BY <2>3, <2>4
<1>2. TrimDot(TrimSpace(s)) \in Names
  BY <1>1 DEF TrimDot, Names
<1>3. ASSUME NEW t \in Names
      PROVE  ToLower(t) \in Names /\ ToLower(ToLower(t)) = ToLower(t)
  <2>1. Len(t) \in Nat /\ DOMAIN t = 1..Len(t)
    BY DEF Names
  <2>2. \A i \in 1..Len(t) : t[i] \in Chars
    BY <2>1 DEF Names
  <2>3. \A i \in 1..Len(t) : ToLower(t)[i] \in Chars \ DOMAIN LowerOf
    BY <2>1, <2>2, DnsNameAssumption DEF ToLower, Chars
  <2>4. ToLower(t) = [i \in 1..Len(t) |-> ToLower(t)[i]]
    BY <2>1 DEF ToLower
  <2>5. ToLower(t) \in Names
    BY <2>1, <2>3, <2>4 DEF Names
  <2>6. DOMAIN ToLower(t) = 1..Len(t)
    BY <2>4
  <2>7. ToLower(ToLower(t)) = [i \in 1..Len(t) |-> ToLower(t)[i]]
    BY <2>3, <2>6 DEF ToLower
  <2>8. QED
    BY <2>4, <2>5, <2>7
<1>4. QED
  BY <1>2, <1>3 DEF Cleaned

(* Canonical is idempotent.  A name passes through it in the agent, again  *)
(* in the broker, and once more in the certificate that comes back; that   *)
(* the comparisons on the way agree rests on this.                         *)
THEOREM CanonicalIsIdempotent ==
  ASSUME NEW s \in Names
  PROVE  Canonical(Canonical(s)) = Canonical(s)
<1>1. CASE Valid(Cleaned(s))
  <2>1. Canonical(s) = Cleaned(s)
    BY <1>1 DEF Canonical
  <2>2. Cleaned(Cleaned(s)) = Cleaned(s)
    BY <1>1, CleanedIsName, CleanIsClean
  <2>3. QED
    BY <1>1, <2>1, <2>2 DEF Canonical
<1>2. CASE ~Valid(Cleaned(s))
  <2>1. Canonical(s) = <<>>
    BY <1>2 DEF Canonical, Invalid
  <2>2. Cleaned(<<>>) = <<>>
    BY DEF Cleaned, TrimSpace, TrimDot, ToLower, Where
  <2>3. ~Valid(<<>>)
    BY DEF Valid
  <2>4. QED
    BY <2>1, <2>2, <2>3 DEF Canonical, Invalid
<1>3. QED
  BY <1>1, <1>2

-----------------------------------------------------------------------------
(* What a valid name is, character by character.                           *)

LEMMA LargestOf ==
  ASSUME NEW n \in Nat, NEW S \in SUBSET (0..n), S # {}
  PROVE  \E j \in S : \A k \in S : k <= j
<1> DEFINE D == {n - k : k \in S}
<1>1. D \in SUBSET Nat /\ D # {}
  <2>1. \A k \in S : n - k \in Nat
    OBVIOUS
  <2>2. \E k \in S : n - k \in D
    OBVIOUS
  <2>3. QED
    BY <2>1, <2>2
<1>2. PICK d \in D : \A e \in D : d <= e
  BY <1>1, SmallestOf
<1>3. PICK j \in S : d = n - j
  BY <1>2
<1>4. \A k \in S : n - j <= n - k
  BY <1>2, <1>3
<1>5. \A k \in S : k <= j
  BY <1>4
<1>6. QED
  BY <1>5

LEMMA NameType ==
  ASSUME NEW s \in Names
  PROVE  /\ Len(s) \in Nat
         /\ DOMAIN s = 1..Len(s)
         /\ \A i \in 1..Len(s) : s[i] \in Chars
BY DEF Names

(* A part of a name, any position of it. *)
LEMMA PartIs ==
  ASSUME NEW s \in Names, NEW a \in Nat, NEW b \in Nat, a < b, b <= Len(s) + 1
  PROVE  LET l == SubSeq(s, a + 1, b - 1)
             m == b - a - 1
         IN  /\ l = [k \in 1..m |-> s[a + k]]
             /\ m \in Nat /\ Len(l) = m /\ DOMAIN l = 1..m
             /\ l \in Names
             /\ \A k \in 1..m : l[k] = s[a + k]
<1> DEFINE l == SubSeq(s, a + 1, b - 1)
           m == b - a - 1
<1>1. Len(s) \in Nat /\ m \in Nat /\ a + 1 \in Int /\ b - 1 \in Int
  BY NameType
<1>2. \A i \in (a + 1)..(b - 1) : s[i] \in Chars
  BY <1>1, NameType
<1>3. /\ l \in Seq(Chars)
      /\ Len(l) = IF a + 1 <= b - 1 THEN (b - 1) - (a + 1) + 1 ELSE 0
      /\ \A i \in 1..((b - 1) - (a + 1) + 1) : l[i] = s[(a + 1) + i - 1]
  BY <1>1, <1>2, SubSeqProperties
<1> HIDE DEF l
<1>4. Len(l) = m
  BY <1>1, <1>3
<1>5. \A i \in 1..m : l[i] = s[a + i]
  <2>1. SUFFICES ASSUME NEW i \in 1..m PROVE l[i] = s[a + i]
    OBVIOUS
  <2>2. (b - 1) - (a + 1) + 1 = m /\ (a + 1) + i - 1 = a + i
    BY <1>1
  <2>3. QED
    BY <1>3, <2>2
<1>6. DOMAIN l = 1..m /\ l = [i \in 1..m |-> l[i]]
  BY <1>3, <1>4
<1>7. QED
  BY <1>1, <1>3, <1>4, <1>5, <1>6 DEF l, Names

LEMMA BoundsType ==
  ASSUME NEW s \in Names
  PROVE  /\ Bounds(s) \subseteq 0..(Len(s) + 1)
         /\ 0 \in Bounds(s) /\ Len(s) + 1 \in Bounds(s)
         /\ \A k \in 1..Len(s) : k \in Bounds(s) <=> s[k] = "."
<1>1. Len(s) \in Nat /\ DOMAIN s = 1..Len(s)
  BY NameType
<1>2. QED
  BY <1>1 DEF Bounds, Where

(* a and b are neighbouring bounds. *)
Neighbours(s, a, b) ==
  /\ a \in Bounds(s)
  /\ b \in Bounds(s)
  /\ a < b
  /\ \A k \in Bounds(s) : k <= a \/ b <= k

(* Every character but a dot is in a label. *)
LEMMA LabelAround ==
  ASSUME NEW s \in Names, NEW i \in 1..Len(s), s[i] # "."
  PROVE  \E a, b \in Bounds(s) : Neighbours(s, a, b) /\ a < i /\ i < b
<1> DEFINE n == Len(s)
           L == {k \in Bounds(s) : k < i}
           R == {k \in Bounds(s) : i < k}
<1>1. /\ n \in Nat /\ i \in Nat /\ 1 <= i /\ i <= n
      /\ Bounds(s) \subseteq 0..(n + 1) /\ 0 \in Bounds(s) /\ n + 1 \in Bounds(s)
      /\ i \notin Bounds(s)
  BY NameType, BoundsType
<1>2. PICK a \in L : \A k \in L : k <= a
  <2>1. L \in SUBSET (0..(n + 1)) /\ 0 \in L
    BY <1>1
  <2>2. n + 1 \in Nat /\ L # {}
    BY <1>1, <2>1
  <2> HIDE DEF L
  <2>3. QED
    BY <2>1, <2>2, LargestOf
<1>3. PICK b \in R : \A k \in R : b <= k
  <2>1. R \in SUBSET Nat /\ n + 1 \in R
    BY <1>1
  <2>2. QED
    BY <2>1, SmallestOf
<1>4. a < i /\ i < b /\ a \in Bounds(s) /\ b \in Bounds(s) /\ a \in Int /\ b \in Int
  BY <1>1
<1>5. ASSUME NEW k \in Bounds(s)
      PROVE  k <= a \/ b <= k
  <2>1. k \in Int /\ k # i
    BY <1>1
  <2>2. k < i \/ i < k
    BY <1>1, <2>1
  <2>3. QED
    BY <1>2, <1>3, <2>2
<1>6. Neighbours(s, a, b)
  BY <1>1, <1>4, <1>5 DEF Neighbours
<1>7. QED
  BY <1>4, <1>6

(* What lies between neighbouring bounds is a label, and nothing else is. *)
LEMMA LabelsAre ==
  ASSUME NEW s \in Names
  PROVE  /\ \A a, b \in Bounds(s) :
              Neighbours(s, a, b) => SubSeq(s, a + 1, b - 1) \in Labels(s)
         /\ \A l \in Labels(s) : \E a, b \in Bounds(s) :
              Neighbours(s, a, b) /\ l = SubSeq(s, a + 1, b - 1)
<1>1. ASSUME NEW a \in Bounds(s), NEW b \in Bounds(s), Neighbours(s, a, b)
      PROVE  SubSeq(s, a + 1, b - 1) \in Labels(s)
  <2> DEFINE c == <<a, b>>
  <2>1. /\ c \in Bounds(s) \X Bounds(s) /\ c[1] = a /\ c[2] = b
        /\ c[1] < c[2] /\ \A k \in Bounds(s) : k <= c[1] \/ c[2] <= k
    BY <1>1 DEF Neighbours
  <2> HIDE DEF c
  <2>2. SubSeq(s, c[1] + 1, c[2] - 1) \in Labels(s)
    BY <2>1 DEF Labels
  <2>3. QED
    BY <2>1, <2>2
<1>2. ASSUME NEW l \in Labels(s)
      PROVE  \E a, b \in Bounds(s) : Neighbours(s, a, b) /\ l = SubSeq(s, a + 1, b - 1)
  <2>1. PICK c \in Bounds(s) \X Bounds(s) :
          /\ c[1] < c[2]
          /\ \A k \in Bounds(s) : k <= c[1] \/ c[2] <= k
          /\ l = SubSeq(s, c[1] + 1, c[2] - 1)
    BY DEF Labels
  <2>2. c[1] \in Bounds(s) /\ c[2] \in Bounds(s)
    BY <2>1
  <2>3. Neighbours(s, c[1], c[2])
    BY <2>1, <2>2 DEF Neighbours
  <2>4. QED
    BY <2>1, <2>2, <2>3
<1>3. QED
  BY <1>1, <1>2

(* The loop's test of a label, in terms of the name it is part of. *)
GoodBetween(s, a, b) ==
  /\ b - a - 1 \in 1..MaxLabel
  /\ \/ b = a + 2 /\ s[a + 1] = "*"
     \/ /\ s[a + 1] # "-"
        /\ s[b - 1] # "-"
        /\ \A k \in (a + 1)..(b - 1) : s[k] \in Plain \cup {"-"}

LEMMA LabelMeans ==
  ASSUME NEW s \in Names, NEW a \in Bounds(s), NEW b \in Bounds(s), Neighbours(s, a, b)
  PROVE  LabelOK(SubSeq(s, a + 1, b - 1)) <=> GoodBetween(s, a, b)
<1> DEFINE l == SubSeq(s, a + 1, b - 1)
           m == b - a - 1
<1>1. /\ a \in Int /\ b \in Int /\ 0 <= a /\ a < b /\ b <= Len(s) + 1 /\ Len(s) \in Nat
      /\ DOMAIN s = 1..Len(s) /\ MaxLabel \in Nat
  BY NameType, BoundsType, DnsNameAssumption DEF Neighbours
<1>2. l = [k \in 1..m |-> s[a + k]]
  BY <1>1, PartIs
<1>3. Len(l) = m /\ DOMAIN l = 1..m /\ \A k \in 1..m : l[k] = s[a + k]
  BY <1>1, PartIs
<1>4. l = <<"*">> <=> b = a + 2 /\ s[a + 1] = "*"
  <2>1. ASSUME l = <<"*">> PROVE b = a + 2 /\ s[a + 1] = "*"
    <3>1. Len(<<"*">>) = 1 /\ <<"*">>[1] = "*"
      OBVIOUS
    <3>2. m = 1 /\ l[1] = "*"
      BY <1>3, <2>1, <3>1
    <3>3. QED
      BY <1>1, <1>3, <3>2
  <2>2. ASSUME b = a + 2, s[a + 1] = "*" PROVE l = <<"*">>
    <3>1. m = 1
      BY <1>1, <2>2
    <3>2. l = [k \in 1..1 |-> s[a + k]]
      BY <1>2, <3>1
    <3>3. \A k \in 1..1 : s[a + k] = "*"
      BY <2>2
    <3>4. <<"*">> = [k \in 1..1 |-> "*"]
      OBVIOUS
    <3>5. QED
      BY <3>2, <3>3, <3>4
  <2>3. QED
    BY <2>1, <2>2
<1> HIDE DEF l
<1>5. ASSUME m \in 1..MaxLabel
      PROVE  /\ l[1] = s[a + 1] /\ l[Len(l)] = s[b - 1]
             /\ (\A k \in DOMAIN l : l[k] \in Plain \cup {"-"})
                  <=> \A k \in (a + 1)..(b - 1) : s[k] \in Plain \cup {"-"}
  <2>1. 1 \in 1..m /\ m \in 1..m /\ a + m = b - 1
    BY <1>1, <1>5
  <2>2. l[1] = s[a + 1] /\ l[Len(l)] = s[b - 1]
    BY <1>3, <2>1
  <2>3. \A k \in (a + 1)..(b - 1) : k - a \in 1..m /\ a + (k - a) = k
    BY <1>1
  <2>4. \A k \in 1..m : a + k \in (a + 1)..(b - 1)
    BY <1>1
  <2>5. \A k \in (a + 1)..(b - 1) : l[k - a] = s[k]
    BY <1>3, <2>3
  <2>6. QED
    BY <1>3, <2>2, <2>3, <2>4, <2>5
<1>6. QED
  BY <1>3, <1>4, <1>5 DEF LabelOK, GoodBetween, l

(* The labels are good exactly if what is between neighbouring bounds is. *)
LEMMA LabelsGood ==
  ASSUME NEW s \in Names
  PROVE  (\A l \in Labels(s) : LabelOK(l)) <=>
           \A a, b \in Bounds(s) : Neighbours(s, a, b) => GoodBetween(s, a, b)
<1>1. ASSUME \A l \in Labels(s) : LabelOK(l),
             NEW a \in Bounds(s), NEW b \in Bounds(s), Neighbours(s, a, b)
      PROVE  GoodBetween(s, a, b)
  <2>1. SubSeq(s, a + 1, b - 1) \in Labels(s)
    BY <1>1, LabelsAre
  <2>2. QED
    BY <1>1, <2>1, LabelMeans
<1>2. ASSUME \A a, b \in Bounds(s) : Neighbours(s, a, b) => GoodBetween(s, a, b),
             NEW l \in Labels(s)
      PROVE  LabelOK(l)
  <2>1. PICK a \in Bounds(s), b \in Bounds(s) :
          Neighbours(s, a, b) /\ l = SubSeq(s, a + 1, b - 1)
    BY LabelsAre
  <2>2. GoodBetween(s, a, b)
    BY <1>2, <2>1
  <2>3. QED
    BY <2>1, <2>2, LabelMeans
<1>3. QED
  BY <1>1, <1>2

(* The characters that the tests tell apart differ. *)
LEMMA CharsApart ==
  /\ \A c \in Special : c \notin Plain /\ c \notin Foreign /\ c \notin DOMAIN LowerOf
  /\ \A c \in Plain : c \notin Foreign
  /\ {" ", ".", "*", "-"} \subseteq Special
BY DnsNameAssumption DEF Special

(* Where a character is in a name. *)
LEMMA DotsAre ==
  ASSUME NEW s \in Names, NEW c
  PROVE  /\ Where(s, c) \subseteq 1..Len(s)
         /\ \A i \in 1..Len(s) : i \in Where(s, c) <=> s[i] = c
BY NameType DEF Where

LEMMA DotsFinite ==
  ASSUME NEW s \in Names, NEW c
  PROVE  IsFiniteSet(Where(s, c)) /\ Cardinality(Where(s, c)) \in Nat
<1>1. Len(s) \in Int /\ 1 \in Int /\ Where(s, c) \in SUBSET (1..Len(s))
  BY NameType, DotsAre
<1>2. IsFiniteSet(1..Len(s))
  BY <1>1, FS_Interval
<1>3. IsFiniteSet(Where(s, c))
  BY <1>1, <1>2, FS_Subset
<1>4. QED
  BY <1>3, FS_CardinalityType

(* What IsValidWildcard calls rest. *)
LEMMA RestIs ==
  ASSUME NEW s \in Names, Len(s) >= 2
  PROVE  LET rest == SubSeq(s, 3, Len(s))
         IN  /\ rest \in Names /\ Len(rest) = Len(s) - 2
             /\ \A k \in 1..(Len(s) - 2) : rest[k] = s[2 + k]
<1> DEFINE rest == SubSeq(s, 3, Len(s))
           a == 2
           b == Len(s) + 1
<1>1. Len(s) \in Nat /\ a \in Nat /\ b \in Nat /\ a < b /\ b <= Len(s) + 1
  BY NameType
<1>2. a + 1 = 3 /\ b - 1 = Len(s) /\ b - a - 1 = Len(s) - 2
  BY <1>1
<1> HIDE DEF a, b
<1>3. /\ SubSeq(s, a + 1, b - 1) \in Names /\ Len(SubSeq(s, a + 1, b - 1)) = b - a - 1
      /\ \A k \in 1..(b - a - 1) : SubSeq(s, a + 1, b - 1)[k] = s[a + k]
  BY <1>1, PartIs
<1>4. /\ rest \in Names /\ Len(rest) = Len(s) - 2
      /\ \A k \in 1..(Len(s) - 2) : rest[k] = s[a + k]
  BY <1>2, <1>3
<1>5. QED
  BY <1>4 DEF a

(* In a name whose labels are good no two bounds are side by side, and a   *)
(* hyphen is next to none of them.                                         *)
LEMMA GoodApart ==
  ASSUME NEW s \in Names,
         \A a, b \in Bounds(s) : Neighbours(s, a, b) => GoodBetween(s, a, b)
  PROVE  /\ \A k \in Bounds(s) : k + 1 \notin Bounds(s)
         /\ \A i \in 1..Len(s) : s[i] = "-" => i - 1 \notin Bounds(s) /\ i + 1 \notin Bounds(s)
         /\ \A i \in 1..Len(s) : s[i] \in Plain \cup {".", "-", "*"}
<1>1. Len(s) \in Nat /\ Bounds(s) \subseteq 0..(Len(s) + 1) /\ \A k \in Bounds(s) : k \in Int
  BY NameType, BoundsType
<1>2. ASSUME NEW k \in Bounds(s), k + 1 \in Bounds(s)
      PROVE  FALSE
  <2>1. k \in Int /\ \A x \in Bounds(s) : x <= k \/ k + 1 <= x
    BY <1>1
  <2>2. Neighbours(s, k, k + 1)
    BY <1>2, <2>1 DEF Neighbours
  <2>3. (k + 1) - k - 1 \in 1..MaxLabel
    BY <1>2, <2>2 DEF GoodBetween
  <2>4. QED
    BY <2>1, <2>3, DnsNameAssumption
<1>3. ASSUME NEW i \in 1..Len(s), s[i] # "."
      PROVE  \E a, b \in Bounds(s) :
               /\ GoodBetween(s, a, b) /\ a < i /\ i < b /\ a \in Int /\ b \in Int
               /\ \A k \in Bounds(s) : k <= a \/ b <= k
  <2>1. PICK a \in Bounds(s), b \in Bounds(s) : Neighbours(s, a, b) /\ a < i /\ i < b
    BY <1>3, LabelAround
  <2>2. QED
    BY <1>1, <2>1 DEF Neighbours
<1>4. ASSUME NEW i \in 1..Len(s), s[i] = "-"
      PROVE  i - 1 \notin Bounds(s) /\ i + 1 \notin Bounds(s)
  <2>1. PICK a \in Bounds(s), b \in Bounds(s) :
          /\ GoodBetween(s, a, b) /\ a < i /\ i < b /\ a \in Int /\ b \in Int
          /\ \A k \in Bounds(s) : k <= a \/ b <= k
    BY <1>3, <1>4
  <2>2. i - 1 \in Bounds(s) => i = a + 1
    BY <1>1, <2>1
  <2>3. i + 1 \in Bounds(s) => i = b - 1
    BY <1>1, <2>1
  <2>4. i # a + 1 /\ i # b - 1
    <3>1. CASE b = a + 2 /\ s[a + 1] = "*"
      BY <1>4, <2>1, <3>1
    <3>2. CASE s[a + 1] # "-" /\ s[b - 1] # "-"
      BY <1>4, <3>2
    <3>3. QED
      BY <2>1, <3>1, <3>2 DEF GoodBetween
  <2>5. QED
    BY <2>2, <2>3, <2>4
<1>5. ASSUME NEW i \in 1..Len(s)
      PROVE  s[i] \in Plain \cup {".", "-", "*"}
  <2>1. CASE s[i] = "."
    BY <2>1
  <2>2. CASE s[i] # "."
    <3>1. PICK a \in Bounds(s), b \in Bounds(s) :
            GoodBetween(s, a, b) /\ a < i /\ i < b /\ a \in Int /\ b \in Int
      BY <1>3, <2>2
    <3>2. CASE b = a + 2 /\ s[a + 1] = "*"
      <4>1. i = a + 1
        BY <1>1, <3>1, <3>2
      <4>2. QED
        BY <3>2, <4>1
    <3>3. CASE \A k \in (a + 1)..(b - 1) : s[k] \in Plain \cup {"-"}
      <4>1. i \in (a + 1)..(b - 1)
        BY <1>1, <3>1
      <4>2. QED
        BY <3>3, <4>1
    <3>4. QED
      BY <3>1, <3>2, <3>3 DEF GoodBetween
  <2>3. QED
    BY <2>1, <2>2
<1>6. QED
  BY <1>2, <1>4, <1>5

LEMMA PairIsTwo ==
  ASSUME NEW a, NEW b, a # b
  PROVE  IsFiniteSet({a, b}) /\ Cardinality({a, b}) = 2
<1>1. IsFiniteSet({a}) /\ Cardinality({a}) = 1
  BY FS_Singleton
<1>2. b \notin {a} /\ {a} \cup {b} = {a, b}
  OBVIOUS
<1>3. IsFiniteSet({a} \cup {b}) /\ Cardinality({a} \cup {b}) = Cardinality({a}) + 1
  BY <1>1, <1>2, FS_AddElement, Zenon
<1>4. Cardinality({a, b}) = 1 + 1
  BY <1>1, <1>2, <1>3, Zenon
<1>5. QED
  BY <1>2, <1>3, <1>4

LEMMA ValidIsWellFormed ==
  ASSUME NEW s \in Names, Valid(s)
  PROVE  WellFormed(s)
<1> DEFINE n == Len(s)
           dots == Where(s, ".")
           stars == Where(s, "*")
           hyphens == Where(s, "-")
<1>1. /\ n \in Nat /\ n > 0 /\ DOMAIN s = 1..n
      /\ MaxLabel \in Nat
      /\ dots \subseteq 1..n /\ stars \subseteq 1..n /\ hyphens \subseteq 1..n
      /\ \A i \in 1..n : /\ i \in dots <=> s[i] = "."
                         /\ i \in stars <=> s[i] = "*"
                         /\ i \in hyphens <=> s[i] = "-"
  BY NameLength, DotsAre, DnsNameAssumption DEF Valid
<1>2. /\ Bounds(s) \subseteq 0..(n + 1) /\ 0 \in Bounds(s) /\ n + 1 \in Bounds(s)
      /\ \A k \in 1..n : k \in Bounds(s) <=> k \in dots
  BY <1>1, BoundsType
<1>3. \A a, b \in Bounds(s) : Neighbours(s, a, b) => GoodBetween(s, a, b)
  BY LabelsGood DEF Valid
<1>4. /\ \A k \in Bounds(s) : k + 1 \notin Bounds(s)
      /\ \A i \in 1..n : s[i] = "-" => i - 1 \notin Bounds(s) /\ i + 1 \notin Bounds(s)
      /\ \A i \in 1..n : s[i] \in Plain \cup {".", "-", "*"}
  BY <1>3, GoodApart
<1>5. dots # {} /\ (stars # {} => IsValidWildcard(s))
  BY DEF Valid
<1> HIDE DEF n, dots, stars, hyphens
<1>6. dots \cap {1, n} = {} /\ \A i \in dots : i + 1 \notin dots
  <2>1. 1 \notin dots
    <3>1. 0 + 1 \notin Bounds(s)
      BY <1>2, <1>4
    <3>2. QED
      BY <1>1, <1>2, <3>1
  <2>2. n \notin dots
    BY <1>1, <1>2, <1>4
  <2>3. \A i \in dots : i + 1 \notin dots
    BY <1>1, <1>2, <1>4
  <2>4. QED
    BY <2>1, <2>2, <2>3
<1>7. hyphens \cap {1, n} = {} /\ \A i \in dots : {i - 1, i + 1} \cap hyphens = {}
  <2>1. \A i \in hyphens : i \in 1..n /\ i - 1 \notin Bounds(s) /\ i + 1 \notin Bounds(s)
    BY <1>1, <1>4
  <2>2. 1 \notin hyphens /\ n \notin hyphens
    <3>1. 1 - 1 = 0
      OBVIOUS
    <3>2. QED
      BY <1>2, <2>1, <3>1
  <2>3. ASSUME NEW i \in dots
        PROVE  i - 1 \notin hyphens /\ i + 1 \notin hyphens
    <3>1. i \in Int /\ (i - 1) + 1 = i /\ (i + 1) - 1 = i /\ i \in Bounds(s)
      BY <1>1, <1>2
    <3>2. QED
      BY <2>1, <3>1
  <2>4. QED
    BY <2>2, <2>3
<1>8. ASSUME stars # {}
      PROVE  stars = {1} /\ 2 \in dots /\ Cardinality(dots) >= 2
  <2> DEFINE rest == SubSeq(s, 3, Len(s))
  <2>1. /\ Len(s) >= 2 /\ s[2] = "." /\ Where(s, "*") = {1}
        /\ Where(rest, ".") # {}
    BY <1>5, <1>8 DEF IsValidWildcard
  <2>2. /\ rest \in Names /\ Len(rest) = n - 2
        /\ \A k \in 1..(n - 2) : rest[k] = s[2 + k]
    BY <2>1, RestIs DEF n
  <2> HIDE DEF rest
  <2>3. PICK d \in 1..(n - 2) : rest[d] = "."
    BY <2>1, <2>2, DotsAre
  <2>4. 2 + d \in 1..n /\ 2 \in 1..n /\ 2 + d # 2
    BY <1>1
  <2>5. 2 \in dots /\ 2 + d \in dots
    BY <1>1, <2>1, <2>2, <2>3, <2>4
  <2>6. IsFiniteSet({2, 2 + d}) /\ Cardinality({2, 2 + d}) = 2
    BY <2>4, PairIsTwo
  <2>7. IsFiniteSet(dots) /\ Cardinality(dots) \in Nat
    BY <1>1, DotsFinite DEF dots
  <2>8. Cardinality({2, 2 + d}) <= Cardinality(dots)
    BY <2>5, <2>7, FS_Subset
  <2>9. QED
    BY <2>1, <2>5, <2>6, <2>7, <2>8 DEF stars
<1>9. ASSUME NEW i \in 1..(n - MaxLabel)
      PROVE  \E k \in i..(i + MaxLabel) : k \in dots
  <2>1. i \in 1..n /\ i \in i..(i + MaxLabel)
    BY <1>1
  <2>2. CASE s[i] = "."
    BY <1>1, <2>1, <2>2
  <2>3. CASE s[i] # "."
    <3>1. PICK a \in Bounds(s), b \in Bounds(s) : Neighbours(s, a, b) /\ a < i /\ i < b
      BY <2>1, <2>3, LabelAround DEF n
    <3>2. b - a - 1 \in 1..MaxLabel
      BY <1>3, <3>1 DEF GoodBetween
    <3>3. a \in Int /\ b \in Int
      BY <1>1, <1>2
    <3>4. b \in i..(i + MaxLabel) /\ b \in 1..n
      BY <1>1, <2>1, <3>1, <3>2, <3>3
    <3>5. QED
      BY <1>2, <3>4
  <2>4. QED
    BY <2>2, <2>3
<1>10. QED
  <2>1. stars \subseteq {1} /\ (stars # {} => 2 \in dots /\ Cardinality(dots) >= 2)
    BY <1>8
  <2>2. QED
    BY <1>4, <1>5, <1>6, <1>7, <1>9, <2>1 DEF WellFormed, n, dots, stars, hyphens

LEMMA WellFormedLabels ==
  ASSUME NEW s \in Names, WellFormed(s),
         NEW a \in Bounds(s), NEW b \in Bounds(s), Neighbours(s, a, b)
  PROVE  GoodBetween(s, a, b)
<1> DEFINE n == Len(s)
           dots == Where(s, ".")
           stars == Where(s, "*")
           hyphens == Where(s, "-")
<1>1. /\ n \in Nat /\ MaxLabel \in Nat
      /\ dots \subseteq 1..n
      /\ \A i \in 1..n : /\ i \in dots <=> s[i] = "."
                         /\ i \in stars <=> s[i] = "*"
                         /\ i \in hyphens <=> s[i] = "-"
  BY NameType, DotsAre, DnsNameAssumption
<1>2. /\ a \in 0..(n + 1) /\ b \in 0..(n + 1) /\ a < b
      /\ \A k \in 1..n : k \in Bounds(s) <=> k \in dots
      /\ \A k \in Bounds(s) : k <= a \/ b <= k
  BY <1>1, BoundsType DEF Neighbours
<1>3. /\ \A i \in 1..n : s[i] \in Plain \cup {".", "-", "*"}
      /\ dots # {} /\ dots \cap {1, n} = {} /\ \A i \in dots : i + 1 \notin dots
      /\ hyphens \cap {1, n} = {} /\ \A i \in dots : {i - 1, i + 1} \cap hyphens = {}
      /\ stars \subseteq {1} /\ (stars # {} => 2 \in dots)
      /\ \A i \in 1..(n - MaxLabel) : \E k \in i..(i + MaxLabel) : k \in dots
  BY DEF WellFormed
<1> HIDE DEF n, dots, stars, hyphens
<1>4. n > 1 /\ a \in Int /\ b \in Int /\ 0 <= a /\ a <= n /\ 1 <= b /\ b <= n + 1
  <2>1. \E d \in 1..n : d # 1 /\ d # n
    BY <1>1, <1>3
  <2>2. n > 1
    BY <1>1, <2>1
  <2>3. QED
    BY <1>1, <1>2, <2>2
<1>5. (a > 0 => a \in dots) /\ (b <= n => b \in dots)
  <2>1. a > 0 => a \in 1..n
    BY <1>1, <1>4
  <2>2. b <= n => b \in 1..n
    BY <1>1, <1>4
  <2>3. QED
    BY <1>2, <2>1, <2>2
<1>6. b # a + 1
  <2>1. CASE a = 0
    <3>1. b = a + 1 => b = 1 /\ b <= n
      BY <1>1, <1>4, <2>1
    <3>2. QED
      BY <1>3, <1>5, <3>1
  <2>2. CASE a > 0 /\ b <= n
    BY <1>3, <1>5, <2>2
  <2>3. CASE a > 0 /\ b = n + 1
    <3>1. b = a + 1 => a = n
      BY <1>1, <1>4, <2>3
    <3>2. QED
      BY <1>3, <1>5, <2>3, <3>1
  <2>4. QED
    BY <1>1, <1>4, <2>1, <2>2, <2>3
<1>7. \A k \in (a + 1)..(b - 1) : k \in 1..n /\ k \notin dots
  <2>1. SUFFICES ASSUME NEW k \in (a + 1)..(b - 1)
                 PROVE  k \in 1..n /\ k \notin dots
    OBVIOUS
  <2>2. k \in 1..n /\ ~(k <= a) /\ ~(b <= k)
    BY <1>1, <1>4
  <2>3. QED
    BY <1>2, <2>2
<1>8. b - a - 1 \in 1..MaxLabel
  <2>1. SUFFICES ASSUME b - a - 1 > MaxLabel PROVE FALSE
    BY <1>1, <1>4, <1>6, <1>2
  <2>2. a + 1 \in 1..(n - MaxLabel)
    BY <1>1, <1>4, <2>1
  <2>3. PICK k \in (a + 1)..((a + 1) + MaxLabel) : k \in dots
    BY <1>3, <2>2
  <2>4. k \in (a + 1)..(b - 1)
    BY <1>1, <1>4, <2>1
  <2>5. QED
    BY <1>7, <2>3, <2>4
<1>9. a + 1 \in (a + 1)..(b - 1) /\ b - 1 \in (a + 1)..(b - 1)
  BY <1>1, <1>4, <1>8
<1>10. s[a + 1] # "-" /\ s[b - 1] # "-"
  <2>1. a + 1 \in 1..n /\ b - 1 \in 1..n
    BY <1>7, <1>9
  <2>2. a + 1 \notin hyphens
    <3>1. CASE a = 0
      BY <1>3, <3>1
    <3>2. CASE a > 0
      BY <1>3, <1>5, <3>2
    <3>3. QED
      BY <1>4, <3>1, <3>2
  <2>3. b - 1 \notin hyphens
    <3>1. CASE b = n + 1
      <4>1. b - 1 = n
        BY <1>1, <3>1
      <4>2. QED
        BY <1>3, <4>1
    <3>2. CASE b <= n
      BY <1>3, <1>5, <3>2
    <3>3. QED
      BY <1>1, <1>4, <3>1, <3>2
  <2>4. QED
    BY <1>1, <2>1, <2>2, <2>3
<1>11. ASSUME NEW x \in (a + 1)..(b - 1), s[x] = "*"
       PROVE  b = a + 2 /\ s[a + 1] = "*"
  <2>1. x \in stars
    BY <1>1, <1>7, <1>11
  <2>2. x = 1 /\ 2 \in dots
    BY <1>3, <2>1
  <2>3. a = 0
    BY <1>4, <2>2
  <2>4. 2 \notin (a + 1)..(b - 1)
    BY <1>7, <2>2
  <2>5. b = 2
    BY <1>4, <1>9, <2>3, <2>4
  <2>6. QED
    BY <1>11, <2>2, <2>3, <2>5
<1>12. CASE \E x \in (a + 1)..(b - 1) : s[x] = "*"
  BY <1>8, <1>11, <1>12 DEF GoodBetween
<1>13. CASE \A x \in (a + 1)..(b - 1) : s[x] # "*"
  <2>1. \A x \in (a + 1)..(b - 1) : s[x] \in Plain \cup {"-"}
    BY <1>1, <1>3, <1>7, <1>13
  <2>2. QED
    BY <1>8, <1>10, <2>1 DEF GoodBetween
<1>14. QED
  BY <1>12, <1>13

LEMMA WellFormedWildcard ==
  ASSUME NEW s \in Names, WellFormed(s), Where(s, "*") # {}
  PROVE  IsValidWildcard(s)
<1> DEFINE n == Len(s)
           dots == Where(s, ".")
           stars == Where(s, "*")
           rest == SubSeq(s, 3, n)
           later == Where(rest, ".")
<1>1. /\ n \in Nat
      /\ dots \subseteq 1..n /\ stars \subseteq 1..n
      /\ \A i \in 1..n : (i \in dots <=> s[i] = ".") /\ (i \in stars <=> s[i] = "*")
      /\ IsFiniteSet(dots)
  BY NameType, DotsAre, DotsFinite
<1>2. /\ dots \cap {1, n} = {} /\ \A i \in dots : i + 1 \notin dots
      /\ stars = {1} /\ 2 \in dots /\ Cardinality(dots) >= 2
  BY DEF WellFormed
<1>3. n >= 2 /\ s[1] = "*" /\ s[2] = "."
  BY <1>1, <1>2
<1>4. /\ rest \in Names /\ Len(rest) = n - 2 /\ DOMAIN rest = 1..(n - 2)
      /\ \A k \in 1..(n - 2) : rest[k] = s[2 + k]
  <2>1. /\ rest \in Names /\ Len(rest) = n - 2
        /\ \A k \in 1..(n - 2) : rest[k] = s[2 + k]
    BY <1>3, RestIs
  <2>2. DOMAIN rest = 1..Len(rest)
    BY <2>1, NameType
  <2>3. QED
    BY <2>1, <2>2
<1> HIDE DEF n, dots, stars, rest
<1>5. later \subseteq 1..(n - 2) /\ \A k \in 1..(n - 2) : k \in later <=> 2 + k \in dots
  <2>1. later \subseteq 1..(n - 2) /\ \A k \in 1..(n - 2) : k \in later <=> rest[k] = "."
    BY <1>4, DotsAre
  <2>2. \A k \in 1..(n - 2) : 2 + k \in 1..n
    BY <1>1
  <2>3. QED
    BY <1>1, <1>4, <2>1, <2>2
<1> HIDE DEF later
<1>6. later # {}
  <2>1. dots # {2}
    <3>1. Cardinality({2}) = 1
      BY FS_Singleton
    <3>2. QED
      BY <1>2, <3>1
  <2>2. PICK d \in dots : d # 2
    BY <1>2, <2>1
  <2>3. d - 2 \in 1..(n - 2) /\ 2 + (d - 2) = d
    BY <1>1, <1>2, <2>2
  <2>4. QED
    BY <1>5, <2>2, <2>3
<1>7. 1 \notin later
  <2>1. 2 + 1 \notin dots
    BY <1>2
  <2>2. QED
    BY <1>5, <2>1
<1>8. Least(later) + 1 \in DOMAIN rest \ later
  <2>1. Least(later) \in later
    <3>1. n - 2 \in Nat
      BY <1>1, <1>3
    <3>2. QED
      BY <1>5, <1>6, <3>1, HasBounds
  <2> DEFINE m == Least(later)
  <2> HIDE DEF m
  <2>2. m \in 1..(n - 2) /\ 2 + m \in dots
    BY <1>5, <2>1 DEF m
  <2>3. 2 + m # n /\ (2 + m) + 1 \notin dots
    BY <1>2, <2>2
  <2>4. m + 1 \in 1..(n - 2) /\ 2 + (m + 1) = (2 + m) + 1
    BY <1>1, <2>2, <2>3
  <2>5. m + 1 \notin later
    BY <1>5, <2>3, <2>4
  <2>6. QED
    BY <1>4, <2>4, <2>5 DEF m
<1>9. QED
  BY <1>2, <1>3, <1>6, <1>7, <1>8 DEF IsValidWildcard, n, stars, rest, later

(* What Canonical's tests amount to. *)
LEMMA ValidMeans ==
  ASSUME NEW s \in Names
  PROVE  Valid(s) <=> WellFormed(s)
<1>1. ASSUME WellFormed(s) PROVE Valid(s)
  <2>1. /\ \A i \in 1..Len(s) : s[i] \in Plain \cup {".", "-", "*"}
        /\ Where(s, ".") # {}
    BY <1>1 DEF WellFormed
  <2>2. DOMAIN s = 1..Len(s)
    BY NameType
  <2>3. s # <<>>
    BY <2>1 DEF Where
  <2>4. \A i \in DOMAIN s : s[i] # " " /\ s[i] \notin Foreign
    BY <2>1, <2>2, CharsApart
  <2>5. \A l \in Labels(s) : LabelOK(l)
    BY <1>1, WellFormedLabels, LabelsGood
  <2>6. QED
    BY <1>1, <2>1, <2>3, <2>4, <2>5, WellFormedWildcard DEF Valid, Where
<1>2. QED
  BY <1>1, ValidIsWellFormed

(* ToLower keeps the length of a name and everything that is no letter. *)
LEMMA LowerKeeps ==
  ASSUME NEW t \in Names
  PROVE  /\ ToLower(t) \in Names
         /\ Len(ToLower(t)) = Len(t)
         /\ \A i \in 1..Len(t), c \in Special : ToLower(t)[i] = c <=> t[i] = c
<1>1. Len(t) \in Nat /\ DOMAIN t = 1..Len(t) /\ \A i \in 1..Len(t) : t[i] \in Chars
  BY NameType
<1>2. \A i \in 1..Len(t) :
        ToLower(t)[i] = IF t[i] \in DOMAIN LowerOf THEN LowerOf[t[i]] ELSE t[i]
  BY <1>1 DEF ToLower
<1>3. \A x \in DOMAIN LowerOf : LowerOf[x] \in Plain
  BY DnsNameAssumption
<1>4. \A i \in 1..Len(t) : ToLower(t)[i] \in Chars
  BY <1>1, <1>2, <1>3 DEF Chars
<1>5. ToLower(t) = [i \in 1..Len(t) |-> ToLower(t)[i]]
  BY <1>1 DEF ToLower
<1>6. ToLower(t) \in Names /\ Len(ToLower(t)) = Len(t)
  BY <1>1, <1>4, <1>5 DEF Names
<1>7. \A i \in 1..Len(t), c \in Special : ToLower(t)[i] = c <=> t[i] = c
  BY <1>2, <1>3, CharsApart
<1>8. QED
  BY <1>6, <1>7

(* Where there is no white space. *)
Kept(s) == DOMAIN s \ Where(s, " ")

LEMMA KeptIs ==
  ASSUME NEW s \in Names
  PROVE  /\ \A k \in Kept(s) : k \in 1..Len(s) /\ k \in Int
         /\ \A k \in 1..Len(s) : k \in Kept(s) <=> s[k] # " "
         /\ TrimSpace(s) = IF Kept(s) = {} THEN <<>>
                           ELSE SubSeq(s, Least(Kept(s)), Greatest(Kept(s)))
<1>1. Len(s) \in Nat /\ DOMAIN s = 1..Len(s)
  BY NameType
<1>2. Kept(s) \subseteq 1..Len(s) /\ \A k \in 1..Len(s) : k \in Kept(s) <=> s[k] # " "
  BY <1>1, Zenon DEF Kept, Where
<1>3. \A k \in Kept(s) : k \in 1..Len(s)
  BY <1>2, Zenon
<1>4. \A k \in Kept(s) : k \in Int
  BY <1>1, <1>3
<1>5. QED
  BY <1>2, <1>3, <1>4, Zenon DEF TrimSpace, Kept

(* Between i and j is what is left when white space and a final dot go. *)
LeavesOnly(s, i, j) ==
  /\ i \in Kept(s) /\ j \in Kept(s) /\ i <= j
  /\ s[j] # "."
  /\ \A k \in 1..(i - 1) : k \notin Kept(s)
  /\ \A k \in (j + 1)..Len(s) : k \notin Kept(s) \/ (k = j + 1 /\ s[k] = ".")

LEMMA LeastIs ==
  ASSUME NEW S \in SUBSET Int, NEW i \in S, \A k \in S : i <= k
  PROVE  Least(S) = i
<1>1. Least(S) \in S /\ \A k \in S : Least(S) <= k
  BY DEF Least
<1>2. i \in Int /\ Least(S) \in Int
  BY <1>1
<1>3. QED
  BY <1>1, <1>2

LEMMA GreatestIs ==
  ASSUME NEW S \in SUBSET Int, NEW i \in S, \A k \in S : k <= i
  PROVE  Greatest(S) = i
<1>1. Greatest(S) \in S /\ \A k \in S : k <= Greatest(S)
  BY DEF Greatest
<1>2. i \in Int /\ Greatest(S) \in Int
  BY <1>1
<1>3. QED
  BY <1>1, <1>2

(* PartIs for a part that is named by its first and last position. *)
LEMMA PartFromTo ==
  ASSUME NEW s \in Names, NEW i \in 1..Len(s), NEW j \in 1..Len(s), i <= j
  PROVE  LET l == SubSeq(s, i, j)
         IN  /\ l \in Names /\ Len(l) = j - i + 1 /\ Len(l) \in Nat /\ Len(l) > 0
             /\ \A k \in 1..(j - i + 1) : l[k] = s[(i - 1) + k]
             /\ l[1] = s[i] /\ l[Len(l)] = s[j]
<1> DEFINE a == i - 1
           b == j + 1
           l == SubSeq(s, i, j)
<1>1. /\ Len(s) \in Nat /\ a \in Nat /\ b \in Nat /\ a < b /\ b <= Len(s) + 1
      /\ a + 1 = i /\ b - 1 = j /\ b - a - 1 = j - i + 1
  BY NameType
<1> HIDE DEF a, b
<1>2. /\ SubSeq(s, a + 1, b - 1) \in Names /\ Len(SubSeq(s, a + 1, b - 1)) = b - a - 1
      /\ \A k \in 1..(b - a - 1) : SubSeq(s, a + 1, b - 1)[k] = s[a + k]
  BY <1>1, PartIs
<1>3. /\ l \in Names /\ Len(l) = j - i + 1
      /\ \A k \in 1..(j - i + 1) : l[k] = s[a + k]
  BY <1>1, <1>2
<1> HIDE DEF l
<1>4. /\ 1 \in 1..(j - i + 1) /\ j - i + 1 \in 1..(j - i + 1)
      /\ a + 1 = i /\ a + (j - i + 1) = j /\ j - i + 1 \in Nat /\ j - i + 1 > 0
  BY <1>1 DEF a
<1>5. l[1] = s[i] /\ l[j - i + 1] = s[j]
  BY <1>3, <1>4
<1>6. QED
  BY <1>3, <1>4, <1>5 DEF a, l

LEMMA TrimsTo ==
  ASSUME NEW s \in Names, NEW i \in Nat, NEW j \in Nat, LeavesOnly(s, i, j)
  PROVE  TrimDot(TrimSpace(s)) = SubSeq(s, i, j)
<1> DEFINE n == Len(s)
           kept == Kept(s)
<1>1. n \in Nat /\ \A k \in kept : k \in 1..n /\ k \in Int
  BY NameType, KeptIs
<1>2. /\ i \in 1..n /\ j \in 1..n /\ i <= j
      /\ i \in kept /\ j \in kept /\ s[j] # "."
      /\ \A k \in 1..(i - 1) : k \notin kept
      /\ \A k \in (j + 1)..n : k \notin kept \/ (k = j + 1 /\ s[k] = ".")
  BY <1>1 DEF LeavesOnly
<1> HIDE DEF n, kept
<1>3. ASSUME NEW g \in kept, \A k \in kept : k <= g
      PROVE  TrimSpace(s) = SubSeq(s, i, g)
  <2>1. ASSUME NEW k \in kept PROVE i <= k
    <3>1. k \in 1..n /\ ~(k \in 1..(i - 1))
      BY <1>1, <1>2
    <3>2. QED
      BY <1>1, <3>1
  <2>2. kept \in SUBSET Int
    BY <1>1
  <2>3. Least(kept) = i /\ Greatest(kept) = g
    BY <1>2, <1>3, <2>1, <2>2, LeastIs, GreatestIs
  <2>4. kept # {}
    BY <1>2
  <2>5. QED
    BY <2>3, <2>4, KeptIs DEF kept
<1>4. \A k \in kept : k <= j \/ (k = j + 1 /\ s[k] = ".")
  <2>1. SUFFICES ASSUME NEW k \in kept, ~(k <= j) PROVE k = j + 1 /\ s[k] = "."
    OBVIOUS
  <2>2. k \in (j + 1)..n
    BY <1>1, <1>2, <2>1
  <2>3. QED
    BY <1>2, <2>2
<1>5. CASE j + 1 \in kept
  <2>1. j + 1 \in 1..n /\ s[j + 1] = "." /\ \A k \in kept : k <= j + 1
    BY <1>1, <1>2, <1>4, <1>5
  <2> DEFINE t == SubSeq(s, i, j + 1)
  <2>2. TrimSpace(s) = t
    BY <1>3, <1>5, <2>1
  <2>3. /\ t \in Names /\ Len(t) = (j + 1) - i + 1 /\ Len(t) > 0
        /\ \A k \in 1..((j + 1) - i + 1) : t[k] = s[(i - 1) + k]
        /\ t[Len(t)] = s[j + 1]
    BY <1>1, <1>2, <2>1, PartFromTo DEF n
  <2>4. /\ SubSeq(s, i, j) \in Names /\ Len(SubSeq(s, i, j)) = j - i + 1
        /\ \A k \in 1..(j - i + 1) : SubSeq(s, i, j)[k] = s[(i - 1) + k]
    BY <1>2, PartFromTo DEF n
  <2> HIDE DEF t
  <2>5. t # <<>>
    BY <2>3
  <2>6. TrimDot(t) = SubSeq(t, 1, Len(t) - 1)
    BY <2>1, <2>3, <2>5 DEF TrimDot
  <2>7. /\ 1 \in 1..Len(t) /\ Len(t) - 1 \in 1..Len(t) /\ 1 <= Len(t) - 1
        /\ Len(t) - 1 = j - i + 1
    BY <1>1, <1>2, <2>3
  <2>8. /\ SubSeq(t, 1, Len(t) - 1) \in Names
        /\ Len(SubSeq(t, 1, Len(t) - 1)) = (Len(t) - 1) - 1 + 1
        /\ \A k \in 1..((Len(t) - 1) - 1 + 1) : SubSeq(t, 1, Len(t) - 1)[k] = t[(1 - 1) + k]
    BY <2>3, <2>7, PartFromTo
  <2> DEFINE u == SubSeq(t, 1, Len(t) - 1)
             v == SubSeq(s, i, j)
  <2>9. Len(u) = j - i + 1 /\ \A k \in 1..(j - i + 1) : u[k] = t[k]
    <3>1. (Len(t) - 1) - 1 + 1 = j - i + 1
      BY <1>1, <1>2, <2>7
    <3>2. \A k \in 1..(j - i + 1) : (1 - 1) + k = k
      BY <1>1, <1>2
    <3>3. QED
      BY <2>8, <3>1, <3>2
  <2>10. \A k \in 1..(j - i + 1) : t[k] = s[(i - 1) + k]
    <3>1. \A k \in 1..(j - i + 1) : k \in 1..((j + 1) - i + 1)
      BY <1>1, <1>2
    <3>2. QED
      BY <2>3, <3>1
  <2> HIDE DEF u, v
  <2>11. /\ u \in Seq(Chars) /\ v \in Seq(Chars) /\ Len(u) = Len(v)
         /\ \A k \in 1..Len(u) : u[k] = v[k]
    BY <2>4, <2>8, <2>9, <2>10 DEF u, v, Names
  <2>12. u = v
    BY <2>11, SeqEqual
  <2>13. QED
    BY <2>2, <2>6, <2>12 DEF u, v
<1>6. CASE j + 1 \notin kept
  <2>1. j \in kept /\ \A k \in kept : k <= j
    BY <1>1, <1>2, <1>4, <1>6
  <2>2. TrimSpace(s) = SubSeq(s, i, j)
    BY <1>3, <2>1
  <2>3. LET t == SubSeq(s, i, j) IN t[Len(t)] = s[j]
    BY <1>2, PartFromTo DEF n
  <2>4. QED
    BY <1>2, <2>2, <2>3 DEF TrimDot
<1>7. QED
  BY <1>5, <1>6

(* Around i to j there is nothing but white space and a dot after it. *)
Around(s, i, j) ==
  /\ \A k \in 1..(i - 1) : k \notin Kept(s)
  /\ \A k \in (j + 1)..Len(s) : k \notin Kept(s) \/ (k = j + 1 /\ s[k] = ".")

LEMMA MeaningsAre ==
  ASSUME NEW s \in Names, NEW r
  PROVE  r \in Meanings(s) <=>
           /\ WellFormed(r)
           /\ \E i, j \in 1..Len(s) : r = ToLower(SubSeq(s, i, j)) /\ Around(s, i, j)
<1> DEFINE Parts == {ToLower(SubSeq(s, i, j)) : i \in DOMAIN s, j \in DOMAIN s}
           Meant(x) ==
             \E i \in DOMAIN s, j \in DOMAIN s :
               /\ x = ToLower(SubSeq(s, i, j))
               /\ \A k \in 1..(i - 1) : s[k] = " "
               /\ \A k \in (j + 1)..Len(s) : s[k] = " " \/ (k = j + 1 /\ s[k] = ".")
<1>0. r \in Meanings(s) <=> r \in Parts /\ WellFormed(r) /\ Meant(r)
  <2>1. Meanings(s) = {x \in Parts : WellFormed(x) /\ Meant(x)}
    BY DEF Meanings
  <2> HIDE DEF Parts, Meant
  <2>2. QED
    BY <2>1
<1> HIDE DEF Parts
<1>1. Len(s) \in Nat /\ DOMAIN s = 1..Len(s)
  BY NameType
<1>2. ASSUME NEW i \in 1..Len(s), NEW j \in 1..Len(s)
      PROVE  Around(s, i, j) <=>
               /\ \A k \in 1..(i - 1) : s[k] = " "
               /\ \A k \in (j + 1)..Len(s) : s[k] = " " \/ (k = j + 1 /\ s[k] = ".")
  <2>1. /\ \A k \in 1..(i - 1) : k \in 1..Len(s)
        /\ \A k \in (j + 1)..Len(s) : k \in 1..Len(s)
    BY <1>1
  <2>2. \A k \in 1..Len(s) : k \in Kept(s) <=> s[k] # " "
    BY KeptIs, Zenon
  <2>3. QED
    BY <2>1, <2>2, Zenon DEF Around
<1>3. ASSUME r \in Meanings(s)
      PROVE  /\ WellFormed(r)
             /\ \E i, j \in 1..Len(s) : r = ToLower(SubSeq(s, i, j)) /\ Around(s, i, j)
  <2>1. /\ WellFormed(r)
        /\ \E i \in DOMAIN s, j \in DOMAIN s :
             /\ r = ToLower(SubSeq(s, i, j))
             /\ \A k \in 1..(i - 1) : s[k] = " "
             /\ \A k \in (j + 1)..Len(s) : s[k] = " " \/ (k = j + 1 /\ s[k] = ".")
    BY <1>0, <1>3, Zenon
  <2>2. PICK i \in DOMAIN s, j \in DOMAIN s :
          /\ r = ToLower(SubSeq(s, i, j))
          /\ \A k \in 1..(i - 1) : s[k] = " "
          /\ \A k \in (j + 1)..Len(s) : s[k] = " " \/ (k = j + 1 /\ s[k] = ".")
    BY <2>1, Zenon
  <2>3. i \in 1..Len(s) /\ j \in 1..Len(s)
    BY <1>1, Zenon
  <2>4. Around(s, i, j)
    BY <1>2, <2>2, <2>3, Zenon
  <2>5. QED
    BY <2>1, <2>2, <2>3, <2>4, Zenon
<1>4. ASSUME WellFormed(r),
             \E i, j \in 1..Len(s) : r = ToLower(SubSeq(s, i, j)) /\ Around(s, i, j)
      PROVE  r \in Meanings(s)
  <2>1. PICK i \in 1..Len(s), j \in 1..Len(s) :
          r = ToLower(SubSeq(s, i, j)) /\ Around(s, i, j)
    BY <1>4, Zenon
  <2>2. r \in Parts
    BY <1>1, <2>1 DEF Parts
  <2>3. \E x \in DOMAIN s, y \in DOMAIN s :
          /\ r = ToLower(SubSeq(s, x, y))
          /\ \A k \in 1..(x - 1) : s[k] = " "
          /\ \A k \in (y + 1)..Len(s) : s[k] = " " \/ (k = y + 1 /\ s[k] = ".")
    <3>1. /\ \A k \in 1..(i - 1) : s[k] = " "
          /\ \A k \in (j + 1)..Len(s) : s[k] = " " \/ (k = j + 1 /\ s[k] = ".")
      BY <1>2, <2>1, Zenon
    <3>2. i \in DOMAIN s /\ j \in DOMAIN s
      BY <1>1, Zenon
    <3>3. QED
      BY <2>1, <3>1, <3>2, Zenon
  <2>4. QED
    BY <1>0, <1>4, <2>2, <2>3, Zenon
<1>5. QED
  BY <1>3, <1>4, Zenon

(* Every meaning of a name is what Canonical makes of it. *)
LEMMA MeaningIsCanonical ==
  ASSUME NEW s \in Names, NEW r \in Meanings(s)
  PROVE  r = Canonical(s) /\ r # Invalid
<1>1. WellFormed(r)
  BY MeaningsAre
<1>2. PICK i \in 1..Len(s), j \in 1..Len(s) : r = ToLower(SubSeq(s, i, j)) /\ Around(s, i, j)
  BY MeaningsAre
<1>3. Len(s) \in Nat /\ i \in Nat /\ j \in Nat
  BY NameType
<1>4. i <= j
  <2>1. SUFFICES ASSUME j < i PROVE FALSE
    BY <1>3
  <2>2. SubSeq(s, i, j) = <<>>
    BY <1>3, <2>1, SubSeqEmpty
  <2>3. r = <<>>
    BY <1>2, <2>2 DEF ToLower
  <2>4. QED
    BY <1>1, <2>3 DEF WellFormed, Where
<1> DEFINE l == SubSeq(s, i, j)
<1>5. /\ l \in Names /\ Len(l) \in Nat /\ Len(l) > 0
      /\ l[1] = s[i] /\ l[Len(l)] = s[j]
  BY <1>4, PartFromTo
<1> HIDE DEF l
<1>6. /\ r \in Names /\ Len(r) = Len(l)
      /\ \A k \in 1..Len(l), c \in Special : r[k] = c <=> l[k] = c
  <2>1. r = ToLower(l)
    BY <1>2 DEF l
  <2>2. QED
    BY <1>5, <2>1, LowerKeeps
<1>7. Valid(r)
  BY <1>1, <1>6, ValidMeans
<1>8. 1 \in 1..Len(l) /\ Len(l) \in 1..Len(l)
  BY <1>5
<1>9. i \in Kept(s) /\ j \in Kept(s)
  <2>1. /\ \A k \in 1..Len(r) : s[i] # " " \/ r[1] = " "
        /\ \A k \in 1..Len(r) : s[j] # " " \/ r[Len(r)] = " "
    BY <1>5, <1>6, <1>8, CharsApart, Zenon
  <2>2. \A k \in DOMAIN r : r[k] # " "
    BY <1>7, Zenon DEF Valid, Where
  <2>3. DOMAIN r = 1..Len(l)
    BY <1>6, NameType
  <2>4. s[i] # " " /\ s[j] # " "
    BY <1>6, <1>8, <2>1, <2>2, <2>3, Zenon
  <2>5. QED
    BY <2>4, KeptIs, Zenon
<1>10. s[j] # "."
  <2>1. r[Len(r)] # "."
    BY <1>6, <1>7, NoFinalDot
  <2>2. QED
    BY <1>5, <1>6, <1>8, <2>1, CharsApart
<1>11. LeavesOnly(s, i, j)
  BY <1>2, <1>4, <1>9, <1>10 DEF LeavesOnly, Around
<1>12. Cleaned(s) = r
  BY <1>2, <1>3, <1>11, TrimsTo DEF Cleaned
<1>13. QED
  BY <1>7, <1>12 DEF Canonical, Invalid, Valid

(* What Canonical makes of a name is a meaning of it. *)
LEMMA CanonicalIsMeaning ==
  ASSUME NEW s \in Names, Canonical(s) # Invalid
  PROVE  Canonical(s) \in Meanings(s)
<1> DEFINE r == Cleaned(s)
           t == TrimSpace(s)
           n == Len(s)
           kept == Kept(s)
           i == Least(kept)
           g == Greatest(kept)
<1>1. Valid(r) /\ Canonical(s) = r
  BY DEF Canonical
<1>2. r \in Names
  BY CleanedIsName
<1>3. WellFormed(r)
  BY <1>1, <1>2, ValidMeans
<1>4. r # <<>> /\ r = ToLower(TrimDot(t))
  BY <1>1 DEF Valid, Cleaned
<1> HIDE DEF r
<1>5. kept # {}
  <2>1. SUFFICES ASSUME kept = {} PROVE FALSE
    OBVIOUS
  <2>2. t = <<>>
    BY <2>1, KeptIs, Zenon
  <2>3. ToLower(TrimDot(<<>>)) = <<>>
    BY DEF TrimDot, ToLower
  <2>4. QED
    BY <1>4, <2>2, <2>3
<1>6. n \in Nat /\ kept \in SUBSET (1..n) /\ \A k \in kept : k \in 1..n /\ k \in Int
  BY NameType, KeptIs
<1> HIDE DEF kept
<1>7. i \in kept /\ g \in kept
  BY <1>5, <1>6, HasBounds
<1>8. \A k \in kept : i <= k /\ k <= g
  <2>1. PICK x \in kept : \A k \in kept : x <= k
    BY <1>5, <1>6, SmallestOf
  <2>2. PICK y \in kept : \A k \in kept : k <= y
    <3>1. kept \in SUBSET (0..n)
      BY <1>6
    <3>2. QED
      BY <1>5, <1>6, <3>1, LargestOf
  <2>3. kept \in SUBSET Int
    BY <1>6
  <2>4. i = x /\ g = y
    BY <2>1, <2>2, <2>3, LeastIs, GreatestIs
  <2>5. QED
    BY <2>1, <2>2, <2>4
<1>9. t = SubSeq(s, i, g)
  BY <1>5, KeptIs, Zenon DEF kept
<1> HIDE DEF i, g, t
<1>10. i \in 1..n /\ g \in 1..n /\ i <= g /\ i \in Int /\ g \in Int
  BY <1>6, <1>7, <1>8
<1>11. /\ \A k \in 1..(i - 1) : k \notin kept
       /\ \A k \in (g + 1)..n : k \notin kept
  BY <1>6, <1>8, <1>10
<1>12. /\ t \in Names /\ Len(t) = g - i + 1 /\ Len(t) > 0 /\ Len(t) \in Nat
       /\ \A k \in 1..(g - i + 1) : t[k] = s[(i - 1) + k]
       /\ t[Len(t)] = s[g]
  BY <1>9, <1>10, PartFromTo DEF n
<1>13. t # <<>>
  BY <1>12
<1>14. CASE s[g] # "."
  <2>1. TrimDot(t) = t
    BY <1>12, <1>14 DEF TrimDot
  <2>2. r = ToLower(SubSeq(s, i, g))
    BY <1>4, <1>9, <2>1
  <2>3. Around(s, i, g)
    BY <1>11 DEF Around, kept, n
  <2>4. QED
    BY <1>1, <1>3, <1>10, <2>2, <2>3, MeaningsAre DEF n
<1>15. CASE s[g] = "."
  <2> DEFINE m == Len(t) - 1
             u == SubSeq(t, 1, m)
             v == SubSeq(s, i, g - 1)
  <2>1. TrimDot(t) = u
    BY <1>12, <1>13, <1>15 DEF TrimDot
  <2>2. m > 0
    <3>1. SUFFICES ASSUME m < 1 PROVE FALSE
      BY <1>12
    <3>2. u = <<>>
      BY <1>12, <3>1, SubSeqEmpty
    <3>3. r = <<>>
      BY <1>4, <2>1, <3>2 DEF ToLower
    <3>4. QED
      BY <1>4, <3>3
  <2>3. /\ 1 \in 1..Len(t) /\ m \in 1..Len(t) /\ 1 <= m
        /\ m \in Nat /\ m = (g - 1) - i + 1
    BY <1>10, <1>12, <2>2
  <2>4. i <= g - 1 /\ g - 1 \in 1..n /\ g - 1 \in Int
    BY <1>6, <1>10, <2>2, <2>3
  <2>5. /\ u \in Names /\ Len(u) = m - 1 + 1
        /\ \A k \in 1..(m - 1 + 1) : u[k] = t[(1 - 1) + k]
    <3> HIDE DEF m
    <3>1. QED
      BY <1>12, <2>3, PartFromTo
  <2>6. /\ v \in Names /\ Len(v) = (g - 1) - i + 1
        /\ \A k \in 1..((g - 1) - i + 1) : v[k] = s[(i - 1) + k]
    BY <1>10, <2>4, PartFromTo DEF n
  <2> HIDE DEF m, u, v
  <2>7. Len(u) = m /\ Len(v) = m
    BY <2>3, <2>5, <2>6
  <2>8. ASSUME NEW k \in 1..m PROVE u[k] = v[k]
    <3>1. /\ k \in 1..(m - 1 + 1) /\ (1 - 1) + k = k
          /\ k \in 1..((g - 1) - i + 1) /\ k \in 1..(g - i + 1)
      BY <1>10, <1>12, <2>3
    <3>2. u[k] = t[k]
      BY <2>5, <3>1
    <3>3. t[k] = s[(i - 1) + k]
      BY <1>12, <3>1
    <3>4. QED
      BY <2>6, <3>1, <3>2, <3>3
  <2>9. u = v
    <3>1. u \in Seq(Chars) /\ v \in Seq(Chars)
      BY <2>5, <2>6 DEF Names
    <3>2. QED
      BY <2>7, <2>8, <3>1, SeqEqual
  <2>10. r = ToLower(SubSeq(s, i, g - 1))
    BY <1>4, <2>1, <2>9 DEF v
  <2>11. Around(s, i, g - 1)
    <3>1. \A k \in ((g - 1) + 1)..n : k = (g - 1) + 1 \/ k \in (g + 1)..n
      BY <1>6, <1>10
    <3>2. (g - 1) + 1 = g
      BY <1>10
    <3>3. \A k \in ((g - 1) + 1)..n : k \notin kept \/ (k = (g - 1) + 1 /\ s[k] = ".")
      BY <1>11, <1>15, <3>1, <3>2
    <3>4. QED
      BY <1>11, <3>3 DEF Around, kept, n
  <2>12. QED
    BY <1>1, <1>3, <1>10, <2>4, <2>10, <2>11, MeaningsAre DEF n
<1>16. QED
  BY <1>14, <1>15

(* Canonical is right about every name there is: it accepts exactly those  *)
(* that mean something, and returns what they mean, whatever their length, *)
(* the alphabet and the bound on labels.                                   *)
THEOREM CanonicalIsMeant ==
  ASSUME NEW s \in Names
  PROVE  Meanings(s) = {Canonical(s)} \ {Invalid}
BY MeaningIsCanonical, CanonicalIsMeaning

-----------------------------------------------------------------------------
(* The compiled policy.                                                    *)

(* Hosts are found by identity, and nobody is hidden by another. *)
LEMMA HostByIdentity ==
  ASSUME NEW f, Compiles(f), NEW h \in DOMAIN f.hosts
  PROVE  LET i == Trim(f.hosts[h].identity)
         IN  /\ i \in DOMAIN Compile(f).hostsByIdentity
             /\ Compile(f).hostsByIdentity[i].profiles = {Trim(p) : p \in f.hosts[h].profiles}
<1> DEFINE hosts == [k \in DOMAIN f.hosts |-> CompileHost(k, f.hosts[k])]
           i == Trim(f.hosts[h].identity)
           k == CHOOSE x \in DOMAIN hosts : hosts[x].identity = i
<1>1. \A x \in DOMAIN f.hosts : /\ hosts[x].identity = Trim(f.hosts[x].identity)
                               /\ hosts[x].profiles = {Trim(p) : p \in f.hosts[x].profiles}
  BY DEF CompileHost
<1>2. k \in DOMAIN f.hosts /\ Trim(f.hosts[k].identity) = i
  BY <1>1
<1>3. k = h
  BY <1>2 DEF Compiles, DistinctIdentities
<1>4. Compile(f).hostsByIdentity =
        [j \in {hosts[x].identity : x \in DOMAIN hosts} |->
           hosts[CHOOSE x \in DOMAIN hosts : hosts[x].identity = j]]
  BY DEF Compile
<1>5. i \in {hosts[x].identity : x \in DOMAIN hosts}
  BY <1>1
<1>6. i \in DOMAIN Compile(f).hostsByIdentity /\ Compile(f).hostsByIdentity[i] = hosts[k]
  BY <1>4, <1>5
<1>7. QED
  BY <1>1, <1>3, <1>6

LEMMA IdentityHasHost ==
  ASSUME NEW f, NEW i \in DOMAIN Compile(f).hostsByIdentity
  PROVE  \E h \in DOMAIN f.hosts : Trim(f.hosts[h].identity) = i
BY DEF Compile, CompileHost

LEMMA ProfilesOf ==
  ASSUME NEW f
  PROVE  /\ DOMAIN Compile(f).profiles = DOMAIN f.profiles
         /\ \A n \in DOMAIN f.profiles :
              Compile(f).profiles[n] = CompileProfile(n, f.profiles[n])
BY DEF Compile

LEMMA HashOf ==
  ASSUME NEW f, NEW n \in DOMAIN f.profiles
  PROVE  Compile(f).profiles[n].hash = ProfileHash(f.profiles[n])
<1>1. Compile(f).profiles[n] = CompileProfile(n, f.profiles[n])
  BY ProfilesOf
<1>2. QED
  BY <1>1 DEF CompileProfile

(* What Authorize can say of a request that the host's entry allows. *)
LEMMA AuthorizeMeans ==
  ASSUME NEW f, Compiles(f), NEW i, NEW n, NEW names
  PROVE  /\ Authorize(Compile(f), i, n, names) # "unknown profile"
         /\ Authorize(Compile(f), i, n, names) = "ok" <=> Written(f, i, n, names)
<1> DEFINE P == Compile(f)
<1>1. CASE i \notin DOMAIN P.hostsByIdentity
  <2>1. Authorize(P, i, n, names) = "unknown identity"
    BY <1>1 DEF Authorize
  <2>2. ~Written(f, i, n, names)
    BY <1>1, HostByIdentity DEF Written
  <2>3. QED
    BY <2>1, <2>2
<1>2. CASE i \in DOMAIN P.hostsByIdentity
  <2>1. PICK h \in DOMAIN f.hosts : Trim(f.hosts[h].identity) = i
    BY <1>2, IdentityHasHost
  <2>2. P.hostsByIdentity[i].profiles = {Trim(p) : p \in f.hosts[h].profiles}
    BY <2>1, HostByIdentity
  <2>3. \A k \in DOMAIN f.hosts : Trim(f.hosts[k].identity) = i => k = h
    BY <2>1 DEF Compiles, DistinctIdentities
  <2>4. Written(f, i, n, names) <=> /\ n \in P.hostsByIdentity[i].profiles
                                    /\ n \in DOMAIN f.profiles
                                    /\ EqualSet(names, f.profiles[n].dnsNames)
    BY <2>1, <2>2, <2>3 DEF Written
  <2>5. n \in P.hostsByIdentity[i].profiles => n \in DOMAIN f.profiles
    BY <2>1, <2>2 DEF Compiles, HostOK
  <2>6. CASE n \notin P.hostsByIdentity[i].profiles
    BY <1>2, <2>4, <2>6 DEF Authorize
  <2>7. CASE n \in P.hostsByIdentity[i].profiles
    <3>1. n \in DOMAIN P.profiles /\ P.profiles[n].dnsNames = CanonicalList(f.profiles[n].dnsNames)
      <4>1. n \in DOMAIN f.profiles
        BY <2>5, <2>7
      <4>2. n \in DOMAIN P.profiles /\ P.profiles[n] = CompileProfile(n, f.profiles[n])
        BY <4>1, ProfilesOf
      <4>3. QED
        BY <4>2 DEF CompileProfile
    <3>2. ListOK(f.profiles[n].dnsNames)
      BY <2>5, <2>7 DEF Compiles, ProfileOK
    <3>3. EqualSet(names, f.profiles[n].dnsNames) <=>
            ListOK(names) /\ SameNames(names, P.profiles[n])
      BY <3>1, <3>2 DEF EqualSet, SameNames
    <3> HIDE DEF P
    <3>4. Authorize(P, i, n, names) \in {"invalid csr", "names mismatch", "ok"}
      BY <1>2, <2>7, <3>1 DEF Authorize
    <3>5. Authorize(P, i, n, names) = "ok" <=> ListOK(names) /\ SameNames(names, P.profiles[n])
      BY <1>2, <2>7, <3>1 DEF Authorize
    <3>6. QED
      BY <2>4, <2>5, <2>7, <3>3, <3>4, <3>5 DEF P
  <2>8. QED
    BY <2>6, <2>7
<1>3. QED
  BY <1>1, <1>2

-----------------------------------------------------------------------------
(* The theorems.                                                           *)

(* The policy in use is the whole of a file that compiled. *)
THEOREM PolicyInvariance == Spec => []PolicyIsCompiled
<1>1. Init => PolicyIsCompiled
  BY DEF Init, PolicyIsCompiled
<1>2. PolicyIsCompiled /\ [Next]_vars => PolicyIsCompiled'
  <2>1. SUFFICES ASSUME PolicyIsCompiled, [Next]_vars PROVE PolicyIsCompiled'
    OBVIOUS
  <2>2. CASE Reload
    BY <2>2 DEF Reload, PolicyIsCompiled
  <2>3. CASE UNCHANGED <<policy, loaded>>
    BY <2>1, <2>3 DEF PolicyIsCompiled
  <2>4. QED
    BY <2>1, <2>2, <2>3 DEF Next, SetVersion, SetProfile, RemoveProfile, SetHost,
       RemoveHost, Retype, Edits, vars
<1>3. QED
  BY <1>1, <1>2, PTL DEF Spec

(* Authorize grants exactly what the operator wrote. *)
THEOREM GrantsAsWritten == Spec => []AuthorizesAsWritten
<1>1. PolicyIsCompiled => AuthorizesAsWritten
  BY AuthorizeMeans DEF PolicyIsCompiled, AuthorizesAsWritten
<1>2. QED
  BY <1>1, PolicyInvariance, PTL

(* No request is ever refused with ErrUnknownProfile. *)
THEOREM NoUnknownProfile == Spec => []ReferencesResolve
<1>1. PolicyIsCompiled => ReferencesResolve
  BY AuthorizeMeans DEF PolicyIsCompiled, ReferencesResolve
<1>2. QED
  BY <1>1, PolicyInvariance, PTL

(* IsValidWildcard tells whether a canonical name has a star.              *)
LEMMA WildcardOrNot ==
  ASSUME NEW s, Canonical(s) # Invalid
  PROVE  Where(Canonical(s), "*") # {} <=> IsValidWildcard(Canonical(s))
<1>1. Valid(Canonical(s))
  BY DEF Canonical
<1>2. QED
  BY <1>1 DEF Valid, IsValidWildcard

(* Wildcards come from wildcard profiles only. *)
THEOREM WildcardsOnlyThere == Spec => []WildcardsApart
<1>1. PolicyIsCompiled => WildcardsApart
  <2>1. SUFFICES ASSUME PolicyIsCompiled, policy # NoPolicy,
                        NEW n \in DOMAIN policy.profiles,
                        NEW s \in policy.profiles[n].dnsNames
                 PROVE  Where(s, "*") # {} <=> policy.profiles[n].type = Str("wildcard")
    BY DEF WildcardsApart
  <2> DEFINE raw == loaded.profiles[n]
  <2>2. Compiles(loaded) /\ policy = Compile(loaded)
    BY <2>1 DEF PolicyIsCompiled
  <2>3. n \in DOMAIN loaded.profiles /\ policy.profiles[n] = CompileProfile(n, raw)
    BY <2>1, <2>2, ProfilesOf
  <2>4. /\ policy.profiles[n].type = Trim(raw.type)
        /\ s \in CanonicalList(raw.dnsNames)
    BY <2>1, <2>3 DEF CompileProfile
  <2>5. ListOK(raw.dnsNames) /\ ValidateProfileType(raw)
    BY <2>2, <2>3 DEF Compiles, ProfileOK
  <2>6. PICK t \in raw.dnsNames : s = Canonical(t)
    BY <2>4 DEF CanonicalList
  <2>7. s # Invalid
    BY <2>4, <2>5 DEF ListOK
  <2>8. Where(s, "*") # {} <=> IsValidWildcard(s)
    BY <2>6, <2>7, WildcardOrNot
  <2>9. Trim(raw.type) = Str("wildcard") <=> Type(raw) = "wildcard"
    BY DEF Trim, Str, Type
  <2>10. IsValidWildcard(s) <=> Type(raw) = "wildcard"
    BY <2>4, <2>5 DEF ValidateProfileType
  <2>11. QED
    BY <2>4, <2>8, <2>9, <2>10
<1>2. QED
  BY <1>1, PolicyInvariance, PTL

(* The hash of a profile changes exactly with what it makes the broker do. *)
THEOREM HashIsEffect == Spec => HashFollowsEffect
<1> DEFINE Same(a, b) ==
             /\ Type(a) = Type(b)
             /\ EqualSet(a.dnsNames, b.dnsNames)
             /\ Trim(a.challenge) = Trim(b.challenge)
             /\ Trim(a.credentials) = Trim(b.credentials)
             /\ \/ a.renewBefore = b.renewBefore
                \/ {a.renewBefore, b.renewBefore} = {0, DefaultRenewBefore}
<1>1. ASSUME NEW a, NEW b, ListOK(a.dnsNames), ListOK(b.dnsNames)
      PROVE  ProfileHash(a) = ProfileHash(b) <=> Same(a, b)
  <2>1. ProfileHash(a) = ProfileHash(b) <=>
          /\ Trim(a.type) = Trim(b.type)
          /\ CanonicalList(a.dnsNames) = CanonicalList(b.dnsNames)
          /\ Trim(a.challenge) = Trim(b.challenge)
          /\ Trim(a.credentials) = Trim(b.credentials)
          /\ RenewBefore(a) = RenewBefore(b)
    BY DEF ProfileHash
  <2>2. Trim(a.type) = Trim(b.type) <=> Type(a) = Type(b)
    BY DEF Trim, Str, Type
  <2>3. CanonicalList(a.dnsNames) = CanonicalList(b.dnsNames)
          <=> EqualSet(a.dnsNames, b.dnsNames)
    BY <1>1 DEF EqualSet
  <2>4. RenewBefore(a) = RenewBefore(b) <=>
          \/ a.renewBefore = b.renewBefore
          \/ {a.renewBefore, b.renewBefore} = {0, DefaultRenewBefore}
    BY DEF RenewBefore, DefaultRenewBefore
  <2>5. QED
    BY <2>1, <2>2, <2>3, <2>4
<1>2. ASSUME PolicyIsCompiled, PolicyIsCompiled', policy # NoPolicy, policy' # NoPolicy,
             NEW n \in DOMAIN loaded.profiles \cap DOMAIN loaded'.profiles
      PROVE  policy.profiles[n].hash = policy'.profiles[n].hash
               <=> Same(loaded.profiles[n], loaded'.profiles[n])
  <2>1. /\ Compiles(loaded) /\ policy = Compile(loaded)
        /\ Compiles(loaded') /\ policy' = Compile(loaded')
    BY <1>2 DEF PolicyIsCompiled
  <2>2. /\ policy.profiles[n].hash = ProfileHash(loaded.profiles[n])
        /\ policy'.profiles[n].hash = ProfileHash(loaded'.profiles[n])
    <3>1. n \in DOMAIN loaded.profiles /\ n \in DOMAIN loaded'.profiles
      BY <1>2
    <3>2. QED
      BY <2>1, <3>1, HashOf
  <2>3. ListOK(loaded.profiles[n].dnsNames) /\ ListOK(loaded'.profiles[n].dnsNames)
    BY <2>1 DEF Compiles, ProfileOK
  <2>4. QED
    BY <1>1, <2>2, <2>3
<1>3. PolicyIsCompiled /\ PolicyIsCompiled' =>
        (\A n \in DOMAIN loaded.profiles \cap DOMAIN loaded'.profiles :
           policy # NoPolicy /\ policy' # NoPolicy =>
             (policy.profiles[n].hash = policy'.profiles[n].hash <=>
                Same(loaded.profiles[n], loaded'.profiles[n])))
  BY <1>2
<1>4. QED
  BY <1>3, PolicyInvariance, PTL DEF HashFollowsEffect

-----------------------------------------------------------------------------
(* The hash of a policy.                                                   *)

(* What follows needs of strings and ranks; the empty string is apart, as  *)
(* the arithmetic prover does not know it.                                 *)
LEMMA StringType ==
  /\ Strings \subseteq [left : {0, 1}, text : Texts, right : {0, 1}]
  /\ Rank \in [Texts -> Nat]
  /\ \A t, u \in Texts : Rank[t] = Rank[u] => t = u
<1>1. Strings \subseteq [left : {0, 1}, text : Texts, right : {0, 1}]
  BY Zenon DEF Strings
<1>2. Rank \in [Texts -> Nat] /\ \A t, u \in Texts : Rank[t] = Rank[u] => t = u
  BY PolicyCompileAssumption, Zenon
<1>3. QED
  BY <1>1, <1>2

(* The order of sort.Strings is a strict total order. *)
LEMMA PrecedesOrders ==
  ASSUME NEW s \in Strings, NEW t \in Strings, NEW u \in Strings
  PROVE  /\ ~Precedes(s, s)
         /\ Precedes(s, t) /\ Precedes(t, u) => Precedes(s, u)
         /\ s # t => Precedes(s, t) \/ Precedes(t, s)
<1>1. /\ s.left \in {0, 1} /\ t.left \in {0, 1} /\ u.left \in {0, 1}
      /\ s.right \in {0, 1} /\ t.right \in {0, 1} /\ u.right \in {0, 1}
      /\ s.text \in Texts /\ t.text \in Texts /\ u.text \in Texts
  BY StringType
<1>2. /\ Rank[s.text] \in Nat /\ Rank[t.text] \in Nat /\ Rank[u.text] \in Nat
      /\ Rank[s.text] = Rank[t.text] => s.text = t.text
  BY <1>1, StringType
<1>3. s # t => s.left # t.left \/ s.text # t.text \/ s.right # t.right
  BY StringType
<1>4. ~Precedes(s, s)
  BY <1>1, <1>2 DEF Precedes
<1>5. Precedes(s, t) /\ Precedes(t, u) => Precedes(s, u)
  BY <1>1, <1>2 DEF Precedes
<1>6. s # t => Precedes(s, t) \/ Precedes(t, s)
  BY <1>1, <1>2, <1>3 DEF Precedes
<1>7. QED
  BY <1>4, <1>5, <1>6

(* Sorting loses no key: each has a place of its own, given by the number  *)
(* of keys before it, and there are as many places as keys.                *)
LEMMA SortedHasAll ==
  ASSUME NEW map, DOMAIN map \subseteq Strings, IsFiniteSet(DOMAIN map)
  PROVE  /\ DOMAIN SortedMapKeys(map) = 1..Cardinality(DOMAIN map)
         /\ \A i \in DOMAIN SortedMapKeys(map) : SortedMapKeys(map)[i] \in DOMAIN map
         /\ \A k \in DOMAIN map : \E i \in DOMAIN SortedMapKeys(map) : SortedMapKeys(map)[i] = k
<1> DEFINE keys == DOMAIN map
           n == Cardinality(keys)
           Below(k) == {x \in keys : Precedes(x, k)}
           place == [k \in keys |-> Cardinality(Below(k)) + 1]
<1>1. n \in Nat /\ IsFiniteSet(1..n) /\ Cardinality(1..n) = n
  <2>1. n \in Nat
    BY FS_CardinalityType
  <2>2. IsFiniteSet(1..n) /\ Cardinality(1..n) = IF 1 > n THEN 0 ELSE n - 1 + 1
    BY <2>1, FS_Interval
  <2>3. QED
    BY <2>1, <2>2
<1>2. ASSUME NEW k \in keys
      PROVE  IsFiniteSet(Below(k)) /\ Cardinality(Below(k)) \in Nat
  <2>1. Below(k) \in SUBSET keys
    OBVIOUS
  <2>2. IsFiniteSet(Below(k))
    BY <2>1, FS_Subset
  <2>3. QED
    BY <2>2, FS_CardinalityType
<1>3. ASSUME NEW k \in keys, NEW S, IsFiniteSet(S), Below(k) \subseteq S, k \in S
      PROVE  Cardinality(Below(k)) < Cardinality(S)
  <2>1. k \notin Below(k)
    BY PrecedesOrders
  <2>2. /\ IsFiniteSet(S) /\ Cardinality(S) \in Nat
        /\ Below(k) \in SUBSET S
        /\ Below(k) # S
    BY <1>3, <2>1, FS_CardinalityType
  <2> HIDE DEF Below
  <2>3. Cardinality(Below(k)) <= Cardinality(S) /\ Cardinality(Below(k)) # Cardinality(S)
    BY <2>2, FS_Subset
  <2>4. QED
    BY <1>2, <2>2, <2>3
<1>4. place \in [keys -> 1..n]
  <2>1. ASSUME NEW k \in keys
        PROVE  Cardinality(Below(k)) + 1 \in 1..n
    <3>1. Cardinality(Below(k)) < n
      BY <1>3
    <3>2. QED
      BY <1>1, <1>2, <3>1
  <2>2. QED
    BY <2>1
<1>5. ASSUME NEW k \in keys, NEW l \in keys, Precedes(k, l)
      PROVE  place[k] < place[l]
  <2>1. Below(k) \subseteq Below(l) /\ k \in Below(l)
    BY <1>5, PrecedesOrders
  <2>2. IsFiniteSet(Below(l))
    BY <1>2
  <2> HIDE DEF Below
  <2>3. Cardinality(Below(k)) < Cardinality(Below(l))
    BY <1>3, <2>1, <2>2
  <2>4. QED
    BY <1>2, <2>3
<1>6. \A k, l \in keys : place[k] = place[l] => k = l
  <2>1. SUFFICES ASSUME NEW k \in keys, NEW l \in keys, place[k] = place[l], k # l
                 PROVE  FALSE
    OBVIOUS
  <2>2. Precedes(k, l) \/ Precedes(l, k)
    BY <2>1, PrecedesOrders
  <2>3. place[k] \in Int /\ place[l] \in Int
    BY <1>4
  <2>4. QED
    BY <1>5, <2>1, <2>2, <2>3
<1> HIDE DEF place
<1>7. place \in Injection(keys, 1..n)
  BY <1>4, <1>6 DEF Injection, IsInjective
<1>8. place \in Surjection(keys, 1..n)
  BY <1>1, <1>7, FS_Injection
<1>9. \A i \in 1..n : \E k \in keys : place[k] = i
  BY <1>8 DEF Surjection
<1>10. SortedMapKeys(map) =
         [i \in 1..n |-> CHOOSE k \in keys : Cardinality(Below(k)) = i - 1]
  BY DEF SortedMapKeys
<1>11. \A i \in 1..n, k \in keys : Cardinality(Below(k)) = i - 1 <=> place[k] = i
  <2>1. SUFFICES ASSUME NEW i \in 1..n, NEW k \in keys
                 PROVE  Cardinality(Below(k)) = i - 1 <=> place[k] = i
    OBVIOUS
  <2>2. place[k] = Cardinality(Below(k)) + 1
    BY DEF place
  <2>3. Cardinality(Below(k)) \in Nat
    BY <1>2
  <2> HIDE DEF Below
  <2>4. QED
    BY <1>1, <2>2, <2>3
<1>12. ASSUME NEW i \in 1..n
       PROVE  SortedMapKeys(map)[i] \in keys /\ place[SortedMapKeys(map)[i]] = i
  <2>1. \E k \in keys : Cardinality(Below(k)) = i - 1
    BY <1>9, <1>11
  <2>2. QED
    BY <1>10, <1>11, <2>1
<1>13. ASSUME NEW k \in keys
       PROVE  \E i \in 1..n : SortedMapKeys(map)[i] = k
  BY <1>4, <1>6, <1>12
<1>14. QED
  BY <1>10, <1>12, <1>13

(* Whatever one file has, a file with the same hash has too: a profile     *)
(* with that name, once trimmed, and that hash, and that compiled host.    *)
LEMMA HashCovers ==
  ASSUME NEW f, NEW g, IsFile(f), IsFile(g), Compile(f).hash = Compile(g).hash
  PROVE  /\ \A n \in DOMAIN f.profiles : \E m \in DOMAIN g.profiles :
              /\ Trim(n) = Trim(m)
              /\ ProfileHash(f.profiles[n]) = ProfileHash(g.profiles[m])
         /\ \A h \in DOMAIN f.hosts : \E k \in DOMAIN g.hosts :
              CompileHost(h, f.hosts[h]) = CompileHost(k, g.hosts[k])
<1> DEFINE Ps(x) == [n \in DOMAIN x.profiles |-> CompileProfile(n, x.profiles[n])]
           Hs(x) == [h \in DOMAIN x.hosts |-> CompileHost(h, x.hosts[h])]
           PKeys(x) == SortedMapKeys(Ps(x))
           HKeys(x) == SortedMapKeys(Hs(x))
           PList(x) == [k \in DOMAIN PKeys(x) |->
                          <<Ps(x)[PKeys(x)[k]].name, Ps(x)[PKeys(x)[k]].hash>>]
           HList(x) == [k \in DOMAIN HKeys(x) |-> Hs(x)[HKeys(x)[k]]]
<1>1. ASSUME NEW x
      PROVE  Compile(x).hash = [version |-> CurrentVersion, profiles |-> PList(x),
                                hosts |-> HList(x)]
  BY DEF Compile, PolicyHash
<1>2. ASSUME NEW x, IsFile(x)
      PROVE  /\ \A i \in DOMAIN PKeys(x) : PKeys(x)[i] \in DOMAIN x.profiles
             /\ \A n \in DOMAIN x.profiles : \E i \in DOMAIN PKeys(x) : PKeys(x)[i] = n
             /\ \A i \in DOMAIN HKeys(x) : HKeys(x)[i] \in DOMAIN x.hosts
             /\ \A h \in DOMAIN x.hosts : \E i \in DOMAIN HKeys(x) : HKeys(x)[i] = h
  <2>1. /\ DOMAIN Ps(x) = DOMAIN x.profiles /\ DOMAIN x.profiles \subseteq Strings
        /\ IsFiniteSet(DOMAIN x.profiles)
        /\ DOMAIN Hs(x) = DOMAIN x.hosts /\ DOMAIN x.hosts \subseteq Strings
        /\ IsFiniteSet(DOMAIN x.hosts)
    BY <1>2 DEF IsFile, IsMap
  <2> HIDE DEF Ps, Hs
  <2>2. QED
    BY <2>1, SortedHasAll
<1>3. ASSUME NEW x, NEW n \in DOMAIN x.profiles
      PROVE  Ps(x)[n].name = Trim(n) /\ Ps(x)[n].hash = ProfileHash(x.profiles[n])
  BY <1>3 DEF CompileProfile
<1>4. PList(f) = PList(g) /\ HList(f) = HList(g)
  <2> HIDE DEF PList, HList
  <2>1. ASSUME NEW x
        PROVE  Compile(x).hash.profiles = PList(x) /\ Compile(x).hash.hosts = HList(x)
    <3>1. PICK p, h : p = PList(x) /\ h = HList(x)
      OBVIOUS
    <3>2. Compile(x).hash = [version |-> CurrentVersion, profiles |-> p, hosts |-> h]
      BY <1>1, <3>1
    <3>3. QED
      BY <3>1, <3>2
  <2>2. QED
    BY <2>1
<1>5. ASSUME NEW n \in DOMAIN f.profiles
      PROVE  \E m \in DOMAIN g.profiles :
               /\ Trim(n) = Trim(m)
               /\ ProfileHash(f.profiles[n]) = ProfileHash(g.profiles[m])
  <2> HIDE DEF Ps, Hs, PKeys, HKeys
  <2>1. PICK i \in DOMAIN PKeys(f) : PKeys(f)[i] = n
    BY <1>2
  <2>2. DOMAIN PList(f) = DOMAIN PKeys(f) /\ DOMAIN PList(g) = DOMAIN PKeys(g)
    OBVIOUS
  <2>3. i \in DOMAIN PKeys(g) /\ PKeys(g)[i] \in DOMAIN g.profiles
    BY <1>2, <1>4, <2>1, <2>2
  <2>4. PList(f)[i] = <<Ps(f)[n].name, Ps(f)[n].hash>>
    BY <2>1
  <2>5. PList(g)[i] = <<Ps(g)[PKeys(g)[i]].name, Ps(g)[PKeys(g)[i]].hash>>
    BY <2>3
  <2>6. /\ Ps(f)[n].name = Ps(g)[PKeys(g)[i]].name
        /\ Ps(f)[n].hash = Ps(g)[PKeys(g)[i]].hash
    BY <1>4, <2>4, <2>5
  <2>7. QED
    BY <1>3, <2>3, <2>6
<1>6. ASSUME NEW h \in DOMAIN f.hosts
      PROVE  \E k \in DOMAIN g.hosts : CompileHost(h, f.hosts[h]) = CompileHost(k, g.hosts[k])
  <2>0. \A x : \A k \in DOMAIN x.hosts : Hs(x)[k] = CompileHost(k, x.hosts[k])
    OBVIOUS
  <2> HIDE DEF Ps, Hs, PKeys, HKeys
  <2>1. PICK i \in DOMAIN HKeys(f) : HKeys(f)[i] = h
    BY <1>2
  <2>2. DOMAIN HList(f) = DOMAIN HKeys(f) /\ DOMAIN HList(g) = DOMAIN HKeys(g)
    OBVIOUS
  <2>3. i \in DOMAIN HKeys(g) /\ HKeys(g)[i] \in DOMAIN g.hosts
    BY <1>2, <1>4, <2>1, <2>2
  <2>4. HList(f)[i] = Hs(f)[h] /\ HList(g)[i] = Hs(g)[HKeys(g)[i]]
    BY <2>1, <2>3
  <2>5. QED
    BY <1>4, <2>0, <2>3, <2>4
<1>7. QED
  BY <1>5, <1>6

LEMMA HashGrants ==
  ASSUME NEW f, NEW g, IsFile(f), IsFile(g), Compiles(f), Compiles(g),
         \A n \in DOMAIN f.profiles \cup DOMAIN g.profiles : Trim(n) = n,
         Compile(f).hash = Compile(g).hash
  PROVE  Grants(Compile(f)) \subseteq Grants(Compile(g))
<1> DEFINE Granted(x) == {y \in Strings \X Strings :
                            /\ y[1] \in DOMAIN Compile(x).hostsByIdentity
                            /\ y[2] \in Compile(x).hostsByIdentity[y[1]].profiles}
<1>1. \A x : Grants(Compile(x)) =
        {<<y[1], y[2], Compile(x).profiles[y[2]].hash>> : y \in Granted(x)}
  BY DEF Grants
<1>2. ASSUME NEW y \in Granted(f)
      PROVE  /\ y \in Granted(g)
             /\ Compile(f).profiles[y[2]].hash = Compile(g).profiles[y[2]].hash
  <2> DEFINE i == y[1]
             n == y[2]
  <2>1. i \in DOMAIN Compile(f).hostsByIdentity /\ n \in Compile(f).hostsByIdentity[i].profiles
    BY <1>2
  <2>2. PICK h \in DOMAIN f.hosts : Trim(f.hosts[h].identity) = i
    BY <2>1, IdentityHasHost
  <2>3. n \in {Trim(p) : p \in f.hosts[h].profiles}
    BY <2>1, <2>2, HostByIdentity
  <2>4. n \in DOMAIN f.profiles
    BY <2>2, <2>3 DEF Compiles, HostOK
  <2>5. PICK k \in DOMAIN g.hosts : CompileHost(h, f.hosts[h]) = CompileHost(k, g.hosts[k])
    BY <2>2, HashCovers
  <2>6. /\ Trim(g.hosts[k].identity) = i
        /\ {Trim(p) : p \in g.hosts[k].profiles} = {Trim(p) : p \in f.hosts[h].profiles}
    BY <2>2, <2>5 DEF CompileHost
  <2>7. i \in DOMAIN Compile(g).hostsByIdentity /\ n \in Compile(g).hostsByIdentity[i].profiles
    <3>1. /\ Trim(g.hosts[k].identity) \in DOMAIN Compile(g).hostsByIdentity
          /\ Compile(g).hostsByIdentity[Trim(g.hosts[k].identity)].profiles
               = {Trim(p) : p \in g.hosts[k].profiles}
      BY HostByIdentity
    <3>2. QED
      BY <2>3, <2>6, <3>1, Zenon
  <2>8. PICK m \in DOMAIN g.profiles :
          /\ Trim(n) = Trim(m)
          /\ ProfileHash(f.profiles[n]) = ProfileHash(g.profiles[m])
    BY <2>4, HashCovers
  <2>9. m = n
    BY <2>4, <2>8
  <2>10. /\ Compile(f).profiles[n].hash = ProfileHash(f.profiles[n])
         /\ Compile(g).profiles[n].hash = ProfileHash(g.profiles[n])
    BY <2>4, <2>8, <2>9, HashOf
  <2>11. QED
    BY <1>2, <2>7, <2>8, <2>9, <2>10
<1>3. QED
  BY <1>1, <1>2

LEMMA FilesAssumed ==
  /\ RawProfiles \subseteq ProfileType
  /\ RawHosts \subseteq HostType
  /\ RawNames \subseteq Strings
  /\ FirstFiles \subseteq
       [version : Versions,
        profiles : UNION {[D -> RawProfiles] : D \in SUBSET RawNames},
        hosts : UNION {[D -> RawHosts] : D \in SUBSET RawNames}]
  /\ \A f \in FirstFiles : IsFiniteSet(DOMAIN f.profiles) /\ IsFiniteSet(DOMAIN f.hosts)
  /\ MaxEdits \in Nat
BY PolicyCompileAssumption, Zenon

(* An entry set or removed leaves a map. *)
LEMMA MapEdits ==
  ASSUME NEW m, NEW values, IsMap(m, values), NEW n
  PROVE  /\ \A v \in values : n \in Strings => IsMap(With(m, n, v), values)
         /\ IsMap(Without(m, n), values)
<1>1. m \in [DOMAIN m -> values] /\ DOMAIN m \subseteq Strings /\ IsFiniteSet(DOMAIN m)
  BY DEF IsMap
<1>2. IsFiniteSet(DOMAIN m \cup {n}) /\ IsFiniteSet(DOMAIN m \ {n})
  BY <1>1, FS_AddElement, FS_RemoveElement
<1>3. ASSUME NEW v \in values, n \in Strings
      PROVE  IsMap(With(m, n, v), values)
  <2>1. DOMAIN With(m, n, v) = DOMAIN m \cup {n}
    BY DEF With
  <2>2. With(m, n, v) \in [DOMAIN m \cup {n} -> values]
    BY <1>1 DEF With
  <2>3. QED
    BY <1>1, <1>2, <1>3, <2>1, <2>2 DEF IsMap
<1>4. IsMap(Without(m, n), values)
  <2>1. DOMAIN Without(m, n) = DOMAIN m \ {n}
    BY DEF Without
  <2>2. Without(m, n) \in [DOMAIN m \ {n} -> values]
    BY <1>1 DEF Without
  <2>3. QED
    BY <1>1, <1>2, <2>1, <2>2 DEF IsMap
<1>5. QED
  BY <1>3, <1>4

LEMMA FileEdits ==
  ASSUME NEW f, IsFile(f), NEW p, NEW h, NEW v
  PROVE  /\ IsMap(p, ProfileType) => IsFile([f EXCEPT !.profiles = p])
         /\ IsMap(h, HostType) => IsFile([f EXCEPT !.hosts = h])
         /\ v \in Versions => IsFile([f EXCEPT !.version = v])
BY DEF IsFile

(* A name with one more character is a name, and its profile a profile. *)
LEMMA Retyped ==
  ASSUME NEW m, IsMap(m, ProfileType), NEW n \in DOMAIN m, NEW s \in m[n].dnsNames,
         NEW i \in 0..Len(s), NEW c \in Chars
  PROVE  LET t == SubSeq(s, 1, i) \o <<c>> \o SubSeq(s, i + 1, Len(s))
         IN  IsMap([m EXCEPT ![n].dnsNames = (@ \ {s}) \cup {t}], ProfileType)
<1> DEFINE t == SubSeq(s, 1, i) \o <<c>> \o SubSeq(s, i + 1, Len(s))
           q == [m[n] EXCEPT !.dnsNames = (@ \ {s}) \cup {t}]
<1>1. m[n] \in ProfileType /\ m[n].dnsNames \subseteq Names /\ s \in Seq(Chars)
  BY DEF IsMap, ProfileType, Names
<1>2. SubSeq(s, 1, i) \in Seq(Chars) /\ SubSeq(s, i + 1, Len(s)) \in Seq(Chars)
  <2>1. \A k \in 1..i : s[k] \in Chars
    BY <1>1
  <2>2. \A k \in (i + 1)..Len(s) : s[k] \in Chars
    BY <1>1
  <2>3. Len(s) \in Nat /\ i \in Int /\ i + 1 \in Int
    BY <1>1
  <2>4. QED
    BY <1>1, <2>1, <2>2, <2>3, SubSeqProperties
<1>3. t \in Names
  BY <1>2 DEF Names
<1> HIDE DEF t
<1>4. q \in ProfileType
  BY <1>1, <1>3 DEF ProfileType
<1> HIDE DEF q
<1>5. [m EXCEPT ![n].dnsNames = (@ \ {s}) \cup {t}] = [m EXCEPT ![n] = q]
  BY DEF q
<1>6. IsMap([m EXCEPT ![n] = q], ProfileType)
  BY <1>4 DEF IsMap
<1>7. QED
  BY <1>5, <1>6 DEF t

(* The decoded file is well typed after every edit. *)
THEOREM FileTypes == Spec => []TypeOK
<1>1. Init => TypeOK
  <2>1. SUFFICES ASSUME Init PROVE IsFile(file) /\ IsFile(loaded) /\ edits \in 0..MaxEdits
    BY DEF TypeOK
  <2>2. file \in FirstFiles /\ loaded = file /\ edits = 0
    BY <2>1 DEF Init
  <2>3. IsMap(file.profiles, ProfileType) /\ IsMap(file.hosts, HostType)
    <3>1. /\ file.profiles \in UNION {[D -> RawProfiles] : D \in SUBSET RawNames}
          /\ file.hosts \in UNION {[D -> RawHosts] : D \in SUBSET RawNames}
          /\ IsFiniteSet(DOMAIN file.profiles) /\ IsFiniteSet(DOMAIN file.hosts)
      BY <2>2, FilesAssumed
    <3>2. PICK D \in SUBSET RawNames : file.profiles \in [D -> RawProfiles]
      BY <3>1
    <3>3. PICK E \in SUBSET RawNames : file.hosts \in [E -> RawHosts]
      BY <3>1
    <3>4. IsMap(file.profiles, ProfileType)
      BY <3>1, <3>2, FilesAssumed DEF IsMap
    <3>5. IsMap(file.hosts, HostType)
      BY <3>1, <3>3, FilesAssumed DEF IsMap
    <3>6. QED
      BY <3>4, <3>5
  <2>4. IsFile(file)
    BY <2>2, <2>3, FilesAssumed DEF IsFile
  <2>5. QED
    BY <2>2, <2>4, FilesAssumed
<1>2. TypeOK /\ [Next]_vars => TypeOK'
  <2>1. SUFFICES ASSUME TypeOK, [Next]_vars PROVE TypeOK'
    OBVIOUS
  <2>2. /\ IsFile(file) /\ IsMap(file.profiles, ProfileType) /\ IsMap(file.hosts, HostType)
        /\ edits \in 0..MaxEdits /\ MaxEdits \in Nat
    BY <2>1, FilesAssumed DEF TypeOK, IsFile
  <2>3. ASSUME NEW f, IsFile(f), Edits(f)
        PROVE  TypeOK'
    BY <2>1, <2>2, <2>3 DEF Edits, TypeOK
  <2>4. CASE SetVersion
    BY <2>2, <2>3, <2>4, FileEdits DEF SetVersion
  <2>5. CASE SetProfile
    BY <2>2, <2>3, <2>5, FileEdits, MapEdits, FilesAssumed DEF SetProfile
  <2>6. CASE RemoveProfile
    BY <2>2, <2>3, <2>6, FileEdits, MapEdits DEF RemoveProfile
  <2>7. CASE SetHost
    BY <2>2, <2>3, <2>7, FileEdits, MapEdits, FilesAssumed DEF SetHost
  <2>8. CASE RemoveHost
    BY <2>2, <2>3, <2>8, FileEdits, MapEdits DEF RemoveHost
  <2>9. CASE Retype
    <3>0. PICK n \in DOMAIN file.profiles :
            \E s \in file.profiles[n].dnsNames : \E i \in 0..Len(s), c \in Chars :
              LET t == SubSeq(s, 1, i) \o <<c>> \o SubSeq(s, i + 1, Len(s))
              IN  Edits([file EXCEPT !.profiles[n].dnsNames = (@ \ {s}) \cup {t}])
      BY <2>9 DEF Retype
    <3>1. PICK s \in file.profiles[n].dnsNames : \E i \in 0..Len(s), c \in Chars :
            LET t == SubSeq(s, 1, i) \o <<c>> \o SubSeq(s, i + 1, Len(s))
            IN  Edits([file EXCEPT !.profiles[n].dnsNames = (@ \ {s}) \cup {t}])
      BY <3>0
    <3>2. PICK i \in 0..Len(s), c \in Chars :
            LET t == SubSeq(s, 1, i) \o <<c>> \o SubSeq(s, i + 1, Len(s))
            IN  Edits([file EXCEPT !.profiles[n].dnsNames = (@ \ {s}) \cup {t}])
      BY <3>1
    <3> DEFINE t == SubSeq(s, 1, i) \o <<c>> \o SubSeq(s, i + 1, Len(s))
               p == [file.profiles EXCEPT ![n].dnsNames = (@ \ {s}) \cup {t}]
    <3>3. IsMap(p, ProfileType)
      BY <2>2, Retyped
    <3>4. [file EXCEPT !.profiles[n].dnsNames = (@ \ {s}) \cup {t}]
            = [file EXCEPT !.profiles = p]
      OBVIOUS
    <3> HIDE DEF p
    <3>5. QED
      BY <2>2, <2>3, <3>2, <3>3, <3>4, FileEdits
  <2>10. CASE Reload
    BY <2>1, <2>10 DEF Reload, TypeOK
  <2>11. CASE UNCHANGED vars
    BY <2>1, <2>11 DEF vars, TypeOK
  <2>12. QED
    BY <2>1, <2>4, <2>5, <2>6, <2>7, <2>8, <2>9, <2>10, <2>11 DEF Next
<1>3. QED
  BY <1>1, <1>2, PTL DEF Spec

(* In every state, whatever the operator has written or typed into them,   *)
(* the names of the file are accepted and changed as they should be.       *)
THEOREM CanonicalMeans == Spec => []CanonicalMeaning
<1>1. TypeOK => CanonicalMeaning
  <2>1. SUFFICES ASSUME TypeOK, NEW n \in DOMAIN file.profiles,
                        NEW s \in file.profiles[n].dnsNames
                 PROVE  Meanings(s) = {Canonical(s)} \ {Invalid}
    BY DEF CanonicalMeaning
  <2>2. file.profiles[n] \in ProfileType
    BY <2>1 DEF TypeOK, IsFile, IsMap
  <2>3. s \in Names
    BY <2>1, <2>2 DEF ProfileType
  <2>4. QED
    BY <2>3, CanonicalIsMeant
<1>2. QED
  BY <1>1, FileTypes, PTL

(* Two policies in a row with the same hash grant the same. *)
THEOREM HashIdentifies == Spec => HashIdentifiesPolicy
<1> DEFINE Identified ==
      /\ policy # NoPolicy
      /\ \A n \in DOMAIN policy.profiles \cup DOMAIN policy'.profiles : Trim(n) = n
      /\ policy.hash = policy'.hash
      => Grants(policy) = Grants(policy')
<1>1. ASSUME TypeOK, TypeOK', PolicyIsCompiled, [Next]_vars
      PROVE  Identified
  <2>1. SUFFICES ASSUME policy # NoPolicy, policy.hash = policy'.hash,
                        \A n \in DOMAIN policy.profiles \cup DOMAIN policy'.profiles : Trim(n) = n
                 PROVE  Grants(policy) = Grants(policy')
    OBVIOUS
  <2>2. CASE policy' = policy
    BY <2>2
  <2>3. CASE Reload
    <3>1. /\ Compiles(loaded) /\ policy = Compile(loaded) /\ IsFile(loaded)
          /\ Compiles(loaded') /\ policy' = Compile(loaded') /\ IsFile(loaded')
      BY <1>1, <2>1, <2>3 DEF Reload, PolicyIsCompiled, TypeOK
    <3>2. \A n \in DOMAIN loaded.profiles \cup DOMAIN loaded'.profiles : Trim(n) = n
      BY <2>1, <3>1, ProfilesOf
    <3>3. Grants(policy) \subseteq Grants(policy')
      BY <2>1, <3>1, <3>2, HashGrants
    <3>4. Grants(policy') \subseteq Grants(policy)
      BY <2>1, <3>1, <3>2, HashGrants
    <3>5. QED
      BY <3>3, <3>4
  <2>4. QED
    BY <1>1, <2>2, <2>3 DEF Next, SetVersion, SetProfile, RemoveProfile, SetHost,
       RemoveHost, Retype, Edits, vars
<1>2. QED
  BY <1>1, FileTypes, PolicyInvariance, PTL DEF Spec, HashIdentifiesPolicy
=============================================================================
