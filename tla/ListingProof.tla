---------------------------- MODULE ListingProof ----------------------------
(***************************************************************************)
(* Proofs about Listing for any IDs, any page sizes and any number of      *)
(* creations and deletions while the caller is paging.                     *)
(***************************************************************************)
EXTENDS Listing, FiniteSetTheorems, TLAPS

-----------------------------------------------------------------------------
(* Ranks: how many entries are listed before an ID.                        *)

LEMMA Finite ==
  ASSUME NEW S \in SUBSET IDs
  PROVE  /\ IsFiniteSet(S) /\ Cardinality(S) \in Nat
         /\ \A i : IsFiniteSet({j \in S : j < i})
         /\ \A i : Rank(S, i) \in Nat
<1>1. IsFiniteSet(S) /\ Cardinality(S) \in Nat
  BY ListingAssumption, FS_Subset, FS_CardinalityType
<1>2. \A i : IsFiniteSet({j \in S : j < i})
  BY <1>1, FS_Subset
<1>. QED
  BY <1>1, <1>2, FS_CardinalityType DEF Rank

LEMMA RankMonotone ==
  ASSUME NEW S \in SUBSET IDs, NEW i \in IDs, NEW j \in IDs, i <= j
  PROVE  /\ Rank(S, i) <= Rank(S, j)
         /\ i \in S /\ i < j => Rank(S, i) < Rank(S, j)
<1>. DEFINE A == {k \in S : k < i}
            B == {k \in S : k < j}
<1>0. i \in Nat /\ j \in Nat /\ \A k \in S : k \in Nat
  BY ListingAssumption
<1>1. A \in SUBSET B
  <2>1. \A k \in S : k < i => k < j
    BY <1>0
  <2>. QED
    BY <2>1
<1>2. IsFiniteSet(A) /\ IsFiniteSet(B) /\ Cardinality(A) \in Nat /\ Cardinality(B) \in Nat
  BY Finite, FS_CardinalityType
<1>3. Cardinality(A) <= Cardinality(B) /\ (Cardinality(A) = Cardinality(B) => A = B)
  BY <1>1, <1>2, FS_Subset
<1>4. i \in S /\ i < j => A # B
  BY ListingAssumption
<1>. QED
  BY <1>2, <1>3, <1>4 DEF Rank

LEMMA RankBelow ==
  ASSUME NEW S \in SUBSET IDs, NEW i \in IDs
  PROVE  /\ Rank(S, i) <= Cardinality(S)
         /\ i \in S => Rank(S, i) < Cardinality(S)
<1>. DEFINE A == {k \in S : k < i}
<1>1. A \in SUBSET S /\ (i \in S => A # S)
  BY ListingAssumption
<1>2. IsFiniteSet(S) /\ Cardinality(A) \in Nat /\ Cardinality(S) \in Nat
  BY Finite, FS_CardinalityType
<1>3. Cardinality(A) <= Cardinality(S) /\ (Cardinality(S) = Cardinality(A) => S = A)
  BY <1>1, <1>2, FS_Subset
<1>. QED
  BY <1>1, <1>2, <1>3 DEF Rank

LEMMA RankInjective ==
  ASSUME NEW S \in SUBSET IDs, NEW i \in S, NEW j \in S, Rank(S, i) = Rank(S, j)
  PROVE  i = j
<1>1. i \in IDs /\ j \in IDs /\ i \in Nat /\ j \in Nat /\ Rank(S, i) \in Nat /\ Rank(S, j) \in Nat
  BY ListingAssumption, Finite
<1>2. ~(i < j) /\ ~(j < i)
  BY <1>1, RankMonotone
<1>. QED
  BY <1>1, <1>2

(* Every place of the listing is taken: the ranks of N IDs are N different *)
(* numbers below N.                                                        *)
LEMMA RankOnto ==
  ASSUME NEW S \in SUBSET IDs, NEW k \in 0 .. Cardinality(S) - 1
  PROVE  \E i \in S : Rank(S, i) = k
<1>. DEFINE n == Cardinality(S)
            T == 0 .. n - 1
            f == [i \in S |-> Rank(S, i)]
<1>1. n \in Nat /\ IsFiniteSet(S)
  BY Finite
<1>2. IsFiniteSet(T) /\ Cardinality(T) = n
  BY <1>1, FS_Interval
<1>3. \A i \in S : Rank(S, i) \in T
  BY <1>1, Finite, RankBelow
<1>4. f \in [S -> T] /\ \A i, j \in S : f[i] = f[j] => i = j
  BY <1>3, RankInjective
<1>5. f \in Injection(S, T)
  BY <1>4 DEF Injection, IsInjective
<1>6. f \in Surjection(S, T)
  BY <1>1, <1>2, <1>5, FS_Injection
<1>7. \E i \in S : f[i] = k
  BY <1>6 DEF Surjection
<1>. QED
  BY <1>7

(* One ID more or less.                                                    *)
LEMMA RankCreated ==
  ASSUME NEW S \in SUBSET IDs, NEW j \in IDs \ S, NEW i \in IDs
  PROVE  Rank(S \union {j}, i) = Rank(S, i) + (IF j < i THEN 1 ELSE 0)
<1>. DEFINE A == {k \in S : k < i}
<1>1. IsFiniteSet(A) /\ Cardinality(A) \in Nat /\ j \notin A
  BY Finite, FS_CardinalityType
<1>2. {k \in S \union {j} : k < i} = IF j < i THEN A \union {j} ELSE A
  BY ListingAssumption
<1>3. Cardinality(A \union {j}) = Cardinality(A) + 1
  BY <1>1, FS_AddElement
<1>. QED
  BY <1>1, <1>2, <1>3 DEF Rank

LEMMA RankDeleted ==
  ASSUME NEW S \in SUBSET IDs, NEW j \in S, NEW i \in IDs
  PROVE  Rank(S, i) = Rank(S \ {j}, i) + (IF j < i THEN 1 ELSE 0)
<1>1. S \ {j} \in SUBSET IDs /\ j \in IDs \ (S \ {j}) /\ (S \ {j}) \union {j} = S
  OBVIOUS
<1>. QED
  BY <1>1, RankCreated

-----------------------------------------------------------------------------
(* The listing and a page of it.                                           *)

Size == Cardinality(there)

LEMMA ListedFacts ==
  ASSUME TypeOK
  PROVE  /\ Size \in Nat /\ Listed \in Seq(IDs) /\ Len(Listed) = Size /\ DOMAIN Listed = 1 .. Size
         /\ \A k \in 1 .. Size : Listed[k] \in there /\ Rank(there, Listed[k]) = k - 1
         /\ \A i \in there : Rank(there, i) + 1 \in 1 .. Size /\ Listed[Rank(there, i) + 1] = i
<1>1. there \in SUBSET IDs /\ Size \in Nat
  BY Finite DEF TypeOK, Size
<1>2. \A k \in 1 .. Size : Listed[k] \in there /\ Rank(there, Listed[k]) = k - 1
  <2>1. SUFFICES ASSUME NEW k \in 1 .. Size
                 PROVE  Listed[k] \in there /\ Rank(there, Listed[k]) = k - 1
    OBVIOUS
  <2>2. k - 1 \in 0 .. Cardinality(there) - 1
    BY <1>1 DEF Size
  <2>3. \E i \in there : Rank(there, i) = k - 1
    BY <1>1, <2>2, RankOnto
  <2>4. Listed[k] = CHOOSE i \in there : Rank(there, i) = k - 1
    BY DEF Listed, Size
  <2>. QED
    BY <2>3, <2>4
<1>3. DOMAIN Listed = 1 .. Size /\ Listed \in [1 .. Size -> IDs]
  BY <1>1, <1>2 DEF Listed, Size
<1>4. Listed \in Seq(IDs) /\ Len(Listed) = Size
  BY <1>1, <1>3
<1>5. \A i \in there : Rank(there, i) + 1 \in 1 .. Size /\ Listed[Rank(there, i) + 1] = i
  <2>1. SUFFICES ASSUME NEW i \in there
                 PROVE  Rank(there, i) + 1 \in 1 .. Size /\ Listed[Rank(there, i) + 1] = i
    OBVIOUS
  <2>2. Rank(there, i) \in Nat /\ Rank(there, i) < Size
    BY <1>1, Finite, RankBelow DEF Size
  <2>3. Rank(there, i) + 1 \in 1 .. Size
    BY <1>1, <2>2
  <2>4. Listed[Rank(there, i) + 1] \in there /\ Rank(there, Listed[Rank(there, i) + 1]) = Rank(there, i)
    BY <1>2, <2>2, <2>3
  <2>. QED
    BY <1>1, <2>3, <2>4, RankInjective
<1>. QED
  BY <1>1, <1>2, <1>3, <1>4, <1>5

LEMMA Shift == \A a, b, c \in Int : /\ a - b = c <=> a = b + c
                                      /\ b + (a - b) = a
  OBVIOUS

(* Entries first + 1 to last are those with the ranks first to last - 1.   *)
Slice(first, last) == SubSeq(Listed, first + 1, last)

LEMMA PageFacts ==
  ASSUME TypeOK, NEW first \in 0 .. Size, NEW last \in first .. Size
  PROVE  \E p \in Seq(IDs) :
            /\ p = Slice(first, last) /\ Len(p) = last - first
            /\ \A k \in 1 .. last - first : p[k] = Listed[first + k]
            /\ \A i \in there : (\E k \in 1 .. Len(p) : p[k] = i)
                                 <=> first <= Rank(there, i) /\ Rank(there, i) < last
<1>. DEFINE p == Slice(first, last)
<1>1. /\ Size \in Nat /\ Listed \in Seq(IDs) /\ Len(Listed) = Size /\ DOMAIN Listed = 1 .. Size
      /\ \A k \in 1 .. Size : Listed[k] \in there /\ Rank(there, Listed[k]) = k - 1
      /\ \A i \in there : Rank(there, i) + 1 \in 1 .. Size /\ Listed[Rank(there, i) + 1] = i
  BY ListedFacts
<1>2. p \in Seq(IDs) /\ Len(p) = last - first /\ \A k \in 1 .. last - first : p[k] = Listed[first + k]
  BY <1>1 DEF Slice
<1>. HIDE DEF p
<1>3. ASSUME NEW i \in there, NEW k \in 1 .. Len(p), p[k] = i
      PROVE  first <= Rank(there, i) /\ Rank(there, i) < last
  <2>1. PICK l \in Nat : l = Len(p) /\ l = last - first /\ k \in 1 .. l
    BY <1>1, <1>2, <1>3
  <2>2. first + k \in 1 .. Size /\ first + k - 1 < last /\ first <= first + k - 1
    BY <1>1, <2>1
  <2>3. Listed[first + k] = i
    BY <1>2, <1>3, <2>1
  <2>4. Rank(there, i) = first + k - 1
    BY <1>1, <2>2, <2>3
  <2>. QED
    BY <2>2, <2>4
<1>4. ASSUME NEW i \in there, first <= Rank(there, i), Rank(there, i) < last
      PROVE  \E k \in 1 .. Len(p) : p[k] = i
  <2>1. PICK r \in Nat : r = Rank(there, i)
    BY Finite DEF TypeOK
  <2>2. first \in Nat /\ last \in Nat /\ first <= r /\ r < last
    BY <1>1, <1>4, <2>1
  <2>3. r + 1 - first \in 1 .. last - first /\ first + (r + 1 - first) = r + 1
    BY <2>2
  <2>4. p[r + 1 - first] = i
    BY <1>1, <1>2, <2>1, <2>3
  <2>. QED
    BY <1>2, <2>3, <2>4
<1>5. \A i \in there : (\E k \in 1 .. Len(p) : p[k] = i)
                        <=> first <= Rank(there, i) /\ Rank(there, i) < last
  BY <1>3, <1>4, Zenon
<1>6. p = Slice(first, last)
  BY DEF p
<1>. QED
  BY <1>2, <1>5, <1>6

-----------------------------------------------------------------------------
(* What the caller has received.                                           *)

Count(g, i) == Cardinality({k \in DOMAIN g : g[k] = i})

LEMMA Counted ==
  ASSUME NEW g \in Seq(IDs), NEW i
  PROVE  /\ IsFiniteSet({k \in DOMAIN g : g[k] = i}) /\ Count(g, i) \in Nat
         /\ Count(g, i) = 0 <=> \A k \in 1 .. Len(g) : g[k] # i
<1>. DEFINE A == {k \in DOMAIN g : g[k] = i}
<1>1. DOMAIN g = 1 .. Len(g) /\ Len(g) \in Nat
  OBVIOUS
<1>2. IsFiniteSet(1 .. Len(g))
  BY <1>1, FS_Interval
<1>3. IsFiniteSet(A)
  BY <1>1, <1>2, FS_Subset
<1>4. Cardinality(A) \in Nat /\ (Cardinality(A) = 0 <=> A = {})
  BY <1>3, FS_CardinalityType, FS_EmptySet
<1>5. A = {} <=> \A k \in 1 .. Len(g) : g[k] # i
  BY <1>1
<1>. QED
  BY <1>3, <1>4, <1>5 DEF Count

LEMMA Appended ==
  ASSUME NEW g \in Seq(IDs), NEW p \in Seq(IDs), NEW q \in Seq(IDs), q = g \o p
  PROVE  /\ q \in Seq(IDs) /\ Len(q) = Len(g) + Len(p) /\ DOMAIN q = 1 .. Len(g) + Len(p)
         /\ \A k \in 1 .. Len(g) : q[k] = g[k]
         /\ \A k \in 1 .. Len(p) : q[Len(g) + k] = p[k]
  OBVIOUS

(* A page without repetitions counts once.                                 *)
Distinct(p) == \A a, b \in 1 .. Len(p) : p[a] = p[b] => a = b
Contains(p, i) == \E k \in 1 .. Len(p) : p[k] = i

LEMMA CountAppended ==
  ASSUME NEW g \in Seq(IDs), NEW p \in Seq(IDs), NEW q \in Seq(IDs), NEW i \in IDs, q = g \o p, Distinct(p)
  PROVE  /\ Contains(p, i) => Count(q, i) = Count(g, i) + 1
         /\ ~Contains(p, i) => Count(q, i) = Count(g, i)
<1>1. /\ DOMAIN q = 1 .. Len(g) + Len(p) /\ DOMAIN g = 1 .. Len(g) /\ Len(g) \in Nat /\ Len(p) \in Nat
      /\ \A k \in 1 .. Len(g) : q[k] = g[k]
      /\ \A k \in 1 .. Len(p) : q[Len(g) + k] = p[k]
  BY Appended
<1>. DEFINE A == {k \in DOMAIN g : g[k] = i}
            B == {k \in DOMAIN q : q[k] = i}
<1>2. IsFiniteSet(A) /\ Cardinality(A) \in Nat
  BY Counted DEF Count
<1>3. ASSUME NEW k \in DOMAIN q, k \notin DOMAIN g
      PROVE  k - Len(g) \in 1 .. Len(p) /\ q[k] = p[k - Len(g)]
  <2>1. k - Len(g) \in 1 .. Len(p) /\ Len(g) + (k - Len(g)) = k
    BY <1>1, <1>3
  <2>. QED
    BY <1>1, <2>1
<1>4. CASE Contains(p, i)
  <2>1. PICK c \in 1 .. Len(p) : p[c] = i
    BY <1>4 DEF Contains
  <2>2. Len(g) + c \in DOMAIN q /\ Len(g) + c \notin DOMAIN g /\ q[Len(g) + c] = i
    BY <1>1, <2>1
  <2>3. \A k \in DOMAIN q : k \notin DOMAIN g /\ q[k] = i => k = Len(g) + c
    <3>1. SUFFICES ASSUME NEW k \in DOMAIN q, k \notin DOMAIN g, q[k] = i PROVE k = Len(g) + c
      OBVIOUS
    <3>2. k - Len(g) \in 1 .. Len(p) /\ p[k - Len(g)] = p[c]
      BY <1>3, <2>1, <3>1
    <3>3. k - Len(g) = c
      BY <2>1, <3>2 DEF Distinct
    <3>4. k \in Int /\ Len(g) \in Int /\ c \in Int
      BY <1>1
    <3>. QED
      BY <3>3, <3>4, Shift, Zenon
  <2>4. \A k \in DOMAIN g : k \in DOMAIN q /\ q[k] = g[k]
    BY <1>1
  <2>5. B = A \union {Len(g) + c} /\ Len(g) + c \notin A
    BY <2>2, <2>3, <2>4
  <2>6. Cardinality(B) = Cardinality(A) + 1
    BY <1>2, <2>5, FS_AddElement
  <2>. QED
    BY <1>4, <2>6 DEF Count
<1>5. CASE ~Contains(p, i)
  <2>1. \A k \in DOMAIN q : k \notin DOMAIN g => q[k] # i
    BY <1>3, <1>5 DEF Contains
  <2>2. \A k \in DOMAIN g : k \in DOMAIN q /\ q[k] = g[k]
    BY <1>1
  <2>3. B = A
    BY <2>1, <2>2
  <2>4. Count(q, i) = Count(g, i)
    BY <2>3 DEF Count
  <2>. QED
    BY <1>5, <2>4
<1>. QED
  BY <1>4, <1>5

-----------------------------------------------------------------------------
(* The invariant.                                                          *)

Received(i) == \E k \in 1 .. Len(got) : got[k] = i

(* ListVolumes: the entries received so far are the listing up to the      *)
(* token, less what was deleted and not what was created there since.      *)
VolumesInv ==
    rpc = "ListVolumes" =>
        /\ \A a, b \in 1 .. Len(got) : a < b => got[a] < got[b]
        /\ state = "paging" =>
              /\ \A k \in 1 .. Len(got) : got[k] <= token
              /\ \A i \in stable : i <= token => Received(i)
        /\ state = "done" => \A i \in stable : Received(i)

(* ListSnapshots: what the offset has passed without being received was    *)
(* moved there by a deletion; what was received and is yet to come was     *)
(* moved back by a creation.                                               *)
Passed(i) == Rank(there, i) < token
MissedPassed == {i \in stable : Times(i) = 0 /\ Passed(i)}

SnapshotsInv ==
    rpc # "ListVolumes" /\ ~hidden =>
        /\ state = "paging" =>
              /\ Cardinality(MissedPassed) <= removed
              /\ \A i \in IDs : Times(i) <= added + (IF Passed(i) THEN 1 ELSE 0)
        /\ state = "done" => SnapshotsMissedBounded

ListingInv == TypeOK /\ VolumesInv /\ SnapshotsInv

LEMMA ListingInit == Init => ListingInv
<1>. SUFFICES ASSUME Init PROVE ListingInv
  OBVIOUS
<1>1. TypeOK
  <2>1. /\ MaxChanges \in Nat /\ 0 + 0 <= MaxChanges /\ 0 \in Nat /\ FALSE \in BOOLEAN
        /\ <<>> \in Seq(IDs)
    BY ListingAssumption
  <2>. QED
    BY <2>1 DEF Init, TypeOK
<1>2. VolumesInv
  BY ListingAssumption DEF Init, VolumesInv, TypeOK
<1>3. /\ \A i \in IDs : ~Passed(i)
      /\ \A i : Times(i) = 0
  <2>1. \A i : Rank(there, i) \in Nat /\ token = 0
    BY <1>1, Finite DEF Init, TypeOK
  <2>2. \A i : {k \in DOMAIN got : got[k] = i} = {}
    BY DEF Init
  <2>. QED
    BY <2>1, <2>2, FS_EmptySet DEF Passed, Times
<1>4. MissedPassed = {}
  BY <1>1, <1>3 DEF MissedPassed, TypeOK
<1>5. SnapshotsInv
  BY <1>3, <1>4, FS_EmptySet DEF SnapshotsInv, Init
<1>. QED
  BY <1>1, <1>2, <1>5 DEF ListingInv

(* The invariants read these variables only.                               *)
LEMMA ListingStutter == ListingInv /\ UNCHANGED vars => ListingInv'
  BY DEF ListingInv, TypeOK, VolumesInv, SnapshotsInv, Received, Passed, MissedPassed, Times,
         SnapshotsMissedBounded, vars

-----------------------------------------------------------------------------
(* Creations and deletions.                                                *)

LEMMA TypeFacts ==
  ASSUME TypeOK
  PROVE  /\ there \in SUBSET IDs /\ stable \in SUBSET IDs /\ token \in Nat /\ got \in Seq(IDs)
         /\ max \in Nat /\ added \in Nat /\ removed \in Nat /\ MaxChanges \in Nat
         /\ \A i : Times(i) = Count(got, i) /\ Times(i) \in Nat
         /\ IsFiniteSet(MissedPassed) /\ Cardinality(MissedPassed) \in Nat
<1>1. /\ there \in SUBSET IDs /\ stable \in SUBSET IDs /\ token \in Nat /\ got \in Seq(IDs)
      /\ max \in Nat /\ added \in Nat /\ removed \in Nat /\ MaxChanges \in Nat
  BY ListingAssumption DEF TypeOK
<1>2. \A i : Times(i) = Count(got, i) /\ Times(i) \in Nat
  BY <1>1, Counted DEF Times, Count
<1>3. MissedPassed \in SUBSET IDs
  BY <1>1 DEF MissedPassed
<1>4. IsFiniteSet(MissedPassed) /\ Cardinality(MissedPassed) \in Nat
  BY <1>3, Finite
<1>. QED
  BY <1>1, <1>2, <1>4

LEMMA SameVolumes ==
  ASSUME VolumesInv, UNCHANGED <<rpc, token, got, state>>, stable' \subseteq stable
  PROVE  VolumesInv'
  BY DEF VolumesInv, Received

LEMMA CreatedKeeps ==
  ASSUME ListingInv, NEW j \in IDs, Created(j)
  PROVE  ListingInv'
<1>1. /\ TypeOK /\ VolumesInv /\ SnapshotsInv /\ state = "paging" /\ state' = "paging"
      /\ there' = there \union {j} /\ j \in IDs \ there /\ added' = added + 1
      /\ added + removed < MaxChanges
      /\ UNCHANGED <<rpc, max, token, got, state, stable, hidden, removed>>
  BY DEF ListingInv, Created
<1>2. TypeOK'
  BY <1>1, ListingAssumption DEF TypeOK
<1>3. VolumesInv'
  BY <1>1, SameVolumes
<1>4. /\ there \in SUBSET IDs /\ stable \in SUBSET IDs /\ token \in Nat
      /\ added \in Nat /\ removed \in Nat /\ \A i : Times(i) \in Nat /\ Times(i)' = Times(i)
      /\ IsFiniteSet(MissedPassed) /\ Cardinality(MissedPassed) \in Nat
  BY <1>1, TypeFacts DEF Times
<1>5. \A i \in IDs : Passed(i)' => Passed(i)
  <2>1. SUFFICES ASSUME NEW i \in IDs PROVE Passed(i)' => Passed(i)
    OBVIOUS
  <2>2. Rank(there, i) \in Nat /\ Rank(there', i) = Rank(there, i) + (IF j < i THEN 1 ELSE 0)
    BY <1>1, <1>4, Finite, RankCreated
  <2>. QED
    BY <1>1, <1>4, <2>2 DEF Passed
<1>6. MissedPassed' \in SUBSET MissedPassed
  BY <1>1, <1>4, <1>5 DEF MissedPassed
<1>7. Cardinality(MissedPassed') <= Cardinality(MissedPassed) /\ Cardinality(MissedPassed') \in Nat
  BY <1>4, <1>6, FS_Subset, FS_CardinalityType
<1>8. SnapshotsInv'
  <2>1. SUFFICES ASSUME rpc # "ListVolumes", ~hidden
                 PROVE  /\ Cardinality(MissedPassed') <= removed'
                        /\ \A i \in IDs : Times(i)' <= added' + (IF Passed(i)' THEN 1 ELSE 0)
    BY <1>1 DEF SnapshotsInv
  <2>2. /\ Cardinality(MissedPassed) <= removed
        /\ \A i \in IDs : Times(i) <= added + (IF Passed(i) THEN 1 ELSE 0)
    BY <1>1, <2>1 DEF SnapshotsInv
  <2>3. Cardinality(MissedPassed') <= removed'
    BY <1>1, <1>4, <1>7, <2>2
  <2>4. ASSUME NEW i \in IDs
        PROVE  Times(i)' <= added' + (IF Passed(i)' THEN 1 ELSE 0)
    BY <1>1, <1>4, <2>2
  <2>. QED
    BY <2>3, <2>4
<1>. QED
  BY <1>2, <1>3, <1>8 DEF ListingInv

LEMMA DeletedKeeps ==
  ASSUME ListingInv, NEW j \in IDs, Deleted(j)
  PROVE  ListingInv'
<1>1. /\ TypeOK /\ VolumesInv /\ SnapshotsInv /\ state = "paging" /\ state' = "paging"
      /\ there' = there \ {j} /\ j \in there /\ stable' = stable \ {j} /\ removed' = removed + 1
      /\ added + removed < MaxChanges
      /\ UNCHANGED <<rpc, max, token, got, state, hidden, added>>
  BY DEF ListingInv, Deleted
<1>2. TypeOK'
  BY <1>1, ListingAssumption DEF TypeOK
<1>3. VolumesInv'
  BY <1>1, SameVolumes
<1>4. /\ there \in SUBSET IDs /\ stable \in SUBSET IDs /\ token \in Nat /\ stable \subseteq there
      /\ added \in Nat /\ removed \in Nat /\ \A i : Times(i) \in Nat /\ Times(i)' = Times(i)
      /\ IsFiniteSet(MissedPassed) /\ Cardinality(MissedPassed) \in Nat
  BY <1>1, TypeFacts DEF Times, TypeOK
<1>5. \A i \in IDs : /\ Passed(i) => Passed(i)'
                     /\ Passed(i)' => Passed(i) \/ Rank(there, i) = token
  <2>1. SUFFICES ASSUME NEW i \in IDs
                 PROVE  /\ Passed(i) => Passed(i)'
                        /\ Passed(i)' => Passed(i) \/ Rank(there, i) = token
    OBVIOUS
  <2>2. /\ Rank(there', i) \in Nat /\ Rank(there, i) \in Nat
        /\ Rank(there, i) = Rank(there', i) + (IF j < i THEN 1 ELSE 0)
    BY <1>1, <1>4, Finite, RankDeleted
  <2>. QED
    BY <1>1, <1>4, <2>2 DEF Passed
<1>6. Cardinality(MissedPassed') <= Cardinality(MissedPassed) + 1
  <2>1. CASE \E i \in there : Rank(there, i) = token
    <3>1. PICK i \in there : Rank(there, i) = token
      BY <2>1
    <3>2. \A k \in there : Rank(there, k) = token => k = i
      BY <1>4, <3>1, RankInjective
    <3>3. MissedPassed' \in SUBSET (MissedPassed \union {i})
      BY <1>1, <1>4, <1>5, <3>2 DEF MissedPassed
    <3>4. /\ IsFiniteSet(MissedPassed \union {i})
          /\ Cardinality(MissedPassed \union {i}) <= Cardinality(MissedPassed) + 1
          /\ Cardinality(MissedPassed \union {i}) \in Nat
      <4>1. /\ IsFiniteSet(MissedPassed \union {i})
            /\ Cardinality(MissedPassed \union {i}) =
                  IF i \in MissedPassed THEN Cardinality(MissedPassed) ELSE Cardinality(MissedPassed) + 1
        BY <1>4, FS_AddElement
      <4>. QED
        BY <1>4, <4>1
    <3>5. IsFiniteSet(MissedPassed') /\ Cardinality(MissedPassed') <= Cardinality(MissedPassed \union {i})
      BY <3>3, <3>4, FS_Subset
    <3>6. Cardinality(MissedPassed') \in Nat
      BY <3>5, FS_CardinalityType
    <3>. QED
      BY <1>4, <3>4, <3>5, <3>6
  <2>2. CASE ~ \E i \in there : Rank(there, i) = token
    <3>1. MissedPassed' \in SUBSET MissedPassed
      BY <1>1, <1>4, <1>5, <2>2 DEF MissedPassed
    <3>2. Cardinality(MissedPassed') <= Cardinality(MissedPassed) /\ Cardinality(MissedPassed') \in Nat
      BY <1>4, <3>1, FS_Subset, FS_CardinalityType
    <3>. QED
      BY <1>4, <3>2
  <2>. QED
    BY <2>1, <2>2
<1>7. SnapshotsInv'
  <2>1. SUFFICES ASSUME rpc # "ListVolumes", ~hidden
                 PROVE  /\ Cardinality(MissedPassed') <= removed'
                        /\ \A i \in IDs : Times(i)' <= added' + (IF Passed(i)' THEN 1 ELSE 0)
    BY <1>1 DEF SnapshotsInv
  <2>2. /\ Cardinality(MissedPassed) <= removed
        /\ \A i \in IDs : Times(i) <= added + (IF Passed(i) THEN 1 ELSE 0)
    BY <1>1, <2>1 DEF SnapshotsInv
  <2>3. Cardinality(MissedPassed') <= removed'
    <3>1. MissedPassed' \in SUBSET IDs
      BY <1>1, <1>4 DEF MissedPassed
    <3>2. Cardinality(MissedPassed') \in Nat
      BY <3>1, Finite
    <3>. QED
      BY <1>1, <1>4, <1>6, <2>2, <3>2
  <2>4. ASSUME NEW i \in IDs
        PROVE  Times(i)' <= added' + (IF Passed(i)' THEN 1 ELSE 0)
    BY <1>1, <1>4, <1>5, <2>2
  <2>. QED
    BY <2>3, <2>4
<1>. QED
  BY <1>2, <1>3, <1>7 DEF ListingInv

-----------------------------------------------------------------------------
(* A call.                                                                 *)

LEMMA LimitFacts ==
  ASSUME TypeOK, NEW start \in 0 .. Size
  PROVE  /\ Limit(start) \in start .. Size
         /\ Limit(start) < Size => start < Limit(start)
<1>1. Size \in Nat /\ Len(Listed) = Size /\ max \in Nat
  BY ListedFacts, TypeFacts
<1>. QED
  BY <1>1 DEF Limit

(* The caller gets each entry of the page once, and nothing else.          *)
LEMMA PageTimes ==
  ASSUME TypeOK, NEW first \in 0 .. Size, NEW last \in first .. Size,
         got' = got \o Slice(first, last)
  PROVE  /\ got' \in Seq(IDs)
         /\ \A i \in IDs : Times(i)' = Times(i) +
                (IF i \in there /\ first <= Rank(there, i) /\ Rank(there, i) < last THEN 1 ELSE 0)
<1>1. PICK p \in Seq(IDs) :
            /\ p = Slice(first, last) /\ Len(p) = last - first
            /\ \A k \in 1 .. last - first : p[k] = Listed[first + k]
            /\ \A i \in there : (\E k \in 1 .. Len(p) : p[k] = i)
                                 <=> first <= Rank(there, i) /\ Rank(there, i) < last
  BY PageFacts
<1>2. /\ p \in Seq(IDs) /\ Len(p) = last - first
      /\ \A k \in 1 .. last - first : p[k] = Listed[first + k]
      /\ \A i \in there : (\E k \in 1 .. Len(p) : p[k] = i)
                           <=> first <= Rank(there, i) /\ Rank(there, i) < last
  BY <1>1
<1>3. /\ Size \in Nat
      /\ \A k \in 1 .. Size : Listed[k] \in there /\ Rank(there, Listed[k]) = k - 1
  BY ListedFacts
<1>4. \A k \in 1 .. Len(p) : p[k] \in there /\ Rank(there, p[k]) = first + k - 1
  <2>1. SUFFICES ASSUME NEW k \in 1 .. Len(p)
                 PROVE  p[k] \in there /\ Rank(there, p[k]) = first + k - 1
    OBVIOUS
  <2>2. first + k \in 1 .. Size /\ k \in 1 .. last - first
    BY <1>2, <1>3
  <2>. QED
    <3>1. p[k] = Listed[first + k]
      BY <1>2, <2>2
    <3>2. Listed[first + k] \in there /\ Rank(there, Listed[first + k]) = first + k - 1
      BY <1>3, <2>2
    <3>. QED
      BY <3>1, <3>2
<1>5. Distinct(p)
  <2>1. SUFFICES ASSUME NEW a \in 1 .. Len(p), NEW b \in 1 .. Len(p), p[a] = p[b] PROVE a = b
    BY DEF Distinct
  <2>2. first + a - 1 = first + b - 1
    BY <1>4, <2>1
  <2>. QED
    BY <2>2
<1>6. got \in Seq(IDs) /\ got' = got \o p
  BY <1>1 DEF TypeOK
<1>7. got' \in Seq(IDs)
  BY <1>2, <1>6, Appended
<1>8. ASSUME NEW i \in IDs
      PROVE  Times(i)' = Times(i) +
                (IF i \in there /\ first <= Rank(there, i) /\ Rank(there, i) < last THEN 1 ELSE 0)
  <2>1. Times(i)' = Count(got', i) /\ Times(i) = Count(got, i)
    BY DEF Times, Count
  <2>2. /\ Contains(p, i) => Count(got', i) = Count(got, i) + 1
        /\ ~Contains(p, i) => Count(got', i) = Count(got, i)
    <3>1. PICK q, g \in Seq(IDs) : q = got' /\ g = got
      BY <1>6, <1>7
    <3>2. q = g \o p
      BY <1>6, <3>1
    <3>3. /\ Contains(p, i) => Count(q, i) = Count(g, i) + 1
          /\ ~Contains(p, i) => Count(q, i) = Count(g, i)
      BY <1>5, <3>2, CountAppended
    <3>. QED
      BY <3>1, <3>3
  <2>3. Contains(p, i)
          <=> i \in there /\ first <= Rank(there, i) /\ Rank(there, i) < last
    BY <1>2, <1>4 DEF Contains
  <2>4. Times(i) \in Nat
    BY TypeFacts
  <2>. QED
    BY <2>1, <2>2, <2>3, <2>4
<1>. QED
  BY <1>7, <1>8

LEMMA PageTyped ==
  ASSUME TypeOK, NEW first \in 0 .. Size, NEW last \in first .. Size, NEW next \in Nat,
         Page(first + 1, last, next), UNCHANGED <<rpc, max, there, stable, hidden, added, removed>>
  PROVE  /\ TypeOK' /\ got' = got \o Slice(first, last) /\ token' = next
         /\ state' = IF next = 0 THEN "done" ELSE "paging"
<1>1. got' = got \o Slice(first, last) /\ token' = next /\ state' = IF next = 0 THEN "done" ELSE "paging"
  BY DEF Page, Slice
<1>2. got' \in Seq(IDs)
  BY <1>1, PageTimes
<1>3. state' \in {"paging", "done", "aborted"}
  BY <1>1
<1>. QED
  BY <1>1, <1>2, <1>3 DEF TypeOK

(* The end of the listing is before the offset.                            *)
LEMMA PastEndKeeps ==
  ASSUME ListingInv, state = "paging", rpc # "ListVolumes", token >= Size, Page(1, 0, 0),
         UNCHANGED <<rpc, max, there, stable, hidden, added, removed>>
  PROVE  ListingInv'
<1>1. TypeOK /\ SnapshotsInv
  BY DEF ListingInv
<1>2. /\ there \in SUBSET IDs /\ stable \in SUBSET IDs /\ token \in Nat /\ stable \subseteq there
      /\ added \in Nat /\ removed \in Nat /\ \A i : Times(i) \in Nat
      /\ IsFiniteSet(MissedPassed) /\ Cardinality(MissedPassed) \in Nat
  BY <1>1, TypeFacts DEF TypeOK
<1>3. Size \in Nat /\ 0 \in 0 .. Size /\ 0 \in 0 .. 0 /\ 0 \in 0 .. Size
  BY <1>1, ListedFacts
<1>4. /\ TypeOK' /\ got' = got \o Slice(0, 0) /\ state' = "done"
  <2>1. PICK z \in 0 .. Size : z = 0 /\ z \in z .. Size /\ Page(z + 1, z, z)
    BY <1>3
  <2>. QED
    BY <1>1, <2>1, PageTyped
<1>5. \A i \in IDs : Times(i)' = Times(i)
  <2>1. SUFFICES ASSUME NEW i \in IDs PROVE Times(i)' = Times(i)
    OBVIOUS
  <2>2. Times(i)' = Times(i) + (IF i \in there /\ 0 <= Rank(there, i) /\ Rank(there, i) < 0 THEN 1 ELSE 0)
    BY <1>1, <1>3, <1>4, PageTimes
  <2>3. Rank(there, i) \in Nat
    BY <1>2, Finite
  <2>. QED
    BY <1>2, <2>2, <2>3
<1>6. \A i \in stable : Passed(i)
  <2>1. SUFFICES ASSUME NEW i \in stable PROVE Passed(i)
    OBVIOUS
  <2>2. Rank(there, i) \in Nat /\ Rank(there, i) < Size
    BY <1>2, Finite, RankBelow DEF Size
  <2>. QED
    BY <1>2, <1>3, <2>2 DEF Passed
<1>7. SnapshotsInv'
  <2>1. SUFFICES ASSUME ~hidden
                 PROVE  /\ Cardinality({i \in stable : Times(i)' = 0}) <= removed
                        /\ \A i \in IDs : Times(i)' <= 1 + added
    BY <1>4 DEF SnapshotsInv, SnapshotsMissedBounded
  <2>2. /\ Cardinality(MissedPassed) <= removed
        /\ \A i \in IDs : Times(i) <= added + (IF Passed(i) THEN 1 ELSE 0)
    BY <1>1, <2>1 DEF SnapshotsInv
  <2>3. {i \in stable : Times(i)' = 0} = MissedPassed
    BY <1>2, <1>5, <1>6 DEF MissedPassed
  <2>4. \A i \in IDs : Times(i)' <= 1 + added
    BY <1>2, <1>5, <2>2
  <2>. QED
    BY <2>2, <2>3, <2>4
<1>8. VolumesInv'
  BY DEF VolumesInv
<1>. QED
  BY <1>4, <1>7, <1>8 DEF ListingInv

LEMMA OffsetKeeps ==
  ASSUME ListingInv, state = "paging", rpc # "ListVolumes", token < Size,
         Page(token + 1, Limit(token), NextSnapshotToken(Limit(token))),
         UNCHANGED <<rpc, max, there, stable, hidden, added, removed>>
  PROVE  ListingInv'
<1>1. TypeOK /\ SnapshotsInv
  BY DEF ListingInv
<1>2. /\ there \in SUBSET IDs /\ stable \in SUBSET IDs /\ token \in Nat /\ stable \subseteq there
      /\ added \in Nat /\ removed \in Nat /\ \A i : Times(i) \in Nat
      /\ IsFiniteSet(MissedPassed) /\ Cardinality(MissedPassed) \in Nat
  BY <1>1, TypeFacts DEF TypeOK
<1>3. Size \in Nat /\ Len(Listed) = Size
  BY <1>1, ListedFacts
<1>4. PICK first \in 0 .. Size : first = token
  BY <1>2, <1>3
<1>5. PICK last \in first .. Size : last = Limit(first) /\ (last < Size => first < last)
  BY <1>1, LimitFacts
<1>6. PICK next \in Nat : next = IF last < Size THEN last ELSE 0
  BY <1>3, <1>5
<1>7. Page(first + 1, last, next)
  BY <1>3, <1>4, <1>5, <1>6 DEF NextSnapshotToken
<1>8. /\ TypeOK' /\ got' = got \o Slice(first, last) /\ token' = next
      /\ state' = IF next = 0 THEN "done" ELSE "paging"
  BY <1>1, <1>7, PageTyped
<1>9. \A i \in IDs : Times(i)' = Times(i) +
         (IF i \in there /\ first <= Rank(there, i) /\ Rank(there, i) < last THEN 1 ELSE 0)
  BY <1>1, <1>8, PageTimes
<1>10. \A i \in IDs : Rank(there, i) \in Nat /\ (i \in there => Rank(there, i) < Size)
  BY <1>2, Finite, RankBelow DEF Size
<1>11. \A i \in IDs : Passed(i) <=> Rank(there, i) < first
  BY <1>4 DEF Passed
<1>12. ASSUME ~hidden
       PROVE  /\ Cardinality(MissedPassed) <= removed
              /\ \A i \in IDs : Times(i) <= added + (IF Rank(there, i) < first THEN 1 ELSE 0)
              /\ \A i \in IDs : Times(i)' <= added + (IF Rank(there, i) < last THEN 1 ELSE 0)
  <2>1. /\ Cardinality(MissedPassed) <= removed
        /\ \A i \in IDs : Times(i) <= added + (IF Passed(i) THEN 1 ELSE 0)
    BY <1>1, <1>12 DEF SnapshotsInv
  <2>2. \A i \in IDs : Times(i) <= added + (IF Rank(there, i) < first THEN 1 ELSE 0)
    BY <1>11, <2>1
  <2>3. ASSUME NEW i \in IDs
        PROVE  Times(i)' <= added + (IF Rank(there, i) < last THEN 1 ELSE 0)
    BY <1>2, <1>3, <1>9, <1>10, <2>2
  <2>. QED
    BY <2>1, <2>2, <2>3
<1>13. \A i \in stable : Times(i)' = 0 /\ Rank(there, i) < last => i \in MissedPassed
  <2>1. SUFFICES ASSUME NEW i \in stable, Times(i)' = 0, Rank(there, i) < last
                 PROVE  Times(i) = 0 /\ Rank(there, i) < first
    BY <1>2, <1>11 DEF MissedPassed
  <2>2. i \in IDs /\ i \in there /\ Rank(there, i) \in Nat /\ Times(i) \in Nat
    BY <1>2, <1>10
  <2>3. Times(i)' = Times(i) + (IF first <= Rank(there, i) THEN 1 ELSE 0)
    BY <1>9, <2>1, <2>2
  <2>. QED
    BY <1>3, <2>1, <2>2, <2>3
<1>14. CASE last < Size
  <2>1. next = last /\ state' = "paging" /\ token' = last
    BY <1>3, <1>5, <1>6, <1>8, <1>14
  <2>2. MissedPassed' \in SUBSET MissedPassed
    BY <1>13, <2>1 DEF MissedPassed, Passed
  <2>3. Cardinality(MissedPassed') <= Cardinality(MissedPassed) /\ Cardinality(MissedPassed') \in Nat
    BY <1>2, <2>2, FS_Subset, FS_CardinalityType
  <2>4. SnapshotsInv'
    <3>1. SUFFICES ASSUME ~hidden
                   PROVE  /\ Cardinality(MissedPassed') <= removed
                          /\ \A i \in IDs : Times(i)' <= added + (IF Passed(i)' THEN 1 ELSE 0)
      BY <2>1 DEF SnapshotsInv
    <3>2. Cardinality(MissedPassed') <= removed
      BY <1>2, <1>12, <2>3, <3>1
    <3>3. \A i \in IDs : Times(i)' <= added + (IF Passed(i)' THEN 1 ELSE 0)
      BY <1>12, <2>1, <3>1 DEF Passed
    <3>. QED
      BY <3>2, <3>3
  <2>. QED
    BY <1>8, <2>4 DEF ListingInv, VolumesInv
<1>15. CASE ~(last < Size)
  <2>1. next = 0 /\ state' = "done" /\ last = Size
    BY <1>3, <1>5, <1>6, <1>8, <1>15
  <2>. DEFINE M == {i \in stable : Times(i)' = 0}
  <2>2. M \in SUBSET MissedPassed
    BY <1>2, <1>10, <1>13, <2>1
  <2>3. Cardinality(M) <= Cardinality(MissedPassed) /\ Cardinality(M) \in Nat
    BY <1>2, <2>2, FS_Subset, FS_CardinalityType
  <2>4. SnapshotsInv'
    <3>1. SUFFICES ASSUME ~hidden
                   PROVE  Cardinality(M) <= removed /\ \A i \in IDs : Times(i)' <= 1 + added
      BY <2>1 DEF SnapshotsInv, SnapshotsMissedBounded
    <3>. HIDE DEF M
    <3>2. Cardinality(M) <= removed
      BY <1>2, <1>12, <2>3, <3>1
    <3>3. \A i \in IDs : Times(i)' <= 1 + added
      <4>1. SUFFICES ASSUME NEW i \in IDs PROVE Times(i)' <= 1 + added
        OBVIOUS
      <4>2. Times(i)' <= added + (IF Rank(there, i) < last THEN 1 ELSE 0) /\ Times(i)' \in Nat
        BY <1>12, <1>8, <3>1, TypeFacts, <1>9, <1>2
      <4>. QED
        BY <1>2, <4>2
    <3>. QED
      BY <3>2, <3>3
  <2>. QED
    BY <1>8, <2>4 DEF ListingInv, VolumesInv
<1>. QED
  BY <1>14, <1>15

LEMMA ListedOrder ==
  ASSUME TypeOK
  PROVE  /\ \A a, b \in 1 .. Size : a < b => Listed[a] < Listed[b]
         /\ \A a \in 1 .. Size : Listed[a] \in IDs /\ Listed[a] \in Nat \ {0}
<1>1. /\ Size \in Nat /\ there \in SUBSET IDs
      /\ \A k \in 1 .. Size : Listed[k] \in there /\ Rank(there, Listed[k]) = k - 1
  BY ListedFacts, TypeFacts
<1>2. \A a \in 1 .. Size : Listed[a] \in IDs /\ Listed[a] \in Nat \ {0}
  BY <1>1, ListingAssumption
<1>3. ASSUME NEW a \in 1 .. Size, NEW b \in 1 .. Size, a < b
      PROVE  Listed[a] < Listed[b]
  <2>1. PICK x \in IDs, y \in IDs : x = Listed[a] /\ y = Listed[b]
    BY <1>2
  <2>2. Rank(there, x) = a - 1 /\ Rank(there, y) = b - 1 /\ x \in Nat /\ y \in Nat
    BY <1>1, <1>2, <2>1
  <2>3. y <= x => Rank(there, y) <= Rank(there, x)
    BY <1>1, RankMonotone
  <2>4. ~(b - 1 <= a - 1)
    BY <1>3
  <2>5. ~(y <= x)
    BY <2>2, <2>3, <2>4
  <2>. QED
    BY <2>1, <2>2, <2>5
<1>. QED
  BY <1>2, <1>3

(* A page of ListVolumes begins after the volume the token names.          *)
LEMMA VolumesPage ==
  ASSUME ListingInv, state = "paging", rpc = "ListVolumes", NEW start \in 0 .. Size,
         start = 0 => token = 0, start # 0 => Listed[start] = token,
         Page(start + 1, Limit(start), NextVolumeToken(Limit(start))),
         UNCHANGED <<rpc, max, there, stable, hidden, added, removed>>
  PROVE  ListingInv'
<1>1. TypeOK /\ VolumesInv
  BY DEF ListingInv
<1>2. /\ there \in SUBSET IDs /\ stable \in SUBSET IDs /\ token \in Nat /\ stable \subseteq there
      /\ got \in Seq(IDs) /\ IDs \subseteq Nat \ {0}
  BY <1>1, TypeFacts, ListingAssumption DEF TypeOK
<1>3. /\ Size \in Nat /\ Len(Listed) = Size
      /\ \A k \in 1 .. Size : Listed[k] \in there /\ Rank(there, Listed[k]) = k - 1
  BY <1>1, ListedFacts
<1>4. /\ \A a, b \in 1 .. Size : a < b => Listed[a] < Listed[b]
      /\ \A a \in 1 .. Size : Listed[a] \in IDs /\ Listed[a] \in Nat \ {0}
  BY <1>1, ListedOrder
<1>5. PICK last \in start .. Size : last = Limit(start) /\ (last < Size => start < last)
  BY <1>1, LimitFacts
<1>6. last < Size => last \in 1 .. Size
  BY <1>3, <1>5
<1>7. PICK next \in Nat : next = IF last < Size THEN Listed[last] ELSE 0
  BY <1>4, <1>6
<1>8. Page(start + 1, last, next)
  BY <1>3, <1>5, <1>7 DEF NextVolumeToken
<1>9. /\ TypeOK' /\ got' = got \o Slice(start, last) /\ token' = next
      /\ state' = IF next = 0 THEN "done" ELSE "paging"
  BY <1>1, <1>8, PageTyped
<1>10. PICK p \in Seq(IDs) :
            /\ p = Slice(start, last) /\ Len(p) = last - start
            /\ \A k \in 1 .. last - start : p[k] = Listed[start + k]
            /\ \A i \in there : (\E k \in 1 .. Len(p) : p[k] = i)
                                 <=> start <= Rank(there, i) /\ Rank(there, i) < last
  BY <1>1, PageFacts
<1>11. PICK n \in Nat, l \in Nat : n = Len(got) /\ l = Len(p) /\ l = last - start
  BY <1>2, <1>3, <1>10
<1>12. /\ Len(got') = n + l
       /\ \A k \in 1 .. n : got'[k] = got[k]
       /\ \A k \in 1 .. l : got'[n + k] = p[k]
  <2>1. PICK g \in Seq(IDs), q \in Seq(IDs) : g = got /\ q = got' /\ q = g \o p
    BY <1>2, <1>9, <1>10 DEF TypeOK
  <2>2. /\ Len(q) = Len(g) + Len(p)
        /\ \A k \in 1 .. Len(g) : q[k] = g[k]
        /\ \A k \in 1 .. Len(p) : q[Len(g) + k] = p[k]
    BY <2>1, Appended
  <2>3. Len(g) = n /\ Len(p) = l
    BY <1>11, <2>1
  <2>4. Len(q) = n + l /\ (\A k \in 1 .. n : q[k] = g[k]) /\ (\A k \in 1 .. l : q[n + k] = p[k])
    BY <2>2, <2>3, Zenon
  <2>. QED
    BY <2>1, <2>4, Zenon
<1>13. \A k \in 1 .. l : start + k \in 1 .. last /\ start + k \in 1 .. Size /\ p[k] = Listed[start + k]
  BY <1>3, <1>10, <1>11
<1>14. \A k \in 1 .. l : token < p[k] /\ p[k] \in Nat
  <2>1. SUFFICES ASSUME NEW k \in 1 .. l PROVE token < p[k] /\ p[k] \in Nat
    OBVIOUS
  <2>2. start + k \in 1 .. Size /\ p[k] = Listed[start + k] /\ p[k] \in Nat \ {0}
    BY <1>4, <1>13
  <2>3. CASE start = 0
    BY <2>2, <2>3
  <2>4. CASE start # 0
    <3>1. start \in 1 .. Size /\ start < start + k
      BY <1>3, <2>4
    <3>2. Listed[start] < Listed[start + k]
      BY <1>4, <2>2, <3>1
    <3>. QED
      BY <2>2, <2>4, <3>2
  <2>. QED
    BY <2>3, <2>4
<1>15. \A k \in 1 .. n : got[k] <= token /\ got[k] \in Nat
  <2>1. \A k \in 1 .. Len(got) : got[k] <= token
    BY <1>1 DEF VolumesInv
  <2>2. \A k \in 1 .. Len(got) : got[k] \in IDs
    BY <1>2
  <2>. QED
    BY <1>2, <1>11, <2>1, <2>2, Zenon
<1>16. \A k \in 1 .. n + l : k \in 1 .. n \/ (k - n \in 1 .. l /\ n + (k - n) = k)
  OBVIOUS
<1>17. \A a, b \in 1 .. Len(got') : a < b => got'[a] < got'[b]
  <2>1. SUFFICES ASSUME NEW a \in 1 .. n + l, NEW b \in 1 .. n + l, a < b
                 PROVE  got'[a] < got'[b]
    BY <1>12
  <2>2. CASE b \in 1 .. n
    <3>1. a \in 1 .. n /\ got'[a] = got[a] /\ got'[b] = got[b]
      BY <1>12, <2>1, <2>2
    <3>2. \A c, d \in 1 .. n : c < d => got[c] < got[d]
      BY <1>1, <1>11 DEF VolumesInv
    <3>. QED
      BY <2>1, <2>2, <3>1, <3>2
  <2>3. CASE a \in 1 .. n /\ b \notin 1 .. n
    <3>1. PICK d \in 1 .. l : b = n + d
      BY <1>16, <2>3
    <3>2. got'[a] = got[a] /\ got'[b] = p[d]
      BY <1>12, <2>3, <3>1
    <3>3. got[a] <= token /\ got[a] \in Nat /\ token < p[d] /\ p[d] \in Nat
      BY <1>14, <1>15, <2>3
    <3>. QED
      BY <1>2, <3>2, <3>3
  <2>4. CASE a \notin 1 .. n
    <3>1. PICK c \in 1 .. l : a = n + c
      BY <1>16, <2>4
    <3>2. b \notin 1 .. n
      BY <2>1, <2>4
    <3>3. PICK d \in 1 .. l : b = n + d
      BY <1>16, <3>2
    <3>4. got'[a] = p[c] /\ got'[b] = p[d] /\ c < d
      BY <1>12, <2>1, <3>1, <3>3
    <3>5. start + c < start + d /\ p[c] = Listed[start + c] /\ p[d] = Listed[start + d]
          /\ start + c \in 1 .. Size /\ start + d \in 1 .. Size
      BY <1>13, <3>4
    <3>. QED
      BY <1>4, <3>4, <3>5
  <2>. QED
    BY <2>2, <2>3, <2>4
<1>18. ASSUME NEW i \in stable, i <= token \/ Rank(there, i) < last
       PROVE  Received(i)'
  <2>1. i \in there /\ i \in IDs /\ i \in Nat /\ Rank(there, i) \in Nat
    BY <1>2, Finite
  <2>2. CASE i <= token
    <3>1. PICK k \in 1 .. n : got[k] = i
      BY <1>1, <1>11, <2>2 DEF VolumesInv, Received
    <3>2. k \in 1 .. n + l /\ got'[k] = i
      BY <1>12, <3>1
    <3>. QED
      BY <1>12, <3>2 DEF Received
  <2>3. CASE ~(i <= token)
    <3>1. start <= Rank(there, i)
      <4>1. CASE start = 0
        BY <2>1, <4>1
      <4>2. CASE start # 0
        <5>1. start \in 1 .. Size
          BY <1>3, <4>2
        <5>2. token \in there /\ token \in IDs /\ Rank(there, token) = start - 1 /\ token < i
          BY <1>2, <1>3, <2>1, <2>3, <4>2, <5>1
        <5>3. Rank(there, token) < Rank(there, i)
          BY <1>2, <2>1, <5>2, RankMonotone
        <5>. QED
          BY <2>1, <5>1, <5>2, <5>3
      <4>. QED
        BY <4>1, <4>2
    <3>2. PICK k \in 1 .. l : p[k] = i
      BY <1>10, <1>11, <1>18, <2>1, <2>3, <3>1
    <3>3. n + k \in 1 .. n + l /\ got'[n + k] = i
      BY <1>12, <3>2
    <3>. QED
      BY <1>12, <3>3 DEF Received
  <2>. QED
    BY <2>2, <2>3
<1>19. CASE last < Size
  <2>1. last \in 1 .. Size /\ next = Listed[last] /\ next \in IDs /\ next # 0 /\ start < last
    BY <1>4, <1>5, <1>6, <1>7, <1>19
  <2>2. state' = "paging" /\ token' = next
    BY <1>9, <2>1
  <2>3. \A k \in 1 .. l : p[k] <= next
    <3>1. SUFFICES ASSUME NEW k \in 1 .. l PROVE p[k] <= next
      OBVIOUS
    <3>2. start + k \in 1 .. Size /\ start + k <= last /\ p[k] = Listed[start + k] /\ p[k] \in Nat
      BY <1>13, <1>14
    <3>3. start + k = last \/ start + k < last
      BY <2>1, <3>2
    <3>. QED
      BY <1>4, <2>1, <3>2, <3>3
  <2>4. token <= next
    <3>1. l \in 1 .. l
      BY <1>3, <1>11, <2>1
    <3>. QED
      BY <1>2, <1>14, <2>3, <3>1
  <2>5. \A k \in 1 .. Len(got') : got'[k] <= token'
    <3>1. SUFFICES ASSUME NEW k \in 1 .. n + l PROVE got'[k] <= next
      BY <1>12, <2>2
    <3>2. CASE k \in 1 .. n
      BY <1>2, <1>12, <1>15, <2>4, <3>2
    <3>3. CASE k \notin 1 .. n
      <4>1. PICK c \in 1 .. l : k = n + c
        BY <1>16, <3>3
      <4>. QED
        BY <1>12, <2>3, <4>1
    <3>. QED
      BY <3>2, <3>3
  <2>6. ASSUME NEW i \in stable, i <= next
        PROVE  Received(i)'
    <3>1. i \in IDs /\ Rank(there, i) \in Nat
      BY <1>2, Finite
    <3>2. Rank(there, i) <= Rank(there, next) /\ Rank(there, next) = last - 1
      BY <1>2, <1>3, <2>1, <2>6, <3>1, RankMonotone
    <3>3. Rank(there, i) < last
      BY <1>6, <1>19, <3>1, <3>2
    <3>. QED
      BY <1>18, <3>3
  <2>7. VolumesInv'
    BY <1>17, <2>2, <2>5, <2>6 DEF VolumesInv
  <2>. QED
    BY <1>9, <2>7 DEF ListingInv, SnapshotsInv
<1>20. CASE ~(last < Size)
  <2>1. last = Size /\ state' = "done"
    BY <1>3, <1>5, <1>7, <1>9, <1>20
  <2>2. \A i \in stable : Received(i)'
    <3>1. \A i \in stable : Rank(there, i) < last
      BY <1>2, <2>1, RankBelow DEF Size
    <3>. QED
      BY <1>18, <3>1
  <2>3. VolumesInv'
    BY <1>17, <2>1, <2>2 DEF VolumesInv
  <2>. QED
    BY <1>9, <2>3 DEF ListingInv, SnapshotsInv
<1>. QED
  BY <1>19, <1>20

LEMMA ListVolumesKeeps ==
  ASSUME ListingInv, state = "paging", ListVolumes,
         UNCHANGED <<rpc, max, there, stable, hidden, added, removed>>
  PROVE  ListingInv'
<1>1. TypeOK /\ VolumesInv /\ rpc = "ListVolumes"
  BY DEF ListingInv, ListVolumes
<1>2. /\ Size \in Nat /\ DOMAIN Listed = 1 .. Size
      /\ \A i \in there : Rank(there, i) + 1 \in 1 .. Size /\ Listed[Rank(there, i) + 1] = i
  BY <1>1, ListedFacts
<1>3. CASE token # 0 /\ token \notin there /\ state' = "aborted" /\ UNCHANGED <<token, got>>
  BY <1>1, <1>3 DEF ListingInv, TypeOK, VolumesInv, SnapshotsInv
<1>4. CASE token = 0 /\ Page(0 + 1, Limit(0), NextVolumeToken(Limit(0)))
  <2>1. PICK start \in 0 .. Size : start = 0
    BY <1>2
  <2>. QED
    BY <1>1, <1>4, <2>1, VolumesPage
<1>5. CASE /\ token # 0 /\ token \in there
           /\ LET start == CHOOSE i \in DOMAIN Listed : Listed[i] = token
              IN  Page(start + 1, Limit(start), NextVolumeToken(Limit(start)))
  <2>1. \E i \in DOMAIN Listed : Listed[i] = token
    BY <1>2, <1>5
  <2>2. PICK start \in DOMAIN Listed :
           Listed[start] = token /\ Page(start + 1, Limit(start), NextVolumeToken(Limit(start)))
    BY <1>5, <2>1
  <2>3. start \in 0 .. Size /\ start # 0
    BY <1>2, <2>2
  <2>. QED
    BY <1>1, <2>2, <2>3, VolumesPage
<1>. QED
  BY <1>3, <1>4, <1>5 DEF ListVolumes

LEMMA PageAtKeeps ==
  ASSUME ListingInv, state = "paging", rpc # "ListVolumes", PageAt(token),
         UNCHANGED <<rpc, max, there, stable, hidden, added, removed>>
  PROVE  ListingInv'
<1>1. Size \in Nat /\ Len(Listed) = Size /\ token \in Nat
  BY ListedFacts DEF ListingInv, TypeOK
<1>2. CASE token >= Size
  BY <1>1, <1>2, PastEndKeeps DEF PageAt
<1>3. CASE ~(token >= Size)
  <2>1. token < Size
    BY <1>1, <1>3
  <2>2. Page(token + 1, Limit(token), NextSnapshotToken(Limit(token)))
    BY <1>1, <1>3 DEF PageAt
  <2>. QED
    BY <2>1, <2>2, OffsetKeeps
<1>. QED
  BY <1>2, <1>3

(* Nothing is claimed once a failure was answered like an empty listing.   *)
LEMMA BackendFailsKeeps ==
  ASSUME ListingInv, BackendFails, UNCHANGED <<rpc, max, there, stable, added, removed>>
  PROVE  ListingInv'
<1>1. TypeOK /\ rpc # "ListVolumes" /\ hidden' = TRUE /\ Page(1, 0, 0)
  BY DEF ListingInv, BackendFails
<1>2. Size \in Nat /\ Listed \in Seq(IDs) /\ got \in Seq(IDs)
  BY <1>1, ListedFacts DEF TypeOK
<1>3. SubSeq(Listed, 1, 0) = <<>>
  BY <1>2
<1>4. got' \in Seq(IDs) /\ token' = 0 /\ state' = "done"
  <2>1. got' = got \o <<>> /\ token' = 0 /\ state' = "done"
    BY <1>1, <1>3 DEF Page
  <2>2. <<>> \in Seq(IDs)
    OBVIOUS
  <2>. QED
    BY <1>2, <2>1, <2>2
<1>5. TypeOK'
  <2>1. hidden' \in BOOLEAN
    BY <1>1
  <2>2. token' \in Nat /\ state' \in {"paging", "done", "aborted"}
    BY <1>4
  <2>. QED
    BY <1>1, <1>4, <2>1, <2>2 DEF TypeOK
<1>6. VolumesInv' /\ SnapshotsInv'
  BY <1>1 DEF VolumesInv, SnapshotsInv
<1>. QED
  BY <1>5, <1>6 DEF ListingInv

LEMMA ListingStep == ListingInv /\ [Next]_vars => ListingInv'
<1>. SUFFICES ASSUME ListingInv, [Next]_vars PROVE ListingInv'
  OBVIOUS
<1>1. CASE Call
  <2>1. state = "paging" /\ UNCHANGED <<rpc, max, there, stable, added, removed>>
    BY <1>1 DEF Call
  <2>2. CASE ListVolumes /\ UNCHANGED hidden
    BY <2>1, <2>2, ListVolumesKeeps
  <2>3. CASE (listSnapshotsBySourceVolume \/ listAllSnapshots) /\ UNCHANGED hidden
    <3>1. rpc # "ListVolumes" /\ PageAt(token)
      BY <2>3 DEF listSnapshotsBySourceVolume, listAllSnapshots
    <3>. QED
      BY <2>1, <2>3, <3>1, PageAtKeeps
  <2>4. CASE BackendFails
    BY <2>1, <2>4, BackendFailsKeeps
  <2>. QED
    BY <1>1, <2>2, <2>3, <2>4 DEF Call
<1>2. ASSUME NEW i \in IDs, Created(i) PROVE ListingInv'
  BY <1>2, CreatedKeeps
<1>3. ASSUME NEW i \in IDs, Deleted(i) PROVE ListingInv'
  BY <1>3, DeletedKeeps
<1>4. CASE UNCHANGED vars
  BY <1>4, ListingStutter
<1>. QED
  BY <1>1, <1>2, <1>3, <1>4 DEF Next

-----------------------------------------------------------------------------
(* What the caller ends up with.                                           *)

(* An increasing sequence holds nothing twice.                             *)
LEMMA OnceIncreasing ==
  ASSUME NEW g \in Seq(IDs), NEW i \in IDs, \A a, b \in 1 .. Len(g) : a < b => g[a] < g[b]
  PROVE  /\ Count(g, i) <= 1
         /\ (\E k \in 1 .. Len(g) : g[k] = i) => Count(g, i) = 1
<1>. DEFINE A == {k \in DOMAIN g : g[k] = i}
<1>1. DOMAIN g = 1 .. Len(g) /\ Len(g) \in Nat /\ i \in Nat
  BY ListingAssumption
<1>2. \A a, b \in 1 .. Len(g) : g[a] = i /\ g[b] = i => a = b
  <2>1. SUFFICES ASSUME NEW a \in 1 .. Len(g), NEW b \in 1 .. Len(g), g[a] = i, g[b] = i
                 PROVE  a = b
    OBVIOUS
  <2>2. ~(i < i)
    BY <1>1
  <2>3. ~(a < b) /\ ~(b < a)
    BY <2>1, <2>2
  <2>. QED
    BY <1>1, <2>3
<1>3. CASE \E k \in 1 .. Len(g) : g[k] = i
  <2>1. PICK k \in 1 .. Len(g) : g[k] = i
    BY <1>3
  <2>2. A = {k}
    BY <1>1, <1>2, <2>1
  <2>3. Cardinality(A) = 1
    BY <2>2, FS_Singleton
  <2>. QED
    BY <2>3 DEF Count
<1>4. CASE ~\E k \in 1 .. Len(g) : g[k] = i
  <2>1. Count(g, i) = 0
    BY <1>4, Counted
  <2>. QED
    BY <1>4, <2>1
<1>. QED
  BY <1>3, <1>4

LEMMA VolumesInvOnce ==
  ASSUME TypeOK, VolumesInv PROVE VolumesListedOnce
<1>1. SUFFICES ASSUME rpc = "ListVolumes", state = "done"
               PROVE  (\A i \in IDs : Times(i) <= 1) /\ (\A i \in stable : Times(i) = 1)
  BY DEF VolumesListedOnce
<1>2. PICK g \in Seq(IDs) : g = got
  BY DEF TypeOK
<1>3. /\ \A a, b \in 1 .. Len(g) : a < b => g[a] < g[b]
      /\ \A i \in stable : i \in IDs /\ \E k \in 1 .. Len(g) : g[k] = i
  BY <1>1, <1>2 DEF VolumesInv, Received, TypeOK
<1>4. \A i : Times(i) = Count(g, i)
  BY <1>2, TypeFacts
<1>5. \A i \in IDs : Count(g, i) <= 1
  BY <1>3, OnceIncreasing
<1>6. \A i \in stable : Count(g, i) = 1
  BY <1>3, OnceIncreasing
<1>. QED
  BY <1>4, <1>5, <1>6

LEMMA SnapshotsInvBounded ==
  ASSUME SnapshotsInv PROVE SnapshotsMissedBounded
  BY DEF SnapshotsInv, SnapshotsMissedBounded

(* Whoever pages through ListVolumes or ListSnapshots (controller.go,      *)
(* controller_snapshot_list.go), with any page size and whatever is        *)
(* created and deleted between the calls, the calls and the pages keep     *)
(* their types, and the invariant of both listings holds.                  *)
THEOREM ListingInvariant == Spec => []ListingInv
<1>1. Init => ListingInv
  BY ListingInit
<1>2. ListingInv /\ [Next]_vars => ListingInv'
  BY ListingStep
<1>. QED
  BY <1>1, <1>2, PTL DEF Spec

(* Every variable of the listing keeps the shape its declaration promises. *)
THEOREM ListingTypeCorrect == Spec => []TypeOK
<1>1. ListingInv => TypeOK
  BY DEF ListingInv
<1>. QED
  BY <1>1, ListingInvariant, PTL

(* The token of ListVolumes names the last volume of a page, so a caller   *)
(* that reaches the end has received every volume that existed throughout  *)
(* exactly once and none twice, for any volumes, page size and number of   *)
(* creations and deletions meanwhile.                                      *)
THEOREM ListingVolumesOnce == Spec => []VolumesListedOnce
<1>1. ListingInv => VolumesListedOnce
  BY VolumesInvOnce DEF ListingInv
<1>. QED
  BY <1>1, ListingInvariant, PTL

(* The token of ListSnapshots is an offset: a caller that reaches the end  *)
(* has missed at most one lasting snapshot for each deletion meanwhile,    *)
(* and has received none more often than once and once more for each       *)
(* creation.                                                               *)
THEOREM ListingSnapshotsBounded == Spec => []SnapshotsMissedBounded
<1>1. ListingInv => SnapshotsMissedBounded
  BY SnapshotsInvBounded DEF ListingInv
<1>. QED
  BY <1>1, ListingInvariant, PTL

=============================================================================
