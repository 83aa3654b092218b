---------------------------- MODULE MapListProofs ----------------------------
(***************************************************************************)
(* Proofs about the list of maps and its settings, for any finite set of   *)
(* map files and any number of clicks, reloads, drives, ends and crashes.  *)
(***************************************************************************)
EXTENDS MapList, FiniteSetTheorems, SequenceTheorems, TLAPS

USE MapsAssumption DEF MapsAssumption

-----------------------------------------------------------------------------
(***************************************************************************)
(* The lists.                                                              *)
(***************************************************************************)
\* The domain of a list is finite, and its elements are its range.
LEMMA ListDomain ==
  ASSUME NEW S, NEW s \in Seq(S)
  PROVE  /\ DOMAIN s = 1 .. Len(s) /\ Len(s) \in Nat /\ IsFiniteSet(DOMAIN s)
         /\ \A i \in DOMAIN s : s[i] \in S /\ s[i] \in Range(s)
<1>1. DOMAIN s = 1 .. Len(s) /\ Len(s) \in Nat  BY LenProperties
<1>2. IsFiniteSet(1 .. Len(s))  BY <1>1, FS_Interval
<1>3. \A i \in DOMAIN s : s[i] \in S /\ s[i] \in Range(s)
  BY <1>1, ElementOfSeq DEF Range
<1> QED BY <1>1, <1>2, <1>3

\* Known() numbers the found keys from first to last: position h[n] of the keys
\* holds its n-th element.
Numbering(h, found) ==
  /\ h \in [1 .. Cardinality(found) -> found]
  /\ \A i \in found : \E n \in 1 .. Cardinality(found) : h[n] = i
  /\ \A n, k \in 1 .. Cardinality(found) : n < k <=> h[n] < h[k]

LEMMA RankIsNumber ==
  ASSUME NEW found \in SUBSET Nat, IsFiniteSet(found)
  PROVE  LET Rank(i) == Cardinality({j \in found : j <= i})
             h == [n \in 1 .. Cardinality(found) |-> CHOOSE i \in found : Rank(i) = n]
         IN  Numbering(h, found)
<1> DEFINE N == Cardinality(found)
           Upto(i) == {j \in found : j <= i}
           Rank(i) == Cardinality(Upto(i))
           rank == [i \in found |-> Rank(i)]
           h == [n \in 1 .. N |-> CHOOSE i \in found : Rank(i) = n]
<1>1. N \in Nat  BY FS_CardinalityType
<1>2. ASSUME NEW i \in found PROVE Rank(i) \in 1 .. N
  <2>1. Upto(i) \in SUBSET found /\ i \in Upto(i)  OBVIOUS
  <2>2. IsFiniteSet(Upto(i)) /\ Rank(i) <= N  BY <2>1, FS_Subset
  <2>3. Rank(i) \in Nat /\ Rank(i) # 0  BY <2>1, <2>2, FS_CardinalityType, FS_EmptySet
  <2> QED BY <1>1, <2>2, <2>3
<1>3. ASSUME NEW i \in found, NEW k \in found, i < k PROVE Rank(i) < Rank(k)
  <2>1. Upto(k) \in SUBSET found /\ Upto(i) \in SUBSET Upto(k) /\ Upto(i) # Upto(k)
    <3>1. k \in Upto(k) /\ k \notin Upto(i)  BY <1>3
    <3>2. \A j \in found : j \in Nat /\ (j <= i => j <= k)  BY <1>3
    <3> QED BY <3>1, <3>2
  <2>2. IsFiniteSet(Upto(k))  BY <2>1, FS_Subset
  <2>3. Rank(i) <= Rank(k) /\ Rank(i) # Rank(k)  BY <2>1, <2>2, FS_Subset
  <2>4. Rank(i) \in Int /\ Rank(k) \in Int  BY <1>2
  <2> QED BY <2>3, <2>4
<1>4. ASSUME NEW i \in found, NEW k \in found PROVE Rank(i) < Rank(k) <=> i < k
  <2>1. Rank(i) \in Int /\ Rank(k) \in Int  BY <1>2
  <2> QED BY <1>3, <2>1
<1>5. rank \in Injection(found, 1 .. N)
  <2>1. rank \in [found -> 1 .. N]  BY <1>2
  <2>2. IsInjective(rank)
    <3> SUFFICES ASSUME NEW i \in found, NEW k \in found, Rank(i) = Rank(k) PROVE i = k
      BY DEF IsInjective
    <3>1. Rank(i) \in Int /\ Rank(k) \in Int  BY <1>2
    <3> QED BY <1>4, <3>1
  <2> QED BY <2>1, <2>2 DEF Injection
<1>6. rank \in Surjection(found, 1 .. N)
  <2>1. IsFiniteSet(1 .. N) /\ Cardinality(1 .. N) = N  BY <1>1, FS_Interval
  <2> QED BY <1>5, <2>1, FS_Injection
<1>7. ASSUME NEW n \in 1 .. N PROVE h[n] \in found /\ Rank(h[n]) = n
  <2>1. \E i \in found : Rank(i) = n  BY <1>6 DEF Surjection
  <2>2. h[n] = CHOOSE i \in found : Rank(i) = n  OBVIOUS
  <2> QED BY <2>1, <2>2
<1>8. h \in [1 .. N -> found]  BY <1>7
<1> HIDE DEF h, Rank
<1>9. ASSUME NEW i \in found PROVE \E n \in 1 .. N : h[n] = i
  <2>1. Rank(i) \in 1 .. N  BY <1>2
  <2>2. PICK k \in found : k = h[Rank(i)] /\ Rank(k) = Rank(i)  BY <1>7, <2>1
  <2>3. i \in Nat /\ k \in Nat /\ Rank(i) \in Nat  BY <2>1
  <2>4. ~(i < k) /\ ~(k < i)  BY <1>4, <2>2, <2>3
  <2>5. i = k  BY <2>3, <2>4
  <2> QED BY <2>1, <2>2, <2>5
<1>10. ASSUME NEW n \in 1 .. N, NEW k \in 1 .. N PROVE n < k <=> h[n] < h[k]
  <2>1. h[n] \in found /\ h[k] \in found /\ Rank(h[n]) = n /\ Rank(h[k]) = k  BY <1>7
  <2>2. Rank(h[n]) < Rank(h[k]) <=> h[n] < h[k]  BY <1>4, <2>1
  <2> QED BY <2>1, <2>2
<1> QED BY <1>8, <1>9, <1>10 DEF Numbering, h, Rank

\* Known() keeps exactly the keys that are found, each once and in their order.
LEMMA KnownKeepsOrder ==
  ASSUME NEW keys \in Seq(Maps), IsInjective(keys), NEW paths
  PROVE  /\ Known(keys, paths) \in Seq(Maps) /\ IsInjective(Known(keys, paths))
         /\ Range(Known(keys, paths)) = Range(keys) \cap paths
         /\ \A x, y \in paths : Precedes(keys, x, y) <=> Precedes(Known(keys, paths), x, y)
<1> DEFINE found   == {i \in DOMAIN keys : keys[i] \in paths}
           N       == Cardinality(found)
           Rank(i) == Cardinality({j \in found : j <= i})
           h       == [n \in 1 .. N |-> CHOOSE i \in found : Rank(i) = n]
           known   == Known(keys, paths)
<1>1. /\ DOMAIN keys = 1 .. Len(keys) /\ Len(keys) \in Nat /\ IsFiniteSet(DOMAIN keys)
      /\ \A i \in DOMAIN keys : keys[i] \in Maps
  BY ListDomain
<1>2. found \in SUBSET Nat /\ found \in SUBSET (DOMAIN keys)  BY <1>1
<1>3. IsFiniteSet(found) /\ N \in Nat  BY <1>1, <1>2, FS_Subset, FS_CardinalityType
<1>4. Numbering(h, found)  BY <1>2, <1>3, RankIsNumber
<1>5. known = [n \in 1 .. N |-> keys[h[n]]]  BY DEF Known
<1> HIDE DEF h, known, N
<1>6. /\ h \in [1 .. N -> found]
      /\ \A i \in found : \E n \in 1 .. N : h[n] = i
      /\ \A n, k \in 1 .. N : n < k <=> h[n] < h[k]
  BY <1>4 DEF Numbering, N
<1> HIDE DEF found
<1>7. \A i \in found : i \in DOMAIN keys /\ i \in Nat /\ keys[i] \in paths /\ keys[i] \in Maps
  BY <1>1, <1>2 DEF found
<1>8. \A i \in DOMAIN keys : keys[i] \in paths => i \in found  BY DEF found
<1>9. DOMAIN known = 1 .. N /\ \A n \in 1 .. N : known[n] = keys[h[n]] /\ h[n] \in found
  BY <1>5, <1>6
<1>10. known \in Seq(Maps)
  <2>1. known \in [1 .. N -> Maps]  BY <1>5, <1>6, <1>7
  <2> QED BY <1>3, <2>1, SeqDef
<1>11. IsInjective(known)
  <2> SUFFICES ASSUME NEW n \in 1 .. N, NEW k \in 1 .. N, known[n] = known[k] PROVE n = k
    BY <1>9 DEF IsInjective
  <2>1. h[n] = h[k]  BY <1>7, <1>9 DEF IsInjective
  <2>2. n \in Int /\ k \in Int /\ h[n] \in Int  BY <1>3, <1>7, <1>9
  <2> QED BY <1>6, <2>1, <2>2
<1>12. Range(known) = Range(keys) \cap paths
  <2>1. ASSUME NEW m \in Range(known) PROVE m \in Range(keys) \cap paths
    BY <1>7, <1>9 DEF Range
  <2>2. ASSUME NEW m \in Range(keys) \cap paths PROVE m \in Range(known)
    <3>1. PICK i \in DOMAIN keys : keys[i] = m  BY DEF Range
    <3>2. PICK n \in 1 .. N : h[n] = i  BY <1>6, <1>8, <3>1
    <3> QED BY <1>9, <3>1, <3>2 DEF Range
  <2> QED BY <2>1, <2>2
<1>13. ASSUME NEW x \in paths, NEW y \in paths PROVE Precedes(keys, x, y) <=> Precedes(known, x, y)
  <2>1. ASSUME Precedes(keys, x, y) PROVE Precedes(known, x, y)
    <3>1. PICK i, j \in DOMAIN keys : i < j /\ keys[i] = x /\ keys[j] = y
      BY <2>1 DEF Precedes
    <3>2. PICK n \in 1 .. N : h[n] = i  BY <1>6, <1>8, <3>1
    <3>3. PICK k \in 1 .. N : h[k] = j  BY <1>6, <1>8, <3>1
    <3>4. n < k  BY <1>6, <3>1, <3>2, <3>3
    <3> QED BY <1>9, <3>1, <3>2, <3>3, <3>4 DEF Precedes
  <2>2. ASSUME Precedes(known, x, y) PROVE Precedes(keys, x, y)
    <3>1. PICK n, k \in 1 .. N : n < k /\ known[n] = x /\ known[k] = y
      BY <1>9, <2>2 DEF Precedes
    <3>2. h[n] < h[k] /\ h[n] \in DOMAIN keys /\ h[k] \in DOMAIN keys
      BY <1>6, <1>7, <1>9, <3>1
    <3> QED BY <1>9, <3>1, <3>2 DEF Precedes
  <2> QED BY <2>1, <2>2
<1> QED BY <1>10, <1>11, <1>12, <1>13 DEF known

\* A finite set is listed with each element once.
LEMMA SetIsListed ==
  ASSUME NEW S \in SUBSET Maps
  PROVE  SetToSeq(S) \in Seq(Maps) /\ IsInjective(SetToSeq(S)) /\ Range(SetToSeq(S)) = S
<1> DEFINE N == Cardinality(S)
           s == SetToSeq(S)
<1>1. IsFiniteSet(S) /\ N \in Nat /\ ExistsBijection(1 .. N, S)
  BY FS_Subset, FS_CardinalityType
<1>2. \E f \in [1 .. N -> S] : IsInjective(f)
  BY <1>1 DEF ExistsBijection, Bijection, Injection
<1>3. s \in [1 .. N -> S] /\ IsInjective(s)  BY <1>2 DEF SetToSeq
<1>4. IsFiniteSet(1 .. N) /\ Cardinality(1 .. N) = N  BY <1>1, FS_Interval
<1>5. s \in Injection(1 .. N, S)  BY <1>3 DEF Injection
<1> HIDE DEF s
<1>6. s \in Surjection(1 .. N, S)  BY <1>1, <1>4, <1>5, FS_Injection
<1>7. Range(s) = S  BY <1>3, <1>6 DEF Range, Surjection
<1>8. s \in [1 .. N -> Maps]  BY <1>3
<1>9. s \in Seq(Maps)  BY <1>1, <1>8, SeqDef
<1> QED BY <1>3, <1>7, <1>9 DEF s

\* Two lists without a common element, one after the other.
LEMMA OneAfterTheOther ==
  ASSUME NEW s \in Seq(Maps), NEW t \in Seq(Maps), IsInjective(s), IsInjective(t),
         Range(s) \cap Range(t) = {}
  PROVE  /\ s \o t \in Seq(Maps) /\ IsInjective(s \o t)
         /\ Range(s \o t) = Range(s) \cup Range(t)
         /\ \A x, y \in Range(s) : Precedes(s, x, y) <=> Precedes(s \o t, x, y)
<1> DEFINE u == s \o t
<1>1. /\ u \in Seq(Maps) /\ Len(u) = Len(s) + Len(t)
      /\ \A i \in 1 .. Len(s) + Len(t) : u[i] = IF i <= Len(s) THEN s[i] ELSE t[i - Len(s)]
  BY ConcatProperties
<1>2. Range(u) = Range(s) \cup Range(t)  BY RangeConcatenation
<1>3. /\ DOMAIN s = 1 .. Len(s) /\ Len(s) \in Nat /\ \A i \in DOMAIN s : s[i] \in Range(s)
      /\ DOMAIN t = 1 .. Len(t) /\ Len(t) \in Nat /\ \A i \in DOMAIN t : t[i] \in Range(t)
      /\ DOMAIN u = 1 .. Len(u)
  BY <1>1, ListDomain
<1> HIDE DEF u
<1>4. ASSUME NEW i \in DOMAIN s PROVE i \in DOMAIN u /\ u[i] = s[i]
  BY <1>1, <1>3
<1>5. ASSUME NEW i \in DOMAIN u
      PROVE  \/ i \in DOMAIN s /\ u[i] = s[i] /\ u[i] \in Range(s)
             \/ i - Len(s) \in DOMAIN t /\ u[i] = t[i - Len(s)] /\ u[i] \in Range(t)
  <2>1. i \in 1 .. Len(s) + Len(t)  BY <1>1, <1>3
  <2>2. CASE i <= Len(s)
    BY <1>1, <1>3, <2>1, <2>2
  <2>3. CASE ~(i <= Len(s))
    <3>1. i - Len(s) \in 1 .. Len(t)  BY <1>3, <2>1, <2>3
    <3> QED BY <1>1, <1>3, <2>1, <2>3, <3>1
  <2> QED BY <2>2, <2>3
<1>6. IsInjective(u)
  <2> SUFFICES ASSUME NEW i \in DOMAIN u, NEW j \in DOMAIN u, u[i] = u[j] PROVE i = j
    BY DEF IsInjective
  <2>1. i \in Int /\ j \in Int /\ Len(s) \in Int  BY <1>1, <1>3
  <2>2. CASE i \in DOMAIN s /\ u[i] = s[i] /\ u[i] \in Range(s)
    <3>1. j \in DOMAIN s /\ u[j] = s[j]  BY <1>5, <2>2
    <3> QED BY <2>2, <3>1 DEF IsInjective
  <2>3. CASE i - Len(s) \in DOMAIN t /\ u[i] = t[i - Len(s)] /\ u[i] \in Range(t)
    <3>1. j - Len(s) \in DOMAIN t /\ u[j] = t[j - Len(s)]  BY <1>5, <2>3
    <3>2. i - Len(s) = j - Len(s)  BY <2>3, <3>1 DEF IsInjective
    <3> QED BY <2>1, <3>2
  <2> QED BY <1>5, <2>2, <2>3
<1>7. ASSUME NEW x \in Range(s), NEW y \in Range(s) PROVE Precedes(s, x, y) <=> Precedes(u, x, y)
  <2>1. ASSUME Precedes(s, x, y) PROVE Precedes(u, x, y)
    BY <1>4, <2>1 DEF Precedes
  <2>2. ASSUME Precedes(u, x, y) PROVE Precedes(s, x, y)
    <3>1. PICK i, j \in DOMAIN u : i < j /\ u[i] = x /\ u[j] = y  BY <2>2 DEF Precedes
    <3>2. i \in DOMAIN s /\ s[i] = x  BY <1>5, <3>1
    <3>3. j \in DOMAIN s /\ s[j] = y  BY <1>5, <3>1
    <3> QED BY <3>1, <3>2, <3>3 DEF Precedes
  <2> QED BY <2>1, <2>2
<1> QED BY <1>1, <1>2, <1>6, <1>7 DEF u

\* What a loaded list holds: the known maps in the order of the keys, and every
\* other map that is found.
LEMMA LoadedList ==
  ASSUME NEW keys \in Seq(Maps), IsInjective(keys), NEW paths \in SUBSET Maps
  PROVE  LET s == Known(keys, paths) \o New(keys, paths) IN
         /\ s \in Seq(Maps) /\ IsInjective(s)
         /\ Range(s) = (Range(keys) \cap paths) \cup (paths \cap present)
         /\ \A x, y \in Range(keys) \cap paths : Precedes(keys, x, y) <=> Precedes(s, x, y)
<1> DEFINE known == Known(keys, paths)
           new   == New(keys, paths)
           s     == known \o new
<1>1. /\ known \in Seq(Maps) /\ IsInjective(known) /\ Range(known) = Range(keys) \cap paths
      /\ \A x, y \in paths : Precedes(keys, x, y) <=> Precedes(known, x, y)
  BY KnownKeepsOrder
<1>2. /\ new \in Seq(Maps) /\ IsInjective(new)
      /\ Range(new) = (paths \cap present) \ Range(keys)
  BY SetIsListed DEF New
<1> HIDE DEF known, new
<1>3. Range(known) \cap Range(new) = {}  BY <1>1, <1>2
<1>4. /\ s \in Seq(Maps) /\ IsInjective(s) /\ Range(s) = Range(known) \cup Range(new)
      /\ \A x, y \in Range(known) : Precedes(known, x, y) <=> Precedes(s, x, y)
  BY <1>1, <1>2, <1>3, OneAfterTheOther
<1> HIDE DEF s
<1>5. /\ s \in Seq(Maps) /\ IsInjective(s)
      /\ Range(s) = (Range(keys) \cap paths) \cup (paths \cap present)
      /\ \A x, y \in Range(keys) \cap paths : Precedes(keys, x, y) <=> Precedes(s, x, y)
  BY <1>1, <1>2, <1>4
<1> QED BY <1>5 DEF s, known, new

\* Taking an item out keeps the others in their order.
LEMMA RemovedAt ==
  ASSUME NEW s \in Seq(Maps), IsInjective(s), NEW i \in DOMAIN s, NEW r, r = RemoveAt(s, i)
  PROVE  /\ r \in Seq(Maps) /\ IsInjective(r) /\ Len(r) = Len(s) - 1
         /\ Range(r) = Range(s) \ {s[i]}
         /\ \A x, y : Precedes(r, x, y) => Precedes(s, x, y)
<1> DEFINE a == SubSeq(s, 1, i - 1)
           b == SubSeq(s, i + 1, Len(s))
           from(k) == IF k < i THEN k ELSE k + 1
<1>1. /\ DOMAIN s = 1 .. Len(s) /\ Len(s) \in Nat /\ i \in 1 .. Len(s)
      /\ \A k \in DOMAIN s : s[k] \in Maps
  BY ListDomain
<1>2. /\ a \in Seq(Maps) /\ Len(a) = i - 1 /\ \A k \in 1 .. i - 1 : a[k] = s[k]
  <2>1. \A k \in 1 .. i - 1 : s[k] \in Maps  BY <1>1
  <2>2. /\ a \in Seq(Maps) /\ Len(a) = IF 1 <= i - 1 THEN i - 1 - 1 + 1 ELSE 0
        /\ \A k \in 1 .. i - 1 - 1 + 1 : a[k] = s[1 + k - 1]
    BY <1>1, <2>1, SubSeqProperties
  <2> QED BY <1>1, <2>2
<1>3. /\ b \in Seq(Maps) /\ Len(b) = Len(s) - i /\ \A k \in 1 .. Len(s) - i : b[k] = s[i + k]
  <2>1. \A k \in i + 1 .. Len(s) : s[k] \in Maps  BY <1>1
  <2>2. /\ b \in Seq(Maps) /\ Len(b) = IF i + 1 <= Len(s) THEN Len(s) - (i + 1) + 1 ELSE 0
        /\ \A k \in 1 .. Len(s) - (i + 1) + 1 : b[k] = s[i + 1 + k - 1]
    BY <1>1, <2>1, SubSeqProperties
  <2> QED BY <1>1, <2>2
<1> HIDE DEF a, b
<1>4. /\ r \in Seq(Maps) /\ Len(r) = Len(a) + Len(b)
      /\ \A k \in 1 .. Len(a) + Len(b) : r[k] = IF k <= Len(a) THEN a[k] ELSE b[k - Len(a)]
  <2>1. r = a \o b  BY DEF RemoveAt, a, b
  <2>2. /\ a \o b \in Seq(Maps) /\ Len(a \o b) = Len(a) + Len(b)
        /\ \A k \in 1 .. Len(a) + Len(b) :
             (a \o b)[k] = IF k <= Len(a) THEN a[k] ELSE b[k - Len(a)]
    BY <1>2, <1>3, ConcatProperties
  <2> QED BY <2>1, <2>2
<1>5. Len(r) = Len(s) - 1 /\ DOMAIN r = 1 .. Len(s) - 1
  BY <1>1, <1>2, <1>3, <1>4, ListDomain
<1>6. ASSUME NEW k \in DOMAIN r
      PROVE  /\ k \in Int /\ from(k) \in DOMAIN s /\ from(k) # i /\ r[k] = s[from(k)]
  <2>1. k \in 1 .. Len(s) - 1  BY <1>5
  <2>2. CASE k < i
    <3>1. k \in 1 .. i - 1  BY <1>1, <2>1, <2>2
    <3>2. r[k] = a[k]  BY <1>1, <1>2, <1>3, <1>4, <3>1
    <3> QED BY <1>1, <1>2, <2>1, <2>2, <3>1, <3>2
  <2>3. CASE ~(k < i)
    <3>1. k - (i - 1) \in 1 .. Len(s) - i  BY <1>1, <2>1, <2>3
    <3>2. r[k] = b[k - (i - 1)]  BY <1>1, <1>2, <1>3, <1>4, <2>1, <2>3
    <3>3. b[k - (i - 1)] = s[i + (k - (i - 1))]  BY <1>3, <3>1
    <3>4. i + (k - (i - 1)) = k + 1  BY <1>1, <2>1
    <3> QED BY <1>1, <2>1, <2>3, <3>2, <3>3, <3>4
  <2> QED BY <2>2, <2>3
<1>7. ASSUME NEW k \in DOMAIN s, k # i PROVE \E n \in DOMAIN r : r[n] = s[k]
  <2>1. CASE k < i
    <3>1. k \in DOMAIN r  BY <1>1, <1>5, <2>1
    <3> QED BY <1>6, <2>1, <3>1
  <2>2. CASE ~(k < i)
    <3>1. k - 1 \in DOMAIN r /\ ~(k - 1 < i) /\ (k - 1) + 1 = k  BY <1>1, <1>5, <1>7, <2>2
    <3> QED BY <1>6, <3>1
  <2> QED BY <2>1, <2>2
<1>8. IsInjective(r)
  <2> SUFFICES ASSUME NEW k \in DOMAIN r, NEW n \in DOMAIN r, r[k] = r[n] PROVE k = n
    BY DEF IsInjective
  <2>1. from(k) = from(n)  BY <1>6 DEF IsInjective
  <2> QED BY <1>1, <1>6, <2>1
<1>9. Range(r) = Range(s) \ {s[i]}
  <2>1. ASSUME NEW m \in Range(r) PROVE m \in Range(s) \ {s[i]}
    <3>1. PICK k \in DOMAIN r : r[k] = m  BY DEF Range
    <3>2. m = s[from(k)] /\ from(k) \in DOMAIN s /\ from(k) # i  BY <1>6, <3>1
    <3> HIDE DEF from
    <3> QED BY <3>2 DEF Range, IsInjective
  <2>2. ASSUME NEW m \in Range(s), m # s[i] PROVE m \in Range(r)
    <3>1. PICK k \in DOMAIN s : s[k] = m  BY DEF Range
    <3>2. PICK n \in DOMAIN r : r[n] = m  BY <1>7, <2>2, <3>1
    <3> QED BY <3>2 DEF Range
  <2> QED BY <2>1, <2>2
<1>10. ASSUME NEW x, NEW y, Precedes(r, x, y) PROVE Precedes(s, x, y)
  <2>1. PICK k, n \in DOMAIN r : k < n /\ r[k] = x /\ r[n] = y  BY <1>10 DEF Precedes
  <2>2. from(k) < from(n)  BY <1>1, <1>6, <2>1
  <2>3. from(k) \in DOMAIN s /\ from(n) \in DOMAIN s /\ s[from(k)] = x /\ s[from(n)] = y
    BY <1>6, <2>1
  <2> HIDE DEF from
  <2> QED BY <2>2, <2>3 DEF Precedes
<1> QED BY <1>4, <1>5, <1>8, <1>9, <1>10

\* Putting an item in keeps the list free of repetitions.
LEMMA InsertedAt ==
  ASSUME NEW s \in Seq(Maps), IsInjective(s), NEW i \in 1 .. Len(s) + 1,
         NEW e \in Maps, e \notin Range(s), NEW r, r = InsertAt(s, i, e)
  PROVE  r \in Seq(Maps) /\ IsInjective(r) /\ Range(r) = Range(s) \cup {e}
<1> DEFINE a == SubSeq(s, 1, i - 1)
           b == SubSeq(s, i, Len(s))
<1>1. /\ DOMAIN s = 1 .. Len(s) /\ Len(s) \in Nat /\ i \in Int /\ 1 <= i /\ i <= Len(s) + 1
      /\ \A k \in DOMAIN s : s[k] \in Maps /\ s[k] \in Range(s)
  BY ListDomain
<1>2. /\ a \in Seq(Maps) /\ Len(a) = i - 1 /\ \A k \in 1 .. i - 1 : a[k] = s[k]
  <2>1. \A k \in 1 .. i - 1 : s[k] \in Maps  BY <1>1
  <2>2. /\ a \in Seq(Maps) /\ Len(a) = IF 1 <= i - 1 THEN i - 1 - 1 + 1 ELSE 0
        /\ \A k \in 1 .. i - 1 - 1 + 1 : a[k] = s[1 + k - 1]
    BY <1>1, <2>1, SubSeqProperties
  <2> QED BY <1>1, <2>2
<1>3. /\ b \in Seq(Maps) /\ Len(b) = Len(s) - i + 1
      /\ \A k \in 1 .. Len(s) - i + 1 : b[k] = s[i + k - 1]
  <2>1. \A k \in i .. Len(s) : s[k] \in Maps  BY <1>1
  <2>2. /\ b \in Seq(Maps) /\ Len(b) = IF i <= Len(s) THEN Len(s) - i + 1 ELSE 0
        /\ \A k \in 1 .. Len(s) - i + 1 : b[k] = s[i + k - 1]
    BY <1>1, <2>1, SubSeqProperties
  <2> QED BY <1>1, <2>2
<1>4. <<e>> \in Seq(Maps) /\ Len(<<e>>) = 1 /\ <<e>>[1] = e /\ Range(<<e>>) = {e}
      /\ IsInjective(<<e>>)
  BY DEF Range, IsInjective
<1> HIDE DEF a, b
<1>5. r = (a \o <<e>>) \o b  BY DEF InsertAt, a, b
<1>6. \A k \in DOMAIN a : k \in 1 .. i - 1 /\ k \in DOMAIN s /\ a[k] = s[k] /\ k < i
  BY <1>1, <1>2, ListDomain
<1>7. \A k \in DOMAIN b : /\ k \in Int /\ i + k - 1 \in DOMAIN s /\ b[k] = s[i + k - 1]
                          /\ i <= i + k - 1
  <2> SUFFICES ASSUME NEW k \in DOMAIN b
               PROVE  /\ k \in Int /\ i + k - 1 \in DOMAIN s /\ b[k] = s[i + k - 1]
                      /\ i <= i + k - 1
    OBVIOUS
  <2>1. k \in 1 .. Len(s) - i + 1  BY <1>3, ListDomain
  <2>2. b[k] = s[i + k - 1]  BY <1>3, <2>1
  <2>3. k \in Int /\ i + k - 1 \in 1 .. Len(s) /\ i <= i + k - 1  BY <1>1, <2>1
  <2> QED BY <1>1, <2>2, <2>3
<1>8. IsInjective(a) /\ Range(a) \subseteq Range(s)
  BY <1>6 DEF IsInjective, Range
<1>9. IsInjective(b) /\ Range(b) \subseteq Range(s)
  <2>1. ASSUME NEW k \in DOMAIN b, NEW n \in DOMAIN b, b[k] = b[n] PROVE k = n
    <3>1. i + k - 1 = i + n - 1  BY <1>7, <2>1 DEF IsInjective
    <3> QED BY <1>1, <1>7, <3>1
  <2>2. ASSUME NEW k \in DOMAIN b PROVE b[k] \in Range(s)  BY <1>1, <1>7
  <2> QED BY <2>1, <2>2 DEF IsInjective, Range
<1>10. Range(a) \cap Range(b) = {}
  <2> SUFFICES ASSUME NEW k \in DOMAIN a, NEW n \in DOMAIN b, a[k] = b[n] PROVE FALSE
    BY DEF Range
  <2>1. k \in DOMAIN s /\ i + n - 1 \in DOMAIN s /\ s[k] = s[i + n - 1]  BY <1>6, <1>7
  <2>2. k = i + n - 1  BY <2>1 DEF IsInjective
  <2> QED BY <1>1, <1>6, <1>7, <2>2
<1>11. Range(s) \subseteq Range(a) \cup Range(b)
  <2> SUFFICES ASSUME NEW k \in DOMAIN s PROVE s[k] \in Range(a) \cup Range(b)
    BY DEF Range
  <2>1. CASE k < i
    <3>1. k \in DOMAIN a  BY <1>1, <1>2, <2>1, ListDomain
    <3> QED BY <1>6, <3>1 DEF Range
  <2>2. CASE ~(k < i)
    <3>1. k - i + 1 \in DOMAIN b /\ i + (k - i + 1) - 1 = k  BY <1>1, <1>3, <2>2, ListDomain
    <3> QED BY <1>7, <3>1 DEF Range
  <2> QED BY <2>1, <2>2
<1>12. /\ a \o <<e>> \in Seq(Maps) /\ IsInjective(a \o <<e>>)
       /\ Range(a \o <<e>>) = Range(a) \cup {e}
  <2>1. Range(a) \cap Range(<<e>>) = {}  BY <1>4, <1>8
  <2> QED BY <1>2, <1>4, <1>8, <2>1, OneAfterTheOther
<1>13. Range(a \o <<e>>) \cap Range(b) = {}  BY <1>9, <1>10, <1>12
<1>14. r \in Seq(Maps) /\ IsInjective(r) /\ Range(r) = Range(a \o <<e>>) \cup Range(b)
  <2> DEFINE q == a \o <<e>>
  <2>1. q \in Seq(Maps) /\ IsInjective(q) /\ Range(q) \cap Range(b) = {} /\ r = q \o b
    BY <1>5, <1>12, <1>13
  <2> HIDE DEF q
  <2>2. q \o b \in Seq(Maps) /\ IsInjective(q \o b) /\ Range(q \o b) = Range(q) \cup Range(b)
    BY <1>3, <1>9, <2>1, OneAfterTheOther
  <2> QED BY <2>1, <2>2 DEF q
<1> QED BY <1>8, <1>9, <1>11, <1>12, <1>14

\* moveMapItem() only moves: the list holds the same maps.
LEMMA MovedList ==
  ASSUME NEW s \in Seq(Maps), IsInjective(s), NEW from \in DOMAIN s, NEW to \in DOMAIN s,
         NEW r, r = InsertAt(RemoveAt(s, from), to, s[from])
  PROVE  r \in Seq(Maps) /\ IsInjective(r) /\ Range(r) = Range(s)
<1> DEFINE q == RemoveAt(s, from)
<1>1. q \in Seq(Maps) /\ IsInjective(q) /\ Len(q) = Len(s) - 1 /\ Range(q) = Range(s) \ {s[from]}
  BY RemovedAt
<1> HIDE DEF q
<1>2. to \in 1 .. Len(q) + 1 /\ s[from] \in Maps /\ s[from] \in Range(s)  BY <1>1, ListDomain
<1>3. r = InsertAt(q, to, s[from])  BY DEF q
<1>4. r \in Seq(Maps) /\ IsInjective(r) /\ Range(r) = Range(q) \cup {s[from]}
  BY <1>1, <1>2, <1>3, InsertedAt
<1> QED BY <1>1, <1>2, <1>4

-----------------------------------------------------------------------------
(***************************************************************************)
(* The inductive invariant.                                                *)
(***************************************************************************)
\* Who is said to be active has settings of a map.
OnIsMap(g) == g.isActive = "on" => g.conf

\* What the settings say of a listed map and of the state its item is in.
Recorded(m) ==
  /\ status[m] = "missing" => cfg[m] = shadowConfig[m]
  /\ status[m] = "active" /\ ~saving => cfg[m].isActive = "on"
  /\ status[m] = "inactive" =>
       /\ shadowConfig[m].isActive = "on"   => cfg[m].isActive = "on" /\ pending[m] = "on"
       /\ shadowConfig[m].isActive = "none" => cfg[m].isActive # "on"
       /\ shadowConfig[m].isActive = "off" /\ ~saving => cfg[m].isActive # "on"

\* The settings know every map in use, in the order of the list.
InUse == {m \in Listed : status[m] # "unused"}
OrderSaved ==
  /\ InUse \subseteq Range(keysKnownMaps)
  /\ \A x, y \in InUse : Precedes(mapList, x, y) => Precedes(keysKnownMaps, x, y)

MapInv ==
  /\ \A m \in Maps : OnIsMap(cfg[m]) /\ OnIsMap(shadowConfig[m])
  /\ running => \A m \in Listed : Recorded(m)
  /\ running /\ ~saving => OrderSaved

LEMMA ListedIsMaps == TypeOK => Listed \in SUBSET Maps
BY RangeOfSeq DEF TypeOK, Listed

-----------------------------------------------------------------------------
(***************************************************************************)
(* Loading, saving and switching, one after the other.                     *)
(***************************************************************************)
LEMMA LoadStep ==
  ASSUME NEW keys \in Seq(Maps), IsInjective(keys), NEW groups \in [Maps -> Groups],
         NEW paths \in SUBSET Maps, LoadMapList(keys, groups, paths)
  PROVE  /\ mapList' \in Seq(Maps) /\ IsInjective(mapList')
         /\ Range(mapList') = (Range(keys) \cap paths) \cup (paths \cap present)
         /\ \A x, y \in Range(keys) \cap paths : Precedes(keys, x, y) <=> Precedes(mapList', x, y)
         /\ status' \in [Maps -> {"missing", "unused", "inactive", "active"}]
         /\ pending' \in [Maps -> {"none", "on", "off"}]
         /\ shadowConfig' \in [Maps -> Groups]
         /\ \A m \in Maps :
              IF m \in Range(keys) \cap paths
                THEN /\ shadowConfig'[m] = groups[m]
                     /\ m \notin present => status'[m] = "missing"
                     /\ m \in present => /\ status'[m] = IF groups[m].conf THEN "inactive" ELSE "unused"
                                         /\ pending'[m] = "on" <=>
                                              groups[m].conf /\ groups[m].isActive = "on"
                ELSE shadowConfig'[m] = NoGroup /\ status'[m] = "unused"
<1>1. /\ mapList' \in Seq(Maps) /\ IsInjective(mapList')
      /\ Range(mapList') = (Range(keys) \cap paths) \cup (paths \cap present)
      /\ \A x, y \in Range(keys) \cap paths : Precedes(keys, x, y) <=> Precedes(mapList', x, y)
  BY LoadedList DEF LoadMapList
<1>2. Range(Known(keys, paths)) = Range(keys) \cap paths  BY KnownKeepsOrder
<1>3. NoGroup \in Groups  BY DEF NoGroup, Groups
<1>4. /\ status' \in [Maps -> {"missing", "unused", "inactive", "active"}]
      /\ pending' \in [Maps -> {"none", "on", "off"}]
      /\ shadowConfig' \in [Maps -> Groups]
  BY <1>2, <1>3 DEF LoadMapList
<1>5. ASSUME NEW m \in Maps
      PROVE  IF m \in Range(keys) \cap paths
                THEN /\ shadowConfig'[m] = groups[m]
                     /\ m \notin present => status'[m] = "missing"
                     /\ m \in present => /\ status'[m] = IF groups[m].conf THEN "inactive" ELSE "unused"
                                         /\ pending'[m] = "on" <=>
                                              groups[m].conf /\ groups[m].isActive = "on"
                ELSE shadowConfig'[m] = NoGroup /\ status'[m] = "unused"
  <2> DEFINE known == Range(Known(keys, paths))
  <2>1. /\ shadowConfig'[m] = IF m \in known THEN groups[m] ELSE NoGroup
        /\ status'[m] = IF m \in known \ present            THEN "missing"
                        ELSE IF m \in known /\ groups[m].conf THEN "inactive"
                        ELSE "unused"
        /\ pending'[m] = IF m \in known \cap present /\ groups[m].conf
                           THEN IF groups[m].isActive = "on" THEN "on" ELSE "off"
                           ELSE "none"
    BY DEF LoadMapList
  <2>2. known = Range(keys) \cap paths  BY <1>2
  <2> HIDE DEF known
  <2>3. CASE m \in known /\ m \notin present
    BY <2>1, <2>2, <2>3
  <2>4. CASE m \in known /\ m \in present
    BY <2>1, <2>2, <2>4
  <2>5. CASE m \notin known
    BY <2>1, <2>2, <2>5
  <2> QED BY <2>3, <2>4, <2>5
<1> QED BY <1>1, <1>4, <1>5

\* What saveConfig() of every listed map leaves in its group, when the settings
\* have the groups `old` before.
LEMMA SaveStep ==
  ASSUME TypeOK, MapInv, NEW old \in [Maps -> Groups], \A m \in Maps : OnIsMap(old[m])
  PROVE  /\ SavedGroups(old) \in [Maps -> Groups]
         /\ \A m \in Maps : OnIsMap(SavedGroups(old)[m])
         /\ \A m \in Listed :
              /\ status[m] = "active" => SavedGroups(old)[m] = [conf |-> TRUE, isActive |-> "on"]
              /\ status[m] # "active" =>
                   SavedGroups(old)[m].isActive = IF shadowConfig[m].isActive = "none"
                                                    THEN old[m].isActive ELSE shadowConfig[m].isActive
              /\ status[m] # "active" /\ old[m] \in {shadowConfig[m], NoGroup} =>
                   SavedGroups(old)[m] = shadowConfig[m]
<1> USE DEF TypeOK, Groups, Merged, SaveConfig, OnIsMap
<1>1. ASSUME NEW m \in Maps PROVE Merged(old[m], shadowConfig[m]) \in Groups
  <2>1. old[m] \in Groups /\ shadowConfig[m] \in Groups  OBVIOUS
  <2> QED BY <2>1
<1>2. \A m \in Maps : SavedGroups(old)[m] = IF m \in Listed THEN SaveConfig(old, m) ELSE old[m]
  BY DEF SavedGroups
<1>3. SavedGroups(old) \in [Maps -> Groups]  BY <1>1 DEF SavedGroups
<1>4. ASSUME NEW m \in Maps PROVE OnIsMap(SavedGroups(old)[m])
  <2>1. OnIsMap(old[m]) /\ OnIsMap(shadowConfig[m])  BY DEF MapInv
  <2>2. CASE m \in Listed /\ status[m] = "active"
    <3>1. SavedGroups(old)[m] = [conf |-> TRUE, isActive |-> "on"]  BY <1>2, <2>2
    <3> QED BY <3>1
  <2>3. CASE m \in Listed /\ status[m] # "active"
    <3>1. SavedGroups(old)[m] = Merged(old[m], shadowConfig[m])  BY <1>2, <2>3
    <3> QED BY <2>1, <3>1
  <2>4. CASE m \notin Listed
    BY <1>2, <2>1, <2>4
  <2> QED BY <2>2, <2>3, <2>4
<1>5. ASSUME NEW m \in Listed, status[m] # "active", old[m] \in {shadowConfig[m], NoGroup}
      PROVE  SavedGroups(old)[m] = shadowConfig[m]
  <2>1. m \in Maps /\ shadowConfig[m] \in Groups  BY ListedIsMaps
  <2>2. SavedGroups(old)[m] = Merged(old[m], shadowConfig[m])  BY <1>2, <1>5, <2>1
  <2>3. CASE old[m] = shadowConfig[m]
    BY <2>1, <2>2, <2>3
  <2>4. CASE old[m] = NoGroup
    BY <2>1, <2>2, <2>4 DEF NoGroup
  <2> QED BY <1>5, <2>3, <2>4
<1>6. ASSUME NEW m \in Listed
      PROVE  /\ status[m] = "active" => SavedGroups(old)[m] = [conf |-> TRUE, isActive |-> "on"]
             /\ status[m] # "active" =>
                  SavedGroups(old)[m].isActive = IF shadowConfig[m].isActive = "none"
                                                   THEN old[m].isActive ELSE shadowConfig[m].isActive
  <2>1. SavedGroups(old)[m] = SaveConfig(old, m)  BY <1>2, ListedIsMaps
  <2>2. CASE status[m] = "active"
    BY <2>1, <2>2
  <2>3. CASE status[m] # "active"
    <3>1. SavedGroups(old)[m] = Merged(old[m], shadowConfig[m])  BY <2>1, <2>3
    <3> QED BY <2>3, <3>1
  <2> QED BY <2>2, <2>3
<1> QED BY <1>3, <1>4, <1>5, <1>6

\* Saving adds to the groups the settings have; the end of the program starts
\* from erased ones.
LEMMA OldGroups ==
  ASSUME TypeOK, MapInv
  PROVE  /\ cfg \in [Maps -> Groups] /\ \A m \in Maps : OnIsMap(cfg[m])
         /\ Erased \in [Maps -> Groups] /\ \A m \in Maps : OnIsMap(Erased[m]) /\ Erased[m] = NoGroup
BY DEF TypeOK, MapInv, Erased, NoGroup, Groups, OnIsMap

\* A map that is switched becomes active, or inactive with the deactivation
\* recorded, or was not active and stays as it is.
LEMMA SwitchStep ==
  ASSUME TypeOK, MapInv, NEW m \in Maps, Activated(m) \/ Deactivated(m)
  PROVE  /\ status' \in [Maps -> {"missing", "unused", "inactive", "active"}]
         /\ shadowConfig' \in [Maps -> Groups]
         /\ \A x \in Maps \ {m} : status'[x] = status[x] /\ shadowConfig'[x] = shadowConfig[x]
         /\ \A x \in Maps : OnIsMap(shadowConfig'[x])
         /\ \/ status'[m] = "active"
            \/ status'[m] = "inactive" /\ shadowConfig'[m].isActive = "off"
            \/ /\ ~Activated(m) /\ status[m] # "active"
               /\ status'[m] = status[m] /\ shadowConfig'[m] = shadowConfig[m]
<1>1. shadowConfig[m] \in Groups /\ OnIsMap(shadowConfig[m])  BY DEF TypeOK, MapInv
<1>2. CASE /\ status' = [status EXCEPT ![m] = "active"]
           /\ shadowConfig' = [shadowConfig EXCEPT ![m].conf = TRUE]
  <2>1. shadowConfig'[m] = [conf |-> TRUE, isActive |-> shadowConfig[m].isActive]
    BY <1>1, <1>2 DEF TypeOK, Groups
  <2>2. shadowConfig'[m] \in Groups /\ OnIsMap(shadowConfig'[m])
    BY <1>1, <2>1 DEF Groups, OnIsMap
  <2> QED BY <1>2, <2>2 DEF TypeOK, MapInv
<1>3. CASE /\ status' = [status EXCEPT ![m] = "inactive"]
           /\ shadowConfig' = [shadowConfig EXCEPT ![m].isActive = "off"]
  <2>1. shadowConfig'[m] = [conf |-> shadowConfig[m].conf, isActive |-> "off"]
    BY <1>1, <1>3 DEF TypeOK, Groups
  <2>2. shadowConfig'[m] \in Groups /\ OnIsMap(shadowConfig'[m])
    BY <1>1, <2>1 DEF Groups, OnIsMap
  <2> QED BY <1>3, <2>1, <2>2 DEF TypeOK, MapInv
<1>4. CASE Deactivated(m) /\ status[m] = "active"
  <2>1. SetOff(m) \in Groups /\ OnIsMap(SetOff(m)) /\ SetOff(m).isActive = "off"
    BY DEF SetOff, Groups, OnIsMap
  <2> QED BY <1>4, <2>1 DEF Deactivated, TypeOK, MapInv
<1>5. CASE ~Activated(m) /\ Deactivated(m) /\ status[m] # "active"
  BY <1>5 DEF Deactivated, TypeOK, MapInv
<1> QED BY <1>2, <1>3, <1>4, <1>5 DEF Activated

\* A list that has just been loaded agrees with the settings it was loaded from.
LEMMA LoadKeeps ==
  ASSUME NEW keys \in Seq(Maps), IsInjective(keys), NEW groups \in [Maps -> Groups],
         NEW paths \in SUBSET Maps, LoadMapList(keys, groups, paths),
         \A m \in Maps : OnIsMap(groups[m]), cfg' = groups, keysKnownMaps' = keys
  PROVE  /\ \A m \in Maps : OnIsMap(cfg'[m]) /\ OnIsMap(shadowConfig'[m])
         /\ \A m \in Range(mapList') : Recorded(m)'
         /\ OrderSaved'
<1>1. ASSUME NEW m \in Maps PROVE OnIsMap(cfg'[m]) /\ OnIsMap(shadowConfig'[m])
  <2>1. shadowConfig'[m] = groups[m] \/ shadowConfig'[m] = NoGroup  BY LoadStep
  <2> QED BY <2>1 DEF NoGroup, OnIsMap
<1>2. ASSUME NEW m \in Range(mapList') PROVE Recorded(m)'
  <2>1. m \in Maps  BY LoadStep, RangeOfSeq
  <2>2. CASE m \in Range(keys) \cap paths
    <3>1. /\ shadowConfig'[m] = cfg'[m]
          /\ status'[m] \in {"missing", "unused", "inactive"}
          /\ status'[m] = "inactive" => pending'[m] = "on" <=> cfg'[m].isActive = "on"
      BY <2>1, <2>2, LoadStep
    <3> QED BY <3>1 DEF Recorded
  <2>3. CASE m \notin Range(keys) \cap paths
    <3>1. status'[m] = "unused"  BY <2>1, <2>3, LoadStep
    <3> QED BY <3>1 DEF Recorded
  <2> QED BY <2>2, <2>3
<1>3. ASSUME NEW m \in Range(mapList'), status'[m] # "unused" PROVE m \in Range(keys) \cap paths
  <2>1. m \in Maps  BY LoadStep, RangeOfSeq
  <2> QED BY <1>3, <2>1, LoadStep
<1>4. ASSUME NEW x \in Range(keys) \cap paths, NEW y \in Range(keys) \cap paths,
             Precedes(mapList', x, y)
      PROVE  Precedes(keysKnownMaps', x, y)
  BY <1>4, LoadStep
<1>5. OrderSaved'
  BY <1>3, <1>4 DEF OrderSaved, InUse, Listed
<1> QED BY <1>1, <1>2, <1>5

LEMMA SaveKeeps ==
  ASSUME TypeOK, MapInv, DelayedSave
  PROVE  MapInv'
<1> USE DEF DelayedSave, SaveMapList, SaveInto, item, disk
<1>1. ASSUME NEW m \in Maps PROVE OnIsMap(cfg'[m]) /\ OnIsMap(shadowConfig'[m])
  BY SaveStep, OldGroups DEF MapInv
<1>2. ASSUME NEW m \in Listed PROVE Recorded(m)'
  <2>1. running /\ Recorded(m)  BY DEF MapInv
  <2>2. status[m] = "missing" => cfg[m] = shadowConfig[m]  BY <2>1 DEF Recorded
  <2>3. /\ status[m] = "active" => cfg'[m] = [conf |-> TRUE, isActive |-> "on"]
        /\ status[m] # "active" =>
             cfg'[m].isActive = IF shadowConfig[m].isActive = "none"
                                  THEN cfg[m].isActive ELSE shadowConfig[m].isActive
        /\ status[m] = "missing" => cfg'[m] = shadowConfig[m]
    BY <2>2, SaveStep, OldGroups
  <2>4. UNCHANGED <<status, shadowConfig, pending>>  OBVIOUS
  <2> QED BY <2>1, <2>3, <2>4 DEF Recorded
<1>3. OrderSaved'  BY DEF OrderSaved, InUse, Listed
<1> QED BY <1>1, <1>2, <1>3 DEF MapInv, Listed

\* A click or a single shot on item m.
LEMMA SwitchKeeps ==
  ASSUME TypeOK, MapInv, NEW m \in Maps, running, Activated(m) \/ Deactivated(m),
         saving' = TRUE, UNCHANGED <<running, mapList, cfg>>,
         \A x \in Maps \ {m} : pending'[x] = pending[x],
         status[m] # "active" => Activated(m) \/ pending[m] # "on"
  PROVE  MapInv'
<1>1. ASSUME NEW x \in Maps PROVE OnIsMap(cfg'[x]) /\ OnIsMap(shadowConfig'[x])
  BY SwitchStep DEF MapInv
<1>2. ASSUME NEW x \in Listed PROVE Recorded(x)'
  <2>1. x \in Maps /\ Recorded(x)  BY ListedIsMaps DEF MapInv
  <2>2. CASE x # m
    <3>1. status'[x] = status[x] /\ shadowConfig'[x] = shadowConfig[x] /\ pending'[x] = pending[x]
      BY <2>1, <2>2, SwitchStep
    <3> QED BY <2>1, <3>1 DEF Recorded
  <2>3. CASE x = m
    <3>1. CASE status'[m] = "active"
      BY <2>3, <3>1 DEF Recorded
    <3>2. CASE status'[m] = "inactive" /\ shadowConfig'[m].isActive = "off"
      BY <2>3, <3>2 DEF Recorded
    <3>3. CASE /\ ~Activated(m) /\ status[m] # "active"
               /\ status'[m] = status[m] /\ shadowConfig'[m] = shadowConfig[m]
      <4>1. pending[m] # "on"  BY <3>3
      <4> QED BY <2>1, <2>3, <3>3, <4>1 DEF Recorded
    <3> QED BY <3>1, <3>2, <3>3, SwitchStep
  <2> QED BY <2>2, <2>3
<1> QED BY <1>1, <1>2 DEF MapInv, Listed

-----------------------------------------------------------------------------
LEMMA MapListInit == Init => TypeOK /\ MapInv
<1> SUFFICES ASSUME Init PROVE TypeOK /\ MapInv
  OBVIOUS
<1>1. NoGroup \in Groups /\ OnIsMap(NoGroup)  BY DEF NoGroup, Groups, OnIsMap
<1>2. <<>> \in Seq(Maps) /\ IsInjective(<<>>) /\ Range(<<>>) = {}
  BY DEF IsInjective, Range
<1>3. TypeOK  BY <1>1, <1>2 DEF Init, TypeOK
<1>4. MapInv
  BY <1>1, <1>2 DEF Init, MapInv, Listed, OrderSaved, InUse
<1> QED BY <1>3, <1>4

LEMMA MapListNext == TypeOK /\ MapInv /\ [Next]_vars => TypeOK' /\ MapInv'
<1> SUFFICES ASSUME TypeOK, MapInv, [Next]_vars PROVE TypeOK' /\ MapInv'
  OBVIOUS
<1> USE DEF disk, item, settings
<1>1. ASSUME NEW m \in Maps, Click(m) PROVE TypeOK' /\ MapInv'
  <2>1. /\ Activated(m) \/ Deactivated(m)
        /\ running /\ saving' = TRUE /\ (status[m] # "active" => Activated(m))
        /\ UNCHANGED <<disk, mapPaths, mapList, pending, settings>>
    BY <1>1 DEF Click, Changed
  <2>2. TypeOK'  BY <2>1, SwitchStep DEF TypeOK
  <2>3. MapInv'  BY <2>1, SwitchKeeps
  <2> QED BY <2>2, <2>3
<1>2. ASSUME NEW m \in Maps, SingleShot(m) PROVE TypeOK' /\ MapInv'
  <2>1. /\ Activated(m) \/ Deactivated(m)
        /\ running /\ saving' = TRUE /\ (Activated(m) \/ pending[m] # "on")
        /\ pending' = [pending EXCEPT ![m] = "none"]
        /\ UNCHANGED <<disk, mapPaths, mapList, settings>>
    BY <1>2 DEF SingleShot, Changed
  <2>2. TypeOK'  BY <2>1, SwitchStep DEF TypeOK
  <2>3. \A x \in Maps \ {m} : pending'[x] = pending[x]  BY <2>1 DEF TypeOK
  <2>4. MapInv'  BY <2>1, <2>3, SwitchKeeps
  <2> QED BY <2>2, <2>4
<1>3. ASSUME NEW m \in Maps, SlotRemove(m) PROVE TypeOK' /\ MapInv'
  <2>1. PICK i \in DOMAIN mapList : mapList' = RemoveAt(mapList, i)
    BY <1>3 DEF SlotRemove
  <2>2. /\ mapList' \in Seq(Maps) /\ IsInjective(mapList')
        /\ Range(mapList') \subseteq Range(mapList)
        /\ \A x, y : Precedes(mapList', x, y) => Precedes(mapList, x, y)
    BY <2>1, RemovedAt DEF TypeOK
  <2>3. UNCHANGED <<disk, mapPaths, status, shadowConfig, pending, saving, settings>>
    BY <1>3 DEF SlotRemove
  <2>4. TypeOK'  BY <2>2, <2>3 DEF TypeOK
  <2>5. MapInv'
    BY <2>2, <2>3 DEF MapInv, Listed, Recorded, OrderSaved, InUse
  <2> QED BY <2>4, <2>5
<1>4. ASSUME NEW m \in Maps, Drive(m) PROVE TypeOK' /\ MapInv'
  BY <1>4 DEF Drive, TypeOK, MapInv, Listed, Recorded, OrderSaved, InUse
<1>5. ASSUME NEW from \in DOMAIN mapList, NEW to \in DOMAIN mapList, Move(from, to)
      PROVE  TypeOK' /\ MapInv'
  <2>1. mapList' \in Seq(Maps) /\ IsInjective(mapList') /\ Range(mapList') = Range(mapList)
    BY <1>5, MovedList DEF Move, TypeOK
  <2>2. saving' = TRUE /\ UNCHANGED <<disk, mapPaths, status, shadowConfig, pending, settings>>
    BY <1>5 DEF Move, Changed
  <2>3. TypeOK'  BY <2>1, <2>2 DEF TypeOK
  <2>4. MapInv'  BY <2>1, <2>2 DEF MapInv, Listed, Recorded
  <2> QED BY <2>3, <2>4
<1>6. ASSUME NEW paths \in SUBSET Maps, SetupMapPath(paths) PROVE TypeOK' /\ MapInv'
  <2>1. /\ mapPaths' = paths /\ LoadMapList(mapList, SavedGroups(cfg), paths)
        /\ cfg' = SavedGroups(cfg) /\ keysKnownMaps' = mapList
        /\ UNCHANGED <<disk, saving, cfgPaths>>
    BY <1>6 DEF SetupMapPath, SaveAndLoad, SaveMapList, SaveInto
  <2>2. mapList \in Seq(Maps) /\ IsInjective(mapList)  BY DEF TypeOK
  <2>3. SavedGroups(cfg) \in [Maps -> Groups] /\ \A m \in Maps : OnIsMap(SavedGroups(cfg)[m])
    BY SaveStep, OldGroups
  <2>4. TypeOK'  BY <2>1, <2>2, <2>3, LoadStep DEF TypeOK
  <2>5. MapInv'  BY <2>1, <2>2, <2>3, LoadKeeps DEF MapInv, Listed
  <2> QED BY <2>4, <2>5
<1>7. ASSUME DelayedSave PROVE TypeOK' /\ MapInv'
  <2>1. TypeOK'  BY <1>7, SaveStep, OldGroups DEF DelayedSave, SaveMapList, SaveInto, TypeOK
  <2> QED BY <1>7, <2>1, SaveKeeps
<1>8. ASSUME SetProjection PROVE TypeOK' /\ MapInv'
  <2>1. /\ LoadMapList(keysKnownMaps, cfg, mapPaths)
        /\ UNCHANGED <<disk, mapPaths, saving, settings>>
    BY <1>8 DEF SetProjection
  <2>2. /\ keysKnownMaps \in Seq(Maps) /\ IsInjective(keysKnownMaps) /\ mapPaths \in SUBSET Maps
        /\ cfg \in [Maps -> Groups] /\ \A m \in Maps : OnIsMap(cfg[m])
    BY DEF TypeOK, MapInv
  <2>3. TypeOK'  BY <2>1, <2>2, LoadStep DEF TypeOK
  <2>4. MapInv'  BY <2>1, <2>2, LoadKeeps DEF MapInv, Listed
  <2> QED BY <2>3, <2>4
<1>9. ASSUME Exit \/ Crash PROVE TypeOK' /\ MapInv'
  <2>1. NoGroup \in Groups /\ OnIsMap(NoGroup)  BY DEF NoGroup, Groups, OnIsMap
  <2>2. <<>> \in Seq(Maps) /\ IsInjective(<<>>)  BY DEF IsInjective
  <2>3. /\ cfg' \in [Maps -> Groups] /\ \A m \in Maps : OnIsMap(cfg'[m])
        /\ keysKnownMaps' \in Seq(Maps) /\ IsInjective(keysKnownMaps')
        /\ cfgPaths' \subseteq Maps
    BY <1>9, SaveStep, OldGroups DEF Exit, Crash, SaveInto, TypeOK, MapInv
  <2>4. Gone /\ present' = present  BY <1>9 DEF Exit, Crash
  <2>5. TypeOK'  BY <2>1, <2>2, <2>3, <2>4 DEF Gone, TypeOK
  <2>6. MapInv'  BY <2>1, <2>3, <2>4 DEF Gone, MapInv
  <2> QED BY <2>5, <2>6
<1>10. ASSUME Start PROVE TypeOK' /\ MapInv'
  <2>1. /\ LoadMapList(keysKnownMaps, cfg, cfgPaths) /\ running' = TRUE /\ mapPaths' = cfgPaths
        /\ UNCHANGED <<present, saving, settings>>
    BY <1>10 DEF Start
  <2>2. /\ keysKnownMaps \in Seq(Maps) /\ IsInjective(keysKnownMaps) /\ cfgPaths \in SUBSET Maps
        /\ cfg \in [Maps -> Groups] /\ \A m \in Maps : OnIsMap(cfg[m])
    BY DEF TypeOK, MapInv
  <2>3. TypeOK'  BY <2>1, <2>2, LoadStep DEF TypeOK
  <2>4. MapInv'  BY <2>1, <2>2, LoadKeeps DEF MapInv, Listed
  <2> QED BY <2>3, <2>4
<1>11. CASE UNCHANGED vars
  BY <1>11 DEF vars, TypeOK, MapInv, Listed, Recorded, OrderSaved, InUse
<1> QED BY <1>1, <1>2, <1>3, <1>4, <1>5, <1>6, <1>7, <1>8, <1>9, <1>10, <1>11 DEF Next

LEMMA MapListAlways == Spec => [](TypeOK /\ MapInv)
BY MapListInit, MapListNext, PTL DEF Spec

\* Every reachable state is well typed: neither the list nor the keys in the
\* settings ever name a map twice.
THEOREM MapListTypeCorrect == Spec => []TypeOK
BY MapListAlways, PTL

\* Once the timers have fired, the settings say of every usable map whether it
\* is active; of a map whose drive is away they say all along what its item
\* remembers.
THEOREM SettingsAlwaysAgree == Spec => []SettingsAgree
<1>1. TypeOK /\ MapInv => SettingsAgree
  <2> SUFFICES ASSUME TypeOK, MapInv, NEW m \in Listed, running
               PROVE  /\ status[m] = "missing" => cfg[m] = shadowConfig[m]
                      /\ ~saving /\ status[m] \in {"active", "inactive"} /\ pending[m] = "none" =>
                           (cfg[m].isActive = "on" <=> status[m] = "active")
    BY DEF SettingsAgree
  <2>1. Recorded(m) /\ m \in Maps  BY ListedIsMaps DEF MapInv
  <2>2. shadowConfig[m].isActive \in {"none", "on", "off"}  BY <2>1 DEF TypeOK, Groups
  <2> QED BY <2>1, <2>2 DEF Recorded
<1> QED BY <1>1, MapListAlways, PTL

-----------------------------------------------------------------------------
(***************************************************************************)
(* A list that is built anew is the same list.                             *)
(***************************************************************************)
Restored(paths) ==
  /\ Kept(paths) \subseteq Range(mapList')
  /\ \A m \in Kept(paths) : Wanted(m) <=> Wanted(m)'
  /\ \A x, y \in Kept(paths) : Precedes(mapList, x, y) => Precedes(mapList', x, y)

\* Loading keeps what the keys and groups say of the maps in use.
LEMMA LoadRestores ==
  ASSUME NEW keys \in Seq(Maps), IsInjective(keys), NEW groups \in [Maps -> Groups],
         NEW paths \in SUBSET Maps, LoadMapList(keys, groups, paths),
         \A m \in Maps : OnIsMap(groups[m]),
         Kept(paths) \subseteq Range(keys),
         \A m \in Kept(paths) : Wanted(m) <=> groups[m].isActive = "on",
         \A x, y \in Kept(paths) : Precedes(mapList, x, y) => Precedes(keys, x, y)
  PROVE  Restored(paths)
<1>1. \A m \in Kept(paths) : m \in paths  BY DEF Kept
<1>2. Kept(paths) \subseteq Range(mapList')  BY <1>1, LoadStep
<1>3. ASSUME NEW m \in Kept(paths) PROVE Wanted(m) <=> Wanted(m)'
  <2>1. m \in Range(keys) \cap paths /\ m \in Maps  BY <1>1
  <2>2. /\ shadowConfig'[m] = groups[m] /\ status'[m] \in {"missing", "inactive", "unused"}
        /\ status'[m] = "unused" => ~groups[m].conf
    BY <2>1, LoadStep
  <2>3. groups[m].isActive = "on" => groups[m].conf  BY <2>1 DEF OnIsMap
  <2>4. Wanted(m)' <=> groups[m].isActive = "on"  BY <2>2, <2>3 DEF Wanted
  <2> QED BY <2>4
<1>4. ASSUME NEW x \in Kept(paths), NEW y \in Kept(paths), Precedes(mapList, x, y)
      PROVE  Precedes(mapList', x, y)
  <2>1. x \in Range(keys) \cap paths /\ y \in Range(keys) \cap paths  BY <1>1
  <2>2. Precedes(keys, x, y)  BY <1>4
  <2> QED BY <2>1, <2>2, LoadStep
<1> QED BY <1>2, <1>3, <1>4 DEF Restored

\* setupMapPath() saves the list before it loads it.
LEMMA SetupRestores ==
  ASSUME TypeOK, MapInv, NEW paths \in SUBSET Maps, SetupMapPath(paths)
  PROVE  Restored(paths)
<1>1. running /\ LoadMapList(mapList, SavedGroups(cfg), paths)
  BY DEF SetupMapPath, SaveAndLoad
<1>2. mapList \in Seq(Maps) /\ IsInjective(mapList)  BY DEF TypeOK
<1>3. SavedGroups(cfg) \in [Maps -> Groups] /\ \A m \in Maps : OnIsMap(SavedGroups(cfg)[m])
    BY SaveStep, OldGroups
<1>4. Kept(paths) \subseteq Range(mapList)  BY DEF Kept, Listed
<1>5. ASSUME NEW m \in Kept(paths) PROVE Wanted(m) <=> SavedGroups(cfg)[m].isActive = "on"
  <2>1. m \in Listed /\ m \in Maps /\ Recorded(m)  BY <1>1, ListedIsMaps DEF Kept, MapInv
  <2>2. status[m] = "active" \/ status[m] = "inactive"  BY <2>1 DEF Kept, TypeOK
  <2>3. CASE status[m] = "active"
    BY <2>1, <2>3, SaveStep, OldGroups DEF Wanted
  <2>4. CASE status[m] = "inactive"
    <3>1. SavedGroups(cfg)[m].isActive = IF shadowConfig[m].isActive = "none"
                                      THEN cfg[m].isActive ELSE shadowConfig[m].isActive
      BY <2>1, <2>4, SaveStep, OldGroups
    <3> QED BY <2>1, <2>4, <3>1 DEF Wanted, Recorded
  <2> QED BY <2>2, <2>3, <2>4
<1> QED BY <1>1, <1>2, <1>3, <1>4, <1>5, LoadRestores

\* The new projection loads what is saved.
LEMMA ProjectionRestores ==
  ASSUME TypeOK, MapInv, SetProjection, ~saving
  PROVE  Restored(mapPaths)
<1>1. running /\ LoadMapList(keysKnownMaps, cfg, mapPaths)  BY DEF SetProjection
<1>2. /\ keysKnownMaps \in Seq(Maps) /\ IsInjective(keysKnownMaps) /\ mapPaths \in SUBSET Maps
      /\ cfg \in [Maps -> Groups] /\ \A m \in Maps : OnIsMap(cfg[m])
  BY DEF TypeOK, MapInv
<1>3. Kept(mapPaths) \subseteq InUse /\ OrderSaved  BY <1>1 DEF Kept, InUse, MapInv
<1>4. /\ Kept(mapPaths) \subseteq Range(keysKnownMaps)
      /\ \A x, y \in Kept(mapPaths) : Precedes(mapList, x, y) => Precedes(keysKnownMaps, x, y)
  BY <1>3 DEF OrderSaved
<1>5. ASSUME NEW m \in Kept(mapPaths) PROVE Wanted(m) <=> cfg[m].isActive = "on"
  <2>1. m \in Listed /\ m \in Maps /\ Recorded(m)  BY <1>1, ListedIsMaps DEF Kept, MapInv
  <2>2. status[m] = "active" \/ status[m] = "inactive"  BY <2>1 DEF Kept, TypeOK
  <2>3. shadowConfig[m].isActive \in {"none", "on", "off"}  BY <2>1 DEF TypeOK, Groups
  <2> QED BY <2>1, <2>2, <2>3 DEF Wanted, Recorded
<1> QED BY <1>1, <1>2, <1>4, <1>5, LoadRestores

\* The end of the program saves into erased groups what the items remember.
LEMMA ExitLeaves ==
  ASSUME TypeOK, MapInv, Exit, NEW m \in Listed, status[m] # "unused"
  PROVE  /\ Wanted(m) <=> cfg'[m].isActive = "on"
         /\ status[m] = "missing" => cfg'[m] = shadowConfig[m]
<1>1. keysKnownMaps' = mapList /\ cfg' = SavedGroups(Erased)  BY DEF Exit, SaveInto
<1>2. m \in Maps /\ Erased[m] = NoGroup  BY ListedIsMaps, OldGroups
<1>3. CASE status[m] = "active"
  <2>1. cfg'[m] = [conf |-> TRUE, isActive |-> "on"]  BY <1>1, <1>3, SaveStep, OldGroups
  <2> QED BY <1>1, <1>3, <2>1 DEF Wanted, Listed
<1>4. CASE status[m] # "active"
  <2>1. cfg'[m] = shadowConfig[m]  BY <1>1, <1>2, <1>4, SaveStep, OldGroups
  <2> QED BY <1>1, <1>4, <2>1 DEF Wanted, Listed
<1> QED BY <1>3, <1>4

\* When the paths change, or the projection does while nothing waits to be
\* saved, the maps in use are wanted as before and in the same order; and the
\* end of the program leaves settings that say so.
THEOREM ReloadAlwaysRestores == Spec => ReloadRestores
<1>1. ASSUME TypeOK, MapInv, NEW paths \in SUBSET Maps, SetupMapPath(paths)
      PROVE  Restored(mapPaths')
  <2>1. mapPaths' = paths  BY <1>1 DEF SetupMapPath
  <2> QED BY <1>1, <2>1, SetupRestores
<1>2. ASSUME TypeOK, MapInv, SetProjection, ~saving PROVE Restored(mapPaths')
  <2>1. mapPaths' = mapPaths  BY <1>2 DEF SetProjection
  <2> QED BY <1>2, <2>1, ProjectionRestores
<1>3. ASSUME TypeOK, MapInv, Exit PROVE keysKnownMaps' = mapList
  BY <1>3 DEF Exit, SaveInto
<1>4. TypeOK /\ MapInv =>
        [/\ (\E paths \in SUBSET Maps : SetupMapPath(paths)) \/ (SetProjection /\ ~saving) =>
              /\ Kept(mapPaths') \subseteq Range(mapList')
              /\ \A m \in Kept(mapPaths') : Wanted(m) <=> Wanted(m)'
              /\ \A x, y \in Kept(mapPaths') : Precedes(mapList, x, y) => Precedes(mapList', x, y)
         /\ Exit =>
              /\ keysKnownMaps' = mapList
              /\ \A m \in Listed : status[m] # "unused" =>
                   /\ Wanted(m) <=> cfg'[m].isActive = "on"
                   /\ status[m] = "missing" => cfg'[m] = shadowConfig[m]]_vars
  BY <1>1, <1>2, <1>3, ExitLeaves DEF Restored
<1> QED BY <1>4, MapListAlways, PTL DEF ReloadRestores

=============================================================================
