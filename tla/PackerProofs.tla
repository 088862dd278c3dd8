---------------------------- MODULE PackerProofs ----------------------------
(***************************************************************************)
(* chunk.Packer for any number of wires, inodes and lengths: extents of a  *)
(* message never overlap, a staged copy outlives the commit of its row, a  *)
(* full buffer is signalled, and the packer implements WireQueue.          *)
(***************************************************************************)
EXTENDS Packer, SequenceTheorems, FunctionTheorems, FiniteSetTheorems,
        WellFoundedInduction, TLAPS

-----------------------------------------------------------------------------
(* Natural numbers and lists *)

\* A position that is not the last has a next one.
LEMMA StepWithin == \A x, y \in Nat : x \in 1..y /\ x # y => x + 1 \in 1..y
  OBVIOUS

\* What a position is.
LEMMA Position == \A x, y \in Nat : 1 <= x /\ x <= y => x \in 1..y
  OBVIOUS

\* Past the last position nothing is left.
LEMMA NothingLeft == \A x, y \in Nat : x <= y /\ ~(x + 1 <= y) => y - x = 0
  OBVIOUS

\* The least-number principle, for a set of numbers.
LEMMA LeastNumber ==
  ASSUME NEW T \in SUBSET Nat, T # {}
  PROVE  \E m \in T : \A n \in T : m <= n
  <1> DEFINE R == OpToRel(<, Nat)
  <1>1. IsWellFoundedOn(R, Nat)
    BY NatLessThanWellFounded
  <1>2. \A x, y \in Nat : x < y => <<x, y>> \in R
    BY DEF OpToRel
  <1> HIDE DEF R
  <1>3. PICK x \in T : \A y \in T : ~(<<y, x>> \in R)
    BY <1>1, WFMin
  <1>4. \A y \in T : y \in Nat /\ ~(y < x)
    BY <1>2, <1>3
  <1>5. \A y \in T : x <= y
    BY <1>4
  <1> QED BY <1>5

\* No element occurs twice.
Distinct(s) == \A i, j \in DOMAIN s : s[i] = s[j] => i = j

\* Keep is the sublist of the members of S: it has exactly those members, and
\* repeats none that the list did not repeat.
LEMMA KeepIs ==
  ASSUME NEW W, NEW s \in Seq(W), NEW S
  PROVE  /\ Keep(s, S) \in Seq(W)
         /\ Range(Keep(s, S)) = Range(s) \cap S
         /\ Distinct(s) => Distinct(Keep(s, S))
  <1> DEFINE hits == {m \in DOMAIN s : s[m] \in S}
             upTo(m) == {i \in hits : i <= m}
             rank(m) == Cardinality(upTo(m))
             c == Cardinality(hits)
             pick(k) == CHOOSE m \in hits : rank(m) = k
             f == [m \in hits |-> rank(m)]
  <1>1. DOMAIN s = 1..Len(s) /\ Len(s) \in Nat /\ \A m \in DOMAIN s : s[m] \in W
    OBVIOUS
  <1>2. hits \in SUBSET (1..Len(s)) /\ IsFiniteSet(hits) /\ c \in Nat
    <2>1. hits \in SUBSET (1..Len(s))
      BY <1>1
    <2>2. IsFiniteSet(1..Len(s))
      BY <1>1, FS_Interval
    <2> HIDE DEF hits
    <2> QED BY <2>1, <2>2, FS_Subset, FS_CardinalityType
  <1>3. \A m : IsFiniteSet(upTo(m)) /\ rank(m) \in Nat /\ rank(m) <= c
    <2> TAKE m
    <2>1. upTo(m) \in SUBSET hits
      OBVIOUS
    <2> HIDE DEF hits, upTo
    <2> QED BY <1>2, <2>1, FS_Subset, FS_CardinalityType
  <1>4. \A m \in hits : rank(m) \in 1..c
    <2> TAKE m \in hits
    <2>1. m \in upTo(m)
      BY <1>2
    <2> HIDE DEF upTo, hits
    <2>2. rank(m) # 0
      BY <1>3, <2>1, FS_EmptySet
    <2> HIDE DEF rank, c
    <2> QED BY <1>2, <1>3, <2>2
  <1>5. \A m, n \in hits : m < n => rank(m) < rank(n)
    <2> SUFFICES ASSUME NEW m \in hits, NEW n \in hits, m < n
                 PROVE  rank(m) < rank(n)
      OBVIOUS
    <2>1. upTo(m) \in SUBSET upTo(n) /\ n \in upTo(n) /\ n \notin upTo(m)
      BY <1>2
    <2> HIDE DEF upTo, hits
    <2>2. rank(m) <= rank(n) /\ rank(m) # rank(n)
      BY <1>3, <2>1, FS_Subset
    <2> QED BY <1>3, <2>2
  <1> HIDE DEF hits, upTo, rank, c
  <1>6. \A m, n \in hits : rank(m) = rank(n) => m = n
    <2> SUFFICES ASSUME NEW m \in hits, NEW n \in hits, rank(m) = rank(n)
                 PROVE  m = n
      OBVIOUS
    <2>1. m \in Int /\ n \in Int /\ rank(m) \in Int
      BY <1>2, <1>3
    <2> QED BY <1>5, <2>1
  <1>7. f \in [hits -> 1..c] /\ f \in Injection(hits, 1..c)
    BY <1>4, <1>6, Fun_IsInj
  <1>8. \A k \in 1..c : \E m \in hits : rank(m) = k
    <2>1. IsFiniteSet(1..c) /\ Cardinality(1..c) = c
      BY <1>2, FS_Interval
    <2>2. f \in Surjection(hits, 1..c)
      BY <1>7, <2>1, FS_Injection DEF c
    <2> HIDE DEF f
    <2>3. \A k \in 1..c : \E m \in hits : f[m] = k
      BY <2>2, Fun_SurjectionProperties
    <2> QED BY <2>3 DEF f
  <1>9. \A k \in 1..c : pick(k) \in hits /\ rank(pick(k)) = k
    BY <1>8
  <1>10. Keep(s, S) = [k \in 1..c |-> s[pick(k)]]
    BY DEF Keep, hits, upTo, rank, c
  <1> HIDE DEF pick
  <1>11. \A k \in 1..c : s[pick(k)] \in W /\ s[pick(k)] \in Range(s) \cap S /\ pick(k) \in DOMAIN s
    BY <1>1, <1>9 DEF hits, Range
  <1>12. Keep(s, S) \in Seq(W) /\ DOMAIN Keep(s, S) = 1..c
    BY <1>2, <1>10, <1>11
  <1>13. Range(s) \cap S \subseteq Range(Keep(s, S))
    <2> SUFFICES ASSUME NEW m \in DOMAIN s, s[m] \in S
                 PROVE  \E k \in 1..c : s[pick(k)] = s[m]
      BY <1>10 DEF Range
    <2>1. m \in hits /\ rank(m) \in 1..c
      BY <1>4 DEF hits
    <2>2. pick(rank(m)) = m
      BY <1>6, <1>9, <2>1
    <2> QED BY <2>1, <2>2
  <1>14. Range(Keep(s, S)) \subseteq Range(s) \cap S
    BY <1>10, <1>11 DEF Range
  <1>15. Distinct(s) => Distinct(Keep(s, S))
    <2> SUFFICES ASSUME Distinct(s), NEW i \in 1..c, NEW j \in 1..c, s[pick(i)] = s[pick(j)]
                 PROVE  i = j
      BY <1>10 DEF Distinct
    <2>1. pick(i) = pick(j)
      BY <1>11 DEF Distinct
    <2> QED BY <1>9, <2>1
  <1> QED BY <1>12, <1>13, <1>14, <1>15

-----------------------------------------------------------------------------
(* Bytes *)

\* Finitely many wires have finitely many bytes.
LEMMA OctetsFinite ==
  ASSUME NEW S \in SUBSET Wires
  PROVE  IsFiniteSet(Octets(S)) /\ Cardinality(Octets(S)) \in Nat
  <1> DEFINE f == [w \in S |-> {w} \X (1..SizeOf[w])]
             T == {{w} \X (1..SizeOf[w]) : w \in S}
  <1>1. IsFiniteSet(S) /\ \A w \in S : SizeOf[w] \in Nat
    BY PackerAssumption, FS_Subset
  <1>2. f \in Surjection(S, T)
    <2>1. f \in [S -> T] /\ \A t \in T : \E w \in S : f[w] = t
      OBVIOUS
    <2> HIDE DEF f, T
    <2> QED BY <2>1, Fun_IsSurj
  <1>3. IsFiniteSet(T)
    BY <1>1, <1>2, FS_Surjection
  <1>4. \A w \in S : IsFiniteSet({w} \X (1..SizeOf[w]))
    <2> TAKE w \in S
    <2>1. IsFiniteSet(1..SizeOf[w])
      BY <1>1, FS_Interval
    <2>2. IsFiniteSet({w})
      BY FS_Singleton
    <2> QED BY <2>1, <2>2, FS_Product
  <1>5. IsFiniteSet(UNION T)
    <2>1. \A t \in T : IsFiniteSet(t)
      BY <1>4
    <2> HIDE DEF T
    <2> QED BY <1>3, <2>1, FS_UNION
  <1> QED BY <1>5, FS_CardinalityType DEF Octets

\* The bytes of two sets without a common wire add up.
LEMMA OctetsAdd ==
  ASSUME NEW S \in SUBSET Wires, NEW T \in SUBSET Wires, S \cap T = {}
  PROVE  Cardinality(Octets(S \cup T)) = Cardinality(Octets(S)) + Cardinality(Octets(T))
  <1>1. /\ Octets(S \cup T) = Octets(S) \cup Octets(T)
        /\ Octets(S) \cap Octets(T) = {}
    BY DEF Octets
  <1>2. /\ IsFiniteSet(Octets(S)) /\ IsFiniteSet(Octets(T))
        /\ Cardinality(Octets(S)) \in Nat /\ Cardinality(Octets(T)) \in Nat
    BY OctetsFinite
  <1>3. Cardinality(Octets(S) \cup Octets(T))
          = Cardinality(Octets(S)) + Cardinality(Octets(T)) - Cardinality(Octets(S) \cap Octets(T))
    BY <1>2, FS_Union
  <1>4. Cardinality(Octets(S) \cap Octets(T)) = 0
    BY <1>1, FS_EmptySet
  <1>5. Cardinality(Octets(S) \cup Octets(T)) = Cardinality(Octets(S)) + Cardinality(Octets(T))
    BY <1>2, <1>3, <1>4
  <1>6. Cardinality(Octets(S \cup T)) = Cardinality(Octets(S) \cup Octets(T))
    BY <1>1, Zenon
  <1> QED BY <1>5, <1>6

\* One wire has its length of bytes.
LEMMA OctetsOne ==
  ASSUME NEW w \in Wires
  PROVE  Cardinality(Octets({w})) = SizeOf[w]
  <1>1. Octets({w}) = {w} \X (1..SizeOf[w])
    BY DEF Octets
  <1>2. SizeOf[w] \in Nat
    BY PackerAssumption
  <1>3. IsFiniteSet({w}) /\ Cardinality({w}) = 1
    BY FS_Singleton
  <1>4. IsFiniteSet(1..SizeOf[w]) /\ Cardinality(1..SizeOf[w]) = SizeOf[w]
    <2>1. 1 \in Int /\ SizeOf[w] \in Int
      BY <1>2
    <2>2. /\ IsFiniteSet(1..SizeOf[w])
          /\ Cardinality(1..SizeOf[w]) = IF 1 > SizeOf[w] THEN 0 ELSE SizeOf[w] - 1 + 1
      BY <2>1, FS_Interval
    <2> QED BY <1>2, <2>2
  <1>5. Cardinality({w} \X (1..SizeOf[w])) = Cardinality({w}) * Cardinality(1..SizeOf[w])
    BY <1>3, <1>4, FS_Product
  <1>6. Cardinality({w} \X (1..SizeOf[w])) = SizeOf[w]
    BY <1>2, <1>3, <1>4, <1>5
  <1> QED BY <1>1, <1>6

\* The parts of a list that is cut after its k-th element.
LEMMA CutAt ==
  ASSUME NEW s \in Seq(Wires), Distinct(s), NEW k \in 0..Len(s)
  PROVE  /\ SubSeq(s, 1, k) \in Seq(Wires) /\ Len(SubSeq(s, 1, k)) = k
         /\ \A i \in 1..k : SubSeq(s, 1, k)[i] = s[i]
         /\ SubSeq(s, k + 1, Len(s)) \in Seq(Wires) /\ Len(SubSeq(s, k + 1, Len(s))) = Len(s) - k
         /\ \A i \in 1..(Len(s) - k) : SubSeq(s, k + 1, Len(s))[i] = s[k + i]
         /\ Distinct(SubSeq(s, 1, k)) /\ Distinct(SubSeq(s, k + 1, Len(s)))
         /\ Range(SubSeq(s, 1, k)) \cup Range(SubSeq(s, k + 1, Len(s))) = Range(s)
         /\ Range(SubSeq(s, 1, k)) \cap Range(SubSeq(s, k + 1, Len(s))) = {}
  <1> DEFINE a == SubSeq(s, 1, k)
             b == SubSeq(s, k + 1, Len(s))
  <1>1. Len(s) \in Nat /\ k \in Nat /\ k <= Len(s) /\ DOMAIN s = 1..Len(s)
    OBVIOUS
  <1>2. a \in Seq(Wires) /\ Len(a) = k /\ \A i \in 1..k : a[i] = s[i]
    BY <1>1, SubSeqProperties
  <1>3. b \in Seq(Wires) /\ Len(b) = Len(s) - k /\ \A i \in 1..(Len(s) - k) : b[i] = s[k + i]
    <2>1. /\ k + 1 \in Int /\ Len(s) \in Int /\ \A i \in (k + 1)..Len(s) : s[i] \in Wires
      BY <1>1
    <2>2. /\ b \in Seq(Wires)
          /\ Len(b) = IF k + 1 <= Len(s) THEN Len(s) - (k + 1) + 1 ELSE 0
          /\ \A i \in 1..(Len(s) - (k + 1) + 1) : b[i] = s[(k + 1) + i - 1]
      BY <2>1, SubSeqProperties
    <2> HIDE DEF b
    <2>3. /\ Len(s) - (k + 1) + 1 = Len(s) - k
          /\ \A i \in 1..(Len(s) - k) : (k + 1) + i - 1 = k + i
      BY <1>1
    <2>4. Len(b) = Len(s) - k
      <3>1. Len(b) = IF k + 1 <= Len(s) THEN Len(s) - (k + 1) + 1 ELSE 0
        BY <2>2
      <3>2. CASE k + 1 <= Len(s)
        BY <2>3, <3>1, <3>2
      <3>3. CASE ~(k + 1 <= Len(s))
        <4>1. Len(b) = 0
          BY <3>1, <3>3
        <4>2. \A x, y \in Nat : x <= y /\ ~(x + 1 <= y) => y - x = 0
          BY NothingLeft, Zenon
        <4>3. Len(s) - k = 0
          BY <1>1, <3>3, <4>2
        <4> QED BY <4>1, <4>3, Zenon
      <3> QED BY <3>2, <3>3
    <2>5. ASSUME NEW i \in 1..(Len(s) - k) PROVE b[i] = s[k + i]
      BY <2>2, <2>3
    <2> QED BY <2>2, <2>4, <2>5
  <1> HIDE DEF a, b
  <1>4. DOMAIN a = 1..k /\ DOMAIN b = 1..(Len(s) - k)
    BY <1>2, <1>3
  <1>5. Distinct(a)
    BY <1>1, <1>2, <1>4 DEF Distinct
  <1>6. Distinct(b)
    <2> SUFFICES ASSUME NEW i \in 1..(Len(s) - k), NEW j \in 1..(Len(s) - k), b[i] = b[j]
                 PROVE  i = j
      BY <1>4 DEF Distinct
    <2>1. k + i \in DOMAIN s /\ k + j \in DOMAIN s /\ s[k + i] = s[k + j]
      BY <1>1, <1>3
    <2>2. k + i = k + j
      BY <2>1 DEF Distinct
    <2> QED BY <1>1, <2>2
  <1>7. Range(a) \subseteq Range(s) /\ Range(b) \subseteq Range(s)
    <2>1. \A i \in 1..(Len(s) - k) : k + i \in DOMAIN s
      BY <1>1
    <2>2. Range(b) \subseteq Range(s)
      BY <1>3, <1>4, <2>1 DEF Range
    <2>3. Range(a) \subseteq Range(s)
      BY <1>1, <1>2, <1>4 DEF Range
    <2> QED BY <2>2, <2>3
  <1>8. ASSUME NEW i \in 1..Len(s) PROVE s[i] \in Range(a) \cup Range(b)
    <2>1. CASE i <= k
      BY <1>1, <1>2, <1>4, <2>1 DEF Range
    <2>2. CASE i > k
      <3>1. i - k \in 1..(Len(s) - k) /\ k + (i - k) = i
        BY <1>1, <2>2
      <3>2. b[i - k] = s[i]
        BY <1>3, <3>1
      <3> QED BY <1>4, <3>1, <3>2 DEF Range
    <2> QED BY <1>1, <2>1, <2>2
  <1>9. Range(a) \cup Range(b) = Range(s)
    BY <1>1, <1>7, <1>8 DEF Range
  <1>10. Range(a) \cap Range(b) = {}
    <2> SUFFICES ASSUME NEW i \in 1..k, NEW j \in 1..(Len(s) - k), a[i] = b[j]
                 PROVE  FALSE
      BY <1>4 DEF Range
    <2>1. i \in DOMAIN s /\ k + j \in DOMAIN s /\ i # k + j /\ s[i] = s[k + j]
      BY <1>1, <1>2, <1>3
    <2> QED BY <2>1 DEF Distinct
  <1> QED BY <1>2, <1>3, <1>5, <1>6, <1>9, <1>10 DEF a, b

\* A list's members are wires.
LEMMA RangeIn ==
  ASSUME NEW s \in Seq(Wires)
  PROVE  Range(s) \in SUBSET Wires
  BY RangeOfSeq

\* WireBytes is a number, and that of a list its two parts' sum.
LEMMA BytesCut ==
  ASSUME NEW s \in Seq(Wires), Distinct(s), NEW k \in 0..Len(s)
  PROVE  /\ WireBytes(s) = WireBytes(SubSeq(s, 1, k)) + WireBytes(SubSeq(s, k + 1, Len(s)))
         /\ WireBytes(SubSeq(s, 1, k)) \in Nat /\ WireBytes(SubSeq(s, k + 1, Len(s))) \in Nat
  <1> DEFINE a == SubSeq(s, 1, k)
             b == SubSeq(s, k + 1, Len(s))
  <1>1. /\ a \in Seq(Wires) /\ b \in Seq(Wires)
        /\ Range(a) \cup Range(b) = Range(s) /\ Range(a) \cap Range(b) = {}
    BY CutAt
  <1> HIDE DEF a, b
  <1>2. Range(a) \in SUBSET Wires /\ Range(b) \in SUBSET Wires
    BY <1>1, RangeIn
  <1>3. Cardinality(Octets(Range(a) \cup Range(b)))
          = Cardinality(Octets(Range(a))) + Cardinality(Octets(Range(b)))
    BY <1>1, <1>2, OctetsAdd
  <1>4. Cardinality(Octets(Range(a))) \in Nat /\ Cardinality(Octets(Range(b))) \in Nat
    BY <1>2, OctetsFinite
  <1>5. Octets(Range(a) \cup Range(b)) = Octets(Range(s))
    BY <1>1, Zenon
  <1> QED BY <1>3, <1>4, <1>5 DEF WireBytes, a, b

\* A wire more.
LEMMA BytesAppend ==
  ASSUME NEW s \in Seq(Wires), Distinct(s), NEW w \in Wires, w \notin Range(s)
  PROVE  /\ Append(s, w) \in Seq(Wires) /\ Distinct(Append(s, w))
         /\ Range(Append(s, w)) = Range(s) \cup {w}
         /\ WireBytes(Append(s, w)) = WireBytes(s) + SizeOf[w]
  <1> DEFINE a == Append(s, w)
  <1>1. /\ a \in Seq(Wires) /\ Len(a) = Len(s) + 1 /\ Len(s) \in Nat
        /\ \A i \in 1..Len(s) : a[i] = s[i]
        /\ a[Len(s) + 1] = w
    BY AppendProperties
  <1> HIDE DEF a
  <1>2. DOMAIN a = 1..(Len(s) + 1) /\ DOMAIN s = 1..Len(s)
    BY <1>1
  <1>3. \A i \in 1..Len(s) : s[i] # w
    BY <1>2 DEF Range
  <1>4. Distinct(a)
    BY <1>1, <1>2, <1>3 DEF Distinct
  <1>5. Range(a) = Range(s) \cup {w}
    BY <1>1, <1>2 DEF Range
  <1>6. Cardinality(Octets(Range(s) \cup {w})) = Cardinality(Octets(Range(s))) + SizeOf[w]
    <2>1. Range(s) \in SUBSET Wires /\ {w} \in SUBSET Wires /\ Range(s) \cap {w} = {}
      BY RangeIn
    <2>2. Cardinality(Octets(Range(s) \cup {w}))
            = Cardinality(Octets(Range(s))) + Cardinality(Octets({w}))
      BY <2>1, OctetsAdd
    <2> QED BY <2>2, OctetsOne
  <1>7. Octets(Range(a)) = Octets(Range(s) \cup {w})
    BY <1>5, Zenon
  <1> QED BY <1>1, <1>4, <1>5, <1>6, <1>7 DEF WireBytes, a

\* A list without some of its members, and the list of those.
LEMMA BytesKeep ==
  ASSUME NEW s \in Seq(Wires), NEW D \in SUBSET Wires
  PROVE  /\ WireBytes(s) = WireBytes(Keep(s, Wires \ D)) + WireBytes(Keep(s, D))
         /\ WireBytes(Keep(s, Wires \ D)) \in Nat /\ WireBytes(Keep(s, D)) \in Nat
  <1> DEFINE A == Range(s) \cap (Wires \ D)
             B == Range(s) \cap D
  <1>1. Range(Keep(s, Wires \ D)) = A /\ Range(Keep(s, D)) = B
    BY KeepIs
  <1>2. A \in SUBSET Wires /\ B \in SUBSET Wires /\ A \cap B = {} /\ A \cup B = Range(s)
    BY RangeIn
  <1> HIDE DEF A, B
  <1>3. Cardinality(Octets(A \cup B)) = Cardinality(Octets(A)) + Cardinality(Octets(B))
    BY <1>2, OctetsAdd
  <1>4. Cardinality(Octets(A)) \in Nat /\ Cardinality(Octets(B)) \in Nat
    BY <1>2, OctetsFinite
  <1>5. Octets(A \cup B) = Octets(Range(s))
    BY <1>2, Zenon
  <1>6. Octets(Range(Keep(s, Wires \ D))) = Octets(A) /\ Octets(Range(Keep(s, D))) = Octets(B)
    BY <1>1, Zenon
  <1> QED BY <1>3, <1>4, <1>5, <1>6 DEF WireBytes

\* A wire ends in the message where the next one begins, or earlier.
LEMMA OffsetsApart ==
  ASSUME NEW b \in Seq(Wires), Distinct(b), NEW i \in 1..Len(b), NEW j \in 1..Len(b), i < j
  PROVE  /\ Offset(b, i) + SizeOf[b[i]] <= Offset(b, j)
         /\ Offset(b, i) \in Nat /\ Offset(b, j) \in Nat
  <1> DEFINE head == SubSeq(b, 1, i - 1)
             front == SubSeq(b, 1, j - 1)
             R == Range(head)
             F == Range(front)
  <1>1. /\ Len(b) \in Nat /\ i - 1 \in 0..Len(b) /\ j - 1 \in 0..Len(b) /\ DOMAIN b = 1..Len(b)
        /\ i \in Nat /\ j \in Nat /\ b[i] \in Wires
    OBVIOUS
  <1>2. /\ head \in Seq(Wires) /\ Len(head) = i - 1 /\ \A m \in 1..(i - 1) : head[m] = b[m]
        /\ front \in Seq(Wires) /\ Len(front) = j - 1 /\ \A m \in 1..(j - 1) : front[m] = b[m]
    BY <1>1, CutAt
  <1> HIDE DEF head, front
  <1>3. DOMAIN head = 1..(i - 1) /\ DOMAIN front = 1..(j - 1)
    BY <1>2
  <1>r. /\ \A x \in R : \E m \in 1..(i - 1) : x = b[m]
        /\ \A m \in 1..(j - 1) : b[m] \in F
    <2>1. \A x \in R : \E m \in 1..(i - 1) : x = head[m]
      BY <1>3 DEF Range
    <2>2. \A m \in 1..(j - 1) : front[m] \in F
      BY <1>3 DEF Range
    <2> QED BY <1>2, <2>1, <2>2
  <1>4. b[i] \notin R
    <2> HIDE DEF R
    <2>1. ASSUME NEW m \in 1..(i - 1) PROVE b[i] # b[m]
      <3>1. m \in 1..Len(b) /\ m # i
        BY <1>1
      <3> QED BY <1>1, <3>1 DEF Distinct
    <2> QED BY <1>r, <2>1
  <1>5. R \cup {b[i]} \subseteq F
    <2> HIDE DEF R, F
    <2>1. i \in 1..(j - 1) /\ \A m \in 1..(i - 1) : m \in 1..(j - 1)
      BY <1>1
    <2> QED BY <1>r, <2>1
  <1>6. R \in SUBSET Wires /\ F \in SUBSET Wires /\ {b[i]} \in SUBSET Wires /\ R \cap {b[i]} = {}
    BY <1>1, <1>2, <1>4, RangeIn
  <1> HIDE DEF R, F
  <1>7. Cardinality(Octets(R \cup {b[i]})) = Cardinality(Octets(R)) + SizeOf[b[i]]
    BY <1>1, <1>6, OctetsAdd, OctetsOne
  <1>8. Octets(R \cup {b[i]}) \in SUBSET Octets(F)
    BY <1>5 DEF Octets
  <1>9. /\ IsFiniteSet(Octets(F)) /\ Cardinality(Octets(F)) \in Nat
        /\ Cardinality(Octets(R)) \in Nat
    BY <1>6, OctetsFinite
  <1>10. Cardinality(Octets(R \cup {b[i]})) <= Cardinality(Octets(F))
    BY <1>8, <1>9, FS_Subset
  <1> QED BY <1>7, <1>9, <1>10 DEF Offset, WireBytes, R, F, head, front

\* flush takes one wire at least and none that is not there.
LEMMA BatchLenIs ==
  ASSUME NEW s \in Seq(Wires), s # <<>>
  PROVE  BatchLen(s) \in 1..Len(s)
  <1> DEFINE ends == {k \in 1..Len(s) : k = Len(s) \/ ~Fits(s, k + 1)}
  <1>1. Len(s) \in Nat /\ Len(s) # 0
    OBVIOUS
  <1>2. Len(s) \in ends /\ ends \in SUBSET Nat
    BY <1>1
  <1>3. PICK k \in ends : \A n \in ends : k <= n
    <2> HIDE DEF ends
    <2> QED BY <1>2, LeastNumber
  <1>4. k \in 1..Len(s) /\ (k < Len(s) => ~Fits(s, k + 1))
    BY <1>1, <1>3
  <1>5. ASSUME NEW m \in 1..k PROVE Fits(s, m)
    <2>1. CASE m = 1
      BY <2>1 DEF Fits
    <2>2. CASE m # 1
      <3>1. m - 1 \in 1..Len(s) /\ ~(k <= m - 1) /\ (m - 1) + 1 = m
        BY <1>1, <1>4, <2>2
      <3>2. m - 1 \notin ends
        BY <1>3, <3>1
      <3> QED BY <3>1, <3>2
    <2> QED BY <2>1, <2>2
  <1> HIDE DEF ends
  <1> DEFINE Ends(n) == (\A m \in 1..n : Fits(s, m)) /\ (n < Len(s) => ~Fits(s, n + 1))
  <1>6. Ends(k)
    BY <1>4, <1>5
  <1>7. BatchLen(s) = CHOOSE n \in 1..Len(s) : Ends(n)
    BY DEF BatchLen
  <1> HIDE DEF Ends
  <1> QED BY <1>4, <1>6, <1>7

-----------------------------------------------------------------------------
(* The inductive invariant *)

\* Nothing is buffered twice, or buffered and in the batch, and whatever is
\* there has been submitted.
ListsSound ==
    /\ Distinct(pending) /\ Distinct(batch)
    /\ Range(pending) \cap Range(batch) = {}
    /\ \A w \in Range(pending) \cup Range(batch) : result[w] # "none"

\* There is a batch while a flush is under way.
Flushing ==
    /\ loopPc \in {"upload", "put", "unstage"} => batch # <<>> /\ pos \in 1..Len(batch)
    /\ loopPc \in {"select", "done"} => batch = <<>> /\ pos = 1
    /\ loopPc = "upload" => pos = 1

\* Rows point into messages that were sent; those that point into the current
\* one have the extents of the batch.
RowsOfMessages ==
    /\ \A w \in Wires : row[w] # NoRow => row[w].msg \in 1..msg
    /\ loopPc \in {"put", "unstage"} =>
          /\ msg # 0
          /\ \A w \in Wires : row[w] # NoRow /\ row[w].msg = msg =>
                \E k \in 1..Len(batch) : batch[k] = w /\ row[w] = Extent(k)

\* A wire is unstaged when its row is there.
Landed == loopPc = "unstage" => row[batch[pos]] # NoRow \/ InoOf[batch[pos]] \notin live

PackerInv ==
    /\ PackerTypeOK /\ ListsSound /\ Flushing /\ BufBytesExact
    /\ RowsOfMessages /\ ExtentsDisjoint
    /\ StagedUntilCommitted /\ Landed
    /\ FullBufferSignalled

\* What the invariant says of the types, once and for all.
LEMMA Typed ==
  ASSUME PackerInv
  PROVE  /\ pending \in Seq(Wires) /\ batch \in Seq(Wires) /\ bufBytes \in Nat /\ Target \in Nat \ {0}
         /\ Range(pending) \in SUBSET Wires /\ Range(batch) \in SUBSET Wires
         /\ \A w \in Wires : SizeOf[w] \in Nat \ {0}
         /\ result \in [Wires -> {"none", "waiting", "done", "failed"}]
         /\ row \in [Wires -> [msg : Nat, off : Nat, size : Nat]]
         /\ msg \in Nat /\ pos \in Nat
  BY PackerAssumption, RangeIn DEF PackerInv, PackerTypeOK

\* Submit keeps the invariant.
LEMMA SubmitKeeps ==
  ASSUME PackerInv, NEW w \in Wires, Submit(w)
  PROVE  PackerInv'
  <1>1. /\ result[w] = "none" /\ w \notin Range(pending) /\ w \notin Range(batch)
        /\ UNCHANGED <<live, wake, stop, loopPc, last, batch, pos, msg, row>>
    BY DEF Submit, PackerInv, ListsSound
  <1>2. /\ pending' \in Seq(Wires) /\ Distinct(pending') /\ Range(pending') = Range(pending) \cup {w}
        /\ WireBytes(pending') = WireBytes(pending) + SizeOf[w]
    BY <1>1, Typed, BytesAppend DEF Submit, PackerInv, ListsSound
  <1>3. /\ bufBytes' = bufBytes + SizeOf[w] /\ bufBytes' \in Nat /\ bufBytes \in Nat /\ SizeOf[w] \in Nat
    BY Typed DEF Submit
  <1>4. /\ result' = [result EXCEPT ![w] = "waiting"]
        /\ result' \in [Wires -> {"none", "waiting", "done", "failed"}]
        /\ result'[w] = "waiting" /\ \A v \in Wires \ {w} : result'[v] = result[v]
    BY Typed DEF Submit
  <1>5. staged' = staged \cup {w} /\ signalling' \subseteq Wires /\ early' \subseteq Wires
    BY DEF Submit, PackerInv, PackerTypeOK
  <1>6. PackerTypeOK'
    BY <1>1, <1>2, <1>3, <1>4, <1>5 DEF PackerInv, PackerTypeOK
  <1>7. ListsSound'
    BY <1>1, <1>2, <1>4, Typed DEF PackerInv, ListsSound
  <1>8. Flushing' /\ Landed'
    BY <1>1 DEF PackerInv, Flushing, Landed
  <1>9. BufBytesExact'
    BY <1>2, <1>3 DEF PackerInv, BufBytesExact
  <1>10. RowsOfMessages' /\ ExtentsDisjoint'
    BY <1>1 DEF PackerInv, RowsOfMessages, ExtentsDisjoint, Extent
  <1>11. StagedUntilCommitted'
    BY <1>1, <1>4, <1>5 DEF PackerInv, StagedUntilCommitted
  <1>12. FullBufferSignalled'
    BY DEF Submit, FullBufferSignalled
  <1> QED BY <1>6, <1>7, <1>8, <1>9, <1>10, <1>11, <1>12 DEF PackerInv

\* So does its signal.
LEMMA SignalKeeps ==
  ASSUME PackerInv, NEW w \in Wires, Signal(w)
  PROVE  PackerInv'
  <1>1. /\ UNCHANGED <<live, pending, bufBytes, stop, loopPc, last, batch, pos>>
        /\ UNCHANGED <<msg, row, staged, result, early>>
        /\ wake' = TRUE /\ signalling' = signalling \ {w}
    BY DEF Signal
  <1>2. PackerTypeOK'
    BY <1>1 DEF PackerInv, PackerTypeOK
  <1>3. ListsSound' /\ Flushing' /\ Landed' /\ BufBytesExact'
    BY <1>1 DEF PackerInv, ListsSound, Flushing, Landed, BufBytesExact
  <1>4. RowsOfMessages' /\ ExtentsDisjoint' /\ StagedUntilCommitted'
    BY <1>1 DEF PackerInv, RowsOfMessages, ExtentsDisjoint, Extent, StagedUntilCommitted
  <1>5. FullBufferSignalled'
    BY <1>1 DEF FullBufferSignalled
  <1> QED BY <1>2, <1>3, <1>4, <1>5 DEF PackerInv

\* Close, too.
LEMMA CloseKeeps ==
  ASSUME PackerInv, Close
  PROVE  PackerInv'
  <1>1. /\ UNCHANGED <<live, pending, bufBytes, signalling, wake, loopPc, last, batch, pos>>
        /\ UNCHANGED <<msg, row, staged, result, early>>
        /\ stop' = TRUE
    BY DEF Close
  <1>2. PackerTypeOK'
    BY <1>1 DEF PackerInv, PackerTypeOK
  <1>3. ListsSound' /\ Flushing' /\ Landed' /\ BufBytesExact'
    BY <1>1 DEF PackerInv, ListsSound, Flushing, Landed, BufBytesExact
  <1>4. RowsOfMessages' /\ ExtentsDisjoint' /\ StagedUntilCommitted'
    BY <1>1 DEF PackerInv, RowsOfMessages, ExtentsDisjoint, Extent, StagedUntilCommitted
  <1>5. FullBufferSignalled'
    BY <1>1 DEF PackerInv, FullBufferSignalled
  <1> QED BY <1>2, <1>3, <1>4, <1>5 DEF PackerInv

\* Unlink takes rows with it: those of a dead inode.
LEMMA UnlinkKeeps ==
  ASSUME PackerInv, NEW ino \in Inodes, UnlinkInode(ino)
  PROVE  PackerInv'
  <1>1. /\ UNCHANGED <<pending, bufBytes, signalling, wake, stop, loopPc, last>>
        /\ UNCHANGED <<batch, pos, msg, staged, result, early>>
        /\ live' = live \ {ino}
        /\ row' = [w \in Wires |-> IF InoOf[w] = ino THEN NoRow ELSE row[w]]
    BY DEF UnlinkInode
  <1>2. /\ \A w \in Wires : row'[w] = NoRow \/ row'[w] = row[w]
        /\ \A w \in Wires : row'[w] = row[w] \/ InoOf[w] \notin live'
        /\ row' \in [Wires -> [msg : Nat, off : Nat, size : Nat]]
    BY <1>1, Typed DEF NoRow
  <1>3. PackerTypeOK'
    BY <1>1, <1>2 DEF PackerInv, PackerTypeOK
  <1>4. ListsSound' /\ Flushing' /\ BufBytesExact' /\ FullBufferSignalled'
    BY <1>1 DEF PackerInv, ListsSound, Flushing, BufBytesExact, FullBufferSignalled
  <1>5. RowsOfMessages' /\ ExtentsDisjoint'
    BY <1>1, <1>2 DEF PackerInv, RowsOfMessages, ExtentsDisjoint, Extent
  <1>6. StagedUntilCommitted'
    BY <1>1, <1>2 DEF PackerInv, StagedUntilCommitted
  <1>7. Landed'
    <2> SUFFICES ASSUME loopPc = "unstage"
                 PROVE  row'[batch[pos]] # NoRow \/ InoOf[batch[pos]] \notin live'
      BY <1>1 DEF Landed
    <2>1. batch[pos] \in Wires
      BY Typed DEF PackerInv, Flushing
    <2> QED BY <1>1, <1>2, <2>1 DEF PackerInv, Landed
  <1> QED BY <1>3, <1>4, <1>5, <1>6, <1>7 DEF PackerInv

\* DropInode takes the bytes of what it drops off the count, and deletes files
\* of a dead inode only.
LEMMA DropKeeps ==
  ASSUME PackerInv, NEW ino \in Inodes, DropInode(ino)
  PROVE  PackerInv'
  <1> DEFINE D == {w \in Range(pending) : InoOf[w] = ino}
             left == Keep(pending, Wires \ D)
             gone == Keep(pending, D)
  <1>1. /\ UNCHANGED <<live, signalling, wake, stop, loopPc, last, batch, pos, msg, row, early>>
        /\ ino \notin live /\ pending' = left /\ bufBytes' = bufBytes - WireBytes(gone)
        /\ staged' = staged \ D
        /\ result' = [w \in Wires |-> IF w \in D THEN "done" ELSE result[w]]
    BY DEF DropInode
  <1>2. D \in SUBSET Wires /\ \A w \in D : w \in Range(pending) /\ InoOf[w] = ino
    BY Typed
  <1> HIDE DEF D
  <1>3. left \in Seq(Wires) /\ Range(left) = Range(pending) \cap (Wires \ D) /\ Distinct(left)
    BY Typed, KeepIs DEF PackerInv, ListsSound
  <1>4. WireBytes(pending) = WireBytes(left) + WireBytes(gone) /\ WireBytes(left) \in Nat /\ WireBytes(gone) \in Nat
    BY <1>2, Typed, BytesKeep
  <1> HIDE DEF left, gone
  <1>5. bufBytes' = WireBytes(left) /\ bufBytes' \in Nat /\ bufBytes' <= bufBytes /\ bufBytes \in Nat
    BY <1>1, <1>4 DEF PackerInv, BufBytesExact
  <1>6. /\ result' \in [Wires -> {"none", "waiting", "done", "failed"}]
        /\ \A w \in Wires : result'[w] = IF w \in D THEN "done" ELSE result[w]
    BY <1>1, Typed
  <1>7. PackerTypeOK'
    BY <1>1, <1>3, <1>5, <1>6 DEF PackerInv, PackerTypeOK
  <1>8. ListsSound'
    BY <1>1, <1>3, <1>6, Typed DEF PackerInv, ListsSound
  <1>9. Flushing' /\ Landed'
    BY <1>1 DEF PackerInv, Flushing, Landed
  <1>10. BufBytesExact'
    BY <1>1, <1>5 DEF BufBytesExact
  <1>11. RowsOfMessages' /\ ExtentsDisjoint'
    BY <1>1 DEF PackerInv, RowsOfMessages, ExtentsDisjoint, Extent
  <1>12. StagedUntilCommitted'
    <2> SUFFICES ASSUME NEW w \in Wires, result'[w] # "none", w \notin staged'
                 PROVE  row[w] # NoRow \/ InoOf[w] \notin live
      BY <1>1 DEF StagedUntilCommitted
    <2>1. CASE w \in D
      BY <1>1, <1>2, <2>1
    <2>2. CASE w \notin D
      BY <1>1, <1>6, <2>2 DEF PackerInv, StagedUntilCommitted
    <2> QED BY <2>1, <2>2
  <1>13. FullBufferSignalled'
    BY <1>1, <1>5, Typed DEF PackerInv, FullBufferSignalled
  <1> QED BY <1>7, <1>8, <1>9, <1>10, <1>11, <1>12, <1>13 DEF PackerInv

\* An empty list has no bytes.
LEMMA BytesOfNone == WireBytes(<<>>) = 0
  <1>1. Range(<<>>) = {}
    BY DEF Range
  <1>2. Octets({}) = {}
    BY DEF Octets
  <1>3. Octets(Range(<<>>)) = {}
    BY <1>1, <1>2, Zenon
  <1> QED BY <1>3, FS_EmptySet DEF WireBytes

\* What flush cuts off the buffer, and what it leaves.
LEMMA FlushCuts ==
  ASSUME PackerInv, pending # <<>>
  PROVE  LET k == BatchLen(pending)
             front == SubSeq(pending, 1, k)
             rest == SubSeq(pending, k + 1, Len(pending))
         IN /\ k \in 1..Len(pending) /\ Len(front) = k /\ Len(rest) = Len(pending) - k
            /\ front \in Seq(Wires) /\ rest \in Seq(Wires)
            /\ Distinct(front) /\ Distinct(rest)
            /\ Range(front) \cup Range(rest) = Range(pending)
            /\ Range(front) \cap Range(rest) = {}
            /\ bufBytes - WireBytes(front) = WireBytes(rest) /\ WireBytes(rest) \in Nat
  <1> DEFINE k == BatchLen(pending)
             front == SubSeq(pending, 1, k)
             rest == SubSeq(pending, k + 1, Len(pending))
  <1>1. pending \in Seq(Wires) /\ Distinct(pending) /\ bufBytes = WireBytes(pending)
    BY Typed DEF PackerInv, ListsSound, BufBytesExact
  <1>2. k \in 1..Len(pending)
    BY <1>1, BatchLenIs
  <1> HIDE DEF k
  <1>3. k \in 0..Len(pending)
    BY <1>2
  <1>4. /\ Len(front) = k /\ Len(rest) = Len(pending) - k
        /\ front \in Seq(Wires) /\ rest \in Seq(Wires)
        /\ Distinct(front) /\ Distinct(rest)
        /\ Range(front) \cup Range(rest) = Range(pending)
        /\ Range(front) \cap Range(rest) = {}
    BY <1>1, <1>3, CutAt
  <1>5. WireBytes(pending) = WireBytes(front) + WireBytes(rest) /\ WireBytes(front) \in Nat /\ WireBytes(rest) \in Nat
    BY <1>1, <1>3, BytesCut
  <1> HIDE DEF front, rest
  <1>6. bufBytes - WireBytes(front) = WireBytes(rest)
    BY <1>1, <1>5
  <1> QED BY <1>2, <1>4, <1>5, <1>6 DEF k, front, rest

\* A flush that begins keeps the invariant: it leaves a token whenever it
\* leaves a wire.
LEMMA BeginFlushKeeps ==
  ASSUME PackerInv, NEW isLast \in BOOLEAN, NEW woken \in BOOLEAN,
         loopPc = "select", BeginFlush(isLast, woken), UNCHANGED flushFrame
  PROVE  PackerInv'
  <1>1. UNCHANGED <<live, signalling, stop, msg, row, staged, result, early>>
    BY DEF flushFrame
  <1>2. batch = <<>> /\ Range(batch) = {}
    BY DEF PackerInv, Flushing, Range
  <1>3. ExtentsDisjoint' /\ StagedUntilCommitted'
    BY <1>1 DEF PackerInv, ExtentsDisjoint, StagedUntilCommitted
  <1>4. CASE pending = <<>>
    <2>1. /\ loopPc' \in {"select", "done"} /\ wake' = woken
          /\ UNCHANGED <<pending, bufBytes, last, batch, pos>>
      BY <1>4 DEF BeginFlush, AfterFlush
    <2>2. PackerTypeOK'
      BY <1>1, <2>1 DEF PackerInv, PackerTypeOK
    <2>3. ListsSound' /\ BufBytesExact'
      BY <1>1, <2>1 DEF PackerInv, ListsSound, BufBytesExact
    <2>4. Flushing' /\ Landed'
      BY <2>1 DEF PackerInv, Flushing, Landed
    <2>5. RowsOfMessages'
      BY <1>1, <2>1 DEF PackerInv, RowsOfMessages
    <2>6. bufBytes' = 0
      BY <1>4, <2>1, BytesOfNone DEF PackerInv, BufBytesExact
    <2>7. FullBufferSignalled'
      BY <2>6, PackerAssumption DEF FullBufferSignalled
    <2> QED BY <1>3, <2>2, <2>3, <2>4, <2>5, <2>7 DEF PackerInv
  <1>5. CASE pending # <<>>
    <2> DEFINE k == BatchLen(pending)
               front == SubSeq(pending, 1, k)
               rest == SubSeq(pending, k + 1, Len(pending))
    <2>1. /\ batch' = front /\ pending' = rest /\ bufBytes' = bufBytes - WireBytes(front)
          /\ wake' = (woken \/ k < Len(pending))
          /\ loopPc' = "upload" /\ last' = isLast /\ pos' = 1
      BY <1>5 DEF BeginFlush
    <2>2. /\ k \in 1..Len(pending) /\ Len(front) = k /\ Len(rest) = Len(pending) - k
          /\ front \in Seq(Wires) /\ rest \in Seq(Wires)
          /\ Distinct(front) /\ Distinct(rest)
          /\ Range(front) \cup Range(rest) = Range(pending)
          /\ Range(front) \cap Range(rest) = {}
          /\ bufBytes - WireBytes(front) = WireBytes(rest) /\ WireBytes(rest) \in Nat
      BY <1>5, FlushCuts
    <2> HIDE DEF k, front, rest
    <2>3. PackerTypeOK'
      <3>1. /\ pending' \in Seq(Wires) /\ batch' \in Seq(Wires) /\ bufBytes' \in Nat
            /\ wake' \in BOOLEAN /\ pos' \in Nat
        BY <2>1, <2>2
      <3> QED BY <1>1, <2>1, <3>1 DEF PackerInv, PackerTypeOK
    <2>4. ListsSound'
      BY <1>1, <2>1, <2>2 DEF PackerInv, ListsSound
    <2>5. Flushing' /\ Landed'
      <3>1. Len(front) # 0 /\ 1 \in 1..Len(front)
        BY <2>2
      <3>2. front # <<>>
        BY <3>1
      <3> QED BY <2>1, <3>1, <3>2 DEF Flushing, Landed
    <2>6. BufBytesExact'
      BY <2>1, <2>2 DEF BufBytesExact
    <2>7. RowsOfMessages'
      BY <1>1, <2>1 DEF PackerInv, RowsOfMessages
    <2>8. FullBufferSignalled'
      <3>1. CASE k < Len(pending)
        BY <2>1, <3>1 DEF FullBufferSignalled
      <3>2. CASE k = Len(pending)
        <4>1. Len(rest) = 0 /\ rest \in Seq(Wires)
          BY <2>2, <3>2
        <4>2. rest = <<>>
          BY <4>1
        <4>3. bufBytes' = 0
          BY <2>1, <2>2, <4>2, BytesOfNone
        <4> QED BY <4>3, PackerAssumption DEF FullBufferSignalled
      <3> QED BY <2>2, <3>1, <3>2
    <2> QED BY <1>3, <2>3, <2>4, <2>5, <2>6, <2>7, <2>8 DEF PackerInv
  <1> QED BY <1>4, <1>5

\* A failed upload answers the batch and keeps its files.
LEMMA UploadFailsKeeps ==
  ASSUME PackerInv, UploadFails
  PROVE  PackerInv'
  <1>1. /\ UNCHANGED <<live, pending, bufBytes, signalling, wake, stop, last, msg, row, staged, early>>
        /\ result' = [w \in Wires |-> IF w \in Range(batch) THEN "failed" ELSE result[w]]
        /\ loopPc = "upload" /\ loopPc' \in {"select", "done"} /\ batch' = <<>> /\ pos' = 1
    BY DEF UploadFails, AfterFlush
  <1>2. /\ result' \in [Wires -> {"none", "waiting", "done", "failed"}]
        /\ \A w \in Wires : result'[w] = "none" <=> result[w] = "none" /\ w \notin Range(batch)
    BY <1>1, Typed
  <1>3. PackerTypeOK'
    <2>1. batch' \in Seq(Wires) /\ pos' \in Nat
      BY <1>1
    <2> QED BY <1>1, <1>2, <2>1 DEF PackerInv, PackerTypeOK
  <1>4. ListsSound'
    <2>1. Range(batch') = {} /\ Distinct(batch')
      BY <1>1 DEF Range, Distinct
    <2> QED BY <1>1, <1>2, <2>1, Typed DEF PackerInv, ListsSound
  <1>5. Flushing' /\ Landed' /\ BufBytesExact'
    BY <1>1 DEF PackerInv, Flushing, Landed, BufBytesExact
  <1>6. RowsOfMessages' /\ ExtentsDisjoint'
    BY <1>1 DEF PackerInv, RowsOfMessages, ExtentsDisjoint
  <1>7. StagedUntilCommitted'
    <2> SUFFICES ASSUME NEW w \in Wires, result'[w] # "none", w \notin staged
                 PROVE  row[w] # NoRow \/ InoOf[w] \notin live
      BY <1>1 DEF StagedUntilCommitted
    <2>1. result[w] # "none"
      BY <1>2 DEF PackerInv, ListsSound
    <2> QED BY <2>1 DEF PackerInv, StagedUntilCommitted
  <1>8. FullBufferSignalled'
    BY <1>1 DEF PackerInv, FullBufferSignalled
  <1> QED BY <1>3, <1>4, <1>5, <1>6, <1>7, <1>8 DEF PackerInv

\* No row points into a message that has just been sent.
LEMMA UploadKeeps ==
  ASSUME PackerInv, Upload
  PROVE  PackerInv'
  <1>1. /\ UNCHANGED <<live, pending, bufBytes, signalling, wake, stop, last>>
        /\ UNCHANGED <<batch, pos, row, staged, result, early>>
        /\ msg' = msg + 1 /\ loopPc = "upload" /\ loopPc' = "put"
    BY DEF Upload
  <1>2. msg \in Nat /\ msg' \in Nat
    BY <1>1, Typed
  <1>3. PackerTypeOK'
    BY <1>1, <1>2 DEF PackerInv, PackerTypeOK
  <1>4. ListsSound' /\ Flushing' /\ Landed' /\ BufBytesExact'
    BY <1>1 DEF PackerInv, ListsSound, Flushing, Landed, BufBytesExact
  <1>5. RowsOfMessages'
    <2>1. \A w \in Wires : row[w] # NoRow => row[w].msg \in 1..msg' /\ row[w].msg # msg'
      BY <1>1, <1>2 DEF PackerInv, RowsOfMessages
    <2>2. msg' # 0
      BY <1>1, <1>2
    <2> QED BY <1>1, <2>1, <2>2 DEF RowsOfMessages
  <1>6. ExtentsDisjoint' /\ StagedUntilCommitted'
    BY <1>1 DEF PackerInv, ExtentsDisjoint, StagedUntilCommitted
  <1>7. FullBufferSignalled'
    BY <1>1 DEF PackerInv, FullBufferSignalled
  <1> QED BY <1>3, <1>4, <1>5, <1>6, <1>7 DEF PackerInv

\* The row that lands lies beside those of the same message.
LEMMA PutChunkKeeps ==
  ASSUME PackerInv, PackPut
  PROVE  PackerInv'
  <1> DEFINE u == batch[pos]
  <1>1. /\ UNCHANGED <<live, pending, bufBytes, signalling, wake, stop, last>>
        /\ UNCHANGED <<batch, pos, msg, staged, result, early>>
        /\ row' = [row EXCEPT ![u] = Extent(pos)]
        /\ loopPc = "put" /\ loopPc' = "unstage"
    BY DEF PackPut
  <1>2. /\ batch \in Seq(Wires) /\ Distinct(batch) /\ Len(batch) \in Nat
        /\ batch # <<>> /\ pos \in 1..Len(batch) /\ DOMAIN batch = 1..Len(batch)
    BY <1>1, Typed DEF PackerInv, Flushing, ListsSound
  <1>3. \A k \in 1..Len(batch) : batch[k] \in Wires
    BY <1>2
  <1>4. \A k \in 1..Len(batch) :
           Extent(k) \in [msg : Nat, off : Nat, size : Nat] /\ Extent(k).msg = msg
    <2> TAKE k \in 1..Len(batch)
    <2>1. k - 1 \in 0..Len(batch)
      BY <1>2
    <2>2. Offset(batch, k) \in Nat
      BY <1>2, <2>1, BytesCut DEF Offset
    <2>3. msg \in Nat /\ SizeOf[batch[k]] \in Nat
      BY <1>3, Typed
    <2> QED BY <2>2, <2>3 DEF Extent
  <1>5. /\ row' \in [Wires -> [msg : Nat, off : Nat, size : Nat]]
        /\ row'[u] = Extent(pos) /\ \A w \in Wires \ {u} : row'[w] = row[w]
        /\ u \in Wires
    BY <1>1, <1>2, <1>3, <1>4, Typed
  <1>6. msg \in Nat /\ msg # 0 /\ row'[u] # NoRow
    <2>1. msg \in Nat /\ msg # 0
      BY <1>1, Typed DEF PackerInv, RowsOfMessages
    <2>2. Extent(pos).msg # NoRow.msg
      BY <1>2, <1>4, <2>1 DEF NoRow
    <2> QED BY <1>5, <2>1, <2>2
  <1>7. PackerTypeOK'
    BY <1>1, <1>5 DEF PackerInv, PackerTypeOK
  <1>8. ListsSound' /\ BufBytesExact' /\ FullBufferSignalled'
    BY <1>1 DEF PackerInv, ListsSound, BufBytesExact, FullBufferSignalled
  <1>9. Flushing' /\ Landed'
    BY <1>1, <1>2, <1>6 DEF PackerInv, Flushing, Landed
  <1>10. \A w \in Wires : row'[w] # NoRow /\ row'[w].msg = msg =>
            \E k \in 1..Len(batch) : batch[k] = w /\ row'[w] = Extent(k)
    <2> SUFFICES ASSUME NEW w \in Wires, row'[w] # NoRow, row'[w].msg = msg
                 PROVE  \E k \in 1..Len(batch) : batch[k] = w /\ row'[w] = Extent(k)
      OBVIOUS
    <2>1. CASE w = u
      BY <1>2, <1>5, <2>1
    <2>2. CASE w # u
      BY <1>1, <1>5, <2>2 DEF PackerInv, RowsOfMessages
    <2> QED BY <2>1, <2>2
  <1>11. RowsOfMessages'
    <2>1. \A k : Extent(k)' = Extent(k)
      BY <1>1 DEF Extent
    <2>2. \A w \in Wires : row'[w] # NoRow => row'[w].msg \in 1..msg
      <3> SUFFICES ASSUME NEW w \in Wires, row'[w] # NoRow PROVE row'[w].msg \in 1..msg
        OBVIOUS
      <3>1. CASE w = u
        <4>1. row'[w].msg = msg /\ msg \in 1..msg
          BY <1>2, <1>4, <1>5, <1>6, <3>1
        <4> QED BY <4>1
      <3>2. CASE w # u
        BY <1>5, <3>2 DEF PackerInv, RowsOfMessages
      <3> QED BY <3>1, <3>2
    <2> QED BY <1>1, <1>6, <1>10, <2>1, <2>2 DEF RowsOfMessages
  <1>12. \A i, j \in 1..Len(batch) : i < j =>
            Extent(i).off + Extent(i).size <= Extent(j).off
    BY <1>2, OffsetsApart DEF Extent
  <1>13. ExtentsDisjoint'
    <2> SUFFICES ASSUME NEW v \in Wires, NEW w \in Wires, v # w, row'[v] # NoRow, row'[w] # NoRow,
                        row'[v].msg = row'[w].msg
                 PROVE  \/ row'[v].off + row'[v].size <= row'[w].off
                        \/ row'[w].off + row'[w].size <= row'[v].off
      BY DEF ExtentsDisjoint
    <2>1. CASE row'[v].msg = msg
      <3>1. PICK i \in 1..Len(batch) : batch[i] = v /\ row'[v] = Extent(i)
        BY <1>10, <2>1
      <3>2. PICK j \in 1..Len(batch) : batch[j] = w /\ row'[w] = Extent(j)
        BY <1>10, <2>1
      <3>3. i < j \/ j < i
        BY <3>1, <3>2
      <3> QED BY <1>12, <3>1, <3>2, <3>3
    <2>2. CASE row'[v].msg # msg
      <3>1. v # u /\ w # u
        BY <1>2, <1>4, <1>5, <2>2
      <3> QED BY <1>5, <3>1 DEF PackerInv, ExtentsDisjoint
    <2> QED BY <2>1, <2>2
  <1>14. StagedUntilCommitted'
    BY <1>1, <1>5, <1>6 DEF PackerInv, StagedUntilCommitted
  <1> QED BY <1>7, <1>8, <1>9, <1>11, <1>13, <1>14 DEF PackerInv

\* A wire is settled: its file may go once its row is there or its inode is
\* not.
LEMMA SettleKeeps ==
  ASSUME PackerInv, NEW r \in {"done", "failed"}, loopPc \in {"put", "unstage"},
         Settle(r), UNCHANGED row,
         \/ UNCHANGED staged
         \/ /\ staged' = staged \ {batch[pos]}
            /\ row[batch[pos]] # NoRow \/ InoOf[batch[pos]] \notin live
  PROVE  PackerInv'
  <1> DEFINE u == batch[pos]
  <1>1. /\ UNCHANGED <<live, pending, bufBytes, signalling, wake, stop, last, msg, early, row>>
        /\ result' = [result EXCEPT ![u] = r]
    BY DEF Settle
  <1>2. \/ /\ pos = Len(batch) /\ loopPc' \in {"select", "done"} /\ batch' = <<>> /\ pos' = 1
        \/ /\ pos # Len(batch) /\ loopPc' = "put" /\ pos' = pos + 1 /\ UNCHANGED batch
    BY DEF Settle, AfterFlush
  <1>3. /\ batch \in Seq(Wires) /\ batch # <<>> /\ pos \in 1..Len(batch)
        /\ DOMAIN batch = 1..Len(batch) /\ Len(batch) \in Nat
    BY Typed DEF PackerInv, Flushing
  <1>4. u \in Wires /\ u \in Range(batch)
    BY <1>3 DEF Range
  <1>5. /\ result' \in [Wires -> {"none", "waiting", "done", "failed"}]
        /\ result'[u] = r /\ \A w \in Wires \ {u} : result'[w] = result[w]
    BY <1>1, <1>4, Typed
  <1>6. PackerTypeOK'
    <2>1. batch' \in Seq(Wires)
      <3>1. <<>> \in Seq(Wires)
        OBVIOUS
      <3>2. batch' = <<>> \/ batch' = batch
        BY <1>2
      <3> QED BY <1>3, <3>1, <3>2, Zenon
    <2>2. pos' \in Nat
      <3>1. pos \in Nat /\ (pos' = 1 \/ pos' = pos + 1)
        BY <1>2, Typed
      <3> QED BY <3>1
    <2>3. loopPc' \in {"select", "upload", "put", "unstage", "done"} /\ staged' \subseteq Wires
      BY <1>2 DEF PackerInv, PackerTypeOK
    <2> QED BY <1>1, <1>5, <2>1, <2>2, <2>3 DEF PackerInv, PackerTypeOK
  <1>7. ListsSound'
    <2>1. Distinct(batch') /\ Range(batch') \subseteq Range(batch)
      BY <1>2 DEF PackerInv, ListsSound, Distinct, Range
    <2>2. \A w \in Range(pending) \cup Range(batch) : result'[w] # "none"
      BY <1>5, Typed DEF PackerInv, ListsSound
    <2> QED BY <1>1, <2>1, <2>2 DEF PackerInv, ListsSound
  <1>8. Flushing'
    <2>1. CASE pos = Len(batch)
      BY <1>2, <2>1 DEF Flushing
    <2>2. CASE pos # Len(batch)
      <3>0. pos \in Nat /\ Len(batch) \in Nat
        BY Typed, LenProperties
      <3>1. pos + 1 \in 1..Len(batch)
        BY <1>3, <2>2, <3>0, StepWithin, ZenonT(30)
      <3>2. loopPc' = "put" /\ pos' \in 1..Len(batch') /\ batch' # <<>>
        BY <1>2, <1>3, <2>2, <3>1
      <3> QED BY <3>2 DEF Flushing
    <2> QED BY <2>1, <2>2
  <1>9. Landed' /\ BufBytesExact'
    BY <1>1, <1>2 DEF PackerInv, Landed, BufBytesExact
  <1>10. RowsOfMessages'
    BY <1>1, <1>2 DEF PackerInv, RowsOfMessages, Extent
  <1>11. ExtentsDisjoint'
    BY <1>1 DEF PackerInv, ExtentsDisjoint
  <1>12. StagedUntilCommitted'
    <2> SUFFICES ASSUME NEW w \in Wires, result'[w] # "none", w \notin staged'
                 PROVE  row[w] # NoRow \/ InoOf[w] \notin live
      BY <1>1 DEF StagedUntilCommitted
    <2>1. result[w] # "none"
      BY <1>4, <1>5 DEF PackerInv, ListsSound
    <2>2. CASE w \notin staged
      BY <2>1, <2>2 DEF PackerInv, StagedUntilCommitted
    <2>3. CASE w \in staged
      BY <2>3
    <2> QED BY <2>2, <2>3
  <1>13. FullBufferSignalled'
    <2>1. loopPc # "done" /\ UNCHANGED <<bufBytes, wake, signalling>>
      BY <1>1
    <2> QED BY <2>1 DEF PackerInv, FullBufferSignalled
  <1> QED BY <1>6, <1>7, <1>8, <1>9, <1>10, <1>11, <1>12, <1>13 DEF PackerInv

-----------------------------------------------------------------------------
(* The safety theorems *)

\* Every step of the packer keeps the invariant.
LEMMA NextKeeps ==
  ASSUME PackerInv, [PackerNext]_packerVars
  PROVE  PackerInv'
  <1>1. ASSUME NEW w \in Wires, Submit(w) \/ Signal(w) PROVE PackerInv'
    BY <1>1, SubmitKeeps, SignalKeeps
  <1>2. ASSUME NEW ino \in Inodes, UnlinkInode(ino) \/ DropInode(ino) PROVE PackerInv'
    BY <1>2, UnlinkKeeps, DropKeeps
  <1>3. CASE Close
    BY <1>3, CloseKeeps
  <1>4. CASE LoopTimer \/ LoopWake \/ LoopStop
    <2>1. wake \in BOOLEAN
      BY DEF PackerInv, PackerTypeOK
    <2> QED BY <1>4, <2>1, BeginFlushKeeps DEF LoopTimer, LoopWake, LoopStop
  <1>5. CASE UploadFails \/ Upload \/ PackPut
    BY <1>5, UploadFailsKeeps, UploadKeeps, PutChunkKeeps
  <1>6. CASE PackPutFails
    BY <1>6, SettleKeeps DEF PackPutFails
  <1>7. CASE Unstage
    <2>1. row[batch[pos]] # NoRow \/ InoOf[batch[pos]] \notin live
      BY <1>7 DEF Unstage, PackerInv, Landed
    <2> QED BY <1>7, <2>1, SettleKeeps DEF Unstage
  <1>8. CASE UNCHANGED packerVars
    <2>1. /\ UNCHANGED <<live, pending, bufBytes, signalling, wake, stop, loopPc, last>>
          /\ UNCHANGED <<batch, pos, msg, row, staged, result, early>>
      BY <1>8 DEF packerVars
    <2>2. PackerTypeOK'
      BY <2>1 DEF PackerInv, PackerTypeOK
    <2>3. ListsSound' /\ Flushing' /\ Landed' /\ BufBytesExact' /\ FullBufferSignalled'
      BY <2>1 DEF PackerInv, ListsSound, Flushing, Landed, BufBytesExact, FullBufferSignalled
    <2>4. RowsOfMessages' /\ ExtentsDisjoint' /\ StagedUntilCommitted'
      BY <2>1 DEF PackerInv, RowsOfMessages, ExtentsDisjoint, Extent, StagedUntilCommitted
    <2> QED BY <2>2, <2>3, <2>4 DEF PackerInv
  <1> QED BY <1>1, <1>2, <1>3, <1>4, <1>5, <1>6, <1>7, <1>8 DEF PackerNext, Flusher

\* A new packer satisfies it.
LEMMA InitSound ==
  ASSUME PackerInit
  PROVE  PackerInv
  <1>1. /\ live = Inodes /\ pending = <<>> /\ bufBytes = 0 /\ signalling = {}
        /\ wake = FALSE /\ stop = FALSE /\ loopPc = "select" /\ last = FALSE
        /\ batch = <<>> /\ pos = 1 /\ msg = 0 /\ row = [w \in Wires |-> NoRow]
        /\ staged = {} /\ result = [w \in Wires |-> "none"] /\ early = {}
    BY DEF PackerInit
  <1>2. PackerTypeOK
    <2>1. row \in [Wires -> [msg : Nat, off : Nat, size : Nat]]
      BY <1>1 DEF NoRow
    <2>2. result \in [Wires -> {"none", "waiting", "done", "failed"}]
      BY <1>1
    <2>3. pending \in Seq(Wires) /\ batch \in Seq(Wires) /\ pos \in Nat /\ msg \in Nat /\ bufBytes \in Nat
      BY <1>1
    <2> QED BY <1>1, <2>1, <2>2, <2>3 DEF PackerTypeOK
  <1>3. ListsSound
    BY <1>1 DEF ListsSound, Distinct, Range
  <1>4. Flushing /\ Landed /\ StagedUntilCommitted
    BY <1>1 DEF Flushing, Landed, StagedUntilCommitted
  <1>5. RowsOfMessages /\ ExtentsDisjoint
    BY <1>1 DEF RowsOfMessages, ExtentsDisjoint
  <1>6. BufBytesExact
    BY <1>1, BytesOfNone DEF BufBytesExact
  <1>7. FullBufferSignalled
    BY <1>1, PackerAssumption DEF FullBufferSignalled
  <1> QED BY <1>2, <1>3, <1>4, <1>5, <1>6, <1>7 DEF PackerInv

\* The packer's inductive invariant: besides the types and the properties
\* below, that a wire is at one place only and that p.bufBytes is exact.
THEOREM PackerInvariant == PackerSpec => []PackerInv
  <1>1. PackerInit => PackerInv
    BY InitSound
  <1>2. PackerInv /\ [PackerNext]_packerVars => PackerInv'
    BY NextKeeps
  <1> QED BY <1>1, <1>2, PTL DEF PackerSpec

\* The rows written for one message never overlap in it, however wires were
\* cut into messages, dropped or retried.
THEOREM ExtentsNeverOverlap == PackerSpec => []ExtentsDisjoint
  <1>1. PackerInv => ExtentsDisjoint
    BY DEF PackerInv
  <1> QED BY <1>1, PackerInvariant, PTL

\* A wire's staged copy outlives the commit of its row, or its inode.
THEOREM StagedOutlivesCommit == PackerSpec => []StagedUntilCommitted
  <1>1. PackerInv => StagedUntilCommitted
    BY DEF PackerInv
  <1> QED BY <1>1, PackerInvariant, PTL

\* A buffer at the target has a wake-up on its way.
THEOREM FullBufferWakes == PackerSpec => []FullBufferSignalled
  <1>1. PackerInv => FullBufferSignalled
    BY DEF PackerInv
  <1> QED BY <1>1, PackerInvariant, PTL

-----------------------------------------------------------------------------
(* The packer implements WireQueue *)

\* What the flush has still to answer, and the abstract queue: that and the
\* buffer.
Due == SubSeq(batch, pos, Len(batch))

\* Two lists joined can be told apart again.
LEMMA Joined ==
  ASSUME NEW a \in Seq(Wires), NEW p \in Seq(Wires)
  PROVE  /\ a \o p \in Seq(Wires) /\ Len(a \o p) = Len(a) + Len(p)
         /\ \A i \in 1..Len(a) : (a \o p)[i] = a[i]
         /\ SubSeq(a \o p, 1, Len(a)) = a
         /\ SubSeq(a \o p, Len(a) + 1, Len(a \o p)) = p
  <1> DEFINE q == a \o p
             x == SubSeq(q, 1, Len(a))
             y == SubSeq(q, Len(a) + 1, Len(q))
  <1>1. Len(a) \in Nat /\ Len(p) \in Nat
    OBVIOUS
  <1>2. /\ q \in Seq(Wires) /\ Len(q) = Len(a) + Len(p)
        /\ \A i \in 1..(Len(a) + Len(p)) : q[i] = IF i <= Len(a) THEN a[i] ELSE p[i - Len(a)]
    BY ConcatProperties
  <1> HIDE DEF q
  <1>3. \A i \in 1..Len(q) : q[i] \in Wires
    BY <1>2
  <1>4. \A m, n \in Nat : /\ \A i \in 1..m : i \in 1..(m + n)
                          /\ \A i \in 1..n : m + i \in 1..(m + n) /\ ~(m + i <= m) /\ (m + i) - m = i
                          /\ \A i \in (m + 1)..(m + n) : i \in 1..(m + n)
    OBVIOUS
  <1>5. \A i \in 1..Len(a) : q[i] = a[i]
    BY <1>1, <1>2
  <1>6. \A i \in 1..Len(p) : q[Len(a) + i] = p[i]
    BY <1>1, <1>2, <1>4
  <1>7. x = a
    <2>1. 1 \in Int /\ Len(a) \in Int /\ \A i \in 1..Len(a) : q[i] \in Wires
      BY <1>1, <1>5
    <2>2. /\ x \in Seq(Wires) /\ Len(x) = IF 1 <= Len(a) THEN Len(a) - 1 + 1 ELSE 0
          /\ \A i \in 1..(Len(a) - 1 + 1) : x[i] = q[1 + i - 1]
      BY <2>1, SubSeqProperties
    <2> HIDE DEF x
    <2>3. Len(x) = Len(a) /\ \A i \in 1..Len(a) : x[i] = q[i]
      BY <1>1, <2>2
    <2>4. \A i \in 1..Len(x) : x[i] = a[i]
      BY <1>5, <2>3
    <2> QED BY <2>2, <2>3, <2>4, SeqEqual
  <1>8. y = p
    <2> DEFINE l == Len(a) + 1
               h == Len(q)
    <2>1. l \in Int /\ h \in Int /\ \A i \in l..h : q[i] \in Wires
      BY <1>1, <1>2, <1>3, <1>4
    <2>2. /\ y \in Seq(Wires) /\ Len(y) = IF l <= h THEN h - l + 1 ELSE 0
          /\ \A i \in 1..(h - l + 1) : y[i] = q[l + i - 1]
      BY <2>1, SubSeqProperties
    <2>3. \A m, n \in Nat : /\ (m + n) - (m + 1) + 1 = n
                            /\ (IF m + 1 <= m + n THEN (m + n) - (m + 1) + 1 ELSE 0) = n
                            /\ \A i \in 1..n : (m + 1) + i - 1 = m + i
      OBVIOUS
    <2>4. Len(y) = Len(p) /\ \A i \in 1..Len(p) : y[i] = q[Len(a) + i]
      <3> HIDE DEF y
      <3>1. h = Len(a) + Len(p)
        BY <1>2
      <3>2. h - l + 1 = Len(p) /\ (IF l <= h THEN h - l + 1 ELSE 0) = Len(p)
        BY <1>1, <2>3, <3>1
      <3>3. \A i \in 1..Len(p) : l + i - 1 = Len(a) + i
        BY <1>1, <2>3
      <3> HIDE DEF l, h
      <3> QED BY <2>2, <3>2, <3>3
    <2> HIDE DEF y
    <2>5. \A i \in 1..Len(y) : y[i] = p[i]
      BY <1>6, <2>4
    <2> QED BY <2>2, <2>4, <2>5, SeqEqual
  <1> QED BY <1>2, <1>5, <1>7, <1>8 DEF q, x, y

\* The first of a joined list is that of the first part.
LEMMA JoinedTail ==
  ASSUME NEW a \in Seq(Wires), NEW p \in Seq(Wires), a # <<>>
  PROVE  Head(a \o p) = Head(a) /\ Tail(a \o p) = Tail(a) \o p
  <1> DEFINE q == a \o p
             t == Tail(a)
  <1>1. Len(a) \in Nat /\ Len(p) \in Nat /\ Len(a) # 0
    OBVIOUS
  <1>2. /\ q \in Seq(Wires) /\ Len(q) = Len(a) + Len(p)
        /\ \A i \in 1..(Len(a) + Len(p)) : q[i] = IF i <= Len(a) THEN a[i] ELSE p[i - Len(a)]
    BY ConcatProperties
  <1>3. t \in Seq(Wires) /\ Len(t) = Len(a) - 1 /\ \A i \in 1..Len(t) : t[i] = a[i + 1]
    BY HeadTailProperties
  <1>4. /\ t \o p \in Seq(Wires) /\ Len(t \o p) = Len(t) + Len(p)
        /\ \A i \in 1..(Len(t) + Len(p)) : (t \o p)[i] = IF i <= Len(t) THEN t[i] ELSE p[i - Len(t)]
    BY <1>3, ConcatProperties
  <1> HIDE DEF q, t
  <1>5. q # <<>>
    BY <1>1, <1>2
  <1>6. Tail(q) \in Seq(Wires) /\ Len(Tail(q)) = Len(q) - 1 /\ \A i \in 1..Len(Tail(q)) : Tail(q)[i] = q[i + 1]
    BY <1>2, <1>5, HeadTailProperties
  <1>7. Len(Tail(q)) = Len(t \o p)
    BY <1>1, <1>2, <1>3, <1>4, <1>6
  <1>8. ASSUME NEW i \in 1..Len(Tail(q)) PROVE Tail(q)[i] = (t \o p)[i]
    <2>1. /\ i \in 1..(Len(t) + Len(p)) /\ i + 1 \in 1..(Len(a) + Len(p)) /\ i \in Nat
          /\ (i + 1 <= Len(a) <=> i <= Len(t)) /\ (i + 1) - Len(a) = i - Len(t)
      BY <1>1, <1>2, <1>3, <1>6
    <2>2. Tail(q)[i] = IF i + 1 <= Len(a) THEN a[i + 1] ELSE p[(i + 1) - Len(a)]
      BY <1>2, <1>6, <2>1
    <2>3. (t \o p)[i] = IF i <= Len(t) THEN t[i] ELSE p[i - Len(t)]
      BY <1>4, <2>1
    <2>4. ASSUME i <= Len(t) PROVE t[i] = a[i + 1]
      <3>1. Len(t) \in Nat /\ i \in Nat
        BY <1>3, <2>1, LenProperties
      <3>2. 1 <= i
        BY <2>1
      <3>3. i \in 1..Len(t)
        BY <2>4, <3>1, <3>2, Position, ZenonT(30)
      <3> QED BY <1>3, <3>3, Zenon
    <2> QED BY <2>1, <2>2, <2>3, <2>4
  <1>9. Tail(q) = t \o p
    BY <1>4, <1>6, <1>7, <1>8, SeqEqual
  <1>10. q[1] = a[1]
    BY <1>1, <1>2
  <1>11. Head(q) = Head(a)
    BY <1>2, <1>5, <1>10
  <1> QED BY <1>9, <1>11 DEF q, t

\* The wires still due and their number.
LEMMA DueIs ==
  ASSUME PackerInv
  PROVE  /\ Due \in Seq(Wires) /\ Len(Due) = Len(batch) - pos + 1 /\ pending \in Seq(Wires)
         /\ batch = <<>> => Due = <<>> /\ pos = 1
         /\ pos = 1 => Due = batch
         /\ batch # <<>> => /\ Due # <<>> /\ Head(Due) = batch[pos] /\ pos \in 1..Len(batch)
                            /\ Tail(Due) = SubSeq(batch, pos + 1, Len(batch))
  <1>1. batch \in Seq(Wires) /\ Len(batch) \in Nat /\ pos \in Nat /\ pending \in Seq(Wires)
    BY Typed
  <1>2. CASE batch = <<>>
    <2>1. pos = 1
      BY <1>2 DEF PackerInv, PackerTypeOK, Flushing
    <2>2. Len(batch) = 0
      BY <1>2
    <2>3. Due = <<>>
      BY <2>1, <2>2, SubSeqEmpty DEF Due
    <2> QED BY <1>1, <1>2, <2>1, <2>2, <2>3
  <1>3. CASE batch # <<>>
    <2>1. pos \in 1..Len(batch)
      BY <1>3 DEF PackerInv, PackerTypeOK, Flushing
    <2>2. pos \in Int /\ Len(batch) \in Int /\ pos <= Len(batch) /\ Len(batch) \in pos..Len(batch)
          /\ \A i \in pos..Len(batch) : batch[i] \in Wires
      BY <1>1, <2>1
    <2>3. Due \in Seq(Wires) /\ Len(Due) = Len(batch) - pos + 1
      BY <2>2, SubSeqProperties DEF Due
    <2>4. Head(Due) = batch[pos] /\ Tail(Due) = SubSeq(batch, pos + 1, Len(batch))
      BY <1>1, <2>1, <2>2, HeadTailOfSubSeq DEF Due
    <2>5. pos = 1 => Due = batch
      BY <1>1, SubSeqFull DEF Due
    <2>6. Len(Due) # 0
      BY <2>2, <2>3
    <2>7. Due # <<>>
      BY <2>6
    <2> QED BY <1>1, <1>3, <2>1, <2>3, <2>4, <2>5, <2>7
  <1> QED BY <1>2, <1>3

\* The variables of the abstract queue, in the packer's terms.
LEMMA QueueVars ==
  ASSUME UNCHANGED <<batch, pos, pending, result>>
  PROVE  UNCHANGED Queue!vars
  BY DEF Queue!vars

\* Submit is the abstract one.
LEMMA SubmitRefines ==
  ASSUME PackerInv, NEW w \in Wires, Submit(w)
  PROVE  Queue!Submit(w)
  <1>1. UNCHANGED <<batch, pos>> /\ pending' = Append(pending, w) /\ result[w] = "none"
        /\ result' = [result EXCEPT ![w] = "waiting"]
    BY DEF Submit
  <1>2. Due \in Seq(Wires) /\ pending \in Seq(Wires) /\ <<w>> \in Seq(Wires)
    BY DueIs
  <1>3. Due \o pending \in Seq(Wires)
    BY <1>2, Joined
  <1>4. Append(Due \o pending, w) = (Due \o pending) \o <<w>> /\ Append(pending, w) = pending \o <<w>>
    BY <1>2, <1>3, AppendIsConcat
  <1>5. (Due \o pending) \o <<w>> = Due \o (pending \o <<w>>)
    BY <1>2, ConcatAssociative
  <1>6. Due' = Due
    BY <1>1 DEF Due
  <1>7. (Due \o pending)' = Append(Due \o pending, w)
    BY <1>1, <1>4, <1>5, <1>6
  <1> QED BY <1>1, <1>7 DEF Queue!Submit, Due

\* A flush that finds something takes it.
LEMMA BeginFlushRefines ==
  ASSUME PackerInv, NEW isLast, NEW woken, loopPc = "select", BeginFlush(isLast, woken),
         UNCHANGED flushFrame
  PROVE  Queue!Take \/ UNCHANGED Queue!vars
  <1>1. UNCHANGED result
    BY DEF flushFrame
  <1>2. batch = <<>> /\ pos = 1 /\ Due = <<>> /\ Len(batch) = 0 /\ pending \in Seq(Wires)
    BY DueIs DEF PackerInv, Flushing
  <1>3. CASE pending = <<>>
    BY <1>1, <1>3, QueueVars DEF BeginFlush
  <1>4. CASE pending # <<>>
    <2> DEFINE k == BatchLen(pending)
               front == SubSeq(pending, 1, k)
               rest == SubSeq(pending, k + 1, Len(pending))
    <2>1. batch' = front /\ pending' = rest /\ pos' = 1
      BY <1>4 DEF BeginFlush
    <2>2. k \in 1..Len(pending) /\ Len(front) = k /\ front \in Seq(Wires) /\ Len(pending) \in Nat
      BY <1>2, <1>4, FlushCuts
    <2> HIDE DEF k
    <2>3. /\ 1 \in 1..(Len(pending) + 1) /\ k \in (1 - 1)..Len(pending)
          /\ Len(pending) \in k..Len(pending)
      BY <2>2
    <2>4. front \o rest = SubSeq(pending, 1, Len(pending))
      BY <1>2, <2>3, ConcatAdjacentSubSeq
    <2>5. front \o rest = pending
      BY <1>2, <2>4, SubSeqFull
    <2> HIDE DEF front, rest
    <2>6. Due' = front
      BY <2>1, <2>2, SubSeqFull DEF Due
    <2>7. Due \o pending = pending
      BY <1>2, ConcatEmptySeq
    <2>8. (Due \o pending)' = Due \o pending
      BY <2>1, <2>5, <2>6, <2>7
    <2>9. /\ Len(batch) - pos + 1 = 0 /\ (Len(batch) - pos + 1)' = k
          /\ k \in 1..Len(Due \o pending)
      BY <1>2, <2>1, <2>2, <2>7
    <2>10. Queue!Take
      BY <1>1, <2>8, <2>9 DEF Queue!Take, Due
    <2> QED BY <2>10
  <1> QED BY <1>3, <1>4

\* A failed upload fails all that was taken.
LEMMA UploadFailsRefines ==
  ASSUME PackerInv, UploadFails
  PROVE  Queue!FailAll
  <1>1. /\ loopPc = "upload" /\ UNCHANGED pending /\ batch' = <<>> /\ pos' = 1
        /\ result' = [w \in Wires |-> IF w \in Range(batch) THEN "failed" ELSE result[w]]
    BY DEF UploadFails
  <1>2. batch # <<>> /\ pos = 1 /\ Due = batch /\ batch \in Seq(Wires) /\ pending \in Seq(Wires)
    BY <1>1, DueIs, Typed DEF PackerInv, Flushing
  <1> DEFINE q == batch \o pending
             n == Len(batch)
  <1>3. /\ q \in Seq(Wires) /\ n \in Nat /\ n > 0
        /\ \A i \in 1..n : q[i] = batch[i]
        /\ SubSeq(q, n + 1, Len(q)) = pending
    BY <1>2, Joined
  <1>4. \A w \in Wires : w \in Range(batch) <=> \E m \in 1..n : q[m] = w
    <2>1. DOMAIN batch = 1..n
      BY <1>2
    <2> QED BY <1>3, <2>1 DEF Range
  <1>5. Due' = <<>>
    <2>1. Due' = SubSeq(<<>>, 1, 0)
      BY <1>1 DEF Due
    <2> QED BY <2>1, SubSeqEmpty
  <1>6. (Due \o pending)' = pending
    BY <1>1, <1>2, <1>5, ConcatEmptySeq
  <1>7. Len(batch) - pos + 1 = n /\ (Len(batch) - pos + 1)' = 0
    BY <1>1, <1>2, <1>3
  <1>8. result' = [w \in Wires |-> IF \E m \in 1..n : q[m] = w THEN "failed" ELSE result[w]]
    BY <1>1, <1>4
  <1>9. Due \o pending = q
    BY <1>2
  <1> HIDE DEF q, n
  <1> QED BY <1>3, <1>6, <1>7, <1>8, <1>9 DEF Queue!FailAll, Due

\* A settled wire is the first in the queue that is answered.
LEMMA SettleRefines ==
  ASSUME PackerInv, NEW r, loopPc \in {"put", "unstage"}, Settle(r)
  PROVE  Queue!AnswerFirst(r)
  <1>1. /\ UNCHANGED pending /\ result' = [result EXCEPT ![batch[pos]] = r]
        /\ \/ pos = Len(batch) /\ batch' = <<>> /\ pos' = 1
           \/ pos # Len(batch) /\ pos' = pos + 1 /\ UNCHANGED batch
    BY DEF Settle
  <1>2. /\ batch # <<>> /\ batch \in Seq(Wires) /\ pending \in Seq(Wires) /\ pos \in 1..Len(batch)
        /\ Due \in Seq(Wires) /\ Due # <<>> /\ Head(Due) = batch[pos]
        /\ Tail(Due) = SubSeq(batch, pos + 1, Len(batch))
        /\ Len(batch) \in Nat
    <2>1. batch # <<>> /\ batch \in Seq(Wires)
      BY Typed DEF PackerInv, Flushing
    <2>2. Len(batch) \in Nat
      BY <2>1
    <2> QED BY <2>1, <2>2, DueIs
  <1>3. Head(Due \o pending) = batch[pos] /\ Tail(Due \o pending) = Tail(Due) \o pending
    BY <1>2, JoinedTail
  <1>4. Due' = Tail(Due) /\ (Len(batch) - pos + 1)' = (Len(batch) - pos + 1) - 1
    <2>1. CASE pos = Len(batch)
      <3>1. Due' = SubSeq(<<>>, 1, 0)
        BY <1>1, <2>1 DEF Due
      <3>2. SubSeq(<<>>, 1, 0) = <<>>
        BY SubSeqEmpty
      <3>3. SubSeq(batch, pos + 1, Len(batch)) = <<>>
        BY <1>2, <2>1, SubSeqEmpty
      <3>4. Len(batch') = 0 /\ pos' = 1
        BY <1>1, <2>1
      <3> QED BY <1>2, <2>1, <3>1, <3>2, <3>3, <3>4
    <2>2. CASE pos # Len(batch)
      <3>1. Due' = SubSeq(batch, pos + 1, Len(batch))
        BY <1>1, <2>2 DEF Due
      <3>2. \A x, y \in Nat : y - (x + 1) + 1 = (y - x + 1) - 1
        OBVIOUS
      <3>3. pos \in Nat /\ Len(batch) \in Nat /\ batch' = batch /\ pos' = pos + 1
        BY <1>1, <1>2, <2>2, Typed
      <3>4. (Len(batch) - pos + 1)' = (Len(batch) - pos + 1) - 1
        BY <3>2, <3>3
      <3>5. Due' = Tail(Due)
        BY <1>2, <3>1
      <3> QED BY <3>4, <3>5
    <2> QED BY <2>1, <2>2
  <1>5. (Due \o pending)' = Tail(Due \o pending)
    BY <1>1, <1>3, <1>4
  <1>6. \A x, y \in Nat : x \in 1..y => y - x + 1 > 0
    OBVIOUS
  <1>7. Len(batch) - pos + 1 > 0
    BY <1>2, <1>6
  <1> QED BY <1>1, <1>3, <1>4, <1>5, <1>7 DEF Queue!AnswerFirst, Due

\* DropInode drops wires that no flush has taken.
LEMMA DropRefines ==
  ASSUME PackerInv, NEW ino \in Inodes, DropInode(ino)
  PROVE  \E S \in SUBSET Wires : Queue!Drop(S)
  <1> DEFINE D == {w \in Range(pending) : InoOf[w] = ino}
             q == Due \o pending
             n == Len(batch) - pos + 1
  <1>1. /\ UNCHANGED <<batch, pos>> /\ pending' = Keep(pending, Wires \ D)
        /\ result' = [w \in Wires |-> IF w \in D THEN "done" ELSE result[w]]
    BY DEF DropInode
  <1>2. D \in SUBSET Wires /\ D \subseteq Range(pending)
    BY Typed
  <1> HIDE DEF D
  <1>3. Due \in Seq(Wires) /\ Len(Due) = n /\ pending \in Seq(Wires)
    BY DueIs
  <1>4. SubSeq(q, 1, n) = Due /\ SubSeq(q, n + 1, Len(q)) = pending
    BY <1>3, Joined
  <1>5. Range(pending) = {pending[m] : m \in 1..Len(pending)}
    <2>1. DOMAIN pending = 1..Len(pending)
      BY <1>3
    <2> QED BY <2>1 DEF Range
  <1>6. Due' = Due /\ n' = n
    BY <1>1 DEF Due
  <1>7. q' = Due \o Keep(pending, Wires \ D)
    BY <1>1, <1>6
  <1>8. D \subseteq {pending[m] : m \in 1..Len(pending)}
    BY <1>2, <1>5
  <1> DEFINE old == SubSeq(q, n + 1, Len(q))
  <1>9. /\ D \subseteq {old[m] : m \in 1..Len(old)}
        /\ q' = SubSeq(q, 1, n) \o Keep(old, Wires \ D)
    BY <1>4, <1>7, <1>8
  <1>10. ASSUME NEW s, NEW S PROVE Queue!Keep(s, S) = Keep(s, S)
    BY Zenon DEF Queue!Keep, Keep, Queue!Cardinality, Cardinality
  <1>11. Queue!Drop(D)
    BY <1>1, <1>6, <1>9, <1>10, Zenon DEF Queue!Drop, Due
  <1> QED BY <1>2, <1>11

\* The packer implements the queue its callers rely on: every step of
\* Submit, the flusher, DropInode and Close is a step of WireQueue or none.
THEOREM PackerImplementsQueue == PackerSpec => ImplementsQueue
  <1>1. PackerInit => Queue!Init
    <2> SUFFICES ASSUME PackerInit PROVE Queue!Init
      OBVIOUS
    <2>1. batch = <<>> /\ pos = 1 /\ pending = <<>> /\ result = [w \in Wires |-> "none"]
      BY DEF PackerInit
    <2>2. SubSeq(batch, pos, Len(batch)) = SubSeq(<<>>, 1, 0) /\ Len(batch) - pos + 1 = 0
      BY <2>1
    <2>3. SubSeq(<<>>, 1, 0) = <<>>
      BY SubSeqEmpty
    <2>4. <<>> \o <<>> = <<>>
      BY ConcatEmptySeq
    <2> QED BY <2>1, <2>2, <2>3, <2>4 DEF Queue!Init
  <1>2. PackerInv /\ [PackerNext]_packerVars => [Queue!Next]_Queue!vars
    <2> SUFFICES ASSUME PackerInv, [PackerNext]_packerVars
                 PROVE  Queue!Next \/ UNCHANGED Queue!vars
      OBVIOUS
    <2>1. ASSUME NEW w \in Wires, Submit(w) PROVE Queue!Next
      BY <2>1, SubmitRefines DEF Queue!Next
    <2>2. ASSUME NEW w \in Wires, Signal(w) PROVE UNCHANGED Queue!vars
      BY <2>2, QueueVars DEF Signal
    <2>3. ASSUME NEW ino \in Inodes, UnlinkInode(ino) PROVE UNCHANGED Queue!vars
      BY <2>3, QueueVars DEF UnlinkInode
    <2>4. ASSUME NEW ino \in Inodes, DropInode(ino) PROVE Queue!Next
      BY <2>4, DropRefines DEF Queue!Next
    <2>5. CASE Close
      BY <2>5, QueueVars DEF Close
    <2>6. CASE LoopTimer \/ LoopWake \/ LoopStop
      <3>1. Queue!Take \/ UNCHANGED Queue!vars
        BY <2>6, BeginFlushRefines DEF LoopTimer, LoopWake, LoopStop
      <3> QED BY <3>1 DEF Queue!Next
    <2>7. CASE UploadFails
      BY <2>7, UploadFailsRefines DEF Queue!Next
    <2>8. CASE Upload
      BY <2>8, QueueVars DEF Upload
    <2>9. CASE PackPut
      BY <2>9, QueueVars DEF PackPut
    <2>10. CASE PackPutFails
      <3>1. Queue!AnswerFirst("failed")
        BY <2>10, SettleRefines DEF PackPutFails
      <3> QED BY <3>1 DEF Queue!Next
    <2>11. CASE Unstage
      <3>1. Queue!AnswerFirst("done")
        BY <2>11, SettleRefines DEF Unstage
      <3> QED BY <3>1 DEF Queue!Next
    <2>12. CASE UNCHANGED packerVars
      BY <2>12, QueueVars DEF packerVars
    <2> QED BY <2>1, <2>2, <2>3, <2>4, <2>5, <2>6, <2>7, <2>8, <2>9, <2>10, <2>11, <2>12
            DEF PackerNext, Flusher
  <1> QED BY <1>1, <1>2, PackerInvariant, PTL DEF PackerSpec, ImplementsQueue, Queue!Spec

=============================================================================
