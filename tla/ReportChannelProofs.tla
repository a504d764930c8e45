-------------------------- MODULE ReportChannelProofs --------------------------
(***************************************************************************)
(* Safety of ReportChannel for frames, buffers and kernels of all sizes    *)
(* and any number of reports: what the parser's undefined indices cannot   *)
(* reach, and the order of the reports until one is used.                  *)
(***************************************************************************)
EXTENDS ReportChannel, SequenceTheorems, FiniteSetTheorems, WellFoundedInduction, TLAPS

-----------------------------------------------------------------------------
(* The places of the bytes that end a frame, in order *)

\* A set of numbers has a least one.
LEMMA LeastNumber ==
  ASSUME NEW T, T \subseteq Nat, T # {}
  PROVE  \E k \in T : \A i \in T : k <= i
<1>1. \E R : IsWellFoundedOn(R, Nat) /\ \A i, k \in Nat : <<i, k>> \in R <=> i < k
  <2> DEFINE R == OpToRel(<, Nat)
  <2>1. IsWellFoundedOn(R, Nat)
    BY NatLessThanWellFounded
  <2>2. \A i, k \in Nat : <<i, k>> \in R <=> i < k
    BY DEF OpToRel
  <2> HIDE DEF R
  <2>3. QED
    BY <2>1, <2>2
<1>2. PICK R : IsWellFoundedOn(R, Nat) /\ \A i, k \in Nat : <<i, k>> \in R <=> i < k
  BY <1>1
<1>3. PICK k \in T : \A i \in T : <<i, k>> \notin R
  <2>1. IsWellFoundedOn(R, Nat) /\ T \subseteq Nat /\ T # {}
    BY <1>2
  <2>2. QED
    BY <2>1, WFMin, Zenon
<1>4. \A i \in T : ~(i < k)
  BY <1>2, <1>3, Zenon
<1>5. k \in Nat /\ \A i \in T : i \in Nat
  OBVIOUS
<1>6. \A i \in T : k <= i
  BY <1>4, <1>5
<1>7. QED
  BY <1>6

\* Parts of 1..L are finite.
LEMMA PartFinite ==
  ASSUME NEW L \in Nat, NEW S, S \subseteq 1..L
  PROVE  IsFiniteSet(S) /\ Cardinality(S) \in Nat /\ (Cardinality(S) = 0 <=> S = {})
<1>1. IsFiniteSet(1..L)
  BY FS_Interval
<1>2. IsFiniteSet(S)
  BY <1>1, FS_Subset
<1>3. QED
  BY <1>2, FS_CardinalityType, FS_EmptySet

\* There is an n-th number.
LEMMA NthExists ==
  ASSUME NEW L \in Nat, NEW S, S \subseteq 1..L, NEW n \in 1..Cardinality(S)
  PROVE  Nth(S, n) \in S /\ Cardinality({j \in S : j <= Nth(S, n)}) = n
<1> DEFINE UpTo(k) == {j \in S : j <= k}
           count(k) == Cardinality(UpTo(k))
           T == {k \in Nat : count(k) >= n}
<1>0. \A j \in S : j \in Nat /\ 1 <= j /\ j <= L
  OBVIOUS
<1>1. n \in Nat /\ n >= 1 /\ n <= Cardinality(S)
  BY PartFinite
<1>2. \A k \in Nat : IsFiniteSet(UpTo(k)) /\ count(k) \in Nat
  <2> SUFFICES ASSUME NEW k \in Nat PROVE IsFiniteSet(UpTo(k)) /\ count(k) \in Nat
    OBVIOUS
  <2>1. UpTo(k) \subseteq 1..L
    OBVIOUS
  <2> QED
    BY <2>1, PartFinite
<1>3. count(L) >= n
  <2>1. UpTo(L) = S
    BY <1>0
  <2>2. QED
    BY <1>1, <2>1, PartFinite
<1>4. count(0) = 0
  <2>0. \A j \in S : ~(j <= 0)
    BY <1>0
  <2>1. UpTo(0) = {}
    BY <2>0
  <2>2. QED
    BY <2>1, FS_EmptySet
<1>5. ASSUME NEW k \in Nat
      PROVE  /\ k + 1 \in S => count(k + 1) = count(k) + 1
             /\ k + 1 \notin S => count(k + 1) = count(k)
  <2>0. \A j \in S : j <= k + 1 <=> j <= k \/ j = k + 1
    BY <1>0
  <2>1. k + 1 \in S => UpTo(k + 1) = UpTo(k) \cup {k + 1}
    BY <1>0, <2>0
  <2>2. k + 1 \notin S => UpTo(k + 1) = UpTo(k)
    BY <2>0
  <2>3. k + 1 \notin UpTo(k) /\ IsFiniteSet(UpTo(k))
    BY <1>2
  <2>4. Cardinality(UpTo(k) \cup {k + 1}) = count(k) + 1
    BY <2>3, FS_AddElement
  <2>5. QED
    BY <2>1, <2>2, <2>4
<1> HIDE DEF count
<1>6. PICK k \in T : \A i \in T : k <= i
  <2>1. T \subseteq Nat /\ T # {}
    BY <1>3
  <2>2. QED
    BY <2>1, LeastNumber
<1>7. k \in Nat /\ count(k) >= n
  OBVIOUS
<1>8. k # 0
  BY <1>1, <1>4, <1>7
<1>9. PICK m \in Nat : k = m + 1
  <2>1. k - 1 \in Nat /\ k = (k - 1) + 1
    BY <1>7, <1>8
  <2>2. QED
    BY <2>1
<1>10. ~(count(m) >= n)
  <2>1. m \notin T
    BY <1>6, <1>9
  <2>2. QED
    BY <2>1
<1>11. k \in S /\ count(k) = n
  <2>1. count(m) \in Nat /\ count(k) \in Nat
    BY <1>2, <1>7
  <2>2. /\ k \in S => count(k) = count(m) + 1
        /\ k \notin S => count(k) = count(m)
    BY <1>5, <1>9
  <2>3. QED
    BY <1>1, <1>7, <1>10, <2>1, <2>2
<1>12. \E i \in S : Cardinality({j \in S : j <= i}) = n
  BY <1>11 DEF count
<1>13. QED
  BY <1>12 DEF Nth

\* How many members of S there are up to i rises with i.
LEMMA CountRises ==
  ASSUME NEW L \in Nat, NEW S, S \subseteq 1..L, NEW i \in S
  PROVE  /\ Cardinality({j \in S : j <= i}) \in 1..Cardinality(S)
         /\ \A k \in S : i < k => Cardinality({j \in S : j <= i}) < Cardinality({j \in S : j <= k})
<1> DEFINE UpTo(k) == {j \in S : j <= k}
<1>0. \A j \in S : j \in Nat
  OBVIOUS
<1>1. ASSUME NEW k \in S
      PROVE  /\ IsFiniteSet(UpTo(k)) /\ Cardinality(UpTo(k)) \in Nat /\ Cardinality(UpTo(k)) # 0
             /\ Cardinality(UpTo(k)) <= Cardinality(S)
  <2>1. UpTo(k) \subseteq S /\ k \in UpTo(k)
    BY <1>0
  <2>2. IsFiniteSet(S) /\ UpTo(k) \subseteq 1..L
    BY <2>1, PartFinite
  <2> HIDE DEF UpTo
  <2>3. Cardinality(UpTo(k)) \in Nat /\ Cardinality(UpTo(k)) # 0 /\ IsFiniteSet(UpTo(k))
    BY <2>1, <2>2, PartFinite
  <2>4. QED
    BY <2>1, <2>2, <2>3, FS_Subset
<1>2. ASSUME NEW k \in S, i < k
      PROVE  Cardinality(UpTo(i)) < Cardinality(UpTo(k))
  <2>0. i \in Nat /\ k \in Nat /\ \A j \in S : j <= i => j <= k
    BY <1>0, <1>2
  <2>1. /\ UpTo(i) \subseteq UpTo(k) /\ UpTo(i) \in SUBSET UpTo(k)
        /\ k \in UpTo(k) /\ k \notin UpTo(i)
    <3>1. k <= k /\ ~(k <= i)
      BY <1>2, <2>0
    <3>2. QED
      BY <2>0, <3>1, Zenon
  <2>2. /\ IsFiniteSet(UpTo(k)) /\ Cardinality(UpTo(k)) \in Nat
        /\ Cardinality(UpTo(i)) \in Nat
    BY <1>1
  <2> HIDE DEF UpTo
  <2>3. /\ Cardinality(UpTo(i)) <= Cardinality(UpTo(k))
        /\ Cardinality(UpTo(k)) = Cardinality(UpTo(i)) => UpTo(k) = UpTo(i)
    BY <2>1, <2>2, FS_Subset
  <2>4. QED
    BY <2>1, <2>2, <2>3
<1>3. Cardinality(S) \in Nat
  BY PartFinite
<1>4. Cardinality(UpTo(i)) \in 1..Cardinality(S)
  BY <1>1, <1>3
<1>5. QED
  BY <1>2, <1>4

\* Every member of S is the n-th for some n.
LEMMA NthOnto ==
  ASSUME NEW L \in Nat, NEW S, S \subseteq 1..L, NEW i \in S
  PROVE  \E n \in 1..Cardinality(S) : Nth(S, n) = i
<1> DEFINE count(k) == Cardinality({j \in S : j <= k})
<1>1. count(i) \in 1..Cardinality(S)
  BY CountRises
<1>2. Nth(S, count(i)) \in S /\ count(Nth(S, count(i))) = count(i)
  BY <1>1, NthExists
<1>3. \A j, k \in S : j < k => count(j) < count(k)
  BY CountRises
<1>4. \A k \in S : count(k) \in Nat /\ k \in Nat
  <2>1. Cardinality(S) \in Nat
    BY PartFinite
  <2>2. \A k \in S : count(k) \in 1..Cardinality(S)
    BY CountRises
  <2> HIDE DEF count
  <2>3. QED
    BY <2>1, <2>2
<1>5. \A k \in S : count(k) = count(i) => k = i
  <2> HIDE DEF count
  <2>1. QED
    BY <1>3, <1>4
<1>6. QED
  BY <1>1, <1>2, <1>5

\* Nothing of S is before the first, between one and the next, or after the last.
LEMMA NthOrder ==
  ASSUME NEW L \in Nat, NEW S, S \subseteq 1..L, NEW n \in 1..Cardinality(S)
  PROVE  /\ n = 1 => \A i \in S : Nth(S, 1) <= i
         /\ n > 1 => /\ Nth(S, n - 1) < Nth(S, n)
                     /\ \A i \in S : i <= Nth(S, n - 1) \/ Nth(S, n) <= i
         /\ n = Cardinality(S) => \A i \in S : i <= Nth(S, n)
<1> DEFINE count(k) == Cardinality({j \in S : j <= k})
<1>0. Cardinality(S) \in Nat
  BY PartFinite
<1>1. Cardinality(S) \in Nat /\ n \in Nat /\ 1 <= n /\ n <= Cardinality(S)
  BY <1>0
<1>2. \A k \in 1..Cardinality(S) : Nth(S, k) \in S /\ count(Nth(S, k)) = k
  BY NthExists
<1>3. \A j, k \in S : j < k => count(j) < count(k)
  BY CountRises
<1>4. \A k \in S : count(k) \in 1..Cardinality(S)
  BY CountRises
<1> HIDE DEF count
<1>5. \A k \in S : k \in Nat /\ count(k) \in Nat /\ 1 <= count(k) /\ count(k) <= Cardinality(S)
  BY <1>0, <1>4
<1>6. ASSUME n = 1, NEW i \in S PROVE Nth(S, 1) <= i
  <2>1. PICK x : x = Nth(S, 1) /\ x \in S /\ count(x) = 1
    BY <1>1, <1>2, <1>6
  <2>2. i < x => count(i) < count(x)
    BY <1>3, <2>1
  <2>3. x \in Nat /\ i \in Nat /\ 1 <= count(i) /\ count(i) \in Nat
    BY <1>5, <2>1
  <2>4. x <= i
    BY <2>1, <2>2, <2>3
  <2>5. QED
    BY <2>1, <2>4
<1>7. ASSUME n > 1, NEW i \in S
      PROVE  /\ Nth(S, n - 1) < Nth(S, n)
             /\ i <= Nth(S, n - 1) \/ Nth(S, n) <= i
  <2>1. n - 1 \in 1..Cardinality(S)
    BY <1>1, <1>7
  <2>2. PICK y : y = Nth(S, n) /\ y \in S /\ count(y) = n
    BY <1>2
  <2>3. PICK x : x = Nth(S, n - 1) /\ x \in S /\ count(x) = n - 1
    BY <1>2, <2>1
  <2>4. /\ x \in Nat /\ y \in Nat /\ i \in Nat /\ count(i) \in Nat
        /\ y < x => count(y) < count(x)
        /\ x < i => count(x) < count(i)
        /\ i < y => count(i) < count(y)
    BY <1>3, <1>5, <2>2, <2>3
  <2>5. x < y /\ (i <= x \/ y <= i)
    BY <1>1, <2>2, <2>3, <2>4
  <2>6. QED
    BY <2>2, <2>3, <2>5
<1>8. ASSUME n = Cardinality(S), NEW i \in S PROVE i <= Nth(S, n)
  <2>1. PICK x : x = Nth(S, n) /\ x \in S /\ count(x) = n
    BY <1>2
  <2>2. x < i => count(x) < count(i)
    BY <1>3, <2>1
  <2>3. x \in Nat /\ i \in Nat /\ count(i) <= n /\ count(i) \in Nat
    BY <1>5, <1>8, <2>1
  <2>4. i <= x
    BY <1>1, <2>1, <2>2, <2>3
  <2>5. QED
    BY <2>1, <2>4
<1>a. S # {}
  BY <1>2
<1>9. QED
  BY <1>6, <1>7, <1>8, <1>a

LEMMA MaxIs ==
  ASSUME NEW T, T \subseteq Nat, NEW x \in T, \A y \in T : y <= x
  PROVE  Max(T) = x
<1>1. \A y \in T : y \in Nat
  OBVIOUS
<1>2. \E z \in T : \A y \in T : z >= y
  BY <1>1
<1>3. Max(T) \in T /\ \A y \in T : Max(T) >= y
  <2> DEFINE P(z) == \A y \in T : z >= y
  <2>1. \E z \in T : P(z)
    BY <1>2
  <2> HIDE DEF P
  <2>2. (CHOOSE z \in T : P(z)) \in T /\ P(CHOOSE z \in T : P(z))
    BY <2>1
  <2>3. QED
    BY <2>2 DEF Max, P
<1>4. Max(T) >= x /\ Max(T) <= x /\ Max(T) \in Nat /\ x \in Nat
  BY <1>1, <1>3
<1>5. QED
  BY <1>4

LEMMA MaxExists ==
  ASSUME NEW L \in Nat, NEW T, T \subseteq 0..L, T # {}
  PROVE  Max(T) \in T /\ \A y \in T : y <= Max(T)
<1> DEFINE B == {n \in Nat : \A y \in T : y <= n}
<1>0. \A y \in T : y \in Nat /\ y <= L
  OBVIOUS
<1>1. B \subseteq Nat /\ L \in B
  BY <1>0
<1>2. PICK k \in B : \A i \in B : k <= i
  BY <1>1, LeastNumber
<1>3. k \in Nat /\ \A y \in T : y <= k
  OBVIOUS
<1>4. k \in T
  <2>1. ASSUME k \notin T PROVE FALSE
    <3>1. \A y \in T : y <= k - 1
      BY <1>0, <1>3, <2>1
    <3>2. k - 1 \in Nat
      <4>1. PICK y \in T : y \in Nat /\ y <= k - 1
        BY <1>0, <3>1
      <4>2. QED
        BY <1>3, <4>1
    <3>3. k - 1 \in B
      BY <3>1, <3>2
    <3>4. QED
      BY <1>2, <1>3, <3>3
  <2>2. QED
    BY <2>1
<1>5. T \subseteq Nat
  BY <1>0
<1>6. Max(T) = k
  BY <1>3, <1>4, <1>5, MaxIs
<1>7. QED
  BY <1>3, <1>4, <1>6

LEMMA MinOfTwo ==
  ASSUME NEW a \in Int, NEW b \in Int
  PROVE  Min({a, b}) \in Int /\ Min({a, b}) <= a /\ Min({a, b}) <= b
<1> DEFINE P(x) == \A y \in {a, b} : x =< y
<1>1. \E x \in {a, b} : P(x)
  OBVIOUS
<1> HIDE DEF P
<1>2. (CHOOSE x \in {a, b} : P(x)) \in {a, b} /\ P(CHOOSE x \in {a, b} : P(x))
  BY <1>1
<1>3. QED
  BY <1>2 DEF Min, P

-----------------------------------------------------------------------------
(* Sequences *)

\* The elements of a concatenation, and of a part.
LEMMA ConcatAt ==
  ASSUME NEW S, NEW s \in Seq(S), NEW t \in Seq(S)
  PROVE  /\ s \o t \in Seq(S) /\ Len(s) \in Nat /\ Len(t) \in Nat
         /\ Len(s \o t) = Len(s) + Len(t)
         /\ \A i \in 1..Len(s) : (s \o t)[i] = s[i]
         /\ \A i \in 1..Len(t) : (s \o t)[Len(s) + i] = t[i]
<1>1. Len(s) \in Nat /\ Len(t) \in Nat
  BY LenProperties
<1>2. /\ s \o t \in Seq(S) /\ Len(s \o t) = Len(s) + Len(t)
      /\ \A i \in 1 .. Len(s) + Len(t) : (s \o t)[i] = IF i <= Len(s) THEN s[i] ELSE t[i - Len(s)]
  BY ConcatProperties
<1>3. ASSUME NEW i \in 1..Len(s) PROVE (s \o t)[i] = s[i]
  BY <1>1, <1>2
<1>4. ASSUME NEW i \in 1..Len(t) PROVE (s \o t)[Len(s) + i] = t[i]
  <2>1. Len(s) + i \in 1..Len(s) + Len(t) /\ ~(Len(s) + i <= Len(s)) /\ Len(s) + i - Len(s) = i
    BY <1>1
  <2>2. QED
    BY <1>2, <2>1
<1>5. QED
  BY <1>1, <1>2, <1>3, <1>4

LEMMA ConcatTwice ==
  ASSUME NEW S, NEW s \in Seq(S), NEW t \in Seq(S), NEW u \in Seq(S)
  PROVE  s \o (t \o u) = (s \o t) \o u
<1>1. (s \o t) \o u = s \o (t \o u)
  BY ConcatAssociative
<1>2. QED
  BY <1>1, Zenon

LEMMA PartAt ==
  ASSUME NEW S, NEW s \in Seq(S), NEW m \in 1..Len(s) + 1, NEW n \in 0..Len(s), m <= n + 1
  PROVE  /\ SubSeq(s, m, n) \in Seq(S) /\ Len(SubSeq(s, m, n)) = n - m + 1
         /\ \A i \in 1..n - m + 1 : SubSeq(s, m, n)[i] = s[m + i - 1]
<1>1. Len(s) \in Nat
  BY LenProperties
<1>2. m \in Int /\ n \in Int /\ \A i \in m..n : i \in 1..Len(s)
  BY <1>1
<1>3. \A i \in m..n : s[i] \in S
  BY <1>2, ElementOfSeq
<1>4. /\ SubSeq(s, m, n) \in Seq(S)
      /\ Len(SubSeq(s, m, n)) = IF m <= n THEN n - m + 1 ELSE 0
      /\ \A i \in 1 .. n - m + 1 : SubSeq(s, m, n)[i] = s[m + i - 1]
  BY <1>2, <1>3, SubSeqProperties
<1>5. QED
  BY <1>2, <1>4

-----------------------------------------------------------------------------
(* Bytes and frames *)

\* After a byte comes the next one of its frame, or the first one of a frame that
\* is the next or an earlier one if a frame ended, and no later one if none did.
Follows(b, c) ==
  \/ b[2] < FrameLen /\ c = <<b[1], b[2] + 1>>
  \/ c[2] = 1 /\ c[1] <= b[1] + (IF b[2] = FrameLen THEN 1 ELSE 0)

Linked(s) == \A i \in 1..Len(s) - 1 : Follows(s[i], s[i + 1])

\* Each byte comes after the bytes of its frame that precede it.
Framed(s) ==
  \A k \in 1..Len(s) :
    /\ s[k][2] <= k
    /\ \A d \in 0..s[k][2] - 1 : s[k - d] = <<s[k][1], s[k][2] - d>>

LEMMA ByteParts ==
  ASSUME NEW b \in Bytes
  PROVE  /\ b[1] \in 0..NumReports /\ b[1] \in Nat
         /\ b[2] \in Nat /\ 1 <= b[2] /\ b[2] <= FrameLen /\ b = <<b[1], b[2]>>
BY SocketAssumption, ReportAssumption DEF Bytes

LEMMA BytesOf ==
  ASSUME NEW s \in Seq(Bytes)
  PROVE  /\ Len(s) \in Nat /\ DOMAIN s = 1..Len(s)
         /\ \A k \in 1..Len(s) :
              /\ s[k] \in Bytes /\ s[k][1] \in 0..NumReports /\ s[k][1] \in Nat
              /\ s[k][2] \in Nat /\ 1 <= s[k][2] /\ s[k][2] <= FrameLen
              /\ s[k] = <<s[k][1], s[k][2]>>
<1>1. Len(s) \in Nat /\ DOMAIN s = 1..Len(s) /\ \A k \in 1..Len(s) : s[k] \in Bytes
  BY LenProperties, ElementOfSeq
<1>2. QED
  BY <1>1, ByteParts

LEMMA FrameBytes ==
  ASSUME NEW m \in 0..NumReports
  PROVE  /\ Frame(m) \in Seq(Bytes) /\ Len(Frame(m)) = FrameLen
         /\ \A p \in 1..FrameLen : Frame(m)[p] = <<m, p>>
         /\ Linked(Frame(m))
<1>1. FrameLen \in Nat /\ m \in Nat
  BY SocketAssumption, ReportAssumption
<1>2. Frame(m) \in [1..FrameLen -> Bytes] /\ \A p \in 1..FrameLen : Frame(m)[p] = <<m, p>>
  BY DEF Frame, Bytes
<1>3. Frame(m) \in Seq(Bytes) /\ Len(Frame(m)) = FrameLen
  BY <1>1, <1>2
<1>4. ASSUME NEW i \in 1..FrameLen - 1 PROVE Follows(Frame(m)[i], Frame(m)[i + 1])
  <2>1. i \in 1..FrameLen /\ i + 1 \in 1..FrameLen /\ i < FrameLen
    BY <1>1
  <2>2. Frame(m)[i] = <<m, i>> /\ Frame(m)[i + 1] = <<m, i + 1>>
    BY <1>2, <2>1
  <2>3. QED
    BY <2>1, <2>2 DEF Follows
<1>5. QED
  BY <1>2, <1>3, <1>4 DEF Linked

LEMMA LinkedConcat ==
  ASSUME NEW s \in Seq(Bytes), NEW t \in Seq(Bytes), Linked(s), Linked(t),
         Len(s) # 0 /\ Len(t) # 0 => Follows(s[Len(s)], t[1])
  PROVE  Linked(s \o t)
<1> DEFINE u == s \o t
<1>1. /\ Len(u) = Len(s) + Len(t) /\ Len(s) \in Nat /\ Len(t) \in Nat
      /\ \A i \in 1..Len(s) : u[i] = s[i]
      /\ \A i \in 1..Len(t) : u[Len(s) + i] = t[i]
  BY ConcatAt
<1> HIDE DEF u
<1>2. ASSUME NEW i \in 1..Len(u) - 1 PROVE Follows(u[i], u[i + 1])
  <2>1. CASE i + 1 <= Len(s)
    <3>1. i \in 1..Len(s) - 1 /\ i \in 1..Len(s) /\ i + 1 \in 1..Len(s)
      BY <1>1, <2>1
    <3>2. u[i] = s[i] /\ u[i + 1] = s[i + 1]
      BY <1>1, <3>1
    <3>3. QED
      BY <3>1, <3>2 DEF Linked
  <2>2. CASE i = Len(s)
    <3>1. i \in 1..Len(s) /\ 1 \in 1..Len(t) /\ Len(s) # 0 /\ Len(t) # 0
      BY <1>1, <2>2
    <3>2. u[i] = s[i] /\ u[i + 1] = t[1]
      BY <1>1, <2>2, <3>1
    <3>3. QED
      BY <2>2, <3>1, <3>2
  <2>3. CASE Len(s) < i
    <3>1. PICK j \in 1..Len(t) - 1 : i = Len(s) + j
      <4>1. i - Len(s) \in 1..Len(t) - 1 /\ i = Len(s) + (i - Len(s))
        BY <1>1, <2>3
      <4>2. QED
        BY <4>1
    <3>2. j \in 1..Len(t) /\ j + 1 \in 1..Len(t) /\ i + 1 = Len(s) + (j + 1)
      BY <1>1, <3>1
    <3>3. u[i] = t[j] /\ u[i + 1] = t[j + 1]
      BY <1>1, <3>1, <3>2
    <3>4. QED
      BY <3>3 DEF Linked
  <2>4. QED
    BY <1>1, <2>1, <2>2, <2>3
<1>3. QED
  BY <1>2 DEF Linked, u

LEMMA LinkedPart ==
  ASSUME NEW s \in Seq(Bytes), Linked(s), NEW m \in 1..Len(s) + 1, NEW n \in 0..Len(s), m <= n + 1
  PROVE  Linked(SubSeq(s, m, n))
<1>1. /\ Len(SubSeq(s, m, n)) = n - m + 1
      /\ \A i \in 1..n - m + 1 : SubSeq(s, m, n)[i] = s[m + i - 1]
  BY PartAt
<1>2. Len(s) \in Nat
  BY BytesOf
<1>3. ASSUME NEW i \in 1..(n - m + 1) - 1
      PROVE  Follows(SubSeq(s, m, n)[i], SubSeq(s, m, n)[i + 1])
  <2>1. PICK j \in 1..Len(s) - 1 : j = m + i - 1 /\ j + 1 = m + (i + 1) - 1
    <3>1. m + i - 1 \in 1..Len(s) - 1 /\ (m + i - 1) + 1 = m + (i + 1) - 1
      BY <1>2
    <3>2. QED
      BY <3>1
  <2>2. i \in 1..n - m + 1 /\ i + 1 \in 1..n - m + 1
    BY <1>2
  <2>3. SubSeq(s, m, n)[i] = s[j] /\ SubSeq(s, m, n)[i + 1] = s[j + 1]
    BY <1>1, <2>1, <2>2
  <2>4. QED
    BY <2>3 DEF Linked
<1>4. QED
  BY <1>1, <1>3 DEF Linked

\* Linked bytes that begin with the first one of a frame are framed.
LEMMA FramedOf ==
  ASSUME NEW s \in Seq(Bytes), Linked(s), Len(s) # 0 => s[1][2] = 1
  PROVE  Framed(s)
<1> DEFINE P(k) == /\ s[k][2] <= k
                   /\ \A d \in 0..s[k][2] - 1 : s[k - d] = <<s[k][1], s[k][2] - d>>
           T == {k \in 1..Len(s) : ~P(k)}
<1>1. /\ Len(s) \in Nat
      /\ \A k \in 1..Len(s) : /\ s[k][1] \in Nat /\ s[k][2] \in Nat /\ 1 <= s[k][2]
                              /\ s[k] = <<s[k][1], s[k][2]>>
  BY BytesOf
<1>2. ASSUME NEW k \in 1..Len(s), s[k][2] = 1 PROVE P(k)
  <2>1. k \in Nat /\ 1 <= k /\ k - 0 = k
    BY <1>1
  <2>2. \A d \in 0..s[k][2] - 1 : d = 0
    BY <1>2
  <2>3. s[k - 0] = <<s[k][1], s[k][2] - 0>>
    BY <1>1, <2>1
  <2>4. QED
    BY <1>2, <2>1, <2>2, <2>3
<1>3. ASSUME NEW k \in 1..Len(s), k + 1 \in 1..Len(s), P(k) PROVE P(k + 1)
  <2>1. Follows(s[k], s[k + 1])
    <3>1. k \in 1..Len(s) - 1
      BY <1>1, <1>3
    <3>2. QED
      BY <3>1 DEF Linked
  <2>2. CASE s[k + 1][2] = 1
    BY <1>2, <1>3, <2>2
  <2>3. CASE s[k + 1] = <<s[k][1], s[k][2] + 1>>
    <3>1. s[k + 1][1] = s[k][1] /\ s[k + 1][2] = s[k][2] + 1 /\ s[k][2] \in Nat /\ k \in Nat
      BY <1>1, <2>3
    <3>2. ASSUME NEW d \in 0..s[k + 1][2] - 1
          PROVE  s[(k + 1) - d] = <<s[k + 1][1], s[k + 1][2] - d>>
      <4>1. CASE d = 0
        <5>1. (k + 1) - d = k + 1 /\ s[k + 1][2] - d = s[k + 1][2]
          BY <3>1, <4>1
        <5>2. QED
          BY <1>1, <1>3, <5>1
      <4>2. CASE d # 0
        <5>1. PICK h \in 0..s[k][2] - 1 : d = h + 1
          <6>1. d - 1 \in 0..s[k][2] - 1 /\ d = (d - 1) + 1
            BY <3>1, <3>2, <4>2
          <6>2. QED
            BY <6>1
        <5>2. s[k - h] = <<s[k][1], s[k][2] - h>>
          BY <1>3
        <5>3. (k + 1) - d = k - h /\ s[k + 1][2] - d = s[k][2] - h
          BY <3>1, <5>1
        <5>4. QED
          BY <3>1, <5>2, <5>3
      <4>3. QED
        BY <4>1, <4>2
    <3>3. s[k + 1][2] <= k + 1
      BY <1>3, <3>1
    <3>4. QED
      BY <3>2, <3>3
  <2>4. QED
    BY <2>1, <2>2, <2>3 DEF Follows
<1>4. Len(s) # 0 => P(1)
  <2>1. Len(s) # 0 => 1 \in 1..Len(s)
    BY <1>1
  <2>2. QED
    BY <1>2, <2>1
<1> HIDE DEF P
<1>5. T = {}
  <2>1. ASSUME T # {} PROVE FALSE
    <3>1. T \subseteq Nat /\ \A k \in T : k \in 1..Len(s) /\ ~P(k)
      OBVIOUS
    <3> HIDE DEF T
    <3>2. PICK k \in T : \A i \in T : k <= i
      BY <2>1, <3>1, LeastNumber
    <3>3. k # 1
      BY <1>1, <1>4, <3>1, <3>2
    <3>4. PICK h \in 1..Len(s) : k = h + 1
      <4>1. k - 1 \in 1..Len(s) /\ k = (k - 1) + 1
        BY <1>1, <3>1, <3>3
      <4>2. QED
        BY <4>1
    <3>5. h \notin T
      BY <3>2, <3>4
    <3>6. P(h)
      BY <3>5 DEF T
    <3>7. P(k)
      BY <1>3, <3>1, <3>4, <3>6
    <3>8. QED
      BY <3>1, <3>7
  <2>2. QED
    BY <2>1
<1>6. QED
  BY <1>5 DEF Framed, P

\* Until a frame ends, the numbers of the frames do not rise.
LEMMA Descent ==
  ASSUME NEW s \in Seq(Bytes), Linked(s), NEW i \in 1..Len(s), NEW j \in 1..Len(s), i <= j,
         \A h \in 1..Len(s) : i <= h /\ h < j => ~IsClose(s[h])
  PROVE  s[j][1] <= s[i][1]
<1> DEFINE T == {k \in 1..Len(s) : i <= k /\ k <= j /\ ~(s[k][1] <= s[i][1])}
<1>1. Len(s) \in Nat /\ \A k \in 1..Len(s) : s[k][1] \in Nat
  BY BytesOf
<1>2. ASSUME T # {} PROVE FALSE
  <2>1. T \subseteq Nat /\ \A k \in T : k \in 1..Len(s) /\ i <= k /\ k <= j /\ ~(s[k][1] <= s[i][1])
    OBVIOUS
  <2> HIDE DEF T
  <2>2. PICK k \in T : \A h \in T : k <= h
    BY <1>2, <2>1, LeastNumber
  <2>3. k # i
    BY <1>1, <2>1
  <2>4. PICK h \in 1..Len(s) - 1 : k = h + 1 /\ h \in 1..Len(s) /\ i <= h /\ h < j
    <3>1. k - 1 \in 1..Len(s) - 1 /\ k - 1 \in 1..Len(s) /\ k = (k - 1) + 1 /\ i <= k - 1 /\ k - 1 < j
      BY <1>1, <2>1, <2>3
    <3>2. QED
      BY <3>1
  <2>5. s[h][1] <= s[i][1]
    <3>1. h \notin T
      BY <2>2, <2>4
    <3>2. h <= j
      BY <2>4
    <3>3. QED
      BY <2>4, <3>1, <3>2 DEF T
  <2>6. Follows(s[h], s[k]) /\ s[h][2] # FrameLen
    BY <2>4 DEF Linked, IsClose
  <2>7. s[k][1] <= s[h][1]
    <3>1. CASE s[k] = <<s[h][1], s[h][2] + 1>>
      <4>1. s[k][1] = s[h][1]
        BY <3>1
      <4>2. QED
        BY <1>1, <2>4, <4>1
    <3>2. CASE s[k][1] <= s[h][1] + (IF s[h][2] = FrameLen THEN 1 ELSE 0)
      BY <1>1, <2>4, <2>6, <3>2
    <3>3. QED
      BY <2>6, <3>1, <3>2 DEF Follows
  <2>8. QED
    BY <1>1, <2>1, <2>4, <2>5, <2>7
<1>3. QED
  BY <1>2

\* From the end of a frame to that of the next one the number rises by one at most.
LEMMA NextClose ==
  ASSUME NEW s \in Seq(Bytes), Linked(s), NEW i \in 1..Len(s), NEW j \in 1..Len(s), i < j,
         IsClose(s[i]), \A h \in 1..Len(s) : i < h /\ h < j => ~IsClose(s[h])
  PROVE  s[j][1] <= s[i][1] + 1 /\ (IsOpen(s[j]) => Follows(s[i], s[j]))
<1>1. Len(s) \in Nat /\ \A k \in 1..Len(s) : s[k][1] \in Nat
  BY BytesOf
<1>2. PICK h \in 1..Len(s) : h = i + 1 /\ i \in 1..Len(s) - 1 /\ h <= j
  <2>1. i + 1 \in 1..Len(s) /\ i \in 1..Len(s) - 1 /\ i + 1 <= j
    BY <1>1
  <2>2. QED
    BY <2>1
<1>3. s[j][1] <= s[h][1]
  <2>1. \A g \in 1..Len(s) : h <= g /\ g < j => ~IsClose(s[g])
    BY <1>2
  <2>2. QED
    BY <1>2, <2>1, Descent
<1>4. Follows(s[i], s[h]) /\ s[i][2] = FrameLen
  BY <1>2 DEF Linked, IsClose
<1>5. s[h][1] <= s[i][1] + 1
  BY <1>1, <1>4, SocketAssumption DEF Follows
<1>6. s[j][1] <= s[i][1] + 1
  BY <1>1, <1>3, <1>5
<1>7. QED
  BY <1>4, <1>6 DEF Follows, IsOpen

-----------------------------------------------------------------------------
(* Whole frames *)

\* The frame of m follows the first x bytes of s.
WholeAt(s, x, m) == x \in 0..Len(s) - FrameLen /\ \A p \in 1..FrameLen : s[x + p] = <<m, p>>

HasWhole(s, m) == \E x \in Nat : WholeAt(s, x, m)

LEMMA WholeIs ==
  ASSUME NEW s \in Seq(Bytes), NEW m \in 0..NumReports
  PROVE  HasWhole(s, m) <=> \E i \in 1..Len(s) - FrameLen + 1 : SubSeq(s, i, i + FrameLen - 1) = Frame(m)
<1>1. FrameLen \in Nat /\ FrameLen >= 3 /\ Len(s) \in Nat
  BY SocketAssumption, BytesOf
<1>2. /\ Frame(m) \in Seq(Bytes) /\ Len(Frame(m)) = FrameLen
      /\ \A p \in 1..FrameLen : Frame(m)[p] = <<m, p>>
  BY FrameBytes
<1>3. ASSUME NEW i \in 1..Len(s) - FrameLen + 1
      PROVE  /\ SubSeq(s, i, i + FrameLen - 1) \in Seq(Bytes)
             /\ Len(SubSeq(s, i, i + FrameLen - 1)) = FrameLen
             /\ \A p \in 1..FrameLen : SubSeq(s, i, i + FrameLen - 1)[p] = s[i + p - 1]
  <2>1. PICK j \in 0..Len(s) : j = i + FrameLen - 1 /\ i \in 1..Len(s) + 1 /\ i <= j + 1 /\ j - i + 1 = FrameLen
    <3>1. /\ i + FrameLen - 1 \in 0..Len(s) /\ i \in 1..Len(s) + 1 /\ i <= (i + FrameLen - 1) + 1
          /\ (i + FrameLen - 1) - i + 1 = FrameLen
      BY <1>1
    <3>2. QED
      BY <3>1
  <2>2. /\ SubSeq(s, i, j) \in Seq(Bytes) /\ Len(SubSeq(s, i, j)) = j - i + 1
        /\ \A p \in 1..j - i + 1 : SubSeq(s, i, j)[p] = s[i + p - 1]
    BY <2>1, PartAt
  <2>3. QED
    BY <2>1, <2>2
<1>4. ASSUME HasWhole(s, m)
      PROVE  \E i \in 1..Len(s) - FrameLen + 1 : SubSeq(s, i, i + FrameLen - 1) = Frame(m)
  <2>1. PICK x \in Nat : x \in 0..Len(s) - FrameLen /\ \A p \in 1..FrameLen : s[x + p] = <<m, p>>
    BY <1>4 DEF HasWhole, WholeAt
  <2>2. PICK i \in 1..Len(s) - FrameLen + 1 : i = x + 1 /\ \A p \in 1..FrameLen : i + p - 1 = x + p
    <3>1. x + 1 \in 1..Len(s) - FrameLen + 1 /\ \A p \in 1..FrameLen : (x + 1) + p - 1 = x + p
      BY <1>1, <2>1
    <3>2. QED
      BY <3>1
  <2>3. PICK t \in Seq(Bytes) : /\ t = SubSeq(s, i, i + FrameLen - 1) /\ Len(t) = FrameLen
                                /\ \A p \in 1..FrameLen : t[p] = s[i + p - 1]
    BY <1>3
  <2>4. \A p \in 1..FrameLen : t[p] = Frame(m)[p]
    BY <1>2, <2>1, <2>2, <2>3
  <2>5. t = Frame(m)
    BY <1>2, <2>3, <2>4, SeqEqual
  <2>6. QED
    BY <2>3, <2>5
<1>5. ASSUME NEW i \in 1..Len(s) - FrameLen + 1, SubSeq(s, i, i + FrameLen - 1) = Frame(m)
      PROVE  HasWhole(s, m)
  <2>1. PICK x \in Nat : /\ x \in 0..Len(s) - FrameLen
                         /\ \A p \in 1..FrameLen : i + p - 1 = x + p
    <3>1. i - 1 \in Nat /\ i - 1 \in 0..Len(s) - FrameLen /\ \A p \in 1..FrameLen : i + p - 1 = (i - 1) + p
      BY <1>1
    <3>2. QED
      BY <3>1
  <2>2. \A p \in 1..FrameLen : s[x + p] = Frame(m)[p]
    BY <1>3, <1>5, <2>1
  <2>3. QED
    BY <1>2, <2>1, <2>2 DEF HasWhole, WholeAt
<1>6. QED
  BY <1>4, <1>5

LEMMA WholeConcat ==
  ASSUME NEW s \in Seq(Bytes), NEW t \in Seq(Bytes), NEW m, HasWhole(s, m) \/ HasWhole(t, m)
  PROVE  HasWhole(s \o t, m)
<1> DEFINE u == s \o t
<1>1. /\ Len(u) = Len(s) + Len(t) /\ Len(s) \in Nat /\ Len(t) \in Nat
      /\ \A i \in 1..Len(s) : u[i] = s[i]
      /\ \A i \in 1..Len(t) : u[Len(s) + i] = t[i]
  BY ConcatAt
<1>2. FrameLen \in Nat
  BY SocketAssumption
<1> HIDE DEF u
<1>3. CASE HasWhole(s, m)
  <2>1. PICK x \in Nat : x \in 0..Len(s) - FrameLen /\ \A p \in 1..FrameLen : s[x + p] = <<m, p>>
    BY <1>3 DEF HasWhole, WholeAt
  <2>2. x \in 0..Len(u) - FrameLen /\ \A p \in 1..FrameLen : x + p \in 1..Len(s)
    BY <1>1, <1>2, <2>1
  <2>3. \A p \in 1..FrameLen : u[x + p] = <<m, p>>
    BY <1>1, <2>1, <2>2
  <2>4. QED
    BY <2>2, <2>3 DEF HasWhole, WholeAt, u
<1>4. CASE HasWhole(t, m)
  <2>1. PICK x \in Nat : x \in 0..Len(t) - FrameLen /\ \A p \in 1..FrameLen : t[x + p] = <<m, p>>
    BY <1>4 DEF HasWhole, WholeAt
  <2>2. PICK y \in Nat : /\ y = Len(s) + x /\ y \in 0..Len(u) - FrameLen
                         /\ \A p \in 1..FrameLen : x + p \in 1..Len(t) /\ y + p = Len(s) + (x + p)
    <3>1. /\ Len(s) + x \in Nat /\ Len(s) + x \in 0..Len(u) - FrameLen
          /\ \A p \in 1..FrameLen : x + p \in 1..Len(t) /\ (Len(s) + x) + p = Len(s) + (x + p)
      BY <1>1, <1>2, <2>1
    <3>2. QED
      BY <3>1
  <2>3. \A p \in 1..FrameLen : u[y + p] = <<m, p>>
    BY <1>1, <2>1, <2>2
  <2>4. QED
    BY <2>2, <2>3 DEF HasWhole, WholeAt, u
<1>5. QED
  BY <1>3, <1>4

\* The first c bytes of the frame of m end s and the others begin t.
Parted(s, t, m, c) ==
  /\ c <= Len(s) /\ FrameLen - c <= Len(t)
  /\ \A p \in 1..c : s[(Len(s) - c) + p] = <<m, p>>
  /\ \A p \in 1..FrameLen - c : t[p] = <<m, c + p>>

\* A whole frame in s \o t is in one of them, or begins in s and goes on in t.
LEMMA WholeSplit ==
  ASSUME NEW s \in Seq(Bytes), NEW t \in Seq(Bytes), NEW m, HasWhole(s \o t, m)
  PROVE  \/ HasWhole(s, m) \/ HasWhole(t, m)
         \/ \E c \in 1..FrameLen - 1 : Parted(s, t, m, c)
<1> DEFINE u == s \o t
<1>1. /\ Len(u) = Len(s) + Len(t) /\ Len(s) \in Nat /\ Len(t) \in Nat
      /\ \A i \in 1..Len(s) : u[i] = s[i]
      /\ \A i \in 1..Len(t) : u[Len(s) + i] = t[i]
  BY ConcatAt
<1>2. FrameLen \in Nat
  BY SocketAssumption
<1>3. PICK x \in Nat : x \in 0..Len(u) - FrameLen /\ \A p \in 1..FrameLen : u[x + p] = <<m, p>>
  BY DEF HasWhole, WholeAt
<1> HIDE DEF u
<1>4. CASE x + FrameLen <= Len(s)
  <2>1. x \in 0..Len(s) - FrameLen /\ \A p \in 1..FrameLen : x + p \in 1..Len(s)
    BY <1>1, <1>2, <1>4
  <2>2. \A p \in 1..FrameLen : s[x + p] = <<m, p>>
    BY <1>1, <1>3, <2>1
  <2>3. QED
    BY <2>1, <2>2 DEF HasWhole, WholeAt
<1>5. CASE Len(s) <= x
  <2>1. PICK y \in Nat : /\ y \in 0..Len(t) - FrameLen
                         /\ \A p \in 1..FrameLen : y + p \in 1..Len(t) /\ Len(s) + (y + p) = x + p
    <3>1. /\ x - Len(s) \in Nat /\ x - Len(s) \in 0..Len(t) - FrameLen
          /\ \A p \in 1..FrameLen : (x - Len(s)) + p \in 1..Len(t) /\ Len(s) + ((x - Len(s)) + p) = x + p
      BY <1>1, <1>2, <1>3, <1>5
    <3>2. QED
      BY <3>1
  <2>2. \A p \in 1..FrameLen : t[y + p] = <<m, p>>
    BY <1>1, <1>3, <2>1
  <2>3. QED
    BY <2>1, <2>2 DEF HasWhole, WholeAt
<1>6. CASE x < Len(s) /\ Len(s) < x + FrameLen
  <2>1. PICK c \in 1..FrameLen - 1 : x = Len(s) - c /\ c <= Len(s) /\ FrameLen - c <= Len(t)
    <3>1. /\ Len(s) - x \in 1..FrameLen - 1 /\ x = Len(s) - (Len(s) - x) /\ Len(s) - x <= Len(s)
          /\ FrameLen - (Len(s) - x) <= Len(t)
      BY <1>1, <1>2, <1>3, <1>6
    <3>2. QED
      BY <3>1
  <2>2. ASSUME NEW p \in 1..c PROVE s[(Len(s) - c) + p] = <<m, p>>
    <3>1. p \in 1..FrameLen /\ x + p \in 1..Len(s)
      BY <1>1, <1>2, <2>1
    <3>2. u[x + p] = <<m, p>> /\ u[x + p] = s[x + p]
      BY <1>1, <1>3, <3>1
    <3>3. QED
      BY <2>1, <3>2
  <2>3. ASSUME NEW p \in 1..FrameLen - c PROVE t[p] = <<m, c + p>>
    <3>1. c + p \in 1..FrameLen /\ p \in 1..Len(t) /\ x + (c + p) = Len(s) + p
      BY <1>1, <1>2, <2>1
    <3>2. u[x + (c + p)] = <<m, c + p>> /\ u[Len(s) + p] = t[p]
      BY <1>1, <1>3, <3>1
    <3>3. QED
      BY <3>1, <3>2
  <2>4. QED
    BY <2>1, <2>2, <2>3 DEF Parted
<1>7. x + FrameLen <= Len(s) \/ Len(s) <= x \/ (x < Len(s) /\ Len(s) < x + FrameLen)
  BY <1>1, <1>2
<1>8. QED
  BY <1>4, <1>5, <1>6, <1>7, Zenon

\* Between the parts of a frame nothing is lost when they come together again.
LEMMA WholeJoined ==
  ASSUME NEW s \in Seq(Bytes), NEW t \in Seq(Bytes), NEW m, NEW c \in 1..FrameLen - 1,
         Len(s) = c, Parted(s, t, m, c)
  PROVE  HasWhole(s \o t, m)
<1> DEFINE u == s \o t
<1>0. /\ FrameLen - c <= Len(t)
      /\ \A p \in 1..c : (Len(s) - c) + p = p /\ s[(Len(s) - c) + p] = <<m, p>>
      /\ \A p \in 1..FrameLen - c : t[p] = <<m, c + p>>
  BY SocketAssumption DEF Parted
<1>1. /\ Len(u) = Len(s) + Len(t) /\ Len(s) \in Nat /\ Len(t) \in Nat
      /\ \A i \in 1..Len(s) : u[i] = s[i]
      /\ \A i \in 1..Len(t) : u[Len(s) + i] = t[i]
  BY ONLY s \in Seq(Bytes), t \in Seq(Bytes), ConcatAt
<1>2. FrameLen \in Nat /\ c \in Nat
  BY SocketAssumption
<1> HIDE DEF u
<1>3. ASSUME NEW p \in 1..FrameLen PROVE u[0 + p] = <<m, p>>
  <2>1. CASE p <= c
    <3>1. p \in 1..c /\ p \in 1..Len(s) /\ 0 + p = p
      BY <1>0, <1>1, <1>2, <2>1
    <3>2. QED
      BY <1>0, <1>1, <3>1
  <2>2. CASE c < p
    <3>1. PICK q \in 1..FrameLen - c : q \in 1..Len(t) /\ 0 + p = Len(s) + q /\ p = c + q
      <4>1. /\ p - c \in 1..FrameLen - c /\ p - c \in 1..Len(t) /\ 0 + p = Len(s) + (p - c)
            /\ p = c + (p - c)
        BY <1>0, <1>1, <1>2, <2>2
      <4>2. QED
        BY <4>1
    <3>2. QED
      BY <1>0, <1>1, <3>1
  <2>3. QED
    BY <1>2, <2>1, <2>2
<1>4. 0 \in 0..Len(u) - FrameLen
  BY <1>0, <1>1, <1>2
<1>5. QED
  BY <1>3, <1>4 DEF HasWhole, WholeAt, u

-----------------------------------------------------------------------------
(* The parser *)

LEMMA BodyBytes ==
  ASSUME NEW m \in 0..NumReports
  PROVE  /\ Body(m) \in Seq(Bytes) /\ Len(Body(m)) = FrameLen - 2
         /\ \A i \in 1..FrameLen - 2 : Body(m)[i] = <<m, i + 1>>
         /\ Body(m)[1][1] = m
<1>1. FrameLen \in Nat /\ FrameLen >= 3
  BY SocketAssumption
<1>2. /\ Frame(m) \in Seq(Bytes) /\ Len(Frame(m)) = FrameLen
      /\ \A p \in 1..FrameLen : Frame(m)[p] = <<m, p>>
  BY FrameBytes
<1>3. 2 \in 1..Len(Frame(m)) + 1 /\ FrameLen - 1 \in 0..Len(Frame(m)) /\ 2 <= (FrameLen - 1) + 1
  BY <1>1, <1>2
<1>4. /\ Body(m) \in Seq(Bytes) /\ Len(Body(m)) = (FrameLen - 1) - 2 + 1
      /\ \A i \in 1..(FrameLen - 1) - 2 + 1 : Body(m)[i] = Frame(m)[2 + i - 1]
  BY <1>2, <1>3, PartAt DEF Body
<1>5. ASSUME NEW i \in 1..FrameLen - 2 PROVE Body(m)[i] = <<m, i + 1>>
  <2>1. i \in 1..(FrameLen - 1) - 2 + 1 /\ 2 + i - 1 = i + 1 /\ i + 1 \in 1..FrameLen
    BY <1>1
  <2>2. Body(m)[i] = Frame(m)[i + 1]
    BY <1>4, <2>1
  <2>3. QED
    BY <1>2, <2>1, <2>2
<1>6. (FrameLen - 1) - 2 + 1 = FrameLen - 2 /\ 1 \in 1..FrameLen - 2
  BY <1>1
<1>7. Body(m)[1] = <<m, 1 + 1>>
  BY <1>5, <1>6
<1>8. QED
  BY <1>4, <1>5, <1>6, <1>7

\* The text that the parser takes out at j when a frame ends there.
Text(s, j) == IF LastOpen(s, j) = 0 THEN <<>> ELSE SubSeq(s, LastOpen(s, j) + 1, j - 1)

LEMMA OpensCloses ==
  ASSUME NEW s \in Seq(Bytes)
  PROVE  /\ Opens(s) \subseteq 1..Len(s) /\ Closes(s) \subseteq 1..Len(s) /\ Len(s) \in Nat
         /\ \A j \in 1..Len(s) : /\ j \in Opens(s) <=> s[j][2] = 1
                                 /\ j \in Closes(s) <=> s[j][2] = FrameLen
         /\ Opens(s) \cap Closes(s) = {}
         /\ Opens(s) # {} => Max(Opens(s)) \in Opens(s) /\ \A j \in Opens(s) : j <= Max(Opens(s))
         /\ Closes(s) # {} => Max(Closes(s)) \in Closes(s) /\ \A j \in Closes(s) : j <= Max(Closes(s))
<1>1. Len(s) \in Nat /\ DOMAIN s = 1..Len(s)
  BY BytesOf
<1>2. Opens(s) \subseteq 1..Len(s) /\ Closes(s) \subseteq 1..Len(s)
  BY <1>1 DEF Opens, Closes
<1>3. \A j \in 1..Len(s) : /\ j \in Opens(s) <=> s[j][2] = 1
                           /\ j \in Closes(s) <=> s[j][2] = FrameLen
  BY <1>1 DEF Opens, Closes, IsOpen, IsClose
<1>4. Opens(s) \cap Closes(s) = {}
  BY <1>2, <1>3, SocketAssumption
<1>5. Opens(s) \subseteq 0..Len(s) /\ Closes(s) \subseteq 0..Len(s)
  BY <1>1, <1>2
<1>6. QED
  BY <1>1, <1>2, <1>3, <1>4, <1>5, MaxExists

\* What the parser takes out is a text of the buffer.
LEMMA ParsedIs ==
  ASSUME NEW s \in Seq(Bytes)
  PROVE  LET C == Closes(s) IN
           /\ Cardinality(C) \in Nat /\ (Cardinality(C) = 0 <=> C = {})
           /\ Parsed(s) \in Seq(Seq(Bytes)) /\ Len(Parsed(s)) = Cardinality(C)
           /\ \A n \in 1..Cardinality(C) : Nth(C, n) \in C /\ Parsed(s)[n] = Text(s, Nth(C, n))
<1> DEFINE C == Closes(s)
<1>1. Len(s) \in Nat /\ C \subseteq 1..Len(s)
  BY OpensCloses
<1> HIDE DEF C
<1>2. Cardinality(C) \in Nat /\ (Cardinality(C) = 0 <=> C = {})
  BY <1>1, PartFinite
<1>3. \A n \in 1..Cardinality(C) : Nth(C, n) \in C
  BY <1>1, NthExists
<1>4. Parsed(s) = [n \in 1..Cardinality(C) |-> Text(s, Nth(C, n))]
  BY DEF Parsed, Text, C
<1>5. ASSUME NEW j \in C PROVE Text(s, j) \in Seq(Bytes)
  <2> DEFINE T == {i \in 1..j : IsOpen(s[i])} \cup {0}
  <2>1. j \in Nat /\ j \in 1..Len(s)
    BY <1>1
  <2>2. T \subseteq 0..j /\ T # {} /\ LastOpen(s, j) = Max(T)
    BY <2>1 DEF LastOpen
  <2>3. Max(T) \in T
    <3> HIDE DEF T
    <3>1. QED
      BY <2>1, <2>2, MaxExists
  <2>4. CASE LastOpen(s, j) = 0
    BY <2>4, EmptySeq DEF Text
  <2>5. CASE LastOpen(s, j) # 0
    <3>1. PICK l \in 1..j : l = LastOpen(s, j) /\ IsOpen(s[l])
      BY <2>2, <2>3, <2>5
    <3>2. l # j
      BY <2>1, <3>1, SocketAssumption DEF C, Closes, IsClose, IsOpen
    <3>3. l + 1 \in 1..Len(s) + 1 /\ j - 1 \in 0..Len(s) /\ l + 1 <= (j - 1) + 1
      BY <1>1, <2>1, <3>2
    <3>4. SubSeq(s, l + 1, j - 1) \in Seq(Bytes)
      BY <3>3, PartAt
    <3>5. QED
      BY <2>5, <3>1, <3>4 DEF Text
  <2>6. QED
    BY <2>4, <2>5
<1>6. Parsed(s) \in Seq(Seq(Bytes)) /\ Len(Parsed(s)) = Cardinality(C)
  <2>1. Parsed(s) \in [1..Cardinality(C) -> Seq(Bytes)]
    BY <1>3, <1>4, <1>5
  <2>2. QED
    BY <1>2, <2>1
<1>7. QED
  BY <1>2, <1>3, <1>4, <1>6 DEF C

\* From a whole frame the parser takes out its body.
LEMMA TextOfWhole ==
  ASSUME NEW s \in Seq(Bytes), NEW m \in 0..NumReports, NEW x \in Nat, WholeAt(s, x, m)
  PROVE  x + FrameLen \in Closes(s) /\ Text(s, x + FrameLen) = Body(m)
<1>1. FrameLen \in Nat /\ FrameLen >= 3 /\ Len(s) \in Nat
  BY SocketAssumption, BytesOf
<1>2. x \in 0..Len(s) - FrameLen /\ \A p \in 1..FrameLen : s[x + p] = <<m, p>>
  BY DEF WholeAt
<1>3. PICK j \in 1..Len(s) : /\ j = x + FrameLen /\ x + 1 \in 1..j
                             /\ \A i \in x + 1..j : i - x \in 1..FrameLen /\ x + (i - x) = i
  <2>1. /\ x + FrameLen \in 1..Len(s) /\ x + 1 \in 1..x + FrameLen
        /\ \A i \in x + 1..x + FrameLen : i - x \in 1..FrameLen /\ x + (i - x) = i
    BY <1>1, <1>2
  <2>2. QED
    BY <2>1
<1>4. \A i \in x + 1..j : s[i] = <<m, i - x>>
  BY <1>2, <1>3
<1>5. j \in Closes(s)
  <2>1. FrameLen \in 1..FrameLen
    BY <1>1
  <2>2. s[j] = <<m, FrameLen>>
    BY <1>2, <1>3, <2>1
  <2>3. QED
    BY <2>2, OpensCloses
<1>6. LastOpen(s, j) = x + 1
  <2> DEFINE T == {i \in 1..j : IsOpen(s[i])} \cup {0}
  <2>1. s[x + 1] = <<m, 1>>
    BY <1>1, <1>2
  <2>2. x + 1 \in T /\ T \subseteq Nat
    BY <1>3, <2>1 DEF IsOpen
  <2>3. ASSUME NEW i \in T PROVE i <= x + 1
    <3>1. ASSUME ~(i <= x + 1) PROVE FALSE
      <4>1. i \in x + 1..j /\ IsOpen(s[i])
        BY <3>1
      <4>2. i - x = 1
        BY <1>4, <4>1 DEF IsOpen
      <4>3. QED
        BY <3>1, <4>1, <4>2
    <3>2. QED
      BY <3>1
  <2> HIDE DEF T
  <2>4. Max(T) = x + 1
    BY <2>2, <2>3, MaxIs
  <2>5. QED
    BY <2>4 DEF LastOpen, T
<1>7. /\ x + 2 \in 1..Len(s) + 1 /\ j - 1 \in 0..Len(s) /\ x + 2 <= (j - 1) + 1
      /\ (j - 1) - (x + 2) + 1 = FrameLen - 2
  BY <1>1, <1>2, <1>3
<1>8. PICK t \in Seq(Bytes) : /\ t = SubSeq(s, x + 2, j - 1) /\ Len(t) = FrameLen - 2
                              /\ \A i \in 1..FrameLen - 2 : t[i] = s[(x + 2) + i - 1]
  <2>1. /\ SubSeq(s, x + 2, j - 1) \in Seq(Bytes)
        /\ Len(SubSeq(s, x + 2, j - 1)) = (j - 1) - (x + 2) + 1
        /\ \A i \in 1..(j - 1) - (x + 2) + 1 : SubSeq(s, x + 2, j - 1)[i] = s[(x + 2) + i - 1]
    BY <1>7, PartAt
  <2>2. QED
    BY <1>7, <2>1
<1>9. ASSUME NEW i \in 1..FrameLen - 2 PROVE t[i] = <<m, i + 1>>
  <2>1. i + 1 \in 1..FrameLen /\ (x + 2) + i - 1 = x + (i + 1)
    BY <1>1
  <2>2. QED
    BY <1>2, <1>8, <2>1
<1>10. t = Body(m)
  <2>1. /\ Body(m) \in Seq(Bytes) /\ Len(Body(m)) = FrameLen - 2
        /\ \A i \in 1..FrameLen - 2 : Body(m)[i] = <<m, i + 1>>
    BY BodyBytes
  <2>2. \A i \in 1..Len(t) : t[i] = Body(m)[i]
    BY <1>8, <1>9, <2>1
  <2>3. QED
    BY <1>8, <2>1, <2>2, SeqEqual
<1>11. LastOpen(s, j) # 0 /\ LastOpen(s, j) + 1 = x + 2
  BY <1>6
<1>12. QED
  BY <1>3, <1>5, <1>8, <1>10, <1>11 DEF Text

LEMMA ParsedWhole ==
  ASSUME NEW s \in Seq(Bytes), NEW m \in 0..NumReports, HasWhole(s, m)
  PROVE  \E n \in 1..Len(Parsed(s)) : Parsed(s)[n] = Body(m)
<1>1. PICK x \in Nat : WholeAt(s, x, m)
  BY DEF HasWhole
<1>2. PICK j \in Closes(s) : Text(s, j) = Body(m)
  BY <1>1, TextOfWhole
<1>3. PICK n \in 1..Cardinality(Closes(s)) : Nth(Closes(s), n) = j
  <2>1. Closes(s) \subseteq 1..Len(s) /\ Len(s) \in Nat
    BY OpensCloses
  <2>2. QED
    BY <2>1, NthOnto
<1>4. QED
  BY <1>2, <1>3, ParsedIs

\* In framed bytes the frame that ends at j is whole.
LEMMA FrameOf ==
  ASSUME NEW s \in Seq(Bytes), Framed(s), NEW j \in 1..Len(s)
  PROVE  /\ j - s[j][2] + 1 \in 1..j /\ s[j - s[j][2] + 1][2] = 1
         /\ \A i \in j - s[j][2] + 1..j : s[i] = <<s[j][1], i - (j - s[j][2])>>
<1>1. PICK q \in Nat : q = s[j][2] /\ 1 <= q /\ q <= j
  BY BytesOf DEF Framed
<1>2. j \in Nat /\ \A d \in 0..q - 1 : s[j - d] = <<s[j][1], q - d>>
  BY <1>1 DEF Framed
<1>3. ASSUME NEW i \in j - q + 1..j PROVE s[i] = <<s[j][1], i - (j - q)>>
  <2>1. PICK d \in 0..q - 1 : j - d = i /\ q - d = i - (j - q)
    <3>0. j \in Nat /\ q \in Nat
      BY <1>1, <1>2
    <3>1. j - i \in 0..q - 1 /\ j - (j - i) = i /\ q - (j - i) = i - (j - q)
      BY ONLY <3>0, i \in j - q + 1..j
    <3>2. QED
      BY <3>1
  <2>2. QED
    BY <1>2, <2>1
<1>4. j - q + 1 \in 1..j /\ j - q + 1 \in j - q + 1..j /\ (j - q + 1) - (j - q) = 1
  BY <1>1, <1>2
<1>5. s[j - q + 1] = <<s[j][1], 1>>
  BY <1>3, <1>4
<1>6. s[j - q + 1][2] = 1
  BY <1>5
<1>7. QED
  BY <1>1, <1>3, <1>4, <1>6, Zenon

LEMMA TextOf ==
  ASSUME NEW s \in Seq(Bytes), Framed(s), NEW j \in Closes(s)
  PROVE  Text(s, j) = Body(s[j][1])
<1>1. /\ FrameLen \in Nat /\ Len(s) \in Nat /\ j \in 1..Len(s) /\ s[j][2] = FrameLen
      /\ s[j][1] \in 0..NumReports
  BY SocketAssumption, OpensCloses, BytesOf
<1>2. /\ j - FrameLen + 1 \in 1..j
      /\ \A i \in j - FrameLen + 1..j : s[i] = <<s[j][1], i - (j - FrameLen)>>
  BY <1>1, FrameOf
<1>3. PICK x \in Nat : /\ x = j - FrameLen /\ x \in 0..Len(s) - FrameLen /\ x + FrameLen = j
                       /\ \A p \in 1..FrameLen : x + p \in j - FrameLen + 1..j /\ (x + p) - x = p
  <2>1. /\ j - FrameLen \in Nat /\ j - FrameLen \in 0..Len(s) - FrameLen /\ (j - FrameLen) + FrameLen = j
        /\ \A p \in 1..FrameLen : /\ (j - FrameLen) + p \in j - FrameLen + 1..j
                                  /\ ((j - FrameLen) + p) - (j - FrameLen) = p
    BY <1>1, <1>2
  <2>2. QED
    BY <2>1
<1>4. WholeAt(s, x, s[j][1])
  BY <1>2, <1>3 DEF WholeAt
<1>5. QED
  BY <1>1, <1>3, <1>4, TextOfWhole

\* What the parser keeps is bytes, whatever the indices hold.
LEMMA KeptType ==
  ASSUME NEW s \in Seq(Bytes), NEW start \in StartIndex(s), NEW end \in EndIndex(s)
  PROVE  Kept(s, start, end) \in Seq(Bytes)
<1>1. Len(s) \in Nat
  BY OpensCloses
<1>2. Open \in Bytes
  BY SocketAssumption, ReportAssumption DEF Open, Bytes
<1>3. start \in 0..Len(s)
  <2>1. CASE Opens(s) = {}
    BY <2>1 DEF StartIndex
  <2>2. CASE Opens(s) # {}
    <3>1. start \in 1..Len(s)
      BY <2>2, OpensCloses DEF StartIndex
    <3>2. QED
      BY <1>1, <3>1
  <2>3. QED
    BY <2>1, <2>2
<1>4. CASE end >= start
  BY <1>4, EmptySeq DEF Kept
<1>5. CASE ~(end >= start) /\ start = 0
  <2>1. PICK l \in Nat : l = Len(s) + 1
    BY <1>1
  <2>2. [i \in 1..l |-> Open] \in Seq(Bytes)
    BY <1>2
  <2>3. Kept(s, start, end) = [i \in 1..l |-> Open]
    BY <1>5, <2>1 DEF Kept
  <2>4. QED
    BY <2>2, <2>3
<1>6. CASE ~(end >= start) /\ start # 0
  <2>1. PICK b \in Bytes : b = IF IsOpen(s[start]) THEN s[start] ELSE Open
    <3>1. s[start] \in Bytes
      <4>1. start \in 1..Len(s)
        BY <1>1, <1>3, <1>6
      <4>2. QED
        BY <4>1, BytesOf
    <3>2. QED
      BY <1>2, <3>1
  <2>2. SubSeq(s, start + 1, Len(s)) \in Seq(Bytes)
    <3>1. /\ start + 1 \in 1..Len(s) + 1 /\ Len(s) \in 0..Len(s) /\ start + 1 <= Len(s) + 1
      BY <1>1, <1>3
    <3>2. QED
      BY <3>1, PartAt
  <2>3. <<b>> \in Seq(Bytes)
    OBVIOUS
  <2>4. <<b>> \o SubSeq(s, start + 1, Len(s)) \in Seq(Bytes)
    BY <2>2, <2>3, ConcatProperties
  <2>5. Kept(s, start, end) = <<b>> \o SubSeq(s, start + 1, Len(s))
    BY <1>6, <2>1 DEF Kept
  <2>6. QED
    BY <2>4, <2>5
<1>7. QED
  BY <1>4, <1>5, <1>6

\* With its indices set it keeps the buffer from the last '(' on, unless a ')' is after it.
LEMMA KeptDefined ==
  ASSUME NEW s \in Seq(Bytes), Defined(s), NEW start \in StartIndex(s), NEW end \in EndIndex(s)
  PROVE  Kept(s, start, end) = IF Max(Closes(s)) > Max(Opens(s)) THEN <<>>
                               ELSE SubSeq(s, Max(Opens(s)), Len(s))
<1>1. Opens(s) # {} /\ Closes(s) # {}
  BY DEF Defined
<1>2. start = Max(Opens(s)) /\ end = Max(Closes(s)) - 1
  BY <1>1 DEF StartIndex, EndIndex
<1>3. /\ start \in 1..Len(s) /\ start \in Opens(s) /\ Len(s) \in Nat
      /\ Max(Closes(s)) \in Nat
  BY <1>1, <1>2, OpensCloses
<1>4. end >= start <=> Max(Closes(s)) > Max(Opens(s))
  BY <1>2, <1>3
<1>5. ASSUME ~(end >= start) PROVE Kept(s, start, end) = SubSeq(s, start, Len(s))
  <2>1. IsOpen(s[start]) /\ start # 0
    BY <1>3, OpensCloses DEF IsOpen
  <2>2. Kept(s, start, end) = <<s[start]>> \o SubSeq(s, start + 1, Len(s))
    BY <1>5, <2>1 DEF Kept
  <2>3. Len(s) \in start..Len(s)
    BY <1>3
  <2>4. SubSeq(s, start, Len(s)) = <<s[start]>> \o SubSeq(s, start + 1, Len(s))
    BY <1>3, <2>3, SubSeqRecursiveFirst
  <2>5. QED
    BY <2>2, <2>4
<1>6. end >= start => Kept(s, start, end) = <<>>
  BY DEF Kept
<1>7. QED
  BY <1>2, <1>4, <1>5, <1>6

\* What is kept then of framed, linked bytes begins after the last ')', is less than
\* a frame, and is not empty unless that ')' was the last byte.
KeptFrom(s, kept, e, m) ==
  /\ e \in 1..Len(s) /\ IsClose(s[e]) /\ e = Max(Closes(s))
  /\ m \in e + 1..Len(s) + 1 /\ \A h \in 1..Len(s) : e < h => ~IsClose(s[h])
  /\ kept = SubSeq(s, m, Len(s)) /\ Len(s) - m + 1 < FrameLen
  /\ IF m = Len(s) + 1 THEN e = Len(s) ELSE s[m][2] = 1

LEMMA KeptOf ==
  ASSUME NEW s \in Seq(Bytes), Defined(s), Framed(s), Linked(s),
         NEW start \in StartIndex(s), NEW end \in EndIndex(s)
  PROVE  \E e, m : KeptFrom(s, Kept(s, start, end), e, m)
<1>1. /\ Len(s) \in Nat /\ FrameLen \in Nat /\ FrameLen >= 3
      /\ \A k \in 1..Len(s) : s[k][2] \in Nat /\ 1 <= s[k][2] /\ s[k][2] <= FrameLen
  BY SocketAssumption, BytesOf
<1>2. PICK e \in 1..Len(s) :
        /\ e = Max(Closes(s)) /\ IsClose(s[e]) /\ \A h \in 1..Len(s) : e < h => ~IsClose(s[h])
  <2>1. /\ Max(Closes(s)) \in 1..Len(s) /\ Max(Closes(s)) \in Closes(s)
        /\ \A h \in Closes(s) : h <= Max(Closes(s))
    BY OpensCloses DEF Defined
  <2>2. \A h \in 1..Len(s) : Max(Closes(s)) < h => h \notin Closes(s)
    BY <2>1
  <2>3. QED
    BY <2>1, <2>2, OpensCloses DEF IsClose
<1>3. PICK o \in 1..Len(s) : /\ o = Max(Opens(s)) /\ s[o][2] = 1
                             /\ \A h \in 1..Len(s) : o < h => s[h][2] # 1
  <2>1. /\ Max(Opens(s)) \in 1..Len(s) /\ Max(Opens(s)) \in Opens(s)
        /\ \A h \in Opens(s) : h <= Max(Opens(s))
    BY OpensCloses DEF Defined
  <2>2. \A h \in 1..Len(s) : Max(Opens(s)) < h => h \notin Opens(s)
    BY <2>1
  <2>3. QED
    BY <2>1, <2>2, OpensCloses
<1>4. Kept(s, start, end) = IF e > o THEN <<>> ELSE SubSeq(s, o, Len(s))
  BY <1>2, <1>3, KeptDefined
<1>5. e # o
  BY <1>1, <1>2, <1>3 DEF IsClose
<1>6. ASSUME e < Len(s) PROVE e < o
  <2>1. e \in 1..Len(s) - 1 /\ e + 1 \in 1..Len(s)
    BY <1>1, <1>6
  <2>2. Follows(s[e], s[e + 1]) /\ s[e][2] = FrameLen
    BY <1>2, <2>1 DEF Linked, IsClose
  <2>3. s[e + 1][2] = 1
    BY <1>1, <2>2 DEF Follows
  <2>4. ~(o < e + 1)
    BY <1>3, <2>1, <2>3
  <2>5. QED
    BY <1>1, <2>1, <2>4
<1>7. CASE e = Len(s)
  <2>1. e > o /\ Kept(s, start, end) = <<>>
    BY <1>1, <1>4, <1>5, <1>7
  <2>2. PICK m \in Nat : m = Len(s) + 1 /\ m \in e + 1..Len(s) + 1 /\ Len(s) - m + 1 < FrameLen
    <3>1. Len(s) + 1 \in Nat /\ Len(s) + 1 \in e + 1..Len(s) + 1 /\ Len(s) - (Len(s) + 1) + 1 < FrameLen
      BY <1>1, <1>7
    <3>2. QED
      BY <3>1
  <2>3. SubSeq(s, m, Len(s)) = <<>>
    BY <1>1, <2>2, SubSeqEmpty
  <2>4. QED
    BY <1>2, <1>7, <2>1, <2>2, <2>3 DEF KeptFrom
<1>8. CASE e # Len(s)
  <2>1. e < o /\ Kept(s, start, end) = SubSeq(s, o, Len(s))
    BY <1>1, <1>4, <1>6, <1>8
  <2>2. PICK l \in 1..Len(s) : l = Len(s)
    BY <1>1, <1>2
  <2>3. /\ l - s[l][2] + 1 \in 1..l /\ s[l - s[l][2] + 1][2] = 1
        /\ \A i \in l - s[l][2] + 1..l : s[i] = <<s[l][1], i - (l - s[l][2])>>
    BY FrameOf
  <2>4. s[l][2] \in Nat /\ 1 <= s[l][2] /\ s[l][2] < FrameLen
    <3>1. ~IsClose(s[l])
      BY <1>1, <1>2, <1>8, <2>2
    <3>2. QED
      BY <1>1, <3>1 DEF IsClose
  <2>5. l - s[l][2] + 1 = o
    <3>1. ~(o < l - s[l][2] + 1)
      BY <1>3, <2>2, <2>3
    <3>2. ~(l - s[l][2] + 1 < o)
      <4>1. ASSUME l - s[l][2] + 1 < o PROVE FALSE
        <5>1. o \in l - s[l][2] + 1..l
          BY <1>1, <2>2, <2>4, <4>1
        <5>2. s[o] = <<s[l][1], o - (l - s[l][2])>>
          BY <2>3, <5>1
        <5>3. o - (l - s[l][2]) = 1
          BY <1>3, <5>2
        <5>4. QED
          BY <1>1, <2>2, <2>4, <4>1, <5>3
      <4>2. QED
        BY <4>1
    <3>3. QED
      BY <1>1, <2>2, <2>4, <3>1, <3>2
  <2>6. Len(s) - o + 1 < FrameLen
    BY <1>1, <2>2, <2>4, <2>5
  <2>7. o \in e + 1..Len(s) + 1 /\ o # Len(s) + 1
    BY <1>1, <2>1
  <2>8. QED
    BY <1>2, <1>3, <2>1, <2>6, <2>7 DEF KeptFrom
<1>9. QED
  BY <1>7, <1>8

-----------------------------------------------------------------------------
(* The inductive invariant *)

Coming   == tmprecv \o stream
LastDone == IF flowsFinishedInfo = <<>> THEN 0 ELSE flowsFinishedInfo[Len(flowsFinishedInfo)][1][1]
Line     == << <<LastDone, FrameLen>> >> \o Coming

\* TypeOK but for the size of what the parser keeps.
TypeInv ==
  /\ m_sendBuf \in Seq(Bytes) /\ Len(m_sendBuf) <= MAX_SEND_BUFFER_SIZE
  /\ stream \in Seq(Bytes) /\ Len(stream) <= KernelCap
  /\ accepted \in Seq(1..NumReports)
  /\ tmprecv \in Seq(Bytes)
  /\ flowsFinishedInfo \in Seq(Seq(Bytes))
  /\ exposed \in SUBSET (0..NumReports)
  /\ crashed \in BOOLEAN

\* Reports are accepted in the order they are sent.
AcceptedInv ==
  Len(accepted) <= NumReports /\ \A i \in 1..Len(accepted) : accepted[i] = i

\* The frames of reports up to the n-th, the first one of them sent again as a whole.
Sendable(buf, n) ==
  /\ Linked(buf) /\ Len(buf) # 0 /\ buf[1][2] = 1 /\ buf[1][1] >= 1
  /\ \A i \in 1..Len(buf) : buf[1][1] <= buf[i][1] /\ buf[i][1] <= n
  /\ buf[Len(buf)] = <<n, FrameLen>>

SendInv == m_sendBuf = <<>> \/ Sendable(m_sendBuf, Len(accepted))

\* The parser is in step with the frames: from the last report it parsed to the last
\* accepted one no report is left out.
StepInv ==
  /\ ~crashed /\ Len(tmprecv) < FrameLen
  /\ \A i \in 1..Len(Coming) : Coming[i][1] \in 1..Len(accepted)
  /\ \A i \in 1..Len(flowsFinishedInfo) : \E m \in 1..Len(accepted) : flowsFinishedInfo[i] = Body(m)
  /\ Linked(Line)
  /\ IF m_sendBuf = <<>> THEN Line[Len(Line)] = <<Len(accepted), FrameLen>>
                         ELSE Follows(Line[Len(Line)], m_sendBuf[1])

Inv == TypeInv /\ AcceptedInv /\ SendInv /\ (exposed = {} => StepInv)

LEMMA TypesOf ==
  ASSUME TypeInv
  PROVE  /\ tmprecv \in Seq(Bytes) /\ stream \in Seq(Bytes) /\ m_sendBuf \in Seq(Bytes)
         /\ Coming \in Seq(Bytes) /\ accepted \in Seq(1..NumReports)
         /\ flowsFinishedInfo \in Seq(Seq(Bytes))
         /\ Len(tmprecv) \in Nat /\ Len(stream) \in Nat /\ Len(m_sendBuf) \in Nat
         /\ Len(Coming) \in Nat /\ Len(Coming) = Len(tmprecv) + Len(stream)
         /\ Len(accepted) \in Nat /\ Len(flowsFinishedInfo) \in Nat
<1>1. /\ tmprecv \in Seq(Bytes) /\ stream \in Seq(Bytes) /\ m_sendBuf \in Seq(Bytes)
      /\ accepted \in Seq(1..NumReports) /\ flowsFinishedInfo \in Seq(Seq(Bytes))
  BY DEF TypeInv
<1>2. Coming \in Seq(Bytes) /\ Len(Coming) = Len(tmprecv) + Len(stream)
  BY <1>1, ConcatProperties DEF Coming
<1>3. /\ Len(tmprecv) \in Nat /\ Len(stream) \in Nat /\ Len(m_sendBuf) \in Nat
      /\ Len(Coming) \in Nat /\ Len(accepted) \in Nat /\ Len(flowsFinishedInfo) \in Nat
  BY <1>1, <1>2, LenProperties
<1>4. QED
  BY <1>1, <1>2, <1>3

LEMMA LineAt ==
  ASSUME NEW v \in Bytes, NEW s \in Seq(Bytes)
  PROVE  /\ <<v>> \o s \in Seq(Bytes) /\ Len(s) \in Nat /\ Len(<<v>> \o s) = 1 + Len(s)
         /\ (<<v>> \o s)[1] = v
         /\ \A i \in 1..Len(s) : (<<v>> \o s)[1 + i] = s[i]
<1>1. PICK a \in Seq(Bytes) : a = <<v>> /\ Len(a) = 1 /\ a[1] = v
  <2>1. <<v>> \in Seq(Bytes) /\ Len(<<v>>) = 1 /\ <<v>>[1] = v
    OBVIOUS
  <2>2. QED
    BY <2>1
<1>2. /\ a \o s \in Seq(Bytes) /\ Len(s) \in Nat /\ Len(a \o s) = Len(a) + Len(s)
      /\ \A i \in 1..Len(a) : (a \o s)[i] = a[i]
      /\ \A i \in 1..Len(s) : (a \o s)[Len(a) + i] = s[i]
  BY ConcatAt
<1>3. 1 \in 1..Len(a)
  BY <1>1
<1>4. QED
  BY <1>1, <1>2, <1>3

\* The last report parsed is an accepted one, or there is none.
LEMMA DoneOf ==
  ASSUME TypeInv, AcceptedInv,
         \A i \in 1..Len(flowsFinishedInfo) : \E m \in 1..Len(accepted) : flowsFinishedInfo[i] = Body(m)
  PROVE  /\ LastDone \in 0..Len(accepted) /\ LastDone \in 0..NumReports
         /\ <<LastDone, FrameLen>> \in Bytes
<1>1. /\ flowsFinishedInfo \in Seq(Seq(Bytes)) /\ Len(flowsFinishedInfo) \in Nat
      /\ Len(accepted) \in Nat /\ Len(accepted) <= NumReports /\ NumReports \in Nat
      /\ FrameLen \in Nat /\ FrameLen >= 3
  BY TypesOf, ReportAssumption, SocketAssumption DEF AcceptedInv
<1>2. LastDone \in 0..Len(accepted)
  <2>1. CASE flowsFinishedInfo = <<>>
    BY <1>1, <2>1 DEF LastDone
  <2>2. CASE flowsFinishedInfo # <<>>
    <3>1. Len(flowsFinishedInfo) \in 1..Len(flowsFinishedInfo)
      BY <1>1, <2>2, EmptySeq
    <3>2. PICK m \in 1..Len(accepted) : flowsFinishedInfo[Len(flowsFinishedInfo)] = Body(m)
      BY <3>1
    <3>3. m \in 0..NumReports /\ m \in 0..Len(accepted)
      BY <1>1
    <3>4. LastDone = m
      BY <2>2, <3>2, <3>3, BodyBytes DEF LastDone
    <3>5. QED
      BY <3>3, <3>4
  <2>3. QED
    BY <2>1, <2>2
<1>3. LastDone \in 0..NumReports
  BY <1>1, <1>2
<1>4. QED
  BY <1>1, <1>2, <1>3 DEF Bytes

LEMMA LineOf ==
  ASSUME Inv, exposed = {}
  PROVE  /\ Line \in Seq(Bytes) /\ Len(Line) = 1 + Len(Coming) /\ Len(Coming) \in Nat
         /\ Line[1] = <<LastDone, FrameLen>> /\ LastDone \in 0..Len(accepted)
         /\ \A i \in 1..Len(Coming) : Line[1 + i] = Coming[i]
<1>1. /\ Coming \in Seq(Bytes) /\ LastDone \in 0..Len(accepted) /\ <<LastDone, FrameLen>> \in Bytes
  BY TypesOf, DoneOf DEF Inv, StepInv
<1>2. QED
  BY <1>1, LineAt DEF Line

\* The invariant speaks of the variables only.
LEMMA StutterInv == ASSUME Inv, UNCHANGED vars PROVE Inv'
<1>1. /\ m_sendBuf' = m_sendBuf /\ stream' = stream /\ accepted' = accepted /\ tmprecv' = tmprecv
      /\ flowsFinishedInfo' = flowsFinishedInfo /\ exposed' = exposed /\ crashed' = crashed
  BY DEF vars
<1>2. Coming' = Coming /\ LastDone' = LastDone
  BY <1>1 DEF Coming, LastDone
<1>3. Line' = Line
  BY <1>2 DEF Line
<1>4. TypeInv' /\ AcceptedInv'
  BY <1>1 DEF Inv, TypeInv, AcceptedInv
<1>5. SendInv'
  BY <1>1 DEF Inv, SendInv, Sendable
<1>6. exposed = {} => StepInv'
  BY <1>1, <1>2, <1>3 DEF Inv, StepInv, Linked, Follows
<1>7. QED
  BY <1>1, <1>4, <1>5, <1>6 DEF Inv

LEMMA InitInv == Init => Inv
<1> SUFFICES ASSUME Init PROVE Inv
  OBVIOUS
<1>1. /\ m_sendBuf = <<>> /\ stream = <<>> /\ accepted = <<>> /\ tmprecv = <<>>
      /\ flowsFinishedInfo = <<>> /\ exposed = {} /\ crashed = FALSE
  BY DEF Init, InitSocket
<1>2. /\ FrameLen \in Nat /\ FrameLen >= 3 /\ MAX_SEND_BUFFER_SIZE \in Nat /\ KernelCap \in Nat
      /\ NumReports \in Nat
  BY SocketAssumption, ReportAssumption
<1>3. TypeInv /\ AcceptedInv /\ SendInv
  <2>0. <<>> \in Seq(Bytes) /\ <<>> \in Seq(Seq(Bytes)) /\ <<>> \in Seq(1..NumReports)
    BY EmptySeq
  <2>a. Len(m_sendBuf) = 0 /\ Len(stream) = 0
    BY <1>1
  <2>b. 0 <= MAX_SEND_BUFFER_SIZE /\ 0 <= KernelCap
    BY <1>2
  <2>c. exposed \in SUBSET (0..NumReports) /\ crashed \in BOOLEAN
    BY <1>1
  <2>1. TypeInv
    BY <1>1, <2>0, <2>a, <2>b, <2>c, Zenon DEF TypeInv
  <2>2. Len(accepted) = 0
    BY <1>1
  <2>3. AcceptedInv /\ SendInv
    BY <1>1, <1>2, <2>2 DEF AcceptedInv, SendInv
  <2>4. QED
    BY <2>1, <2>3
<1>4. Coming = <<>> /\ Len(Coming) = 0 /\ LastDone = 0
  BY <1>1 DEF Coming, LastDone
<1>5. PICK v \in Bytes, s \in Seq(Bytes) : v = <<0, FrameLen>> /\ s = <<>> /\ Line = <<v>> \o s
  <2>1. <<0, FrameLen>> \in Bytes /\ <<>> \in Seq(Bytes)
    BY <1>2 DEF Bytes
  <2>2. QED
    BY <1>4, <2>1 DEF Line
<1>6. Len(Line) = 1 /\ Line[1] = <<0, FrameLen>>
  <2>1. Len(<<v>> \o s) = 1 + Len(s) /\ (<<v>> \o s)[1] = v /\ Len(s) = 0
    BY <1>5, LineAt
  <2>2. QED
    BY <1>5, <2>1
<1>7. StepInv
  <2>1. Linked(Line)
    BY <1>6 DEF Linked
  <2>2. QED
    BY <1>1, <1>2, <1>4, <1>6, <2>1 DEF StepInv
<1>8. QED
  BY <1>3, <1>7 DEF Inv

-----------------------------------------------------------------------------
(* Sending *)

\* A report is put into buf, and the kernel takes the first k bytes, part.
SentBy(buf, k, part) ==
  /\ Len(accepted) + 1 \in 1..NumReports
  /\ buf = m_sendBuf \o Frame(Len(accepted) + 1) /\ Sendable(buf, Len(accepted) + 1)
  /\ buf \in Seq(Bytes) /\ Len(buf) \in Nat /\ Len(buf) <= MAX_SEND_BUFFER_SIZE
  /\ m_sendBuf # <<>> => buf[1] = m_sendBuf[1]
  /\ m_sendBuf = <<>> => buf[1] = <<Len(accepted) + 1, 1>>
  /\ k \in 0..Len(buf) /\ part \in Seq(Bytes) /\ part = SubSeq(buf, 1, k) /\ Len(part) = k
  /\ \A i \in 1..k : i \in 1..Len(buf) /\ part[i] = buf[i]
  /\ stream' = stream \o part /\ stream' \in Seq(Bytes) /\ Len(stream') <= KernelCap
  /\ m_sendBuf' = IF k = Len(buf) THEN <<>> ELSE buf
  /\ Coming' = Coming \o part
  /\ accepted' = Append(accepted, Len(accepted) + 1)
  /\ accepted' \in Seq(1..NumReports) /\ Len(accepted') = Len(accepted) + 1
  /\ \A i \in 1..Len(accepted) : accepted'[i] = accepted[i]
  /\ accepted'[Len(accepted) + 1] = Len(accepted) + 1
  /\ UNCHANGED <<tmprecv, flowsFinishedInfo, exposed, crashed>>

LEMMA SendableNext ==
  ASSUME Inv, NEW n \in 1..NumReports, n = Len(accepted) + 1,
         NEW buf \in Seq(Bytes), buf = m_sendBuf \o Frame(n)
  PROVE  /\ Sendable(buf, n)
         /\ m_sendBuf # <<>> => buf[1] = m_sendBuf[1]
         /\ m_sendBuf = <<>> => buf[1] = <<n, 1>>
<1>1. /\ FrameLen \in Nat /\ FrameLen >= 3 /\ n \in Nat /\ n \in 0..NumReports
      /\ m_sendBuf \in Seq(Bytes) /\ Len(m_sendBuf) \in Nat /\ Len(accepted) \in Nat
      /\ m_sendBuf # <<>> => Len(m_sendBuf) # 0
  BY SocketAssumption, ReportAssumption, TypesOf, EmptySeq DEF Inv
<1>2. PICK f \in Seq(Bytes) : /\ f = Frame(n) /\ Len(f) = FrameLen /\ Linked(f)
                              /\ \A p \in 1..FrameLen : f[p] = <<n, p>>
  BY <1>1, FrameBytes
<1>3. PICK b \in Seq(Bytes) : b = m_sendBuf /\ Len(b) \in Nat
  BY <1>1
<1>4. /\ buf = b \o f /\ Len(buf) = Len(b) + Len(f)
      /\ \A i \in 1..Len(b) : buf[i] = b[i]
      /\ \A i \in 1..Len(f) : buf[Len(b) + i] = f[i]
  <2>1. /\ b \o f \in Seq(Bytes) /\ Len(b) \in Nat /\ Len(f) \in Nat /\ Len(b \o f) = Len(b) + Len(f)
        /\ \A i \in 1..Len(b) : (b \o f)[i] = b[i]
        /\ \A i \in 1..Len(f) : (b \o f)[Len(b) + i] = f[i]
    BY ONLY b \in Seq(Bytes), f \in Seq(Bytes), ConcatAt
  <2>2. QED
    BY <1>2, <1>3, <2>1
<1>5. buf[Len(buf)] = <<n, FrameLen>> /\ Len(buf) # 0
  <2>1. FrameLen \in 1..FrameLen
    BY <1>1
  <2>2. QED
    BY <1>1, <1>2, <1>3, <1>4, <2>1
<1>6. ASSUME NEW i \in 1..Len(buf) PROVE i \in 1..Len(b) \/ buf[i][1] = n
  <2>1. CASE i <= Len(b)
    BY <1>3, <2>1
  <2>2. CASE ~(i <= Len(b))
    <3>1. PICK p \in 1..FrameLen : i = Len(b) + p
      <4>1. i - Len(b) \in 1..FrameLen /\ i = Len(b) + (i - Len(b))
        BY <1>1, <1>2, <1>3, <1>4, <2>2
      <4>2. QED
        BY <4>1
    <3>2. buf[i] = <<n, p>>
      BY <1>2, <1>4, <3>1
    <3>3. QED
      BY <3>2
  <2>3. QED
    BY <2>1, <2>2
<1>7. CASE m_sendBuf = <<>>
  <2>1. Len(b) = 0
    BY <1>3, <1>7
  <2>2. buf[1] = <<n, 1>>
    <3>1. 1 \in 1..FrameLen /\ Len(b) + 1 = 1
      BY <1>1, <2>1
    <3>2. buf[Len(b) + 1] = <<n, 1>>
      BY <1>2, <1>4, <3>1
    <3>3. QED
      BY <3>1, <3>2
  <2>3. \A i \in 1..Len(buf) : buf[i][1] = n
    <3>1. \A i : i \notin 1..Len(b)
      BY <2>1
    <3>2. QED
      BY <1>6, <3>1, Zenon
  <2>4. Linked(buf)
    BY <1>2, <1>3, <1>4, <1>7, ConcatEmptySeq
  <2>5. buf[1][2] = 1 /\ buf[1][1] = n
    BY ONLY <2>2
  <2>6. QED
    BY <1>1, <1>5, <1>7, <2>2, <2>3, <2>4, <2>5 DEF Sendable
<1>8. CASE m_sendBuf # <<>>
  <2>1. /\ Linked(b) /\ Len(b) # 0 /\ b[1][2] = 1 /\ b[1][1] >= 1
        /\ \A i \in 1..Len(b) : b[1][1] <= b[i][1] /\ b[i][1] <= Len(accepted)
        /\ b[Len(b)] = <<Len(accepted), FrameLen>>
    BY <1>3, <1>8 DEF Inv, SendInv, Sendable
  <2>2. buf[1] = b[1] /\ b[1][1] \in Nat /\ 1 \in 1..Len(b)
    <3>1. 1 \in 1..Len(b)
      BY <1>3, <2>1
    <3>2. QED
      BY <1>4, <3>1, BytesOf
  <2>3. Linked(buf)
    <3>1. Follows(b[Len(b)], f[1])
      <4>1. f[1] = <<n, 1>>
        BY <1>1, <1>2
      <4>2. f[1][1] = n /\ f[1][2] = 1 /\ b[Len(b)][1] = Len(accepted) /\ b[Len(b)][2] = FrameLen
        BY <2>1, <4>1
      <4>3. QED
        BY <1>1, <4>2 DEF Follows
    <3>2. QED
      BY <1>2, <1>4, <2>1, <3>1, LinkedConcat
  <2>4. ASSUME NEW i \in 1..Len(buf) PROVE buf[1][1] <= buf[i][1] /\ buf[i][1] <= n
    <3>1. CASE i \in 1..Len(b)
      <4>1. buf[i] = b[i] /\ b[i][1] \in Nat /\ b[1][1] <= b[i][1] /\ b[i][1] <= Len(accepted)
        BY <1>4, <2>1, <3>1, BytesOf
      <4>2. QED
        BY ONLY <1>1, <2>2, <4>1, n = Len(accepted) + 1
    <3>2. CASE buf[i][1] = n
      <4>1. b[1][1] <= Len(accepted)
        BY <2>1, <2>2
      <4>2. QED
        BY ONLY <1>1, <2>2, <3>2, <4>1, n = Len(accepted) + 1
    <3>3. QED
      BY <1>6, <3>1, <3>2
  <2>5. QED
    BY <1>3, <1>5, <1>8, <2>1, <2>2, <2>3, <2>4 DEF Sendable
<1>9. QED
  BY <1>7, <1>8

LEMMA SendIs ==
  ASSUME Inv, SendReport
  PROVE  \E buf, k, part : SentBy(buf, k, part)
<1> DEFINE n == Len(accepted) + 1
<1>1. /\ FrameLen \in Nat /\ n \in 1..NumReports /\ n \in 0..NumReports /\ Len(accepted) \in Nat
      /\ m_sendBuf \in Seq(Bytes) /\ stream \in Seq(Bytes) /\ tmprecv \in Seq(Bytes)
      /\ Len(stream) \in Nat /\ Len(stream) <= KernelCap /\ KernelCap \in Nat
      /\ accepted \in Seq(1..NumReports)
  <2>1. Len(accepted) \in Nat /\ Len(accepted) < NumReports
    BY TypesOf DEF Inv, SendReport
  <2>2. n \in 1..NumReports /\ n \in 0..NumReports
    BY <2>1, ReportAssumption
  <2>3. QED
    BY <2>1, <2>2, TypesOf, SocketAssumption DEF Inv, TypeInv
<1>2. PICK f \in Seq(Bytes) : f = Frame(n) /\ Len(f) = FrameLen
  BY <1>1, FrameBytes
<1>3. /\ Fits(Frame(n)) /\ SendMessage(SetSendMsg(Frame(n))) /\ accepted' = Append(accepted, n)
      /\ UNCHANGED <<tmprecv, flowsFinishedInfo, exposed, crashed>>
  BY DEF SendReport
<1>4. PICK buf \in Seq(Bytes) : /\ buf = m_sendBuf \o f /\ Len(buf) \in Nat
                                /\ Len(buf) = Len(m_sendBuf) + Len(f)
  <2>1. m_sendBuf \o f \in Seq(Bytes) /\ Len(m_sendBuf \o f) = Len(m_sendBuf) + Len(f)
    BY <1>1, ConcatProperties
  <2>2. QED
    BY <2>1, LenProperties
<1>5. Len(buf) <= MAX_SEND_BUFFER_SIZE /\ SendMessage(buf)
  BY <1>2, <1>3, <1>4 DEF Fits, SetSendMsg
<1>6. PICK k \in 0..Min({Len(buf), KernelCap - Len(stream)}) :
        /\ stream' = stream \o SubSeq(buf, 1, k)
        /\ m_sendBuf' = IF k = Len(buf) THEN <<>> ELSE buf
  BY <1>5 DEF SendMessage
<1>7. k \in 0..Len(buf) /\ k <= KernelCap - Len(stream)
  <2>1. PICK a \in Int, b \in Int : a = Len(buf) /\ b = KernelCap - Len(stream)
    <3>1. Len(buf) \in Int /\ KernelCap - Len(stream) \in Int
      BY <1>1, <1>4
    <3>2. QED
      BY <3>1
  <2>2. Min({a, b}) \in Int /\ Min({a, b}) <= a /\ Min({a, b}) <= b
    BY MinOfTwo
  <2>3. k \in 0..Min({a, b})
    BY <2>1
  <2>4. QED
    BY <2>1, <2>2, <2>3
<1>8. PICK part \in Seq(Bytes) : /\ part = SubSeq(buf, 1, k) /\ Len(part) = k
                                 /\ \A i \in 1..k : i \in 1..Len(buf) /\ part[i] = buf[i]
  <2>1. 1 \in 1..Len(buf) + 1 /\ 1 <= k + 1
    BY <1>4, <1>7
  <2>2. /\ SubSeq(buf, 1, k) \in Seq(Bytes) /\ Len(SubSeq(buf, 1, k)) = k - 1 + 1
        /\ \A i \in 1..k - 1 + 1 : SubSeq(buf, 1, k)[i] = buf[1 + i - 1]
    BY <1>7, <2>1, PartAt
  <2>3. k - 1 + 1 = k /\ \A i \in 1..k : i \in 1..Len(buf) /\ 1 + i - 1 = i
    BY <1>4, <1>7
  <2>4. PICK t \in Seq(Bytes) : /\ t = SubSeq(buf, 1, k) /\ Len(t) = k - 1 + 1
                                /\ \A i \in 1..k - 1 + 1 : t[i] = buf[1 + i - 1]
    BY <2>2
  <2>5. Len(t) = k /\ \A i \in 1..k : i \in 1..Len(buf) /\ t[i] = buf[i]
    BY ONLY <2>3, <2>4
  <2>6. QED
    BY <2>4, <2>5
<1>9. stream' = stream \o part /\ stream' \in Seq(Bytes) /\ Len(stream') <= KernelCap
  <2>1. stream \o part \in Seq(Bytes) /\ Len(stream \o part) = Len(stream) + Len(part)
    BY <1>1, ConcatProperties
  <2>2. QED
    BY <1>1, <1>4, <1>6, <1>7, <1>8, <2>1
<1>10. Coming' = Coming \o part
  <2>1. PICK r \in Seq(Bytes), t \in Seq(Bytes) : r = tmprecv /\ t = stream
    BY <1>1
  <2>2. r \o (t \o part) = (r \o t) \o part
    BY ConcatTwice, SMTT(30)
  <2>3. QED
    BY <1>3, <1>9, <2>1, <2>2 DEF Coming
<1>11. /\ accepted' \in Seq(1..NumReports) /\ Len(accepted') = Len(accepted) + 1
       /\ \A i \in 1..Len(accepted) : accepted'[i] = accepted[i]
       /\ accepted'[Len(accepted) + 1] = n
  <2>1. PICK acc \in Seq(1..NumReports), m \in 1..NumReports : acc = accepted /\ m = n
    BY <1>1
  <2>2. /\ Append(acc, m) \in Seq(1..NumReports) /\ Len(Append(acc, m)) = Len(acc) + 1
        /\ \A i \in 1..Len(acc) : Append(acc, m)[i] = acc[i]
        /\ Append(acc, m)[Len(acc) + 1] = m
    BY AppendProperties
  <2>3. QED
    BY <1>3, <2>1, <2>2
<1>12. /\ Sendable(buf, n) /\ buf = m_sendBuf \o Frame(n)
       /\ m_sendBuf # <<>> => buf[1] = m_sendBuf[1]
       /\ m_sendBuf = <<>> => buf[1] = <<n, 1>>
  BY <1>1, <1>2, <1>4, SendableNext
<1>13. SentBy(buf, k, part)
  BY <1>1, <1>3, <1>4, <1>5, <1>6, <1>7, <1>8, <1>9, <1>10, <1>11, <1>12 DEF SentBy
<1>14. QED
  BY <1>13

\* What is sent goes on where the bytes on their way end.
LEMMA SendLine ==
  ASSUME Inv, exposed = {}, NEW buf, NEW k, NEW part, SentBy(buf, k, part)
  PROVE  /\ Linked(Line')
         /\ IF k = Len(buf) THEN Line'[Len(Line')] = <<Len(accepted) + 1, FrameLen>>
                            ELSE Follows(Line'[Len(Line')], buf[1])
<1>1. /\ Line \in Seq(Bytes) /\ Len(Line) = 1 + Len(Coming) /\ Len(Coming) \in Nat /\ Linked(Line)
      /\ Coming \in Seq(Bytes) /\ <<LastDone, FrameLen>> \in Bytes /\ Len(accepted) \in Nat
      /\ FrameLen \in Nat /\ FrameLen >= 3
  BY LineOf, TypesOf, DoneOf, SocketAssumption DEF Inv, StepInv
<1>2. /\ part \in Seq(Bytes) /\ Len(part) = k /\ k \in 0..Len(buf) /\ Len(buf) \in Nat
      /\ part = SubSeq(buf, 1, k) /\ buf \in Seq(Bytes)
      /\ \A i \in 1..k : i \in 1..Len(buf) /\ part[i] = buf[i]
  BY DEF SentBy
<1>3. /\ Linked(buf) /\ Len(buf) # 0 /\ buf[1][2] = 1 /\ buf[Len(buf)] = <<Len(accepted) + 1, FrameLen>>
      /\ \A i \in 1..Len(buf) : buf[1][1] <= buf[i][1]
      /\ \A i \in 1..Len(buf) : buf[i][1] \in Nat
  BY <1>2, BytesOf DEF SentBy, Sendable
<1>4. Follows(Line[Len(Line)], buf[1])
  <2>1. CASE m_sendBuf = <<>>
    <3>1. Line[Len(Line)] = <<Len(accepted), FrameLen>> /\ buf[1] = <<Len(accepted) + 1, 1>>
      BY <2>1 DEF Inv, StepInv, SentBy
    <3>a. PICK a \in Nat : a = Len(accepted)
      BY <1>1
    <3>2. PICK b, c : /\ b = <<a, FrameLen>> /\ c = <<a + 1, 1>>
                      /\ b = Line[Len(Line)] /\ c = buf[1]
      BY <3>1, <3>a
    <3>3. b[1] = a /\ b[2] = FrameLen /\ c[1] = a + 1 /\ c[2] = 1
      BY ONLY <3>2
    <3>4. Follows(b, c)
      BY ONLY <3>3, a \in Nat DEF Follows
    <3>5. QED
      BY <3>2, <3>4
  <2>2. CASE m_sendBuf # <<>>
    BY <2>2 DEF Inv, StepInv, SentBy
  <2>3. QED
    BY <2>1, <2>2
<1>5. Line' = Line \o part
  <2>1. LastDone' = LastDone /\ Coming' = Coming \o part
    BY DEF SentBy, LastDone
  <2>2. PICK v \in Seq(Bytes), c \in Seq(Bytes) : v = << <<LastDone, FrameLen>> >> /\ c = Coming
    <3>1. << <<LastDone, FrameLen>> >> \in Seq(Bytes)
      BY <1>1
    <3>2. QED
      BY <1>1, <3>1
  <2>a. part \in Seq(Bytes)
    BY <1>2
  <2>3. v \o (c \o part) = (v \o c) \o part
    BY ONLY <2>a, v \in Seq(Bytes), c \in Seq(Bytes), ConcatTwice
  <2>4. QED
    BY <2>1, <2>2, <2>3 DEF Line
<1>6. PICK u : u = Line \o part /\ u = Line'
  BY <1>5
<1>7. /\ Len(u) = Len(Line) + k
      /\ \A i \in 1..Len(Line) : u[i] = Line[i]
      /\ \A i \in 1..k : u[Len(Line) + i] = buf[i]
  <2>1. /\ Len(Line \o part) = Len(Line) + Len(part)
        /\ \A i \in 1..Len(Line) : (Line \o part)[i] = Line[i]
        /\ \A i \in 1..Len(part) : (Line \o part)[Len(Line) + i] = part[i]
    <3>1. PICK c \in Seq(Bytes), p \in Seq(Bytes) : c = Line /\ p = part
      BY <1>1, <1>2
    <3>2. /\ Len(c \o p) = Len(c) + Len(p)
          /\ \A i \in 1..Len(c) : (c \o p)[i] = c[i]
          /\ \A i \in 1..Len(p) : (c \o p)[Len(c) + i] = p[i]
      BY ONLY c \in Seq(Bytes), p \in Seq(Bytes), ConcatAt
    <3>3. QED
      BY <3>1, <3>2
  <2>2. QED
    BY <1>2, <1>6, <2>1
<1>8. Linked(u)
  <2>1. Linked(part)
    <3>1. 1 \in 1..Len(buf) + 1 /\ 1 <= k + 1
      BY <1>2
    <3>2. QED
      BY <1>2, <1>3, <3>1, LinkedPart
  <2>2. Len(part) # 0 => Follows(Line[Len(Line)], part[1])
    BY <1>2, <1>4
  <2>3. QED
    BY <1>1, <1>2, <1>6, <2>1, <2>2, LinkedConcat
<1>9. CASE k = 0
  <2>1. Len(u) = Len(Line) /\ Len(Line) \in 1..Len(Line)
    BY <1>1, <1>7, <1>9
  <2>2. u[Len(u)] = Line[Len(Line)]
    BY <1>7, <2>1
  <2>3. QED
    BY <1>2, <1>3, <1>4, <1>6, <1>8, <1>9, <2>2
<1>10. CASE k # 0
  <2>1. k \in 1..k /\ k \in 1..Len(buf)
    BY <1>2, <1>10
  <2>2. u[Len(u)] = buf[k]
    BY <1>7, <2>1
  <2>3. k # Len(buf) => Follows(buf[k], buf[1])
    <3>1. buf[1][1] <= buf[k][1] /\ buf[1][1] \in Nat /\ buf[k][1] \in Nat
      <4>1. 1 \in 1..Len(buf)
        BY <1>2, <1>3
      <4>2. QED
        BY <1>3, <2>1, <4>1
    <3>2. QED
      BY <1>3, <3>1 DEF Follows
  <2>4. QED
    BY <1>3, <1>6, <1>8, <2>2, <2>3
<1>11. QED
  BY <1>9, <1>10

LEMMA SendNext == ASSUME Inv, SendReport PROVE Inv'
<1>1. PICK buf, k, part : SentBy(buf, k, part)
  BY SendIs
<1>2. /\ buf \in Seq(Bytes) /\ Len(buf) \in Nat /\ Len(buf) <= MAX_SEND_BUFFER_SIZE
      /\ Sendable(buf, Len(accepted) + 1) /\ Len(accepted) + 1 \in 1..NumReports
      /\ k \in 0..Len(buf) /\ part \in Seq(Bytes) /\ Len(part) = k
      /\ \A i \in 1..k : i \in 1..Len(buf) /\ part[i] = buf[i]
      /\ stream' \in Seq(Bytes) /\ Len(stream') <= KernelCap
      /\ m_sendBuf' = IF k = Len(buf) THEN <<>> ELSE buf
      /\ accepted' \in Seq(1..NumReports) /\ Len(accepted') = Len(accepted) + 1
      /\ \A i \in 1..Len(accepted) : accepted'[i] = accepted[i]
      /\ accepted'[Len(accepted) + 1] = Len(accepted) + 1
      /\ UNCHANGED <<tmprecv, flowsFinishedInfo, exposed, crashed>>
  BY <1>1 DEF SentBy
<1>3. Len(accepted) \in Nat /\ Coming \in Seq(Bytes) /\ Len(Coming) \in Nat /\ NumReports \in Nat
  BY TypesOf, ReportAssumption DEF Inv
<1>4. TypeInv'
  <2>1. m_sendBuf' \in Seq(Bytes) /\ Len(m_sendBuf') <= MAX_SEND_BUFFER_SIZE
    <3>1. Len(<<>>) = 0 /\ <<>> \in Seq(Bytes) /\ 0 <= MAX_SEND_BUFFER_SIZE
      BY EmptySeq, SocketAssumption
    <3>2. QED
      BY <1>2, <3>1
  <2>2. /\ tmprecv' \in Seq(Bytes) /\ flowsFinishedInfo' \in Seq(Seq(Bytes))
        /\ exposed' \in SUBSET (0..NumReports) /\ crashed' \in BOOLEAN
    BY <1>2 DEF Inv, TypeInv
  <2>3. QED
    BY <1>2, <2>1, <2>2 DEF TypeInv
<1>5. AcceptedInv'
  <2>1. ASSUME NEW i \in 1..Len(accepted') PROVE accepted'[i] = i
    <3>1. i \in 1..Len(accepted) \/ i = Len(accepted) + 1
      BY <1>2, <1>3
    <3>2. QED
      BY <1>2, <3>1 DEF Inv, AcceptedInv
  <2>2. Len(accepted') <= NumReports
    BY <1>2, <1>3
  <2>3. QED
    BY <2>1, <2>2 DEF AcceptedInv
<1>6. SendInv'
  <2>1. CASE k = Len(buf)
    BY <1>2, <2>1 DEF SendInv
  <2>2. CASE k # Len(buf)
    <3>1. m_sendBuf' = buf
      BY <1>2, <2>2
    <3>2. Sendable(m_sendBuf', Len(accepted'))
      BY <1>2, <3>1
    <3>3. QED
      BY <3>2 DEF SendInv, Sendable
  <2>3. QED
    BY <2>1, <2>2
<1>7. ASSUME exposed = {} PROVE StepInv'
  <2>1. /\ ~crashed' /\ Len(tmprecv') < FrameLen
        /\ \A i \in 1..Len(Coming) : Coming[i][1] \in 1..Len(accepted)
        /\ \A i \in 1..Len(flowsFinishedInfo) : \E m \in 1..Len(accepted) : flowsFinishedInfo[i] = Body(m)
    BY <1>2, <1>7 DEF Inv, StepInv
  <2>2. \A m \in 1..Len(accepted) : m \in 1..Len(accepted')
    BY <1>2, <1>3
  <2>3. \A i \in 1..Len(flowsFinishedInfo') : \E m \in 1..Len(accepted') : flowsFinishedInfo'[i] = Body(m)
    BY <1>2, <2>1, <2>2
  <2>4. PICK come : /\ come = Coming' /\ Len(come) = Len(Coming) + k
                    /\ \A i \in 1..Len(Coming) : come[i] = Coming[i]
                    /\ \A i \in 1..k : come[Len(Coming) + i] = buf[i]
    <3>1. Coming' = Coming \o part
      BY <1>1 DEF SentBy
    <3>2. /\ Len(Coming \o part) = Len(Coming) + Len(part)
          /\ \A i \in 1..Len(Coming) : (Coming \o part)[i] = Coming[i]
          /\ \A i \in 1..Len(part) : (Coming \o part)[Len(Coming) + i] = part[i]
      <4>1. PICK c \in Seq(Bytes), p \in Seq(Bytes) : c = Coming /\ p = part
        BY <1>2, <1>3
      <4>2. /\ Len(c \o p) = Len(c) + Len(p)
            /\ \A i \in 1..Len(c) : (c \o p)[i] = c[i]
            /\ \A i \in 1..Len(p) : (c \o p)[Len(c) + i] = p[i]
        BY ONLY c \in Seq(Bytes), p \in Seq(Bytes), ConcatAt
      <4>3. QED
        BY <4>1, <4>2
    <3>3. Len(part) = k /\ \A i \in 1..k : part[i] = buf[i]
      BY <1>2
    <3>4. PICK come : come = Coming' /\ come = Coming \o part
      BY <3>1
    <3>5. Len(come) = Len(Coming) + k
      BY ONLY <3>2, <3>3, <3>4
    <3>6. \A i \in 1..Len(Coming) : come[i] = Coming[i]
      BY ONLY <3>2, <3>4
    <3>7. \A i \in 1..k : come[Len(Coming) + i] = buf[i]
      BY ONLY <3>2, <3>3, <3>4
    <3>8. QED
      BY <3>4, <3>5, <3>6, <3>7
  <2>5. \A i \in 1..Len(buf) : buf[i][1] \in 1..Len(accepted')
    <3>1. /\ buf[1][1] >= 1 /\ 1 \in 1..Len(buf)
          /\ \A i \in 1..Len(buf) : buf[1][1] <= buf[i][1] /\ buf[i][1] <= Len(accepted')
      BY <1>2 DEF Sendable
    <3>2. \A i \in 1..Len(buf) : buf[i][1] \in Nat
      BY <1>2, BytesOf
    <3>3. Len(accepted') \in Nat
      BY <1>2, <1>3
    <3>4. QED
      BY ONLY <3>1, <3>2, <3>3
  <2>6. ASSUME NEW i \in 1..Len(come) PROVE come[i][1] \in 1..Len(accepted')
    <3>1. CASE i <= Len(Coming)
      <4>1. i \in 1..Len(Coming)
        BY <1>3, <3>1
      <4>2. QED
        BY <2>1, <2>2, <2>4, <4>1
    <3>2. CASE ~(i <= Len(Coming))
      <4>1. PICK j \in 1..k : i = Len(Coming) + j /\ j \in 1..Len(buf)
        <5>1. i - Len(Coming) \in 1..k /\ i = Len(Coming) + (i - Len(Coming))
          BY <1>2, <1>3, <2>4, <3>2
        <5>2. QED
          BY <1>2, <5>1
      <4>2. QED
        BY <2>4, <2>5, <4>1
    <3>3. QED
      BY <3>1, <3>2
  <2>7. \A i \in 1..Len(Coming') : (Coming')[i][1] \in 1..Len(accepted')
    BY <2>4, <2>6
  <2>8. /\ Linked(Line')
        /\ IF k = Len(buf) THEN Line'[Len(Line')] = <<Len(accepted) + 1, FrameLen>>
                           ELSE Follows(Line'[Len(Line')], buf[1])
    BY <1>1, <1>7, SendLine
  <2>9. PICK line : line = Line'
    OBVIOUS
  <2>10. /\ Linked(line)
         /\ IF m_sendBuf' = <<>> THEN line[Len(line)] = <<Len(accepted'), FrameLen>>
                                 ELSE Follows(line[Len(line)], m_sendBuf'[1])
    <3>1. buf # <<>>
      BY <1>2 DEF Sendable
    <3>2. QED
      BY <1>2, <2>8, <2>9, <3>1
  <2>11. QED
    BY <2>1, <2>3, <2>7, <2>9, <2>10 DEF StepInv, Linked, Follows
<1>8. QED
  BY <1>2, <1>4, <1>5, <1>6, <1>7 DEF Inv

-----------------------------------------------------------------------------
(* Receiving *)

\* The parser is given buf and keeps kept; rest stays in the kernel.
ReceivedBy(buf, rest, kept) ==
  /\ buf \in Seq(Bytes) /\ Len(buf) \in Nat /\ Len(buf) # 0
  /\ rest \in Seq(Bytes) /\ Len(rest) \in Nat /\ Len(rest) <= KernelCap
  /\ kept \in Seq(Bytes) /\ Len(kept) \in Nat
  /\ \E start \in StartIndex(buf), end \in EndIndex(buf) : kept = Kept(buf, start, end)
  /\ Coming = buf \o rest /\ Coming' = kept \o rest
  /\ tmprecv' = kept /\ stream' = rest
  /\ flowsFinishedInfo' = flowsFinishedInfo \o Parsed(buf)
  /\ Defined(buf) => UNCHANGED <<exposed, crashed>>
  /\ ~Defined(buf) => exposed' = exposed \cup {buf[i][1] : i \in DOMAIN buf} /\ crashed' \in BOOLEAN
  /\ ~crashed /\ UNCHANGED <<m_sendBuf, accepted>>

LEMMA ReceiveIs ==
  ASSUME TypeInv, ReceiveReports
  PROVE  \E buf, rest, kept : ReceivedBy(buf, rest, kept)
<1>1. /\ tmprecv \in Seq(Bytes) /\ stream \in Seq(Bytes) /\ Len(stream) \in Nat /\ Len(tmprecv) \in Nat
      /\ Len(stream) <= KernelCap /\ KernelCap \in Nat
  BY TypesOf, SocketAssumption DEF TypeInv
<1>2. PICK k \in ReceivedNow :
        LET b == tmprecv \o SubSeq(stream, 1, k) IN
          /\ stream' = SubSeq(stream, k + 1, Len(stream))
          /\ flowsFinishedInfo' = flowsFinishedInfo \o Parsed(b)
          /\ \E start \in StartIndex(b), end \in EndIndex(b) : tmprecv' = Kept(b, start, end)
          /\ IF Defined(b)
               THEN UNCHANGED <<exposed, crashed>>
               ELSE /\ exposed' = exposed \cup {b[i][1] : i \in DOMAIN b}
                    /\ crashed' \in BOOLEAN
  BY DEF ReceiveReports
<1>3. k \in 1..Len(stream)
  <2>1. PICK a \in Int, b \in Int : a = Len(stream) /\ b = MAX_RECV_BUFFER_SIZE
    <3>1. MAX_RECV_BUFFER_SIZE \in Int /\ Len(stream) \in Int
      BY <1>1, SocketAssumption
    <3>2. QED
      BY <3>1
  <2>2. Min({a, b}) \in Int /\ Min({a, b}) <= a
    BY MinOfTwo
  <2>3. k \in 1..Min({a, b})
    BY <2>1 DEF ReceivedNow
  <2>4. QED
    BY <2>1, <2>2, <2>3
<1>4. PICK r \in Seq(Bytes), s \in Seq(Bytes) : r = tmprecv /\ s = stream
  BY <1>1
<1>5. /\ k \in 1..Len(s) /\ Len(s) \in Nat /\ Len(r) \in Nat /\ Len(s) <= KernelCap /\ KernelCap \in Nat
  BY <1>1, <1>3, <1>4
<1>6. PICK now \in Seq(Bytes) : now = SubSeq(s, 1, k) /\ Len(now) = k
  <2>1. 1 \in 1..Len(s) + 1 /\ k \in 0..Len(s) /\ 1 <= k + 1 /\ k - 1 + 1 = k
    BY <1>5
  <2>2. SubSeq(s, 1, k) \in Seq(Bytes) /\ Len(SubSeq(s, 1, k)) = k - 1 + 1
    BY ONLY <2>1, s \in Seq(Bytes), PartAt
  <2>3. QED
    BY <2>1, <2>2
<1>7. PICK rest \in Seq(Bytes) : rest = SubSeq(s, k + 1, Len(s)) /\ Len(rest) = Len(s) - k
  <2>1. k + 1 \in 1..Len(s) + 1 /\ Len(s) \in 0..Len(s) /\ k + 1 <= Len(s) + 1 /\ Len(s) - (k + 1) + 1 = Len(s) - k
    BY <1>5
  <2>2. /\ SubSeq(s, k + 1, Len(s)) \in Seq(Bytes)
        /\ Len(SubSeq(s, k + 1, Len(s))) = Len(s) - (k + 1) + 1
    BY ONLY <2>1, s \in Seq(Bytes), PartAt
  <2>3. QED
    BY <2>1, <2>2
<1>8. s = now \o rest
  <2>1. 1 \in 1..Len(s) + 1 /\ k \in 1 - 1..Len(s) /\ Len(s) \in k..Len(s)
    BY <1>5
  <2>2. SubSeq(s, 1, k) \o SubSeq(s, k + 1, Len(s)) = SubSeq(s, 1, Len(s))
    BY ONLY <2>1, s \in Seq(Bytes), ConcatAdjacentSubSeq
  <2>3. SubSeq(s, 1, Len(s)) = s
    BY ONLY s \in Seq(Bytes), SubSeqFull
  <2>4. QED
    BY <1>6, <1>7, <2>2, <2>3
<1>9. PICK buf \in Seq(Bytes) : buf = r \o now /\ Len(buf) = Len(r) + k /\ Coming = buf \o rest
  <2>1. r \o now \in Seq(Bytes) /\ Len(r \o now) = Len(r) + Len(now)
    BY ONLY r \in Seq(Bytes), now \in Seq(Bytes), ConcatProperties
  <2>2. r \o (now \o rest) = (r \o now) \o rest
    BY ONLY r \in Seq(Bytes), now \in Seq(Bytes), rest \in Seq(Bytes), ConcatTwice, SMTT(30)
  <2>3. Len(r \o now) = Len(r) + k
    BY <1>6, <2>1
  <2>4. Coming = r \o (now \o rest)
    BY <1>4, <1>8 DEF Coming
  <2>5. QED
    BY <2>1, <2>2, <2>3, <2>4
<1>10. buf = tmprecv \o SubSeq(stream, 1, k)
  BY <1>4, <1>6, <1>9
<1>11. /\ stream' = rest
       /\ flowsFinishedInfo' = flowsFinishedInfo \o Parsed(buf)
       /\ \E start \in StartIndex(buf), end \in EndIndex(buf) : tmprecv' = Kept(buf, start, end)
       /\ Defined(buf) => UNCHANGED <<exposed, crashed>>
       /\ ~Defined(buf) => exposed' = exposed \cup {buf[i][1] : i \in DOMAIN buf} /\ crashed' \in BOOLEAN
  BY <1>2, <1>4, <1>7, <1>10
<1>12. PICK start \in StartIndex(buf), end \in EndIndex(buf) : tmprecv' = Kept(buf, start, end)
  BY <1>11
<1>13. PICK kept \in Seq(Bytes) : kept = Kept(buf, start, end) /\ Len(kept) \in Nat
  BY KeptType, LenProperties
<1>14. /\ Len(buf) \in Nat /\ Len(buf) # 0 /\ Len(rest) \in Nat /\ Len(rest) <= KernelCap
  BY <1>5, <1>7, <1>9
<1>15. Coming' = kept \o rest
  BY <1>11, <1>12, <1>13 DEF Coming
<1>16. ~crashed /\ UNCHANGED <<m_sendBuf, accepted>>
  BY DEF ReceiveReports
<1>17. ReceivedBy(buf, rest, kept)
  BY <1>9, <1>11, <1>12, <1>13, <1>14, <1>15, <1>16 DEF ReceivedBy
<1>18. QED
  BY <1>17

\* A call that uses an undefined index exposes the reports of its buffer.
LEMMA ExposedIs ==
  ASSUME TypeInv, NEW buf, NEW rest, NEW kept, ReceivedBy(buf, rest, kept)
  PROVE  /\ exposed \subseteq exposed' /\ exposed' \subseteq 0..NumReports
         /\ exposed' = {} => Defined(buf) /\ exposed = {}
         /\ ~Defined(buf) => \A i \in 1..Len(buf) : buf[i][1] \in exposed'
<1>1. /\ buf \in Seq(Bytes) /\ Len(buf) \in Nat /\ Len(buf) # 0
      /\ Defined(buf) => exposed' = exposed
      /\ ~Defined(buf) => exposed' = exposed \cup {buf[i][1] : i \in DOMAIN buf}
  BY DEF ReceivedBy
<1>2. DOMAIN buf = 1..Len(buf) /\ 1 \in 1..Len(buf) /\ \A i \in 1..Len(buf) : buf[i][1] \in 0..NumReports
  BY <1>1, BytesOf
<1>3. exposed \subseteq 0..NumReports
  BY DEF TypeInv
<1>4. QED
  BY <1>1, <1>2, <1>3

LEMMA ReceiveTypes ==
  ASSUME TypeInv, ReceiveReports
  PROVE  TypeInv'
<1>1. PICK buf, rest, kept : ReceivedBy(buf, rest, kept)
  BY ReceiveIs
<1>2. flowsFinishedInfo' \in Seq(Seq(Bytes))
  <2>1. PICK b \in Seq(Bytes) : b = buf
    BY <1>1 DEF ReceivedBy
  <2>2. Parsed(b) \in Seq(Seq(Bytes))
    BY ParsedIs
  <2>3. PICK ins \in Seq(Seq(Bytes)), new \in Seq(Seq(Bytes)) : ins = flowsFinishedInfo /\ new = Parsed(b)
    BY <2>2 DEF TypeInv
  <2>4. ins \o new \in Seq(Seq(Bytes))
    BY ONLY ins \in Seq(Seq(Bytes)), new \in Seq(Seq(Bytes)), ConcatProperties
  <2>5. QED
    BY <1>1, <2>1, <2>3, <2>4 DEF ReceivedBy
<1>3. exposed' \in SUBSET (0..NumReports)
  BY <1>1, ExposedIs
<1>4. /\ tmprecv' \in Seq(Bytes) /\ stream' \in Seq(Bytes) /\ Len(stream') <= KernelCap
      /\ m_sendBuf' = m_sendBuf /\ accepted' = accepted /\ crashed' \in BOOLEAN
  BY <1>1 DEF ReceivedBy, TypeInv
<1>5. QED
  BY <1>2, <1>3, <1>4 DEF TypeInv

\* In step, the buffer is the line's next bytes.
LEMMA BufferInStep ==
  ASSUME Inv, exposed = {}, NEW buf, NEW rest, NEW kept, ReceivedBy(buf, rest, kept)
  PROVE  /\ Len(Coming) = Len(buf) + Len(rest) /\ Len(Line) = 1 + Len(Coming)
         /\ \A i \in 1..Len(buf) : buf[i] = Coming[i] /\ buf[i] = Line[1 + i]
         /\ \A i \in 1..Len(rest) : rest[i] = Coming[Len(buf) + i]
         /\ Linked(buf) /\ Framed(buf)
         /\ \A n \in 1..Len(Parsed(buf)) :
              /\ Nth(Closes(buf), n) \in Closes(buf)
              /\ Parsed(buf)[n] = Body(buf[Nth(Closes(buf), n)][1])
<1>1. PICK b \in Seq(Bytes) : b = buf /\ Len(b) \in Nat /\ Len(b) # 0
  BY DEF ReceivedBy
<1>2. PICK t \in Seq(Bytes) : t = rest /\ Len(t) \in Nat
  BY DEF ReceivedBy
<1>3. Coming = b \o t
  BY <1>1, <1>2 DEF ReceivedBy
<1>4. /\ Len(b \o t) = Len(b) + Len(t)
      /\ \A i \in 1..Len(b) : (b \o t)[i] = b[i]
      /\ \A i \in 1..Len(t) : (b \o t)[Len(b) + i] = t[i]
  BY ONLY b \in Seq(Bytes), t \in Seq(Bytes), ConcatAt
<1>5. /\ Len(Line) = 1 + Len(Coming) /\ Len(Coming) \in Nat /\ Line[1] = <<LastDone, FrameLen>>
      /\ \A i \in 1..Len(Coming) : Line[1 + i] = Coming[i]
      /\ Linked(Line)
  BY LineOf DEF Inv, StepInv
<1>6. Len(Coming) = Len(b) + Len(t)
  BY <1>3, <1>4
<1>7. \A i \in 1..Len(b) : i \in 1..Len(Coming) /\ b[i] = Coming[i] /\ b[i] = Line[1 + i]
  <2>1. \A i \in 1..Len(b) : i \in 1..Len(Coming)
    BY <1>1, <1>2, <1>6
  <2>2. QED
    BY <1>3, <1>4, <1>5, <2>1
<1>8. Linked(b)
  <2>1. ASSUME NEW i \in 1..Len(b) - 1 PROVE Follows(b[i], b[i + 1])
    <3>1. i \in 1..Len(b) /\ i + 1 \in 1..Len(b) /\ 1 + i \in 1..Len(Line) - 1 /\ (1 + i) + 1 = 1 + (i + 1)
      BY <1>1, <1>2, <1>5, <1>6
    <3>2. Follows(Line[1 + i], Line[(1 + i) + 1])
      BY <1>5, <3>1 DEF Linked
    <3>3. QED
      BY <1>7, <3>1, <3>2
  <2>2. QED
    BY <2>1 DEF Linked
<1>9. b[1][2] = 1
  <2>1. 1 \in 1..Len(b) /\ 1 \in 1..Len(Line) - 1
    BY <1>1, <1>2, <1>5, <1>6
  <2>2. Follows(Line[1], Line[1 + 1])
    BY <1>5, <2>1 DEF Linked
  <2>3. Line[1][2] = FrameLen /\ FrameLen \in Nat
    BY <1>5, SocketAssumption
  <2>4. Line[1 + 1][2] = 1
    BY <2>2, <2>3 DEF Follows
  <2>5. QED
    BY <1>7, <2>1, <2>4
<1>10. Framed(b)
  BY <1>8, <1>9, FramedOf
<1>11. ASSUME NEW n \in 1..Len(Parsed(b))
       PROVE  /\ Nth(Closes(b), n) \in Closes(b)
              /\ Parsed(b)[n] = Body(b[Nth(Closes(b), n)][1])
  <2>1. Nth(Closes(b), n) \in Closes(b) /\ Parsed(b)[n] = Text(b, Nth(Closes(b), n))
    BY ParsedIs
  <2>2. QED
    BY <1>10, <2>1, TextOf
<1>12. QED
  BY <1>1, <1>2, <1>3, <1>4, <1>5, <1>6, <1>7, <1>8, <1>10, <1>11

\* The last report parsed is the one that ends last in the buffer.
LEMMA DoneNext ==
  ASSUME Inv, exposed = {}, NEW buf, NEW rest, NEW kept, ReceivedBy(buf, rest, kept),
         NEW e, e \in 1..Len(buf), IsClose(buf[e]), e = Max(Closes(buf))
  PROVE  /\ LastDone' = buf[e][1]
         /\ \A i \in 1..Len(flowsFinishedInfo') :
              \E m \in 1..Len(accepted) : flowsFinishedInfo'[i] = Body(m)
<1>1. PICK b \in Seq(Bytes) : b = buf /\ Len(b) \in Nat
  BY DEF ReceivedBy
<1>2. PICK new \in Seq(Seq(Bytes)) : new = Parsed(b) /\ new = Parsed(buf)
  BY <1>1, ParsedIs
<1>3. PICK ins \in Seq(Seq(Bytes)) : ins = flowsFinishedInfo /\ Len(ins) \in Nat
  BY TypesOf DEF Inv
<1>4. PICK all \in Seq(Seq(Bytes)) : all = ins \o new
  BY ConcatProperties
<1>5. all = flowsFinishedInfo'
  BY <1>2, <1>3, <1>4 DEF ReceivedBy
<1>6. /\ Len(all) = Len(ins) + Len(new) /\ Len(new) \in Nat
      /\ \A i \in 1..Len(ins) : all[i] = ins[i]
      /\ \A i \in 1..Len(new) : all[Len(ins) + i] = new[i]
  BY ONLY <1>4, ins \in Seq(Seq(Bytes)), new \in Seq(Seq(Bytes)), ConcatAt
<1> DEFINE C == Closes(b)
<1>7. /\ C \subseteq 1..Len(b) /\ e \in C /\ e \in 1..Len(b) /\ \A j \in C : j <= e
  <2>1. e \in C /\ e \in 1..Len(b)
    BY <1>1, OpensCloses DEF IsClose
  <2>2. \A j \in C : j <= Max(C)
    BY <2>1, OpensCloses
  <2>3. QED
    BY <1>1, <2>1, <2>2, OpensCloses
<1>8. \A n \in 1..Len(new) : Nth(C, n) \in C /\ new[n] = Body(b[Nth(C, n)][1])
  <2>1. \A n \in 1..Len(Parsed(buf)) : /\ Nth(Closes(buf), n) \in Closes(buf)
                                       /\ Parsed(buf)[n] = Body(buf[Nth(Closes(buf), n)][1])
    BY BufferInStep
  <2>2. QED
    BY <1>1, <1>2, <2>1
<1>9. \A j \in 1..Len(b) : b[j][1] \in 1..Len(accepted) /\ b[j][1] \in 0..NumReports
  <2>1. \A j \in 1..Len(b) : b[j] = Coming[j] /\ j \in 1..Len(Coming)
    <3>1. Len(rest) \in Nat
      BY DEF ReceivedBy
    <3>2. /\ Len(Coming) = Len(b) + Len(rest)
          /\ \A j \in 1..Len(b) : b[j] = Coming[j]
      BY <1>1, BufferInStep
    <3>3. QED
      BY <1>1, <3>1, <3>2
  <2>2. \A j \in 1..Len(Coming) : Coming[j][1] \in 1..Len(accepted)
    BY DEF Inv, StepInv
  <2>3. QED
    BY <2>1, <2>2, BytesOf
<1>10. Cardinality(C) \in Nat /\ Len(new) = Cardinality(C) /\ Cardinality(C) # 0
  <2>1. Cardinality(C) \in Nat /\ Len(new) = Cardinality(C) /\ (Cardinality(C) = 0 <=> C = {})
    BY <1>2, ParsedIs
  <2>2. QED
    BY <1>7, <2>1
<1> DEFINE c == Cardinality(C)
<1>11. Nth(C, c) = e
  <2>1. c \in 1..Cardinality(C)
    BY <1>10
  <2>2. \A i \in C : i <= Nth(C, c)
    <3>1. C \subseteq 1..Len(b) /\ Len(b) \in Nat
      BY <1>1, <1>7
    <3> HIDE DEF C
    <3>2. QED
      BY <2>1, <3>1, NthOrder
  <2>3. Nth(C, c) \in C
    BY <1>8, <1>10, <2>1
  <2>4. e \in Nat /\ Nth(C, c) \in Nat
    BY <1>1, <1>7, <2>3
  <2>5. e <= Nth(C, c) /\ Nth(C, c) <= e
    BY <1>7, <2>2, <2>3
  <2> HIDE DEF C, c
  <2>6. QED
    BY <2>4, <2>5
<1>12. LastDone' = buf[e][1]
  <2>1. Len(new) \in 1..Len(new) /\ Len(all) = Len(ins) + Len(new) /\ all # <<>>
    <3>1. Len(all) # 0
      BY <1>3, <1>6, <1>10
    <3>2. QED
      BY <1>6, <1>10, <3>1
  <2>2. all[Len(all)] = Body(b[e][1])
    BY <1>6, <1>8, <1>10, <1>11, <2>1, SMTT(30)
  <2>3. b[e][1] \in 0..NumReports
    BY <1>7, <1>9
  <2>4. all[Len(all)][1][1] = b[e][1]
    BY <2>2, <2>3, BodyBytes
  <2>5. LastDone' = all[Len(all)][1][1]
    BY <1>5, <2>1 DEF LastDone
  <2>6. QED
    BY <1>1, <2>4, <2>5
<1>13. ASSUME NEW i \in 1..Len(all) PROVE \E m \in 1..Len(accepted) : all[i] = Body(m)
  <2>1. CASE i <= Len(ins)
    <3>1. i \in 1..Len(ins)
      BY <1>3, <2>1
    <3>2. all[i] = flowsFinishedInfo[i] /\ i \in 1..Len(flowsFinishedInfo)
      BY <1>3, <1>6, <3>1
    <3>3. QED
      BY <3>2 DEF Inv, StepInv
  <2>2. CASE ~(i <= Len(ins))
    <3>1. PICK n \in 1..Len(new) : i = Len(ins) + n
      <4>1. /\ Len(ins) \in Nat /\ Len(new) \in Nat
            /\ i \in 1..Len(ins) + Len(new) /\ ~(i <= Len(ins))
        BY <1>3, <1>6, <2>2
      <4>2. i - Len(ins) \in 1..Len(new) /\ i = Len(ins) + (i - Len(ins))
        BY ONLY <4>1
      <4>3. QED
        BY <4>2
    <3>2. all[i] = new[n]
      BY <1>6, <3>1
    <3>3. PICK j \in 1..Len(b) : new[n] = Body(b[j][1])
      BY <1>7, <1>8, <3>1
    <3>4. QED
      BY <1>9, <3>2, <3>3
  <2>3. QED
    BY <2>1, <2>2
<1>14. QED
  BY <1>5, <1>12, <1>13

\* What is left is the line from the last report parsed on, perhaps without frames
\* that did not end.
LEMMA LineNext ==
  ASSUME Inv, exposed = {}, NEW buf, NEW rest, NEW kept, ReceivedBy(buf, rest, kept),
         NEW e, NEW m, KeptFrom(buf, kept, e, m), LastDone' = buf[e][1]
  PROVE  /\ Linked(Line') /\ Line'[Len(Line')] = Line[Len(Line)]
         /\ \A i \in 1..Len(Coming') : (Coming')[i][1] \in 1..Len(accepted)
<1>1. PICK L \in Nat, R \in Nat : L = Len(buf) /\ R = Len(rest)
  BY DEF ReceivedBy
<1>2. /\ e \in 1..L /\ e \in Nat /\ IsClose(buf[e]) /\ m \in e + 1..L + 1 /\ m \in Nat
      /\ \A h \in 1..L : e < h => ~IsClose(buf[h])
      /\ kept = SubSeq(buf, m, L) /\ (IF m = L + 1 THEN e = L ELSE buf[m][2] = 1)
  BY <1>1 DEF KeptFrom
<1>3. /\ Len(Coming) = L + R /\ Len(Line) = 1 + (L + R) /\ Linked(Line) /\ Line \in Seq(Bytes)
      /\ \A i \in 1..L : buf[i] = Coming[i] /\ buf[i] = Line[1 + i]
      /\ \A i \in 1..R : rest[i] = Coming[L + i]
      /\ \A i \in 1..L + R : Line[1 + i] = Coming[i] /\ Coming[i][1] \in 1..Len(accepted)
  <2>1. /\ Len(Coming) = L + R /\ Len(Line) = 1 + Len(Coming)
        /\ \A i \in 1..L : buf[i] = Coming[i] /\ buf[i] = Line[1 + i]
        /\ \A i \in 1..R : rest[i] = Coming[L + i]
    BY <1>1, BufferInStep
  <2>2. Linked(Line) /\ \A i \in 1..Len(Coming) : Coming[i][1] \in 1..Len(accepted)
    BY DEF Inv, StepInv
  <2>3. Line \in Seq(Bytes) /\ \A i \in 1..Len(Coming) : Line[1 + i] = Coming[i]
    BY LineOf
  <2>4. QED
    BY <2>1, <2>2, <2>3
<1>4. PICK b \in Seq(Bytes), t \in Seq(Bytes), a \in Seq(Bytes) : b = buf /\ t = rest /\ a = kept
  BY DEF ReceivedBy
<1>5. Len(a) = L - m + 1 /\ \A i \in 1..L - m + 1 : a[i] = buf[m + i - 1]
  <2>1. m \in 1..Len(b) + 1 /\ Len(b) \in 0..Len(b) /\ m <= Len(b) + 1 /\ Len(b) = L
    BY <1>1, <1>2, <1>4
  <2>2. /\ Len(SubSeq(b, m, Len(b))) = Len(b) - m + 1
        /\ \A i \in 1..Len(b) - m + 1 : SubSeq(b, m, Len(b))[i] = b[m + i - 1]
    BY ONLY <2>1, b \in Seq(Bytes), PartAt
  <2>3. QED
    BY <1>1, <1>2, <1>4, <2>2
<1>6. PICK come \in Seq(Bytes) : come = a \o t /\ come = Coming'
  <2>1. a \o t \in Seq(Bytes)
    BY ConcatProperties
  <2>2. QED
    BY <1>4, <2>1 DEF ReceivedBy
<1>7. /\ Len(come) = Len(a) + R
      /\ \A i \in 1..Len(a) : come[i] = a[i]
      /\ \A i \in 1..R : come[Len(a) + i] = rest[i]
  <2>1. /\ Len(a \o t) = Len(a) + Len(t)
        /\ \A i \in 1..Len(a) : (a \o t)[i] = a[i]
        /\ \A i \in 1..Len(t) : (a \o t)[Len(a) + i] = t[i]
    BY ONLY a \in Seq(Bytes), t \in Seq(Bytes), ConcatAt
  <2>2. QED
    BY <1>1, <1>4, <1>6, <2>1
<1>8. PICK c \in Nat : c = L - m + 1 + R /\ Len(come) = c
  <2>1. L - m + 1 + R \in Nat /\ Len(come) = L - m + 1 + R
    BY <1>2, <1>5, <1>7
  <2>2. QED
    BY <2>1
<1>9. ASSUME NEW i \in 1..c
      PROVE  /\ m + i - 1 \in 1..L + R /\ come[i] = Coming[m + i - 1]
             /\ m + i \in 1..Len(Line) /\ come[i] = Line[m + i]
  <2>1. m + i - 1 \in 1..L + R /\ m + i \in 1..Len(Line) /\ 1 + (m + i - 1) = m + i
    BY <1>2, <1>3, <1>8
  <2>2. CASE i <= L - m + 1
    <3>1. i \in 1..L - m + 1 /\ i \in 1..Len(a) /\ m + i - 1 \in 1..L
      BY <1>2, <1>5, <2>2
    <3>2. come[i] = buf[m + i - 1]
      BY <1>5, <1>7, <3>1
    <3>3. QED
      BY <1>3, <2>1, <3>1, <3>2
  <2>3. CASE ~(i <= L - m + 1)
    <3>1. PICK j \in 1..R : i = Len(a) + j /\ m + i - 1 = L + j
      <4>1. i - Len(a) \in 1..R /\ i = Len(a) + (i - Len(a)) /\ m + i - 1 = L + (i - Len(a))
        <5>1. Len(a) = L - m + 1 /\ m \in Nat /\ m <= L + 1 /\ i \in 1..L - m + 1 + R
          BY <1>2, <1>5, <1>8
        <5>2. QED
          BY ONLY <5>1, <2>3, L \in Nat, R \in Nat
      <4>2. QED
        BY <4>1
    <3>2. come[i] = rest[j] /\ rest[j] = Coming[L + j]
      BY <1>3, <1>7, <3>1
    <3>3. QED
      BY <1>3, <2>1, <3>1, <3>2
  <2>4. QED
    BY <2>2, <2>3
<1>10. 1 + e \in 1..Len(Line) /\ Line[1 + e] = buf[e] /\ IsClose(Line[1 + e]) /\ buf[e] \in Bytes
  <2>1. 1 + e \in 1..Len(Line)
    BY <1>2, <1>3
  <2>2. Line[1 + e] = buf[e] /\ IsClose(Line[1 + e])
    BY <1>2, <1>3
  <2>3. buf[e] \in Bytes
    BY <1>1, <1>2, <1>4, BytesOf
  <2>4. QED
    BY <2>1, <2>2, <2>3
<1>11. PICK v \in Bytes : v = buf[e] /\ v = Line[1 + e] /\ v = <<LastDone', FrameLen>>
  <2>1. buf[e] = <<buf[e][1], FrameLen>>
    BY <1>2, <1>10, ByteParts DEF IsClose
  <2>2. QED
    BY <1>10, <2>1
<1>12. PICK U : /\ U = Line' /\ Len(U) = 1 + c /\ U[1] = Line[1 + e]
                /\ \A i \in 1..c : U[1 + i] = Line[m + i]
  <2>1. Line' = <<v>> \o come
    BY <1>6, <1>11 DEF Line
  <2>2. /\ Len(<<v>> \o come) = 1 + Len(come) /\ (<<v>> \o come)[1] = v
        /\ \A i \in 1..Len(come) : (<<v>> \o come)[1 + i] = come[i]
    BY ONLY v \in Bytes, come \in Seq(Bytes), LineAt
  <2>3. PICK U : U = Line' /\ U = <<v>> \o come
    BY <2>1
  <2>4. Len(U) = 1 + c /\ U[1] = Line[1 + e]
    BY <1>8, <1>11, <2>2, <2>3
  <2>5. \A i \in 1..c : U[1 + i] = Line[m + i]
    BY <1>8, <1>9, <2>2, <2>3
  <2>6. QED
    BY <2>3, <2>4, <2>5
<1>13. Linked(U)
  <2>1. ASSUME NEW i \in 1..c, i = 1 PROVE Follows(Line[1 + e], Line[m + 1])
    <3>1. m + 1 \in 1..Len(Line)
      BY <1>9, <2>1
    <3>2. CASE m = e + 1
      <4>1. 1 + e \in 1..Len(Line) - 1 /\ m + 1 = (1 + e) + 1
        BY <1>2, <1>3, <3>1, <3>2
      <4>2. QED
        BY <1>3, <4>1 DEF Linked
    <3>3. CASE m # e + 1
      <4>1. m \in 1..L /\ m # L + 1 /\ 1 + e < m + 1 /\ m + 1 = 1 + m
        BY <1>2, <3>3
      <4>2. IsOpen(Line[m + 1])
        <5>1. buf[m][2] = 1
          BY <1>2, <4>1
        <5>2. Line[1 + m] = buf[m]
          BY <1>3, <4>1
        <5>3. Line[m + 1] = buf[m]
          BY ONLY <4>1, <5>2
        <5>4. QED
          BY ONLY <5>1, <5>3 DEF IsOpen
      <4>3. ASSUME NEW h \in 1..Len(Line), 1 + e < h, h < m + 1 PROVE ~IsClose(Line[h])
        <5>1. PICK g \in 1..L : h = 1 + g /\ e < g
          <6>1. h - 1 \in 1..L /\ h = 1 + (h - 1) /\ e < h - 1
            BY <1>2, <1>3, <4>1, <4>3
          <6>2. QED
            BY <6>1
        <5>2. QED
          BY <1>2, <1>3, <5>1
      <4>4. QED
        BY <1>3, <1>10, <3>1, <4>1, <4>2, <4>3, NextClose
    <3>4. QED
      BY <3>2, <3>3
  <2>2. ASSUME NEW i \in 1..Len(U) - 1 PROVE Follows(U[i], U[i + 1])
    <3>1. i \in 1..c /\ i + 1 = 1 + i
      BY <1>12
    <3>2. CASE i = 1
      BY <1>12, <2>1, <3>1, <3>2
    <3>3. CASE i # 1
      <4>1. PICK j \in 1..c : i = 1 + j /\ (m + j) + 1 = m + i
        <5>1. i - 1 \in 1..c /\ i = 1 + (i - 1) /\ (m + (i - 1)) + 1 = m + i
          BY <1>2, <3>1, <3>3
        <5>2. QED
          BY <5>1
      <4>2. U[i] = Line[m + j] /\ U[i + 1] = Line[(m + j) + 1]
        BY <1>12, <3>1, <4>1
      <4>3. m + j \in 1..Len(Line) - 1
        <5>1. m + j \in 1..Len(Line) /\ m + i \in 1..Len(Line)
          BY <1>9, <3>1
        <5>2. QED
          BY <1>2, <1>3, <4>1, <5>1
      <4>4. QED
        BY <1>3, <4>2, <4>3 DEF Linked
    <3>4. QED
      BY <3>2, <3>3
  <2>3. QED
    BY <2>2 DEF Linked
<1>14. U[Len(U)] = Line[Len(Line)]
  <2>1. CASE c = 0
    <3>1. 1 + e = Len(Line)
      BY <1>2, <1>3, <1>8, <2>1
    <3>2. QED
      BY <1>12, <2>1, <3>1
  <2>2. CASE c # 0
    <3>1. c \in 1..c /\ m + c = Len(Line)
      BY <1>2, <1>3, <1>8, <2>2
    <3>2. QED
      BY <1>12, <3>1
  <2>3. QED
    BY <2>1, <2>2
<1>15. \A i \in 1..c : come[i][1] \in 1..Len(accepted)
  BY <1>3, <1>9
<1>16. QED
  BY <1>6, <1>8, <1>12, <1>13, <1>14, <1>15

LEMMA ReceiveNext == ASSUME Inv, ReceiveReports PROVE Inv'
<1>1. PICK buf, rest, kept : ReceivedBy(buf, rest, kept)
  BY ReceiveIs DEF Inv
<1>2. TypeInv'
  BY ReceiveTypes DEF Inv
<1>3. m_sendBuf' = m_sendBuf /\ accepted' = accepted
  BY <1>1 DEF ReceivedBy
<1>4. AcceptedInv' /\ SendInv'
  BY <1>3 DEF Inv, AcceptedInv, SendInv, Sendable
<1>5. ASSUME exposed' = {} PROVE StepInv'
  <2>1. Defined(buf) /\ exposed = {} /\ StepInv
    BY <1>1, <1>5, ExposedIs DEF Inv
  <2>2. PICK e, m : KeptFrom(buf, kept, e, m)
    <3>1. PICK b \in Seq(Bytes) : b = buf
      BY <1>1 DEF ReceivedBy
    <3>2. PICK start \in StartIndex(b), end \in EndIndex(b) : kept = Kept(b, start, end)
      BY <1>1, <3>1 DEF ReceivedBy
    <3>3. Linked(b) /\ Framed(b) /\ Defined(b)
      BY <1>1, <2>1, <3>1, BufferInStep
    <3>4. \E e, m : KeptFrom(b, Kept(b, start, end), e, m)
      BY <3>3, KeptOf
    <3>5. QED
      BY <3>1, <3>2, <3>4
  <2>3. /\ LastDone' = buf[e][1]
        /\ \A i \in 1..Len(flowsFinishedInfo') :
             \E n \in 1..Len(accepted) : flowsFinishedInfo'[i] = Body(n)
    <3>1. e \in 1..Len(buf) /\ IsClose(buf[e]) /\ e = Max(Closes(buf))
      BY <2>2 DEF KeptFrom
    <3>2. QED
      BY <1>1, <2>1, <3>1, DoneNext
  <2>4. /\ Linked(Line') /\ Line'[Len(Line')] = Line[Len(Line)]
        /\ \A i \in 1..Len(Coming') : (Coming')[i][1] \in 1..Len(accepted)
    BY <1>1, <2>1, <2>2, <2>3, LineNext
  <2>5. Len(tmprecv') < FrameLen
    <3>1. kept = SubSeq(buf, m, Len(buf)) /\ Len(buf) - m + 1 < FrameLen
      BY <2>2 DEF KeptFrom
    <3>2. PICK b \in Seq(Bytes) : b = buf /\ Len(b) \in Nat
      BY <1>1 DEF ReceivedBy
    <3>3. m \in 1..Len(b) + 1 /\ Len(b) \in 0..Len(b) /\ m <= Len(b) + 1
      BY <2>2, <3>2 DEF KeptFrom
    <3>4. Len(SubSeq(b, m, Len(b))) = Len(b) - m + 1
      BY ONLY <3>3, b \in Seq(Bytes), PartAt
    <3>5. tmprecv' = kept
      BY <1>1 DEF ReceivedBy
    <3>6. QED
      BY <3>1, <3>2, <3>4, <3>5
  <2>6. ~crashed'
    BY <1>1, <2>1 DEF ReceivedBy
  <2>7. PICK line, come : line = Line' /\ come = Coming'
    OBVIOUS
  <2>8. /\ Linked(line)
        /\ IF m_sendBuf' = <<>> THEN line[Len(line)] = <<Len(accepted'), FrameLen>>
                                ELSE Follows(line[Len(line)], m_sendBuf'[1])
    BY <1>3, <2>1, <2>4, <2>7 DEF StepInv
  <2>9. \A i \in 1..Len(come) : come[i][1] \in 1..Len(accepted')
    BY <1>3, <2>4, <2>7
  <2>10. \A i \in 1..Len(flowsFinishedInfo') : \E n \in 1..Len(accepted') : flowsFinishedInfo'[i] = Body(n)
    BY <1>3, <2>3
  <2>11. QED
    BY <2>5, <2>6, <2>7, <2>8, <2>9, <2>10 DEF StepInv, Linked, Follows
<1>6. QED
  BY <1>2, <1>4, <1>5 DEF Inv

\* All of it holds in every state.
LEMMA InvCorrect == Spec => []Inv
<1>1. Inv /\ [Next]_vars => Inv'
  BY SendNext, ReceiveNext, StutterInv DEF Next
<1>2. QED
  BY InitInv, <1>1, PTL DEF Spec

\* Both programs' buffers hold bytes of reports and stay within their sizes, and
\* until an undefined index is used the master keeps less than one report back.
THEOREM TypeCorrect == Spec => []TypeOK
<1>1. Inv => TypeOK
  BY DEF Inv, TypeInv, TypeOK, StepInv
<1>2. QED
  BY InvCorrect, <1>1, PTL

-----------------------------------------------------------------------------
(* No report is lost but one that an undefined index reached *)

LostInv ==
  \A n \in 1..Len(accepted) :
    \/ Contains(flowsFinishedInfo, Body(n))
    \/ HasWhole(Coming, n) \/ HasWhole(m_sendBuf, n)
    \/ n \in exposed \/ crashed

LEMMA SendKeepsAll == ASSUME Inv, LostInv, SendReport PROVE LostInv'
<1>1. PICK buf, k, part : SentBy(buf, k, part)
  BY SendIs
<1>2. PICK b \in Seq(Bytes), p \in Seq(Bytes) : b = buf /\ p = part /\ p = SubSeq(b, 1, k)
  BY <1>1 DEF SentBy
<1>3. /\ Coming' = Coming \o p /\ m_sendBuf' = (IF k = Len(b) THEN <<>> ELSE b)
      /\ flowsFinishedInfo' = flowsFinishedInfo /\ exposed' = exposed /\ crashed' = crashed
      /\ Len(accepted') = Len(accepted) + 1 /\ Len(accepted) + 1 \in 1..NumReports
      /\ b = m_sendBuf \o Frame(Len(accepted) + 1)
  BY <1>1, <1>2 DEF SentBy
<1>4. Len(accepted) \in Nat /\ Len(accepted) + 1 \in 0..NumReports
  <2>1. Len(accepted) \in Nat
    BY TypesOf DEF Inv
  <2>2. QED
    BY <1>3, <2>1
<1>5. PICK c \in Seq(Bytes), s \in Seq(Bytes), f \in Seq(Bytes) :
        c = Coming /\ s = m_sendBuf /\ f = Frame(Len(accepted) + 1)
  BY <1>4, TypesOf, FrameBytes DEF Inv
<1>6. ASSUME NEW n, HasWhole(c, n) PROVE HasWhole(c \o p, n)
  BY ONLY <1>6, c \in Seq(Bytes), p \in Seq(Bytes), WholeConcat
<1>7. ASSUME NEW n, HasWhole(b, n) PROVE HasWhole(c \o p, n) \/ HasWhole(m_sendBuf', n)
  <2>1. CASE k = Len(b)
    <3>1. p = b
      BY <1>2, <2>1, SubSeqFull
    <3>2. HasWhole(c \o p, n)
      BY ONLY <1>7, <3>1, c \in Seq(Bytes), p \in Seq(Bytes), WholeConcat
    <3>3. QED
      BY <3>2
  <2>2. CASE k # Len(b)
    BY <1>3, <1>7, <2>2
  <2>3. QED
    BY <2>1, <2>2
<1>8. ASSUME NEW n, HasWhole(s, n) \/ HasWhole(f, n) PROVE HasWhole(b, n)
  <2>1. HasWhole(s \o f, n)
    BY ONLY <1>8, s \in Seq(Bytes), f \in Seq(Bytes), WholeConcat
  <2>2. QED
    BY <1>3, <1>5, <2>1
<1>9. HasWhole(f, Len(accepted) + 1)
  <2>1. /\ Len(f) = FrameLen /\ FrameLen \in Nat
        /\ \A q \in 1..FrameLen : f[q] = <<Len(accepted) + 1, q>> /\ 0 + q = q
    BY <1>4, <1>5, FrameBytes, SocketAssumption
  <2>2. 0 \in 0..Len(f) - FrameLen /\ 0 \in Nat
    BY <2>1
  <2>3. QED
    BY <2>1, <2>2 DEF HasWhole, WholeAt
<1>10. ASSUME NEW n \in 1..Len(accepted')
       PROVE  \/ Contains(flowsFinishedInfo', Body(n))
              \/ HasWhole(c \o p, n) \/ HasWhole(m_sendBuf', n)
              \/ n \in exposed' \/ crashed'
  <2>1. CASE n = Len(accepted) + 1
    BY <1>7, <1>8, <1>9, <2>1
  <2>2. CASE n \in 1..Len(accepted)
    <3>1. \/ Contains(flowsFinishedInfo, Body(n))
          \/ HasWhole(c, n) \/ HasWhole(s, n)
          \/ n \in exposed \/ crashed
      BY <1>5, <2>2 DEF LostInv
    <3>2. QED
      BY <1>3, <1>6, <1>7, <1>8, <3>1
  <2>3. n = Len(accepted) + 1 \/ n \in 1..Len(accepted)
    BY <1>3, <1>4
  <2>4. QED
    BY <2>1, <2>2, <2>3
<1>11. PICK come : come = Coming' /\ come = c \o p
  BY <1>3, <1>5
<1>12. QED
  BY <1>10, <1>11 DEF LostInv, HasWhole, WholeAt

\* A frame that is partly in the buffer is kept from its '(' on, when the indices are set.
LEMMA PartIsKept ==
  ASSUME NEW s \in Seq(Bytes), Defined(s), NEW start \in StartIndex(s), NEW end \in EndIndex(s),
         NEW t, NEW n, NEW c \in 1..FrameLen - 1, Parted(s, t, n, c)
  PROVE  Len(Kept(s, start, end)) = c /\ Parted(Kept(s, start, end), t, n, c)
<1>0. /\ c <= Len(s) /\ FrameLen - c <= Len(t)
      /\ \A q \in 1..c : s[(Len(s) - c) + q] = <<n, q>>
      /\ \A q \in 1..FrameLen - c : t[q] = <<n, c + q>>
  BY DEF Parted
<1>1. Len(s) \in Nat /\ FrameLen \in Nat /\ c \in Nat /\ c >= 1 /\ c < FrameLen
  BY OpensCloses, SocketAssumption
<1>2. PICK o \in 1..Len(s) : o = (Len(s) - c) + 1
  <2>1. (Len(s) - c) + 1 \in 1..Len(s)
    BY <1>0, <1>1
  <2>2. QED
    BY <2>1
<1>3. ASSUME NEW i \in 1..Len(s), o <= i
      PROVE  /\ s[i][2] # FrameLen
             /\ s[i][2] = 1 <=> i = o
  <2>1. PICK q \in 1..c : i = (Len(s) - c) + q
    <3>1. i - (Len(s) - c) \in 1..c /\ i = (Len(s) - c) + (i - (Len(s) - c))
      BY <1>1, <1>2, <1>3
    <3>2. QED
      BY <3>1
  <2>2. s[i][2] = q
    <3>1. s[i] = <<n, q>>
      BY <1>0, <2>1
    <3>2. QED
      BY ONLY <3>1
  <2>3. QED
    BY <1>1, <1>2, <2>1, <2>2
<1>4. Max(Opens(s)) = o
  <2>1. o \in Opens(s)
    <3>1. o <= o
      BY <1>1
    <3>2. s[o][2] = 1
      BY <1>3, <3>1
    <3>3. QED
      BY <3>2, OpensCloses
  <2>2. ASSUME NEW i \in Opens(s) PROVE i <= o
    <3>1. i \in 1..Len(s) /\ s[i][2] = 1
      BY OpensCloses
    <3>2. o <= i => i = o
      BY <1>3, <3>1
    <3>3. QED
      BY <1>1, <3>1, <3>2
  <2>3. Opens(s) \subseteq Nat
    BY OpensCloses
  <2> QED
    BY <2>1, <2>2, <2>3, MaxIs
<1>5. ~(Max(Closes(s)) > Max(Opens(s)))
  <2>1. Max(Closes(s)) \in 1..Len(s) /\ s[Max(Closes(s))][2] = FrameLen
    BY OpensCloses DEF Defined
  <2>2. ~(o <= Max(Closes(s)))
    BY <1>3, <2>1
  <2>3. QED
    BY <1>1, <1>4, <2>1, <2>2
<1>6. Kept(s, start, end) = SubSeq(s, o, Len(s))
  BY <1>4, <1>5, KeptDefined
<1>7. PICK a \in Seq(Bytes) : /\ a = SubSeq(s, o, Len(s)) /\ Len(a) = c
                              /\ \A q \in 1..c : a[q] = s[(Len(s) - c) + q]
  <2>1. /\ o \in 1..Len(s) + 1 /\ Len(s) \in 0..Len(s) /\ o <= Len(s) + 1
        /\ Len(s) - o + 1 = c /\ \A q \in 1..c : o + q - 1 = (Len(s) - c) + q
    BY <1>1, <1>2
  <2>2. /\ SubSeq(s, o, Len(s)) \in Seq(Bytes) /\ Len(SubSeq(s, o, Len(s))) = Len(s) - o + 1
        /\ \A q \in 1..Len(s) - o + 1 : SubSeq(s, o, Len(s))[q] = s[o + q - 1]
    BY ONLY <2>1, s \in Seq(Bytes), PartAt
  <2>3. PICK a \in Seq(Bytes) : /\ a = SubSeq(s, o, Len(s)) /\ Len(a) = Len(s) - o + 1
                                 /\ \A q \in 1..Len(s) - o + 1 : a[q] = s[o + q - 1]
    BY <2>2
  <2>4. Len(a) = c /\ \A q \in 1..c : a[q] = s[(Len(s) - c) + q]
    BY ONLY <2>1, <2>3
  <2>5. QED
    BY <2>3, <2>4
<1>8. Parted(a, t, n, c)
  <2>0. \A q \in 1..c : (Len(a) - c) + q = q
    BY <1>1, <1>7
  <2>1. \A q \in 1..c : a[(Len(a) - c) + q] = <<n, q>>
    <3>1. ASSUME NEW q \in 1..c PROVE a[q] = <<n, q>>
      <4>1. a[q] = s[(Len(s) - c) + q]
        BY <1>7
      <4>2. s[(Len(s) - c) + q] = <<n, q>>
        BY <1>0
      <4>3. QED
        BY ONLY <4>1, <4>2
    <3>2. QED
      BY <2>0, <3>1
  <2>2. c <= Len(a)
    BY <1>1, <1>7
  <2>3. QED
    BY <1>0, <2>1, <2>2 DEF Parted
<1>9. QED
  BY <1>6, <1>7, <1>8

LEMMA ReceiveKeepsAll == ASSUME Inv, LostInv, ReceiveReports PROVE LostInv'
<1>1. PICK buf, rest, kept : ReceivedBy(buf, rest, kept)
  BY ReceiveIs DEF Inv
<1>2. PICK b \in Seq(Bytes), t \in Seq(Bytes), a \in Seq(Bytes) : b = buf /\ t = rest /\ a = kept
  BY <1>1 DEF ReceivedBy
<1>3. /\ Coming = b \o t /\ Coming' = a \o t
      /\ flowsFinishedInfo' = flowsFinishedInfo \o Parsed(b)
      /\ m_sendBuf' = m_sendBuf /\ accepted' = accepted
      /\ Defined(b) => crashed' = crashed
      /\ ~crashed
  BY <1>1, <1>2 DEF ReceivedBy
<1>4. PICK start \in StartIndex(b), end \in EndIndex(b) : a = Kept(b, start, end)
  BY <1>1, <1>2 DEF ReceivedBy
<1>5. /\ exposed \subseteq exposed'
      /\ ~Defined(b) => \A i \in 1..Len(b) : b[i][1] \in exposed'
  BY <1>1, <1>2, ExposedIs DEF Inv
<1>6. PICK ins \in Seq(Seq(Bytes)), new \in Seq(Seq(Bytes)) :
        ins = flowsFinishedInfo /\ new = Parsed(b) /\ flowsFinishedInfo' = ins \o new
  BY <1>3, ParsedIs, TypesOf DEF Inv
<1>7. /\ Len(ins \o new) = Len(ins) + Len(new) /\ Len(ins) \in Nat /\ Len(new) \in Nat
      /\ \A i \in 1..Len(ins) : (ins \o new)[i] = ins[i]
      /\ \A i \in 1..Len(new) : (ins \o new)[Len(ins) + i] = new[i]
  <2>1. /\ ins \o new \in Seq(Seq(Bytes)) /\ Len(ins \o new) = Len(ins) + Len(new)
        /\ \A i \in 1..Len(ins) : (ins \o new)[i] = ins[i]
        /\ \A i \in 1..Len(new) : (ins \o new)[Len(ins) + i] = new[i]
    BY ONLY ins \in Seq(Seq(Bytes)), new \in Seq(Seq(Bytes)), ConcatAt
  <2>2. QED
    BY <2>1, LenProperties
<1>8. ASSUME NEW x, Contains(ins, x) \/ \E i \in 1..Len(new) : new[i] = x
      PROVE  Contains(flowsFinishedInfo', x)
  <2>1. CASE Contains(ins, x)
    <3>1. PICK i \in 1..Len(ins) : ins[i] = x
      BY <2>1 DEF Contains
    <3>2. i \in 1..Len(ins \o new) /\ (ins \o new)[i] = x
      BY <1>7, <3>1
    <3>3. QED
      BY <1>6, <3>2 DEF Contains
  <2>2. CASE \E i \in 1..Len(new) : new[i] = x
    <3>1. PICK i \in 1..Len(new) : new[i] = x
      BY <2>2
    <3>2. Len(ins) + i \in 1..Len(ins \o new) /\ (ins \o new)[Len(ins) + i] = x
      BY <1>7, <3>1
    <3>3. QED
      BY <1>6, <3>2 DEF Contains
  <2>3. QED
    BY <1>8, <2>1, <2>2
<1>9. ASSUME NEW n \in 0..NumReports, HasWhole(b \o t, n)
      PROVE  Contains(flowsFinishedInfo', Body(n)) \/ HasWhole(a \o t, n) \/ n \in exposed'
  <2>1. CASE HasWhole(b, n)
    BY <1>6, <1>8, <2>1, ParsedWhole
  <2>2. CASE HasWhole(t, n)
    BY ONLY <2>2, a \in Seq(Bytes), t \in Seq(Bytes), WholeConcat
  <2>3. ASSUME NEW c \in 1..FrameLen - 1, Parted(b, t, n, c)
        PROVE  HasWhole(a \o t, n) \/ n \in exposed'
    <3>1. CASE Defined(b)
      <4>1. Len(a) = c /\ Parted(a, t, n, c)
        BY <1>4, <2>3, <3>1, PartIsKept
      <4>2. QED
        BY <4>1, WholeJoined
    <3>2. CASE ~Defined(b)
      <4>0. c <= Len(b) /\ \A q \in 1..c : b[(Len(b) - c) + q] = <<n, q>>
        BY <2>3 DEF Parted
      <4>1. PICK i \in 1..Len(b) : i = (Len(b) - c) + 1
        <5>1. Len(b) \in Nat /\ c \in Nat /\ c >= 1
          BY BytesOf, SocketAssumption
        <5>2. (Len(b) - c) + 1 \in 1..Len(b)
          BY <4>0, <5>1
        <5>3. QED
          BY <5>2
      <4>2. 1 \in 1..c
        BY SocketAssumption
      <4>3. b[i] = <<n, 1>>
        BY <4>0, <4>1, <4>2
      <4>4. b[i][1] = n
        BY ONLY <4>3
      <4>5. QED
        BY <1>5, <3>2, <4>4
    <3>3. QED
      BY <3>1, <3>2
  <2>4. \/ HasWhole(b, n) \/ HasWhole(t, n)
        \/ \E c \in 1..FrameLen - 1 : Parted(b, t, n, c)
    BY <1>9, WholeSplit
  <2>5. QED
    BY <2>1, <2>2, <2>3, <2>4
<1>10. ASSUME NEW n \in 1..Len(accepted')
       PROVE  \/ Contains(flowsFinishedInfo', Body(n))
              \/ HasWhole(a \o t, n) \/ HasWhole(m_sendBuf', n)
              \/ n \in exposed' \/ crashed'
  <2>1. n \in 1..Len(accepted) /\ n \in 0..NumReports
    <3>1. n \in 1..Len(accepted) /\ Len(accepted) \in Nat /\ Len(accepted) <= NumReports
      BY <1>3, TypesOf DEF Inv, AcceptedInv
    <3>2. QED
      BY <3>1, ReportAssumption
  <2>2. \/ Contains(ins, Body(n))
        \/ HasWhole(b \o t, n) \/ HasWhole(m_sendBuf, n)
        \/ n \in exposed
    BY <1>3, <1>6, <2>1 DEF LostInv
  <2>3. QED
    BY <1>3, <1>5, <1>8, <1>9, <2>1, <2>2
<1>11. PICK come : come = Coming' /\ come = a \o t
  BY <1>3
<1>12. QED
  BY <1>10, <1>11 DEF LostInv, HasWhole, WholeAt

\* A report that setSendMsg took is parsed, or every byte of it is on its way or in
\* the master's buffer, unless bytes of it were in a call that used an undefined
\* index: whatever such a call keeps or throws away, no other report is lost by it.
THEOREM LostOnlyIfExposedCorrect == Spec => []LostOnlyIfExposed
<1>1. Init => LostInv
  <2> SUFFICES ASSUME Init PROVE LostInv
    OBVIOUS
  <2>1. Len(accepted) = 0
    BY DEF Init
  <2>2. QED
    BY <2>1 DEF LostInv
<1>2. Inv /\ LostInv /\ [Next]_vars => LostInv'
  <2>1. ASSUME LostInv, UNCHANGED vars PROVE LostInv'
    <3>1. PICK come : come = Coming' /\ come = Coming
      BY <2>1 DEF vars, Coming
    <3>2. /\ m_sendBuf' = m_sendBuf /\ accepted' = accepted /\ flowsFinishedInfo' = flowsFinishedInfo
          /\ exposed' = exposed /\ crashed' = crashed
      BY <2>1 DEF vars
    <3>3. \A n \in 1..Len(accepted') :
            \/ Contains(flowsFinishedInfo', Body(n))
            \/ HasWhole(come, n) \/ HasWhole(m_sendBuf', n)
            \/ n \in exposed' \/ crashed'
      BY <2>1, <3>1, <3>2 DEF LostInv
    <3>4. QED
      BY <3>1, <3>3 DEF LostInv, HasWhole, WholeAt
  <2>2. QED
    BY <2>1, SendKeepsAll, ReceiveKeepsAll DEF Next
<1>3. ASSUME Inv, LostInv PROVE LostOnlyIfExposed
  <2> SUFFICES ASSUME NEW n \in DOMAIN accepted
               PROVE  LET Whole(s) == \E i \in 1..Len(s) - FrameLen + 1 :
                                        SubSeq(s, i, i + FrameLen - 1) = Frame(n)
                      IN  \/ Contains(flowsFinishedInfo, Body(n))
                          \/ Whole(tmprecv \o stream) \/ Whole(m_sendBuf)
                          \/ n \in exposed \/ crashed
    BY DEF LostOnlyIfExposed
  <2>1. /\ n \in 1..Len(accepted) /\ n \in 0..NumReports
        /\ Coming \in Seq(Bytes) /\ m_sendBuf \in Seq(Bytes)
    <3>1. n \in 1..Len(accepted) /\ Len(accepted) \in Nat /\ Len(accepted) <= NumReports
      BY <1>3, TypesOf, LenProperties DEF Inv, AcceptedInv
    <3>2. QED
      BY <1>3, <3>1, TypesOf, ReportAssumption DEF Inv
  <2>2. \/ Contains(flowsFinishedInfo, Body(n))
        \/ HasWhole(Coming, n) \/ HasWhole(m_sendBuf, n)
        \/ n \in exposed \/ crashed
    BY <1>3, <2>1 DEF LostInv
  <2>3. HasWhole(Coming, n) => \E i \in 1..Len(tmprecv \o stream) - FrameLen + 1 :
                                 SubSeq(tmprecv \o stream, i, i + FrameLen - 1) = Frame(n)
    BY <2>1, WholeIs DEF Coming
  <2>4. HasWhole(m_sendBuf, n) => \E i \in 1..Len(m_sendBuf) - FrameLen + 1 :
                                    SubSeq(m_sendBuf, i, i + FrameLen - 1) = Frame(n)
    BY <2>1, WholeIs
  <2>5. QED
    BY <2>2, <2>3, <2>4
<1>4. QED
  BY InvCorrect, <1>1, <1>2, <1>3, PTL DEF Spec

-----------------------------------------------------------------------------
(* Until an undefined index is used, each step is one of GoBackFifo *)

Place(acc, body) == Max({n \in DOMAIN acc : Body(n) = body} \cup {0})

Places(acc, infos) == [i \in DOMAIN infos |-> Place(acc, infos[i])]

\* A body is that of one report.
LEMMA PlaceIs ==
  ASSUME NEW L \in 0..NumReports, NEW acc, DOMAIN acc = 1..L, NEW n \in 1..L
  PROVE  Place(acc, Body(n)) = n
<1> DEFINE T == {k \in DOMAIN acc : Body(k) = Body(n)} \cup {0}
<1>1. L \in Nat /\ L <= NumReports /\ NumReports \in Nat
  BY ReportAssumption
<1>2. ASSUME NEW k \in 1..L, Body(k) = Body(n) PROVE k = n
  <2>1. k \in 0..NumReports /\ n \in 0..NumReports
    BY <1>1
  <2>2. Body(k)[1][1] = k /\ Body(n)[1][1] = n
    BY <2>1, BodyBytes
  <2>3. QED
    BY <1>2, <2>2
<1>3. T \subseteq Nat /\ n \in T /\ \A k \in T : k <= n
  <2>1. \A k \in T : k = n \/ k = 0
    BY <1>2
  <2>2. n \in Nat /\ 0 <= n /\ n <= n
    BY <1>1
  <2>3. n \in T
    OBVIOUS
  <2> HIDE DEF T
  <2>4. QED
    BY <2>1, <2>2, <2>3
<1> HIDE DEF T
<1>4. Max(T) = n
  <2>1. n \in T
    BY <1>3
  <2>2. QED
    BY <1>3, <2>1, MaxIs
<1>5. QED
  BY <1>4 DEF Place, T

\* new adds to ins bodies of reports up to the L-th, each of them of the report
\* after the one before it or of an earlier one.
AddedInOrder(L, ins, new) ==
  /\ Len(ins) \in Nat /\ Len(new) \in Nat /\ Len(ins) <= Len(new)
  /\ DOMAIN ins = 1..Len(ins) /\ DOMAIN new = 1..Len(new)
  /\ \A i \in 1..Len(ins) : ins[i] = new[i]
  /\ \A i \in 1..Len(new) : \E n \in 1..L : new[i] = Body(n)
  /\ \A j \in Len(ins) + 1..Len(new) :
       \A n \in 1..L : new[j] = Body(n) => n <= (IF j = 1 THEN 0 ELSE new[j - 1][1][1]) + 1

LEMMA PlacesInOrder ==
  ASSUME NEW L \in 0..NumReports, NEW acc, DOMAIN acc = 1..L, NEW ins, NEW new,
         AddedInOrder(L, ins, new),
         NEW g, g = Places(acc, ins), NEW h, h = Places(acc, new)
  PROVE  /\ Len(g) = Len(ins) /\ Len(h) = Len(new)
         /\ SubSeq(h, 1, Len(g)) = g
         /\ \A j \in Len(g) + 1..Len(h) :
              h[j] \in 1..(IF j = 1 THEN 0 ELSE h[j - 1]) + 1 /\ h[j] <= L
<1>a. /\ Len(ins) \in Nat /\ Len(new) \in Nat /\ Len(ins) <= Len(new)
      /\ DOMAIN ins = 1..Len(ins) /\ DOMAIN new = 1..Len(new)
      /\ \A i \in 1..Len(ins) : ins[i] = new[i]
      /\ \A i \in 1..Len(new) : \E n \in 1..L : new[i] = Body(n)
  BY DEF AddedInOrder
<1>b. /\ g = [i \in DOMAIN ins |-> Place(acc, ins[i])]
      /\ h = [i \in DOMAIN new |-> Place(acc, new[i])]
  BY DEF Places
<1>1. L \in Nat /\ \A n \in 1..L : n \in Nat /\ n \in 0..NumReports /\ 1 <= n /\ n <= L
  BY ReportAssumption
<1>2. ASSUME NEW i \in 1..Len(new)
      PROVE  \E n \in 1..L : new[i] = Body(n) /\ h[i] = n /\ new[i][1][1] = n
  <2>1. PICK n \in 1..L : new[i] = Body(n)
    BY <1>a
  <2>2. h[i] = n
    <3>1. h[i] = Place(acc, new[i])
      BY <1>a, <1>b
    <3>2. Place(acc, Body(n)) = n
      BY PlaceIs
    <3>3. QED
      BY <2>1, <3>1, <3>2
  <2>3. Body(n)[1][1] = n
    BY <1>1, BodyBytes
  <2>4. QED
    BY <2>1, <2>2, <2>3
<1>3. h \in Seq(Nat) /\ Len(h) = Len(new)
  <2>1. \A i \in 1..Len(new) : h[i] \in Nat
    BY <1>1, <1>2
  <2>2. h \in [1..Len(new) -> Nat]
    BY <1>a, <1>b, <2>1
  <2>3. PICK l \in Nat : l = Len(new)
    BY <1>a
  <2>4. h \in [1..l -> Nat]
    BY <2>2, <2>3
  <2>5. h \in Seq(Nat) /\ Len(h) = l
    BY ONLY <2>4, l \in Nat
  <2>6. QED
    BY <2>3, <2>5
<1>4. \A i \in 1..Len(ins) : i \in 1..Len(new) /\ g[i] = h[i]
  BY <1>a, <1>b
<1>5. g \in Seq(Nat) /\ Len(g) = Len(ins)
  <2>1. \A i \in 1..Len(ins) : g[i] \in Nat
    BY <1>1, <1>2, <1>4
  <2>2. PICK l \in Nat : l = Len(ins)
    BY <1>a
  <2>3. g \in [1..l -> Nat]
    BY <1>a, <1>b, <2>1, <2>2
  <2>4. g \in Seq(Nat) /\ Len(g) = l
    BY ONLY <2>3, l \in Nat
  <2>5. QED
    BY <2>2, <2>4
<1>6. SubSeq(h, 1, Len(g)) = g
  <2>1. 1 \in 1..Len(h) + 1 /\ Len(g) \in 0..Len(h) /\ 1 <= Len(g) + 1
    BY <1>3, <1>5, <1>a
  <2>2. /\ SubSeq(h, 1, Len(g)) \in Seq(Nat) /\ Len(SubSeq(h, 1, Len(g))) = Len(g) - 1 + 1
        /\ \A i \in 1..Len(g) - 1 + 1 : SubSeq(h, 1, Len(g))[i] = h[1 + i - 1]
    BY <1>3, <2>1, PartAt
  <2>3. /\ Len(SubSeq(h, 1, Len(g))) = Len(g)
        /\ \A i \in 1..Len(g) : SubSeq(h, 1, Len(g))[i] = g[i]
    BY <1>4, <1>5, <2>2
  <2>4. QED
    BY <1>5, <2>2, <2>3, SeqEqual
<1>7. ASSUME NEW j \in Len(ins) + 1..Len(new)
      PROVE  h[j] \in 1..(IF j = 1 THEN 0 ELSE h[j - 1]) + 1 /\ h[j] <= L
  <2>1. j \in 1..Len(new) /\ j \in Nat
    BY <1>a
  <2>2. PICK n \in 1..L : new[j] = Body(n) /\ h[j] = n
    BY <1>2, <2>1
  <2>3. n <= (IF j = 1 THEN 0 ELSE new[j - 1][1][1]) + 1
    BY <2>2 DEF AddedInOrder
  <2>4. CASE j = 1
    BY <1>1, <2>2, <2>3, <2>4
  <2>5. CASE j # 1
    <3>1. j - 1 \in 1..Len(new)
      BY <1>a, <2>1, <2>5
    <3>2. PICK m \in 1..L : h[j - 1] = m /\ new[j - 1][1][1] = m
      BY <1>2, <3>1
    <3>3. n <= m + 1
      BY <2>3, <2>5, <3>2
    <3>4. n \in 1..m + 1 /\ n <= L
      BY <1>1, <3>3
    <3>5. QED
      BY <2>2, <2>5, <3>2, <3>4
  <2>6. QED
    BY <2>4, <2>5
<1>8. QED
  BY <1>3, <1>5, <1>6, <1>7

\* What ReportChannel gives for got.
Got == [i \in DOMAIN flowsFinishedInfo |-> PositionOf(flowsFinishedInfo[i])]

LEMMA GotIs ==
  /\ Got = Places(accepted, flowsFinishedInfo)
  /\ Got' = Places(accepted', flowsFinishedInfo')
BY DEF Got, Places, Place, PositionOf

LEMMA AcceptedOf ==
  ASSUME Inv
  PROVE  /\ Len(accepted) \in Nat /\ Len(accepted) \in 0..NumReports
         /\ DOMAIN accepted = 1..Len(accepted)
<1>1. accepted \in Seq(1..NumReports) /\ Len(accepted) \in Nat /\ Len(accepted) <= NumReports
  BY TypesOf DEF Inv, AcceptedInv
<1>2. DOMAIN accepted = 1..Len(accepted)
  BY <1>1, LenProperties
<1>3. QED
  BY <1>1, <1>2, ReportAssumption

LEMMA SendAccepts == ASSUME Inv, exposed = {}, SendReport PROVE Channel!Next
<1>1. PICK buf, k, part : SentBy(buf, k, part)
  BY SendIs
<1>2. /\ accepted' \in Seq(1..NumReports) /\ Len(accepted') = Len(accepted) + 1
      /\ \A i \in 1..Len(accepted) : accepted'[i] = accepted[i]
      /\ flowsFinishedInfo' = flowsFinishedInfo
      /\ Len(accepted) + 1 \in 1..NumReports
  BY <1>1 DEF SentBy
<1>3. /\ accepted \in Seq(1..NumReports) /\ Len(accepted) \in Nat
      /\ DOMAIN accepted = 1..Len(accepted) /\ Len(accepted) \in 0..NumReports
  BY AcceptedOf, TypesOf DEF Inv
<1>4. PICK acc \in Seq(1..NumReports), l \in 0..NumReports :
        /\ acc = accepted' /\ l = Len(accepted) /\ Len(acc) = l + 1 /\ l + 1 \in 0..NumReports
        /\ DOMAIN acc = 1..l + 1
  <2>1. DOMAIN accepted' = 1..Len(accepted')
    BY <1>2, LenProperties
  <2>2. Len(accepted) + 1 \in 0..NumReports
    BY <1>2, <1>3
  <2>3. QED
    BY <1>2, <1>3, <2>1, <2>2
<1>5. ASSUME NEW i \in DOMAIN flowsFinishedInfo
      PROVE  Place(accepted', flowsFinishedInfo[i]) = Place(accepted, flowsFinishedInfo[i])
  <2>1. i \in 1..Len(flowsFinishedInfo)
    BY TypesOf, LenProperties DEF Inv
  <2>2. PICK n \in 1..Len(accepted) : flowsFinishedInfo[i] = Body(n)
    BY <2>1 DEF Inv, StepInv
  <2>3. Place(accepted, Body(n)) = n
    BY <1>3, PlaceIs
  <2>4. n \in 1..l + 1
    BY <1>3, <1>4
  <2>5. Place(acc, Body(n)) = n
    BY <1>4, <2>4, PlaceIs
  <2>6. QED
    BY <1>4, <2>2, <2>3, <2>5
<1>6. Got' = Got
  BY <1>2, <1>5, GotIs DEF Places
<1>7. SubSeq(acc, 1, l) = accepted
  <2>1. 1 \in 1..Len(acc) + 1 /\ l \in 0..Len(acc) /\ 1 <= l + 1 /\ l - 1 + 1 = l
        /\ \A i \in 1..l : 1 + i - 1 = i
    BY <1>4
  <2>2. /\ SubSeq(acc, 1, l) \in Seq(1..NumReports) /\ Len(SubSeq(acc, 1, l)) = l - 1 + 1
        /\ \A i \in 1..l - 1 + 1 : SubSeq(acc, 1, l)[i] = acc[1 + i - 1]
    BY <2>1, PartAt, ZenonT(30)
  <2>3. Len(SubSeq(acc, 1, l)) = l /\ \A i \in 1..l : SubSeq(acc, 1, l)[i] = accepted[i]
    BY <1>2, <1>4, <2>1, <2>2
  <2>4. QED
    BY <1>3, <1>4, <2>2, <2>3, SeqEqual
<1>8. Channel!Accept
  BY <1>2, <1>4, <1>6, <1>7 DEF Channel!Accept, Got
<1>9. QED
  BY <1>8 DEF Channel!Next

\* A text that is parsed is that of an accepted report, and of the report after the
\* one parsed before it or of an earlier one.
LEMMA ParsedInOrder ==
  ASSUME Inv, exposed = {}, NEW buf, NEW rest, NEW kept, ReceivedBy(buf, rest, kept),
         NEW n \in 1..Len(Parsed(buf))
  PROVE  \E m \in 1..Len(accepted) :
           /\ Parsed(buf)[n] = Body(m)
           /\ m <= (IF n = 1 THEN LastDone ELSE Parsed(buf)[n - 1][1][1]) + 1
<1> DEFINE C == Closes(buf)
<1>1. /\ buf \in Seq(Bytes) /\ Len(buf) \in Nat /\ rest \in Seq(Bytes) /\ Len(rest) \in Nat
  BY DEF ReceivedBy
<1>2. /\ Len(Coming) = Len(buf) + Len(rest) /\ Len(Line) = 1 + Len(Coming)
      /\ \A i \in 1..Len(buf) : buf[i] = Coming[i] /\ buf[i] = Line[1 + i]
      /\ \A h \in 1..Len(Parsed(buf)) : Nth(C, h) \in C /\ Parsed(buf)[h] = Body(buf[Nth(C, h)][1])
  BY BufferInStep
<1>3. C \subseteq 1..Len(buf) /\ \A i \in 1..Len(buf) : i \in C <=> IsClose(buf[i])
  BY <1>1, OpensCloses DEF IsClose
<1>4. Len(Parsed(buf)) = Cardinality(C) /\ Cardinality(C) \in Nat
  BY <1>1, ParsedIs
<1>5. PICK U \in Seq(Bytes) :
        /\ U = Line /\ Linked(U) /\ Len(U) = 1 + Len(Coming) /\ U[1] = <<LastDone, FrameLen>>
        /\ \A i \in 1..Len(buf) : U[1 + i] = buf[i]
  BY <1>2, LineOf DEF Inv, StepInv
<1> HIDE DEF C
<1>6. PICK j \in C : j = Nth(C, n) /\ Parsed(buf)[n] = Body(buf[j][1]) /\ j \in 1..Len(buf)
  BY <1>2, <1>3
<1>7. buf[j][1] \in 1..Len(accepted)
  <2>1. j \in 1..Len(Coming) /\ buf[j] = Coming[j]
    BY <1>1, <1>2, <1>6
  <2>2. QED
    BY <2>1 DEF Inv, StepInv
<1>8. PICK i \in 0..j - 1 :
        /\ IF n = 1 THEN i = 0 ELSE i \in C /\ Parsed(buf)[n - 1] = Body(buf[i][1])
        /\ \A h \in C : h <= i \/ j <= h
  <2>1. CASE n = 1
    <3>1. \A h \in C : j <= h
      BY <1>1, <1>3, <1>4, <1>6, <2>1, NthOrder
    <3>2. 0 \in 0..j - 1
      BY <1>1, <1>6
    <3>3. QED
      BY <2>1, <3>1, <3>2
  <2>2. CASE n # 1
    <3>1. n - 1 \in 1..Len(Parsed(buf)) /\ n > 1 /\ n \in 1..Cardinality(C)
      BY <1>4, <2>2
    <3>2. PICK i : i = Nth(C, n - 1) /\ i \in C /\ Parsed(buf)[n - 1] = Body(buf[i][1])
      BY <1>2, <3>1
    <3>3. i < j /\ \A h \in C : h <= i \/ j <= h
      BY <1>1, <1>3, <1>6, <3>1, <3>2, NthOrder
    <3>4. i \in 0..j - 1
      BY <1>1, <1>3, <1>6, <3>2, <3>3
    <3>5. QED
      BY <2>2, <3>2, <3>3, <3>4
  <2>3. QED
    BY <2>1, <2>2
<1>9. PICK x \in 1..Len(U), y \in 1..Len(U) : x = 1 + i /\ y = 1 + j /\ x < y
  <2>1. Len(U) = 1 + (Len(buf) + Len(rest))
    BY <1>2, <1>5
  <2>2. 1 + i \in 1..Len(U) /\ 1 + j \in 1..Len(U) /\ 1 + i < 1 + j
    <3>1. Len(buf) \in Nat /\ Len(rest) \in Nat /\ j \in 1..Len(buf)
      BY <1>1, <1>6
    <3>2. QED
      BY ONLY <2>1, <3>1, i \in 0..j - 1
  <2>3. QED
    BY <2>2
<1>10. /\ U[y] = buf[j] /\ IsClose(U[x])
       /\ U[x][1] = IF n = 1 THEN LastDone ELSE Parsed(buf)[n - 1][1][1]
  <2>1. U[y] = buf[j]
    BY <1>5, <1>6, <1>9
  <2>2. CASE n = 1
    <3>1. U[x] = <<LastDone, FrameLen>>
      BY <1>5, <1>8, <1>9, <2>2
    <3>2. U[x][1] = LastDone /\ IsClose(U[x])
      BY ONLY <3>1 DEF IsClose
    <3>3. QED
      BY <2>1, <2>2, <3>2
  <2>3. CASE n # 1
    <3>1. i \in C /\ Parsed(buf)[n - 1] = Body(buf[i][1]) /\ i \in 1..Len(buf)
      BY <1>3, <1>8, <2>3
    <3>2. U[x] = buf[i] /\ IsClose(buf[i])
      BY <1>3, <1>5, <1>9, <3>1
    <3>3. buf[i][1] \in 0..NumReports
      BY <1>1, <3>1, BytesOf
    <3>4. Parsed(buf)[n - 1][1][1] = buf[i][1]
      BY <3>1, <3>3, BodyBytes
    <3>5. QED
      BY <2>1, <2>3, <3>2, <3>4
  <2>4. QED
    BY <2>2, <2>3
<1>11. ASSUME NEW l \in 1..Len(U), x < l, l < y PROVE ~IsClose(U[l])
  <2>1. PICK h \in 1..Len(buf) : l = 1 + h /\ ~(h <= i) /\ ~(j <= h)
    <3>1. /\ x = 1 + i /\ y = 1 + j /\ x < l /\ l < y
          /\ j \in 1..Len(buf) /\ Len(buf) \in Nat
      BY <1>1, <1>6, <1>9, <1>11
    <3>2. l - 1 \in 1..Len(buf) /\ l = 1 + (l - 1) /\ ~(l - 1 <= i) /\ ~(j <= l - 1)
      BY ONLY <3>1, i \in 0..j - 1, l \in 1..Len(U)
    <3>3. QED
      BY <3>2
  <2>2. h \notin C
    BY <1>8, <2>1
  <2>3. QED
    BY <1>3, <1>5, <2>1, <2>2
<1>12. U[y][1] <= U[x][1] + 1
  BY <1>5, <1>9, <1>10, <1>11, NextClose
<1>13. QED
  BY <1>6, <1>7, <1>10, <1>12

LEMMA ReceiveDelivers ==
  ASSUME Inv, ReceiveReports, exposed' = {}
  PROVE  Channel!Next
<1>1. PICK buf, rest, kept : ReceivedBy(buf, rest, kept)
  BY ReceiveIs DEF Inv
<1>2. /\ accepted' = accepted /\ flowsFinishedInfo' = flowsFinishedInfo \o Parsed(buf)
      /\ buf \in Seq(Bytes)
  BY <1>1 DEF ReceivedBy
<1>3. Defined(buf) /\ exposed = {}
  BY <1>1, ExposedIs DEF Inv
<1>4. PICK L \in 0..NumReports : L = Len(accepted) /\ L \in Nat /\ DOMAIN accepted = 1..L
  BY AcceptedOf
<1>5. PICK ins \in Seq(Seq(Bytes)), p \in Seq(Seq(Bytes)) :
        /\ ins = flowsFinishedInfo /\ p = Parsed(buf) /\ Len(p) # 0
  <2>1. Closes(buf) # {}
    BY <1>3 DEF Defined
  <2>2. QED
    BY <1>2, <2>1, ParsedIs, TypesOf DEF Inv
<1>6. PICK new \in Seq(Seq(Bytes)) :
        /\ new = flowsFinishedInfo' /\ Len(new) = Len(ins) + Len(p)
        /\ \A i \in 1..Len(ins) : new[i] = ins[i]
        /\ \A i \in 1..Len(p) : new[Len(ins) + i] = p[i]
  <2>1. /\ ins \o p \in Seq(Seq(Bytes)) /\ Len(ins \o p) = Len(ins) + Len(p)
        /\ \A i \in 1..Len(ins) : (ins \o p)[i] = ins[i]
        /\ \A i \in 1..Len(p) : (ins \o p)[Len(ins) + i] = p[i]
    BY ONLY ins \in Seq(Seq(Bytes)), p \in Seq(Seq(Bytes)), ConcatAt
  <2>2. ins \o p = flowsFinishedInfo'
    BY <1>2, <1>5
  <2>3. QED
    BY <2>1, <2>2
<1>7. /\ Len(ins) \in Nat /\ Len(p) \in Nat /\ Len(new) \in Nat
      /\ DOMAIN ins = 1..Len(ins) /\ DOMAIN new = 1..Len(new)
      /\ Len(ins) <= Len(new) /\ Len(new) > Len(ins)
  <2>1. /\ Len(ins) \in Nat /\ Len(p) \in Nat /\ Len(new) \in Nat
        /\ DOMAIN ins = 1..Len(ins) /\ DOMAIN new = 1..Len(new)
    BY LenProperties
  <2>2. QED
    BY <1>5, <1>6, <2>1
<1>8. ASSUME NEW j \in Len(ins) + 1..Len(new)
      PROVE  \E m \in 1..L : /\ new[j] = Body(m)
                             /\ m <= (IF j = 1 THEN 0 ELSE new[j - 1][1][1]) + 1
  <2>1. PICK n \in 1..Len(p) : j = Len(ins) + n /\ (n # 1 => n - 1 \in 1..Len(p))
    <3>1. j - Len(ins) \in 1..Len(p) /\ j = Len(ins) + (j - Len(ins))
      BY <1>6, <1>7
    <3>2. j - Len(ins) # 1 => (j - Len(ins)) - 1 \in 1..Len(p)
      BY <1>7, <3>1
    <3>3. QED
      BY <3>1, <3>2
  <2>2. PICK m \in 1..L : /\ p[n] = Body(m)
                          /\ m <= (IF n = 1 THEN LastDone ELSE p[n - 1][1][1]) + 1
    BY <1>1, <1>3, <1>4, <1>5, ParsedInOrder
  <2>3. new[j] = p[n]
    BY <1>6, <2>1
  <2>4. (IF j = 1 THEN 0 ELSE new[j - 1][1][1]) = IF n = 1 THEN LastDone ELSE p[n - 1][1][1]
    <3>1. CASE n # 1
      <4>1. j - 1 = Len(ins) + (n - 1) /\ j # 1
        BY <1>7, <2>1, <3>1
      <4>2. new[j - 1] = p[n - 1]
        BY <1>6, <2>1, <3>1, <4>1
      <4>3. QED
        BY <3>1, <4>1, <4>2
    <3>2. CASE n = 1 /\ ins = <<>>
      <4>1. LastDone = 0 /\ j = 1
        BY <1>5, <2>1, <3>2 DEF LastDone
      <4>2. QED
        BY <3>2, <4>1
    <3>3. CASE n = 1 /\ ins # <<>>
      <4>1. Len(ins) # 0
        BY <3>3, EmptySeq
      <4>2. Len(ins) \in 1..Len(ins) /\ j - 1 = Len(ins) /\ j # 1
        BY <1>7, <2>1, <3>3, <4>1
      <4>3. new[j - 1] = ins[Len(ins)]
        BY <1>6, <4>2
      <4>4. LastDone = ins[Len(ins)][1][1]
        BY <1>5, <3>3 DEF LastDone
      <4>5. QED
        BY <3>3, <4>2, <4>3, <4>4
    <3>4. QED
      BY <3>1, <3>2, <3>3
  <2>5. QED
    BY <2>2, <2>3, <2>4
<1>9. AddedInOrder(L, ins, new)
  <2>1. ASSUME NEW i \in 1..Len(new) PROVE \E m \in 1..L : new[i] = Body(m)
    <3>1. i \in 1..Len(ins) \/ i \in Len(ins) + 1..Len(new)
      BY <1>7
    <3>2. CASE i \in 1..Len(ins)
      <4>1. \E m \in 1..L : ins[i] = Body(m)
        BY <1>3, <1>4, <1>5, <3>2 DEF Inv, StepInv
      <4>2. QED
        BY <1>6, <3>2, <4>1
    <3>3. CASE i \in Len(ins) + 1..Len(new)
      BY <1>8, <3>3
    <3>4. QED
      BY <3>1, <3>2, <3>3
  <2>2. ASSUME NEW j \in Len(ins) + 1..Len(new), NEW n \in 1..L, new[j] = Body(n)
        PROVE  n <= (IF j = 1 THEN 0 ELSE new[j - 1][1][1]) + 1
    <3>1. PICK m \in 1..L : /\ new[j] = Body(m)
                            /\ m <= (IF j = 1 THEN 0 ELSE new[j - 1][1][1]) + 1
      BY <1>8
    <3>2. m \in 0..NumReports /\ n \in 0..NumReports
      BY ReportAssumption
    <3>3. Body(m)[1][1] = m /\ Body(n)[1][1] = n
      BY <3>2, BodyBytes
    <3>4. m = n
      BY <2>2, <3>1, <3>3
    <3>5. QED
      BY <3>1, <3>4
  <2>3. QED
    BY <1>6, <1>7, <2>1, <2>2 DEF AddedInOrder
<1>10. PICK g, h : g = Places(accepted, ins) /\ g = Got /\ h = Places(accepted, new) /\ h = Got'
  BY <1>2, <1>5, <1>6, GotIs
<1>11. /\ Len(g) = Len(ins) /\ Len(h) = Len(new) /\ SubSeq(h, 1, Len(g)) = g
       /\ \A j \in Len(g) + 1..Len(h) :
            h[j] \in 1..(IF j = 1 THEN 0 ELSE h[j - 1]) + 1 /\ h[j] <= L
  <2>1. PICK acc : acc = accepted
    OBVIOUS
  <2>2. DOMAIN acc = 1..L /\ g = Places(acc, ins) /\ h = Places(acc, new)
    BY <1>4, <1>10, <2>1
  <2>3. QED
    BY ONLY <1>9, <2>2, L \in 0..NumReports, PlacesInOrder, SMTT(30)
<1>12. /\ Len(Got') > Len(Got) /\ SubSeq(Got', 1, Len(Got)) = Got
       /\ \A j \in Len(Got) + 1..Len(Got') :
            Got'[j] \in 1..(IF j = 1 THEN 0 ELSE Got'[j - 1]) + 1 /\ Got'[j] <= Len(accepted)
  BY <1>4, <1>7, <1>10, <1>11
<1>13. Channel!Deliver
  BY <1>2, <1>12 DEF Channel!Deliver, Channel!NextAllowed, Got
<1>14. QED
  BY <1>13 DEF Channel!Next

\* Until a call uses an undefined index the texts appended are those of accepted
\* reports in the order they were sent, with none skipped and only stretches from an
\* earlier one on repeated: up to then ReportChannel takes steps of a GoBackFifo only.
THEOREM FifoUntilExposedCorrect == Spec => FifoUntilExposed
<1>1. ASSUME Inv, [Next]_vars
      PROVE  [exposed' # {} \/ Channel!Next \/ UNCHANGED <<accepted, flowsFinishedInfo>>]_vars
  <2>1. CASE SendReport
    <3>1. exposed' = exposed
      BY <2>1 DEF SendReport
    <3>2. CASE exposed = {}
      BY <1>1, <2>1, <3>2, SendAccepts
    <3>3. CASE exposed # {}
      BY <3>1, <3>3
    <3>4. QED
      BY <3>2, <3>3
  <2>2. CASE ReceiveReports
    BY <1>1, <2>2, ReceiveDelivers
  <2>3. QED
    BY <1>1, <2>1, <2>2 DEF Next
<1>2. QED
  BY InvCorrect, <1>1, PTL DEF Spec, FifoUntilExposed
=============================================================================
