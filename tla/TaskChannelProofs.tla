-------------------------- MODULE TaskChannelProofs --------------------------
(***************************************************************************)
(* Safety of TaskChannel, and its refinement of GoBackFifo, for frames,    *)
(* buffers and kernels of all sizes and any number of instructions.        *)
(***************************************************************************)
EXTENDS TaskChannel, SequenceTheorems, FiniteSetTheorems, WellFoundedInduction, TLAPS

-----------------------------------------------------------------------------
(* The places of the bytes that end a frame, in order *)

\* A set of numbers has a least one.
LEMMA LeastNumber ==
  ASSUME NEW T, T \subseteq Nat, T # {}
  PROVE  \E k \in T : \A i \in T : k <= i
<1>1. \E R : IsWellFoundedOn(R, Nat) /\ \A i, k \in Nat : <<i, k>> \in R <=> i < k
  <2> DEFINE R == OpToRel(<, Nat)
  <2>1. IsWellFoundedOn(R, Nat)
    BY NatLessThanWellFounded
  <2>2. \A i, k \in Nat : <<i, k>> \in R <=> i < k
    BY DEF OpToRel
  <2> HIDE DEF R
  <2>3. QED
    BY <2>1, <2>2
<1>2. PICK R : IsWellFoundedOn(R, Nat) /\ \A i, k \in Nat : <<i, k>> \in R <=> i < k
  BY <1>1
<1>3. PICK k \in T : \A i \in T : <<i, k>> \notin R
  <2>1. IsWellFoundedOn(R, Nat) /\ T \subseteq Nat /\ T # {}
    BY <1>2
  <2>2. QED
    BY <2>1, WFMin, Zenon
<1>4. \A i \in T : ~(i < k)
  BY <1>2, <1>3, Zenon
<1>5. k \in Nat /\ \A i \in T : i \in Nat
  OBVIOUS
<1>6. \A i \in T : k <= i
  BY <1>4, <1>5
<1>7. QED
  BY <1>6

\* Parts of 1..L are finite.
LEMMA PartFinite ==
  ASSUME NEW L \in Nat, NEW S, S \subseteq 1..L
  PROVE  IsFiniteSet(S) /\ Cardinality(S) \in Nat /\ (Cardinality(S) = 0 <=> S = {})
<1>1. IsFiniteSet(1..L)
  BY FS_Interval
<1>2. IsFiniteSet(S)
  BY <1>1, FS_Subset
<1>3. QED
  BY <1>2, FS_CardinalityType, FS_EmptySet

\* There is an n-th number.
LEMMA NthExists ==
  ASSUME NEW L \in Nat, NEW S, S \subseteq 1..L, NEW n \in 1..Cardinality(S)
  PROVE  Nth(S, n) \in S /\ Cardinality({j \in S : j <= Nth(S, n)}) = n
<1> DEFINE UpTo(k) == {j \in S : j <= k}
           count(k) == Cardinality(UpTo(k))
           T == {k \in Nat : count(k) >= n}
<1>0. \A j \in S : j \in Nat /\ 1 <= j /\ j <= L
  OBVIOUS
<1>1. n \in Nat /\ n >= 1 /\ n <= Cardinality(S)
  BY PartFinite
<1>2. \A k \in Nat : IsFiniteSet(UpTo(k)) /\ count(k) \in Nat
  <2> SUFFICES ASSUME NEW k \in Nat PROVE IsFiniteSet(UpTo(k)) /\ count(k) \in Nat
    OBVIOUS
  <2>1. UpTo(k) \subseteq 1..L
    OBVIOUS
  <2> QED
    BY <2>1, PartFinite
<1>3. count(L) >= n
  <2>1. UpTo(L) = S
    BY <1>0
  <2>2. QED
    BY <1>1, <2>1, PartFinite
<1>4. count(0) = 0
  <2>0. \A j \in S : ~(j <= 0)
    BY <1>0
  <2>1. UpTo(0) = {}
    BY <2>0
  <2>2. QED
    BY <2>1, FS_EmptySet
<1>5. ASSUME NEW k \in Nat
      PROVE  /\ k + 1 \in S => count(k + 1) = count(k) + 1
             /\ k + 1 \notin S => count(k + 1) = count(k)
  <2>0. \A j \in S : j <= k + 1 <=> j <= k \/ j = k + 1
    BY <1>0
  <2>1. k + 1 \in S => UpTo(k + 1) = UpTo(k) \cup {k + 1}
    BY <1>0, <2>0
  <2>2. k + 1 \notin S => UpTo(k + 1) = UpTo(k)
    BY <2>0
  <2>3. k + 1 \notin UpTo(k) /\ IsFiniteSet(UpTo(k))
    BY <1>2
  <2>4. Cardinality(UpTo(k) \cup {k + 1}) = count(k) + 1
    BY <2>3, FS_AddElement
  <2>5. QED
    BY <2>1, <2>2, <2>4
<1> HIDE DEF count
<1>6. PICK k \in T : \A i \in T : k <= i
  <2>1. T \subseteq Nat /\ T # {}
    BY <1>3
  <2>2. QED
    BY <2>1, LeastNumber
<1>7. k \in Nat /\ count(k) >= n
  OBVIOUS
<1>8. k # 0
  BY <1>1, <1>4, <1>7
<1>9. PICK m \in Nat : k = m + 1
  <2>1. k - 1 \in Nat /\ k = (k - 1) + 1
    BY <1>7, <1>8
  <2>2. QED
    BY <2>1
<1>10. ~(count(m) >= n)
  <2>1. m \notin T
    BY <1>6, <1>9
  <2>2. QED
    BY <2>1
<1>11. k \in S /\ count(k) = n
  <2>1. count(m) \in Nat /\ count(k) \in Nat
    BY <1>2, <1>7
  <2>2. /\ k \in S => count(k) = count(m) + 1
        /\ k \notin S => count(k) = count(m)
    BY <1>5, <1>9
  <2>3. QED
    BY <1>1, <1>7, <1>10, <2>1, <2>2
<1>12. \E i \in S : Cardinality({j \in S : j <= i}) = n
  BY <1>11 DEF count
<1>13. QED
  BY <1>12 DEF Nth

\* How many members of S there are up to i rises with i.
LEMMA CountRises ==
  ASSUME NEW L \in Nat, NEW S, S \subseteq 1..L, NEW i \in S
  PROVE  /\ Cardinality({j \in S : j <= i}) \in 1..Cardinality(S)
         /\ \A k \in S : i < k => Cardinality({j \in S : j <= i}) < Cardinality({j \in S : j <= k})
<1> DEFINE UpTo(k) == {j \in S : j <= k}
<1>0. \A j \in S : j \in Nat
  OBVIOUS
<1>1. ASSUME NEW k \in S
      PROVE  /\ IsFiniteSet(UpTo(k)) /\ Cardinality(UpTo(k)) \in Nat /\ Cardinality(UpTo(k)) # 0
             /\ Cardinality(UpTo(k)) <= Cardinality(S)
  <2>1. UpTo(k) \subseteq S /\ k \in UpTo(k)
    BY <1>0
  <2>2. IsFiniteSet(S) /\ UpTo(k) \subseteq 1..L
    BY <2>1, PartFinite
  <2> HIDE DEF UpTo
  <2>3. Cardinality(UpTo(k)) \in Nat /\ Cardinality(UpTo(k)) # 0 /\ IsFiniteSet(UpTo(k))
    BY <2>1, <2>2, PartFinite
  <2>4. QED
    BY <2>1, <2>2, <2>3, FS_Subset
<1>2. ASSUME NEW k \in S, i < k
      PROVE  Cardinality(UpTo(i)) < Cardinality(UpTo(k))
  <2>0. i \in Nat /\ k \in Nat /\ \A j \in S : j <= i => j <= k
    BY <1>0, <1>2
  <2>1. /\ UpTo(i) \subseteq UpTo(k) /\ UpTo(i) \in SUBSET UpTo(k)
        /\ k \in UpTo(k) /\ k \notin UpTo(i)
    <3>1. k <= k /\ ~(k <= i)
      BY <1>2, <2>0
    <3>2. QED
      BY <2>0, <3>1, Zenon
  <2>2. /\ IsFiniteSet(UpTo(k)) /\ Cardinality(UpTo(k)) \in Nat
        /\ Cardinality(UpTo(i)) \in Nat
    BY <1>1
  <2> HIDE DEF UpTo
  <2>3. /\ Cardinality(UpTo(i)) <= Cardinality(UpTo(k))
        /\ Cardinality(UpTo(k)) = Cardinality(UpTo(i)) => UpTo(k) = UpTo(i)
    BY <2>1, <2>2, FS_Subset
  <2>4. QED
    BY <2>1, <2>2, <2>3
<1>3. Cardinality(S) \in Nat
  BY PartFinite
<1>4. Cardinality(UpTo(i)) \in 1..Cardinality(S)
  BY <1>1, <1>3
<1>5. QED
  BY <1>2, <1>4

\* Every member of S is the n-th for some n.
LEMMA NthOnto ==
  ASSUME NEW L \in Nat, NEW S, S \subseteq 1..L, NEW i \in S
  PROVE  \E n \in 1..Cardinality(S) : Nth(S, n) = i
<1> DEFINE count(k) == Cardinality({j \in S : j <= k})
<1>1. count(i) \in 1..Cardinality(S)
  BY CountRises
<1>2. Nth(S, count(i)) \in S /\ count(Nth(S, count(i))) = count(i)
  BY <1>1, NthExists
<1>3. \A j, k \in S : j < k => count(j) < count(k)
  BY CountRises
<1>4. \A k \in S : count(k) \in Nat /\ k \in Nat
  <2>1. Cardinality(S) \in Nat
    BY PartFinite
  <2>2. \A k \in S : count(k) \in 1..Cardinality(S)
    BY CountRises
  <2> HIDE DEF count
  <2>3. QED
    BY <2>1, <2>2
<1>5. \A k \in S : count(k) = count(i) => k = i
  <2> HIDE DEF count
  <2>1. QED
    BY <1>3, <1>4
<1>6. QED
  BY <1>1, <1>2, <1>5

\* Nothing of S is before the first, between one and the next, or after the last.
LEMMA NthOrder ==
  ASSUME NEW L \in Nat, NEW S, S \subseteq 1..L, NEW n \in 1..Cardinality(S)
  PROVE  /\ n = 1 => \A i \in S : Nth(S, 1) <= i
         /\ n > 1 => /\ Nth(S, n - 1) < Nth(S, n)
                     /\ \A i \in S : i <= Nth(S, n - 1) \/ Nth(S, n) <= i
         /\ n = Cardinality(S) => \A i \in S : i <= Nth(S, n)
<1> DEFINE count(k) == Cardinality({j \in S : j <= k})
<1>0. Cardinality(S) \in Nat
  BY PartFinite
<1>1. Cardinality(S) \in Nat /\ n \in Nat /\ 1 <= n /\ n <= Cardinality(S)
  BY <1>0
<1>2. \A k \in 1..Cardinality(S) : Nth(S, k) \in S /\ count(Nth(S, k)) = k
  BY NthExists
<1>3. \A j, k \in S : j < k => count(j) < count(k)
  BY CountRises
<1>4. \A k \in S : count(k) \in 1..Cardinality(S)
  BY CountRises
<1> HIDE DEF count
<1>5. \A k \in S : k \in Nat /\ count(k) \in Nat /\ 1 <= count(k) /\ count(k) <= Cardinality(S)
  BY <1>0, <1>4
<1>6. ASSUME n = 1, NEW i \in S PROVE Nth(S, 1) <= i
  <2>1. PICK x : x = Nth(S, 1) /\ x \in S /\ count(x) = 1
    BY <1>1, <1>2, <1>6
  <2>2. i < x => count(i) < count(x)
    BY <1>3, <2>1
  <2>3. x \in Nat /\ i \in Nat /\ 1 <= count(i) /\ count(i) \in Nat
    BY <1>5, <2>1
  <2>4. x <= i
    BY <2>1, <2>2, <2>3
  <2>5. QED
    BY <2>1, <2>4
<1>7. ASSUME n > 1, NEW i \in S
      PROVE  /\ Nth(S, n - 1) < Nth(S, n)
             /\ i <= Nth(S, n - 1) \/ Nth(S, n) <= i
  <2>1. n - 1 \in 1..Cardinality(S)
    BY <1>1, <1>7
  <2>2. PICK y : y = Nth(S, n) /\ y \in S /\ count(y) = n
    BY <1>2
  <2>3. PICK x : x = Nth(S, n - 1) /\ x \in S /\ count(x) = n - 1
    BY <1>2, <2>1
  <2>4. /\ x \in Nat /\ y \in Nat /\ i \in Nat /\ count(i) \in Nat
        /\ y < x => count(y) < count(x)
        /\ x < i => count(x) < count(i)
        /\ i < y => count(i) < count(y)
    BY <1>3, <1>5, <2>2, <2>3
  <2>5. x < y /\ (i <= x \/ y <= i)
    BY <1>1, <2>2, <2>3, <2>4
  <2>6. QED
    BY <2>2, <2>3, <2>5
<1>8. ASSUME n = Cardinality(S), NEW i \in S PROVE i <= Nth(S, n)
  <2>1. PICK x : x = Nth(S, n) /\ x \in S /\ count(x) = n
    BY <1>2
  <2>2. x < i => count(x) < count(i)
    BY <1>3, <2>1
  <2>3. x \in Nat /\ i \in Nat /\ count(i) <= n /\ count(i) \in Nat
    BY <1>5, <1>8, <2>1
  <2>4. i <= x
    BY <1>1, <2>1, <2>2, <2>3
  <2>5. QED
    BY <2>1, <2>4
<1>a. S # {}
  BY <1>2
<1>9. QED
  BY <1>6, <1>7, <1>8, <1>a

-----------------------------------------------------------------------------
(* Bytes and frames *)

AnyByte == Nat \X (1..FrameLen)

\* Each byte comes after the bytes of its frame that precede it.
Framed(s) ==
  \A k \in 1..Len(s) :
    /\ s[k][2] <= k
    /\ \A d \in 0..s[k][2] - 1 : s[k - d] = <<s[k][1], s[k][2] - d>>

LEMMA ByteParts ==
  ASSUME NEW b \in AnyByte
  PROVE  b[1] \in Nat /\ b[2] \in Nat /\ 1 <= b[2] /\ b[2] <= FrameLen /\ b = <<b[1], b[2]>>
BY SocketAssumption DEF AnyByte

LEMMA BytesOf ==
  ASSUME NEW s \in Seq(AnyByte)
  PROVE  /\ Len(s) \in Nat /\ DOMAIN s = 1..Len(s)
         /\ \A k \in 1..Len(s) : /\ s[k] \in AnyByte /\ s[k][1] \in Nat /\ s[k][2] \in Nat
                                 /\ 1 <= s[k][2] /\ s[k][2] <= FrameLen
<1>1. Len(s) \in Nat /\ DOMAIN s = 1..Len(s) /\ \A k \in 1..Len(s) : s[k] \in AnyByte
  BY LenProperties, ElementOfSeq
<1>2. QED
  BY <1>1, ByteParts

\* The elements of a concatenation, and of a part.
LEMMA ConcatAt ==
  ASSUME NEW S, NEW s \in Seq(S), NEW t \in Seq(S)
  PROVE  /\ s \o t \in Seq(S) /\ Len(s) \in Nat /\ Len(t) \in Nat
         /\ Len(s \o t) = Len(s) + Len(t)
         /\ \A i \in 1..Len(s) : (s \o t)[i] = s[i]
         /\ \A i \in 1..Len(t) : (s \o t)[Len(s) + i] = t[i]
<1>1. Len(s) \in Nat /\ Len(t) \in Nat
  BY LenProperties
<1>2. /\ s \o t \in Seq(S) /\ Len(s \o t) = Len(s) + Len(t)
      /\ \A i \in 1 .. Len(s) + Len(t) : (s \o t)[i] = IF i <= Len(s) THEN s[i] ELSE t[i - Len(s)]
  BY ConcatProperties
<1>3. ASSUME NEW i \in 1..Len(s) PROVE (s \o t)[i] = s[i]
  BY <1>1, <1>2
<1>4. ASSUME NEW i \in 1..Len(t) PROVE (s \o t)[Len(s) + i] = t[i]
  <2>1. Len(s) + i \in 1..Len(s) + Len(t) /\ ~(Len(s) + i <= Len(s)) /\ Len(s) + i - Len(s) = i
    BY <1>1
  <2>2. QED
    BY <1>2, <2>1
<1>5. QED
  BY <1>1, <1>2, <1>3, <1>4

LEMMA ConcatTwice ==
  ASSUME NEW S, NEW s \in Seq(S), NEW t \in Seq(S), NEW u \in Seq(S)
  PROVE  s \o (t \o u) = (s \o t) \o u
<1>1. (s \o t) \o u = s \o (t \o u)
  BY ConcatAssociative
<1>2. QED
  BY <1>1, Zenon

LEMMA PartAt ==
  ASSUME NEW S, NEW s \in Seq(S), NEW m \in 1..Len(s) + 1, NEW n \in 0..Len(s), m <= n + 1
  PROVE  /\ SubSeq(s, m, n) \in Seq(S) /\ Len(SubSeq(s, m, n)) = n - m + 1
         /\ \A i \in 1..n - m + 1 : SubSeq(s, m, n)[i] = s[m + i - 1]
<1>1. Len(s) \in Nat
  BY LenProperties
<1>2. m \in Int /\ n \in Int /\ \A i \in m..n : i \in 1..Len(s)
  BY <1>1
<1>3. \A i \in m..n : s[i] \in S
  BY <1>2, ElementOfSeq
<1>4. /\ SubSeq(s, m, n) \in Seq(S)
      /\ Len(SubSeq(s, m, n)) = IF m <= n THEN n - m + 1 ELSE 0
      /\ \A i \in 1 .. n - m + 1 : SubSeq(s, m, n)[i] = s[m + i - 1]
  BY <1>2, <1>3, SubSeqProperties
<1>5. QED
  BY <1>2, <1>4

LEMMA FrameBytes ==
  ASSUME NEW m \in Nat
  PROVE  /\ Frame(m) \in Seq(AnyByte) /\ Len(Frame(m)) = FrameLen
         /\ \A p \in 1..FrameLen : Frame(m)[p] = <<m, p>>
         /\ Framed(Frame(m))
<1>1. FrameLen \in Nat
  BY SocketAssumption
<1>2. Frame(m) \in [1..FrameLen -> AnyByte] /\ \A p \in 1..FrameLen : Frame(m)[p] = <<m, p>>
  BY DEF Frame, AnyByte
<1>3. Frame(m) \in Seq(AnyByte) /\ Len(Frame(m)) = FrameLen
  BY <1>1, <1>2
<1>4. Framed(Frame(m))
  <2>1. ASSUME NEW k \in 1..FrameLen
        PROVE  /\ Frame(m)[k][2] <= k
               /\ \A d \in 0..Frame(m)[k][2] - 1 :
                    Frame(m)[k - d] = <<Frame(m)[k][1], Frame(m)[k][2] - d>>
    <3>1. Frame(m)[k][1] = m /\ Frame(m)[k][2] = k
      BY <1>2
    <3>2. \A d \in 0..k - 1 : k - d \in 1..FrameLen
      BY <1>1
    <3>3. QED
      BY <1>1, <1>2, <3>1, <3>2
  <2>2. QED
    BY <1>3, <2>1 DEF Framed
<1>5. QED
  BY <1>2, <1>3, <1>4

LEMMA FramedConcat ==
  ASSUME NEW s \in Seq(AnyByte), NEW t \in Seq(AnyByte), Framed(s), Framed(t)
  PROVE  Framed(s \o t)
<1> DEFINE u == s \o t
<1>1. /\ Len(u) = Len(s) + Len(t) /\ Len(s) \in Nat /\ Len(t) \in Nat
      /\ \A i \in 1..Len(s) : u[i] = s[i]
      /\ \A i \in 1..Len(t) : u[Len(s) + i] = t[i]
  BY ConcatAt
<1>2. /\ \A k \in 1..Len(s) : s[k][2] \in Nat /\ 1 <= s[k][2]
      /\ \A k \in 1..Len(t) : t[k][2] \in Nat /\ 1 <= t[k][2]
  BY BytesOf
<1> HIDE DEF u
<1>3. ASSUME NEW k \in 1..Len(u)
      PROVE  u[k][2] <= k /\ \A d \in 0..u[k][2] - 1 : u[k - d] = <<u[k][1], u[k][2] - d>>
  <2>1. CASE k <= Len(s)
    <3>1. k \in 1..Len(s) /\ u[k] = s[k]
      BY <1>1, <2>1
    <3>2. s[k][2] <= k /\ \A d \in 0..s[k][2] - 1 : s[k - d] = <<s[k][1], s[k][2] - d>>
      BY <3>1 DEF Framed
    <3>3. \A d \in 0..s[k][2] - 1 : k - d \in 1..Len(s)
      BY <1>1, <1>2, <3>1, <3>2
    <3>4. \A d \in 0..s[k][2] - 1 : u[k - d] = s[k - d]
      BY <1>1, <3>3
    <3>5. QED
      BY <3>1, <3>2, <3>4
  <2>2. CASE ~(k <= Len(s))
    <3>1. PICK i \in 1..Len(t) : k = Len(s) + i /\ u[k] = t[i]
      <4>1. k - Len(s) \in 1..Len(t) /\ k = Len(s) + (k - Len(s))
        BY <1>1, <2>2
      <4>2. QED
        BY <1>1, <4>1
    <3>2. t[i][2] <= i /\ \A d \in 0..t[i][2] - 1 : t[i - d] = <<t[i][1], t[i][2] - d>>
      BY <3>1 DEF Framed
    <3>3. \A d \in 0..t[i][2] - 1 : i - d \in 1..Len(t) /\ k - d = Len(s) + (i - d)
      BY <1>1, <1>2, <3>1, <3>2, SMTT(30)
    <3>4. \A d \in 0..t[i][2] - 1 : u[k - d] = t[i - d]
      BY <1>1, <3>3
    <3>5. u[k][2] <= k
      BY <1>1, <1>2, <3>1, <3>2
    <3>6. QED
      BY <3>1, <3>2, <3>4, <3>5
  <2>3. QED
    BY <2>1, <2>2
<1>4. QED
  BY <1>3 DEF Framed, u

LEMMA FramedPrefix ==
  ASSUME NEW s \in Seq(AnyByte), Framed(s), NEW n \in 0..Len(s)
  PROVE  Framed(SubSeq(s, 1, n))
<1> DEFINE u == SubSeq(s, 1, n)
<1>1. /\ Len(s) \in Nat
      /\ \A k \in 1..Len(s) : s[k][2] \in Nat /\ 1 <= s[k][2]
  BY BytesOf
<1>2. Len(u) = n /\ \A i \in 1..n : u[i] = s[i]
  BY <1>1, PartAt
<1> HIDE DEF u
<1>3. ASSUME NEW k \in 1..n
      PROVE  u[k][2] <= k /\ \A d \in 0..u[k][2] - 1 : u[k - d] = <<u[k][1], u[k][2] - d>>
  <2>1. k \in 1..Len(s) /\ u[k] = s[k]
    BY <1>1, <1>2
  <2>2. s[k][2] <= k /\ \A d \in 0..s[k][2] - 1 : s[k - d] = <<s[k][1], s[k][2] - d>>
    BY <2>1 DEF Framed
  <2>3. \A d \in 0..s[k][2] - 1 : k - d \in 1..n
    BY <1>1, <2>1, <2>2
  <2>4. \A d \in 0..s[k][2] - 1 : u[k - d] = s[k - d]
    BY <1>2, <2>3
  <2>5. QED
    BY <2>1, <2>2, <2>4
<1>4. QED
  BY <1>2, <1>3 DEF Framed, u

\* What is left from the start of a frame on is framed.
LEMMA FramedCut ==
  ASSUME NEW s \in Seq(AnyByte), Framed(s), NEW m \in 1..Len(s) + 1,
         m <= Len(s) => IsOpen(s[m])
  PROVE  Framed(SubSeq(s, m, Len(s)))
<1> DEFINE u == SubSeq(s, m, Len(s))
<1>1. /\ Len(s) \in Nat
      /\ \A k \in 1..Len(s) : s[k][2] \in Nat /\ 1 <= s[k][2]
  BY BytesOf
<1>2. Len(u) = Len(s) - m + 1 /\ \A i \in 1..Len(s) - m + 1 : u[i] = s[m + i - 1]
  BY <1>1, PartAt
<1> HIDE DEF u
<1>3. ASSUME NEW k \in 1..Len(u)
      PROVE  u[k][2] <= k /\ \A d \in 0..u[k][2] - 1 : u[k - d] = <<u[k][1], u[k][2] - d>>
  <2> DEFINE j == m + k - 1
  <2>1. j \in 1..Len(s) /\ u[k] = s[j] /\ m <= j /\ m \in 1..Len(s) /\ k = j - m + 1
    BY <1>1, <1>2
  <2> HIDE DEF j
  <2>2. s[j][2] <= j /\ \A d \in 0..s[j][2] - 1 : s[j - d] = <<s[j][1], s[j][2] - d>>
    BY <2>1 DEF Framed
  <2>3. s[j][2] <= k
    <3>1. ASSUME k < s[j][2] PROVE FALSE
      <4>1. j - m \in 0..s[j][2] - 1 /\ j - (j - m) = m
        BY <1>1, <2>1, <3>1
      <4>2. s[m] = <<s[j][1], s[j][2] - (j - m)>>
        BY <2>2, <4>1
      <4>3. s[m][2] = s[j][2] - (j - m)
        BY <4>2
      <4>4. s[m][2] = 1
        BY <1>1, <2>1 DEF IsOpen
      <4>5. QED
        BY <1>1, <2>1, <3>1, <4>3, <4>4
    <3>2. QED
      BY <1>1, <2>1, <3>1, SMTT(30)
  <2>4. ASSUME NEW d \in 0..s[j][2] - 1
        PROVE  k - d \in 1..Len(s) - m + 1 /\ m + (k - d) - 1 = j - d
    <3>1. s[j][2] \in Nat
      BY <1>1, <2>1
    <3>2. d \in Nat /\ d <= k - 1
      BY <2>3, <3>1
    <3>3. QED
      BY <1>1, <2>1, <3>2
  <2>5. \A d \in 0..s[j][2] - 1 : u[k - d] = s[j - d]
    BY <1>2, <2>4
  <2>6. QED
    BY <2>1, <2>2, <2>3, <2>5
<1>4. QED
  BY <1>3 DEF Framed, u

\* A frame starts after the end of another.
LEMMA AfterClose ==
  ASSUME NEW s \in Seq(AnyByte), Framed(s), NEW k \in 1..Len(s), k + 1 <= Len(s), IsClose(s[k])
  PROVE  IsOpen(s[k + 1])
<1>1. /\ Len(s) \in Nat /\ FrameLen \in Nat
      /\ \A i \in 1..Len(s) : s[i][2] \in Nat /\ 1 <= s[i][2] /\ s[i][2] <= FrameLen
  BY BytesOf, SocketAssumption
<1>2. PICK i \in 1..Len(s) : i = k + 1
  BY <1>1
<1>3. \A d \in 0..s[i][2] - 1 : s[i - d] = <<s[i][1], s[i][2] - d>>
  BY DEF Framed
<1>4. ASSUME s[i][2] # 1 PROVE FALSE
  <2>1. 1 \in 0..s[i][2] - 1 /\ i - 1 = k
    BY <1>1, <1>2, <1>4
  <2>2. s[k] = <<s[i][1], s[i][2] - 1>>
    BY <1>3, <2>1
  <2>3. s[k][2] = s[i][2] - 1
    BY <2>2
  <2>4. QED
    BY <1>1, <2>3 DEF IsClose
<1>5. QED
  BY <1>2, <1>4 DEF IsOpen

-----------------------------------------------------------------------------
(* The parser *)

LEMMA MaxIs ==
  ASSUME NEW T, T \subseteq Nat, NEW x \in T, \A y \in T : y <= x
  PROVE  Max(T) = x
<1>1. \A y \in T : y \in Nat
  OBVIOUS
<1>2. \E z \in T : \A y \in T : z >= y
  BY <1>1
<1>3. Max(T) \in T /\ \A y \in T : Max(T) >= y
  <2> DEFINE P(z) == \A y \in T : z >= y
  <2>1. \E z \in T : P(z)
    BY <1>2
  <2> HIDE DEF P
  <2>2. (CHOOSE z \in T : P(z)) \in T /\ P(CHOOSE z \in T : P(z))
    BY <2>1
  <2>3. QED
    BY <2>2 DEF Max, P
<1>4. Max(T) >= x /\ Max(T) <= x /\ Max(T) \in Nat /\ x \in Nat
  BY <1>1, <1>3
<1>5. QED
  BY <1>4

LEMMA MaxExists ==
  ASSUME NEW L \in Nat, NEW T, T \subseteq 0..L, T # {}
  PROVE  Max(T) \in T /\ \A y \in T : y <= Max(T)
<1> DEFINE B == {n \in Nat : \A y \in T : y <= n}
<1>0. \A y \in T : y \in Nat /\ y <= L
  OBVIOUS
<1>1. B \subseteq Nat /\ L \in B
  BY <1>0
<1>2. PICK k \in B : \A i \in B : k <= i
  BY <1>1, LeastNumber
<1>3. k \in Nat /\ \A y \in T : y <= k
  OBVIOUS
<1>4. k \in T
  <2>1. ASSUME k \notin T PROVE FALSE
    <3>1. \A y \in T : y <= k - 1
      BY <1>0, <1>3, <2>1
    <3>2. k - 1 \in Nat
      <4>1. PICK y \in T : y \in Nat /\ y <= k - 1
        BY <1>0, <3>1
      <4>2. QED
        BY <1>3, <4>1
    <3>3. k - 1 \in B
      BY <3>1, <3>2
    <3>4. QED
      BY <1>2, <1>3, <3>3
  <2>2. QED
    BY <2>1
<1>5. T \subseteq Nat
  BY <1>0
<1>6. Max(T) = k
  BY <1>3, <1>4, <1>5, MaxIs
<1>7. QED
  BY <1>3, <1>4, <1>6

\* The byte at j, the start of its frame, and what is between.
LEMMA FrameOf ==
  ASSUME NEW s \in Seq(AnyByte), Framed(s), NEW j \in 1..Len(s)
  PROVE  /\ j - s[j][2] + 1 \in 1..j /\ IsOpen(s[j - s[j][2] + 1])
         /\ \A i \in j - s[j][2] + 1..j : s[i] = <<s[j][1], i - (j - s[j][2])>>
         /\ LastOpen(s, j) = j - s[j][2] + 1
<1> DEFINE x == j - s[j][2] + 1
<1>1. Len(s) \in Nat /\ s[j][2] \in Nat /\ 1 <= s[j][2] /\ s[j][2] <= j
  BY BytesOf DEF Framed
<1>2. x \in 1..j
  BY <1>1
<1>3. ASSUME NEW i \in x..j PROVE s[i] = <<s[j][1], i - (j - s[j][2])>>
  <2>1. PICK d \in 0..s[j][2] - 1 : j - d = i /\ s[j][2] - d = i - (j - s[j][2])
    <3>1. j - i \in 0..s[j][2] - 1 /\ j - (j - i) = i /\ s[j][2] - (j - i) = i - (j - s[j][2])
      <4> DEFINE q == s[j][2]
      <4>1. j \in Nat /\ q \in Nat /\ q <= j /\ i \in j - q + 1..j
        BY <1>1, <1>3
      <4> HIDE DEF q
      <4>2. j - i \in 0..q - 1 /\ j - (j - i) = i /\ q - (j - i) = i - (j - q)
        BY <4>1, SMTT(30)
      <4>3. QED
        BY <4>2 DEF q
    <3>2. QED
      BY <3>1
  <2>2. s[j - d] = <<s[j][1], s[j][2] - d>>
    BY DEF Framed
  <2>3. QED
    BY <2>1, <2>2
<1>4. IsOpen(s[x])
  <2>1. x \in x..j /\ x - (j - s[j][2]) = 1
    BY <1>1, <1>2
  <2>2. s[x] = <<s[j][1], 1>>
    BY <1>3, <2>1
  <2>3. QED
    BY <2>2 DEF IsOpen
<1>5. \A i \in 1..j : IsOpen(s[i]) => i <= x
  <2>1. ASSUME NEW i \in 1..j, IsOpen(s[i]), x < i PROVE FALSE
    <3>1. i \in x..j
      BY <1>1, <2>1
    <3>2. s[i] = <<s[j][1], i - (j - s[j][2])>>
      BY <1>3, <3>1
    <3>3. i - (j - s[j][2]) = 1
      BY <2>1, <3>2 DEF IsOpen
    <3>4. QED
      BY <1>1, <2>1, <3>3
  <2>2. QED
    BY <1>2, <2>1
<1> DEFINE T == {i \in 1..j : IsOpen(s[i])} \cup {0}
<1>6. T \subseteq Nat /\ x \in T /\ \A i \in T : i <= x
  <2>1. x \in Nat /\ 0 <= x
    BY <1>2
  <2> HIDE DEF x
  <2>2. QED
    BY <1>2, <1>4, <1>5, <2>1
<1>7. Max(T) = x
  <2> HIDE DEF T, x
  <2>1. QED
    BY <1>6, MaxIs
<1>8. QED
  BY <1>2, <1>3, <1>4, <1>7 DEF LastOpen

LEMMA BodyBytes ==
  ASSUME NEW m \in Nat
  PROVE  /\ Body(m) \in Seq(AnyByte) /\ Len(Body(m)) = FrameLen - 2
         /\ \A i \in 1..FrameLen - 2 : Body(m)[i] = <<m, i + 1>>
         /\ Body(m)[1][1] = m
<1>1. FrameLen \in Nat /\ FrameLen >= 3
  BY SocketAssumption
<1>2. /\ Frame(m) \in Seq(AnyByte) /\ Len(Frame(m)) = FrameLen
      /\ \A p \in 1..FrameLen : Frame(m)[p] = <<m, p>>
  BY FrameBytes
<1>3. 2 \in 1..Len(Frame(m)) + 1 /\ FrameLen - 1 \in 0..Len(Frame(m)) /\ 2 <= (FrameLen - 1) + 1
  BY <1>1, <1>2
<1>4. /\ Body(m) \in Seq(AnyByte) /\ Len(Body(m)) = (FrameLen - 1) - 2 + 1
      /\ \A i \in 1..(FrameLen - 1) - 2 + 1 : Body(m)[i] = Frame(m)[2 + i - 1]
  BY <1>2, <1>3, PartAt DEF Body
<1>5. ASSUME NEW i \in 1..FrameLen - 2 PROVE Body(m)[i] = <<m, i + 1>>
  <2>1. i \in 1..(FrameLen - 1) - 2 + 1 /\ 2 + i - 1 = i + 1 /\ i + 1 \in 1..FrameLen
    BY <1>1
  <2>2. Body(m)[i] = Frame(m)[i + 1]
    BY <1>4, <2>1
  <2>3. QED
    BY <1>2, <2>1, <2>2
<1>6. (FrameLen - 1) - 2 + 1 = FrameLen - 2 /\ 1 \in 1..FrameLen - 2
  BY <1>1
<1>7. Body(m)[1] = <<m, 1 + 1>>
  BY <1>5, <1>6
<1>8. QED
  BY <1>4, <1>5, <1>6, <1>7

\* What the parser takes out at the end of a frame is the body of that frame.
LEMMA BodyOf ==
  ASSUME NEW s \in Seq(AnyByte), Framed(s), NEW j \in Closes(s)
  PROVE  SubSeq(s, LastOpen(s, j) + 1, j - 1) = Body(s[j][1])
<1>0. FrameLen \in Nat /\ FrameLen >= 3
  BY SocketAssumption
<1>1. j \in 1..Len(s) /\ Len(s) \in Nat /\ s[j][2] = FrameLen /\ s[j][1] \in Nat
  BY BytesOf DEF Closes, IsClose
<1> DEFINE x == j - FrameLen
           t == SubSeq(s, x + 2, j - 1)
<1>2. /\ LastOpen(s, j) = x + 1 /\ x + 1 \in 1..j
      /\ \A i \in x + 1..j : s[i] = <<s[j][1], i - x>>
  BY <1>1, FrameOf
<1>3. x + 2 \in 1..Len(s) + 1 /\ j - 1 \in 0..Len(s) /\ x + 2 <= (j - 1) + 1
  BY <1>0, <1>1, <1>2
<1>4. /\ t \in Seq(AnyByte) /\ Len(t) = (j - 1) - (x + 2) + 1
      /\ \A i \in 1..(j - 1) - (x + 2) + 1 : t[i] = s[x + 2 + i - 1]
  BY <1>3, PartAt
<1>5. (j - 1) - (x + 2) + 1 = FrameLen - 2
  BY <1>0, <1>1
<1>6. ASSUME NEW i \in 1..FrameLen - 2 PROVE t[i] = <<s[j][1], i + 1>>
  <2> DEFINE k == x + 2 + i - 1
  <2>1. k \in x + 1..j /\ k - x = i + 1
    BY <1>0, <1>1
  <2> HIDE DEF k
  <2>2. s[k] = <<s[j][1], k - x>>
    BY <1>2, <2>1
  <2>3. t[i] = s[k]
    BY <1>4, <1>5 DEF k
  <2>4. QED
    BY <2>1, <2>2, <2>3
<1>7. /\ Body(s[j][1]) \in Seq(AnyByte) /\ Len(Body(s[j][1])) = FrameLen - 2
      /\ \A i \in 1..FrameLen - 2 : Body(s[j][1])[i] = <<s[j][1], i + 1>>
  BY <1>1, BodyBytes
<1> HIDE DEF t
<1>8. t = Body(s[j][1])
  BY <1>4, <1>5, <1>6, <1>7, SeqEqual
<1>9. LastOpen(s, j) + 1 = x + 2
  BY <1>1, <1>2, <1>0
<1>10. QED
  BY <1>8, <1>9 DEF t

\* What the parser finds: the bodies of the frames that end in s.
LEMMA ParsedOf ==
  ASSUME NEW s \in Seq(AnyByte), Framed(s)
  PROVE  LET C == Closes(s) IN
           /\ C \subseteq 1..Len(s) /\ Len(s) \in Nat /\ Cardinality(C) \in Nat
           /\ Cardinality(C) = 0 <=> C = {}
           /\ Parsed(s) \in Seq(Seq(AnyByte)) /\ Len(Parsed(s)) = Cardinality(C)
           /\ \A n \in 1..Cardinality(C) :
                /\ Nth(C, n) \in C
                /\ Parsed(s)[n] = Body(s[Nth(C, n)][1])
<1> DEFINE C == Closes(s)
<1>1. Len(s) \in Nat /\ C \subseteq 1..Len(s)
  BY BytesOf DEF Closes
<1> HIDE DEF C
<1>2. Cardinality(C) \in Nat /\ (Cardinality(C) = 0 <=> C = {})
  BY <1>1, PartFinite
<1>3. \A n \in 1..Cardinality(C) : Nth(C, n) \in C
  BY <1>1, NthExists
<1>4. Parsed(s) = [n \in 1..Cardinality(C) |->
                     SubSeq(s, LastOpen(s, Nth(C, n)) + 1, Nth(C, n) - 1)]
  BY DEF Parsed, C
<1>5. ASSUME NEW n \in 1..Cardinality(C)
      PROVE  Parsed(s)[n] = Body(s[Nth(C, n)][1]) /\ Parsed(s)[n] \in Seq(AnyByte)
  <2>1. PICK j \in Closes(s) : j = Nth(C, n)
    BY <1>3 DEF C
  <2>2. SubSeq(s, LastOpen(s, j) + 1, j - 1) = Body(s[j][1])
    BY BodyOf
  <2>3. s[j][1] \in Nat
    BY <1>1, BytesOf DEF C
  <2>4. QED
    BY <1>4, <2>1, <2>2, <2>3, BodyBytes
<1>6. Parsed(s) \in Seq(Seq(AnyByte)) /\ Len(Parsed(s)) = Cardinality(C)
  <2>1. Parsed(s) \in [1..Cardinality(C) -> Seq(AnyByte)]
    BY <1>4, <1>5
  <2>2. QED
    BY <1>2, <2>1
<1>7. QED
  BY <1>1, <1>2, <1>3, <1>5, <1>6 DEF C

\* What the parser keeps: nothing after the end of a frame, else the beginning of
\* the last frame, after every frame that ended.
LEMMA KeptOf ==
  ASSUME NEW s \in Seq(AnyByte), Framed(s), Len(s) # 0
  PROVE  \E m \in 1..Len(s) + 1 :
           /\ Kept(s) = SubSeq(s, m, Len(s)) /\ Len(s) - m + 1 < FrameLen
           /\ \A j \in Closes(s) : j < m
           /\ IF m = Len(s) + 1 THEN IsClose(s[Len(s)]) ELSE IsOpen(s[m])
<1> DEFINE L == Len(s)
           p == s[L][2]
           x == L - p + 1
<1>0. FrameLen \in Nat /\ FrameLen >= 3
  BY SocketAssumption
<1>1. /\ L \in Nat /\ L \in 1..Len(s) /\ p \in Nat /\ 1 <= p /\ p <= FrameLen
      /\ Closes(s) \subseteq 1..L
  BY BytesOf DEF Closes
<1>2. /\ x \in 1..L /\ IsOpen(s[x]) /\ LastOpen(s, L) = x
      /\ \A i \in x..L : s[i] = <<s[L][1], i - (L - p)>>
  BY <1>1, FrameOf
<1>3. LastClose(s) \in Closes(s) \cup {0} /\ \A j \in Closes(s) : j <= LastClose(s)
  <2>1. Closes(s) \cup {0} \subseteq 0..L /\ Closes(s) \cup {0} # {}
    BY <1>1
  <2>2. QED
    BY <1>1, <2>1, MaxExists DEF LastClose
<1>4. CASE IsClose(s[L])
  <2>1. L \in Closes(s)
    BY <1>1, <1>4, BytesOf DEF Closes
  <2>2. ~(LastClose(s) < x)
    BY <1>1, <1>2, <1>3, <2>1
  <2>3. Kept(s) = <<>>
    BY <1>2, <2>2 DEF Kept
  <2>4. L + 1 \in Int /\ L \in Int /\ L < L + 1
    BY <1>1
  <2>5. SubSeq(s, L + 1, L) = <<>>
    BY <2>4, SubSeqEmpty
  <2>6. \A j \in Closes(s) : j < L + 1
    BY <1>1
  <2> HIDE DEF L
  <2>7. L + 1 \in 1..L + 1 /\ L - (L + 1) + 1 < FrameLen
    BY <1>0, <1>1
  <2>8. QED
    BY <1>4, <2>3, <2>5, <2>6, <2>7 DEF L
<1>5. CASE ~IsClose(s[L])
  <2>1. p < FrameLen
    BY <1>0, <1>1, <1>5 DEF IsClose
  <2>2. ASSUME NEW j \in Closes(s) PROVE j < x
    <3>1. j \in 1..L /\ s[j][2] = FrameLen
      BY <1>1 DEF Closes, IsClose
    <3>2. ASSUME j \in x..L PROVE FALSE
      <4>1. s[j] = <<s[L][1], j - (L - p)>>
        BY <1>2, <3>2
      <4>2. FrameLen = j - (L - p)
        BY <3>1, <4>1
      <4> HIDE DEF p, L
      <4>3. QED
        BY <1>1, <2>1, <3>1, <4>2
    <3> HIDE DEF x, L
    <3>3. QED
      BY <1>2, <3>1, <3>2
  <2>3. LastClose(s) < x
    BY <1>2, <1>3, <2>2
  <2>4. Kept(s) = SubSeq(s, x, L)
    BY <1>2, <2>3 DEF Kept
  <2>5. L - x + 1 < FrameLen /\ x \in 1..L + 1 /\ x # L + 1
    <3>1. L - x + 1 = p
      BY <1>1
    <3>2. x \in 1..L
      BY <1>2
    <3> HIDE DEF x
    <3>3. QED
      BY <1>1, <2>1, <3>1, <3>2
  <2> HIDE DEF x
  <2>6. QED
    BY <1>2, <2>2, <2>4, <2>5
<1>6. QED
  BY <1>4, <1>5

-----------------------------------------------------------------------------
(* The order of the bytes *)

\* No instruction accepted is between m and n.
NoSkip(acc, m, n) == \A i \in 1..Len(acc) : ~(m < acc[i] /\ acc[i] < n)

\* Until a frame ends, what follows a byte is of its instruction or an earlier
\* one; after the end of a frame the next instruction accepted may come too.
Ordered(acc, s) ==
  \A i, j \in 1..Len(s) :
    i < j /\ (\A l \in i + 1..j - 1 : ~IsClose(s[l])) =>
      IF IsClose(s[i]) THEN NoSkip(acc, s[i][1], s[j][1]) ELSE s[j][1] <= s[i][1]

\* V is U's byte at z and what U has from m on, where nothing between ends a frame.
IsCut(V, U, z, m) ==
  /\ z \in 1..Len(U) /\ m \in z + 1..Len(U) + 1
  /\ \A l \in z + 1..m - 1 : ~IsClose(U[l])
  /\ Len(V) = Len(U) - m + 2 /\ V[1] = U[z]
  /\ \A i \in 2..Len(V) : V[i] = U[m + i - 2]

LEMMA OrderedCut ==
  ASSUME NEW acc, NEW U, NEW V, Len(U) \in Nat, Ordered(acc, U),
         NEW z, NEW m, IsCut(V, U, z, m)
  PROVE  Ordered(acc, V)
<1>0. /\ z \in 1..Len(U) /\ m \in z + 1..Len(U) + 1
      /\ \A l \in z + 1..m - 1 : ~IsClose(U[l])
      /\ Len(V) = Len(U) - m + 2 /\ V[1] = U[z]
      /\ \A i \in 2..Len(V) : V[i] = U[m + i - 2]
  BY DEF IsCut
<1> SUFFICES ASSUME NEW i \in 1..Len(V), NEW j \in 1..Len(V), i < j,
                    \A l \in i + 1..j - 1 : ~IsClose(V[l])
             PROVE  IF IsClose(V[i]) THEN NoSkip(acc, V[i][1], V[j][1]) ELSE V[j][1] <= V[i][1]
  BY <1>0 DEF Ordered
<1>1. PICK y \in 1..Len(U) : y = m + j - 2 /\ V[j] = U[y] /\ m <= y
  <2>1. m + j - 2 \in 1..Len(U) /\ j \in 2..Len(V) /\ m <= m + j - 2
    BY <1>0
  <2>2. QED
    BY <1>0, <2>1
<1>2. PICK x \in 1..Len(U) : V[i] = U[x] /\ x = IF i = 1 THEN z ELSE m + i - 2
  <2>1. i = 1 \/ (i \in 2..Len(V) /\ m + i - 2 \in 1..Len(U))
    BY <1>0
  <2>2. QED
    BY <1>0, <2>1
<1>3. x < y
  BY <1>0, <1>1, <1>2
<1>4. ASSUME NEW l \in x + 1..y - 1 PROVE ~IsClose(U[l])
  <2>1. CASE l < m
    <3>1. l \in z + 1..m - 1
      BY <1>0, <1>1, <1>2, <2>1
    <3>2. QED
      BY <1>0, <3>1
  <2>2. CASE m <= l
    <3> DEFINE k == l - m + 2
    <3>1. k \in 2..Len(V) /\ m + k - 2 = l /\ k \in i + 1..j - 1
      BY <1>0, <1>1, <1>2, <2>2
    <3> HIDE DEF k
    <3>2. V[k] = U[l] /\ ~IsClose(V[k])
      BY <1>0, <3>1
    <3>3. QED
      BY <3>2
  <2>3. QED
    BY <1>0, <2>1, <2>2
<1>5. IF IsClose(U[x]) THEN NoSkip(acc, U[x][1], U[y][1]) ELSE U[y][1] <= U[x][1]
  BY <1>0, <1>3, <1>4 DEF Ordered
<1>6. QED
  BY <1>0, <1>1, <1>2, <1>5

\* V is U, which ends with the last instruction accepted, and the frame of the next.
LEMMA OrderedAppend ==
  ASSUME NEW acc \in Seq(Nat), NEW m \in Nat, NEW U, NEW V,
         Len(U) \in Nat, Len(U) # 0, Ordered(acc, U),
         \A i \in 1..Len(U) : U[i][1] \in Nat /\ U[i][1] < m,
         IsClose(U[Len(U)]), \A i \in 1..Len(acc) : acc[i] <= U[Len(U)][1],
         Len(V) = Len(U) + FrameLen, \A i \in 1..Len(U) : V[i] = U[i],
         \A p \in 1..FrameLen : V[Len(U) + p] = <<m, p>>
  PROVE  Ordered(Append(acc, m), V)
<1>0. FrameLen \in Nat
  BY SocketAssumption
<1>a. /\ Len(acc) \in Nat /\ Len(Append(acc, m)) = Len(acc) + 1
      /\ \A i \in 1..Len(acc) : Append(acc, m)[i] = acc[i] /\ acc[i] \in Nat
      /\ Append(acc, m)[Len(acc) + 1] = m
  BY AppendProperties, LenProperties
<1>b. \A a, b \in Nat : b <= m /\ NoSkip(acc, a, b) => NoSkip(Append(acc, m), a, b)
  <2> SUFFICES ASSUME NEW a \in Nat, NEW b \in Nat, b <= m, NoSkip(acc, a, b),
                      NEW i \in 1..Len(acc) + 1
               PROVE  ~(a < Append(acc, m)[i] /\ Append(acc, m)[i] < b)
    BY <1>a DEF NoSkip
  <2>1. CASE i = Len(acc) + 1
    BY <1>a, <2>1
  <2>2. CASE i \in 1..Len(acc)
    BY <1>a, <2>2 DEF NoSkip
  <2>3. QED
    BY <1>a, <2>1, <2>2
<1> SUFFICES ASSUME NEW i \in 1..Len(V), NEW j \in 1..Len(V), i < j,
                    \A l \in i + 1..j - 1 : ~IsClose(V[l])
             PROVE  IF IsClose(V[i]) THEN NoSkip(Append(acc, m), V[i][1], V[j][1])
                                     ELSE V[j][1] <= V[i][1]
  BY DEF Ordered
<1>1. CASE j <= Len(U)
  <2>1. i \in 1..Len(U) /\ j \in 1..Len(U) /\ V[i] = U[i] /\ V[j] = U[j]
    BY <1>0, <1>1
  <2>2. \A l \in i + 1..j - 1 : V[l] = U[l]
    BY <1>1, <2>1
  <2>3. IF IsClose(U[i]) THEN NoSkip(acc, U[i][1], U[j][1]) ELSE U[j][1] <= U[i][1]
    BY <2>1, <2>2 DEF Ordered
  <2>4. U[i][1] \in Nat /\ U[j][1] \in Nat /\ U[j][1] <= m
    BY <2>1
  <2>5. QED
    BY <1>b, <2>1, <2>3, <2>4
<1>2. CASE Len(U) < j
  <2>1. V[j][1] = m
    <3>1. PICK p \in 1..FrameLen : j = Len(U) + p
      <4>1. j - Len(U) \in 1..FrameLen /\ j = Len(U) + (j - Len(U))
        BY <1>0, <1>2
      <4>2. QED
        BY <4>1
    <3>2. QED
      BY <3>1
  <2>2. CASE i < Len(U)
    <3>1. Len(U) \in i + 1..j - 1 /\ Len(U) \in 1..Len(U)
      BY <1>0, <1>2, <2>2
    <3>2. ~IsClose(V[Len(U)]) /\ V[Len(U)] = U[Len(U)]
      BY <3>1
    <3>3. QED
      BY <3>2
  <2>3. CASE i = Len(U)
    <3>1. V[i] = U[i] /\ U[i][1] \in Nat /\ U[i][1] < m
      BY <2>3
    <3>2. NoSkip(acc, U[i][1], m)
      BY <1>a, <2>3, <3>1 DEF NoSkip
    <3>3. NoSkip(Append(acc, m), U[i][1], m)
      BY <1>b, <3>1, <3>2
    <3>4. QED
      BY <2>1, <2>3, <3>1, <3>3
  <2>4. CASE Len(U) < i
    <3>1. PICK p \in 1..FrameLen : i = Len(U) + p /\ p < FrameLen
      <4>1. i - Len(U) \in 1..FrameLen /\ i = Len(U) + (i - Len(U)) /\ i - Len(U) < FrameLen
        BY <1>0, <2>4
      <4>2. QED
        BY <4>1
    <3>2. V[i] = <<m, p>> /\ ~IsClose(V[i])
      BY <1>0, <3>1 DEF IsClose
    <3>3. QED
      BY <2>1, <3>2
  <2>5. QED
    BY <2>2, <2>3, <2>4
<1>3. QED
  BY <1>0, <1>1, <1>2

\* V is U, whose last l bytes are the sender's buffer, with the first k of these
\* sent and the whole buffer still to send.
LEMMA OrderedResend ==
  ASSUME NEW acc \in Seq(Nat), NEW U, NEW V, NEW n \in Nat, NEW l \in Nat, NEW k \in 0..l - 1,
         Ordered(acc, U), Len(U) = n + l, Len(V) = n + k + l,
         \A i \in 1..n + k : V[i] = U[i], \A i \in 1..l : V[n + k + i] = U[n + i],
         \A i \in 1..n + l : U[i][1] \in Nat,
         \A i \in n + 1..n + l : U[i][1] >= U[n + 1][1], ~IsClose(U[n + 1])
  PROVE  Ordered(acc, V)
<1> SUFFICES ASSUME NEW i \in 1..Len(V), NEW j \in 1..Len(V), i < j,
                    \A h \in i + 1..j - 1 : ~IsClose(V[h])
             PROVE  IF IsClose(V[i]) THEN NoSkip(acc, V[i][1], V[j][1]) ELSE V[j][1] <= V[i][1]
  BY DEF Ordered
<1>a. ASSUME NEW x \in 1..n + l, NEW y \in 1..n + l, x < y,
             \A h \in x + 1..y - 1 : ~IsClose(U[h])
      PROVE  IF IsClose(U[x]) THEN NoSkip(acc, U[x][1], U[y][1]) ELSE U[y][1] <= U[x][1]
  BY <1>a DEF Ordered
<1>b. ASSUME NEW h \in 1..n + k + l, n + k < h
      PROVE  V[h] = U[h - k] /\ h - k \in n + 1..n + l
  <2> DEFINE g == h - (n + k)
  <2>0. h \in Nat /\ k \in Nat /\ h <= n + k + l /\ n + k < h
    BY <1>b
  <2>1. g \in 1..l /\ n + k + g = h /\ n + g = h - k
    BY ONLY <2>0, n \in Nat, l \in Nat
  <2> HIDE DEF g
  <2>2. V[n + k + g] = U[n + g]
    BY <2>1
  <2>3. QED
    BY <2>1, <2>2, SMTT(30)
<1>1. CASE j <= n + k
  <2>1. i \in 1..n + l /\ j \in 1..n + l /\ V[i] = U[i] /\ V[j] = U[j]
    BY <1>1
  <2>2. \A h \in i + 1..j - 1 : h \in 1..n + k
    BY <1>1
  <2>3. \A h \in i + 1..j - 1 : ~IsClose(U[h])
    BY <2>2
  <2>4. QED
    BY <1>a, <2>1, <2>3
<1>2. CASE n + k < i
  <2>1. i - k \in 1..n + l /\ j - k \in 1..n + l /\ i - k < j - k /\ V[i] = U[i - k] /\ V[j] = U[j - k]
    BY <1>b, <1>2, SMTT(30)
  <2>2. ASSUME NEW h \in (i - k) + 1..(j - k) - 1 PROVE ~IsClose(U[h])
    <3> DEFINE g == h + k
    <3>1. g \in i + 1..j - 1 /\ g \in 1..n + k + l /\ n + k < g /\ g - k = h
      BY <1>2
    <3> HIDE DEF g
    <3>2. QED
      BY <1>b, <3>1
  <2>3. QED
    BY <1>a, <2>1, <2>2
<1>3. CASE i <= n + k /\ n + k < j
  <2>0. V[i] = U[i] /\ i \in 1..n + l /\ V[j] = U[j - k] /\ j - k \in n + 1..n + l
    BY <1>b, <1>3
  <2>a. ASSUME NEW h \in n + 1..(j - k) - 1 PROVE ~IsClose(U[h])
    <3> DEFINE g == h + k
    <3>1. g \in i + 1..j - 1 /\ g \in 1..n + k + l /\ n + k < g /\ g - k = h
      BY <1>3
    <3> HIDE DEF g
    <3>2. QED
      BY <1>b, <3>1
  <2>1. CASE i <= n
    <3>1. i < j - k /\ j - k \in 1..n + l
      BY <2>0, <2>1, SMTT(30)
    <3>2. ASSUME NEW h \in i + 1..(j - k) - 1 PROVE ~IsClose(U[h])
      <4>1. CASE h <= n
        <5>1. h \in 1..n + k /\ h \in i + 1..j - 1
          BY <1>3, <4>1
        <5>2. QED
          BY <5>1
      <4>2. CASE n < h
        <5>1. h \in n + 1..(j - k) - 1
          BY <4>2
        <5>2. QED
          BY <2>a, <5>1
      <4>3. QED
        BY <4>1, <4>2
    <3>3. QED
      BY <1>a, <2>0, <3>1, <3>2
  <2>2. CASE n < i
    <3>1. U[i][1] >= U[n + 1][1] /\ U[i][1] \in Nat /\ U[n + 1][1] \in Nat
          /\ U[j - k][1] \in Nat
      <4>1. i \in n + 1..n + l /\ n + 1 \in 1..n + l /\ j - k \in 1..n + l
        BY <1>3, <2>0, <2>2
      <4>2. QED
        BY <2>0, <4>1
    <3>2. U[j - k][1] <= U[n + 1][1]
      <4>1. CASE j - k = n + 1
        BY <3>1, <4>1
      <4>2. CASE j - k # n + 1
        <5>1. n + 1 \in 1..n + l /\ j - k \in 1..n + l /\ n + 1 < j - k
          BY <2>0, <4>2
        <5>2. \A h \in (n + 1) + 1..(j - k) - 1 : h \in n + 1..(j - k) - 1
          BY <5>1
        <5>3. \A h \in (n + 1) + 1..(j - k) - 1 : ~IsClose(U[h])
          BY <2>a, <5>2
        <5>4. IF IsClose(U[n + 1]) THEN NoSkip(acc, U[n + 1][1], U[j - k][1])
                                   ELSE U[j - k][1] <= U[n + 1][1]
          BY <1>a, <5>1, <5>3
        <5>5. QED
          BY <5>4
      <4>3. QED
        BY <4>1, <4>2
    <3>3. U[j - k][1] <= U[i][1]
      <4>1. \A a, b, c \in Nat : a <= b /\ c >= b => a <= c
        OBVIOUS
      <4>2. QED
        BY ONLY <3>1, <3>2, <4>1, Zenon
    <3>4. \A h \in 1..Len(acc) : acc[h] \in Nat
      BY LenProperties
    <3>5. NoSkip(acc, U[i][1], U[j - k][1])
      BY <3>1, <3>3, <3>4, SMTT(30) DEF NoSkip
    <3>6. QED
      BY <2>0, <3>3, <3>5
  <2>3. QED
    BY <2>1, <2>2
<1>4. QED
  BY <1>1, <1>2, <1>3

-----------------------------------------------------------------------------
(* The inductive invariant *)

\* The bytes on their way, and all bytes from the end of the last instruction that
\* was parsed to the end of the sender's buffer.
Coming   == recvbuf \o stream
LastDone == IF instructions = <<>> THEN 0 ELSE instructions[Len(instructions)][1][1]
Line     == (<< <<LastDone, FrameLen>> >> \o Coming) \o m_sendBuf

LastAccepted == IF accepted = <<>> THEN 0 ELSE accepted[Len(accepted)]

\* Instructions are accepted in the order they are sent.
AcceptedInv ==
  /\ \A i \in 1..Len(accepted) : accepted[i] <= sent
  /\ \A i, j \in 1..Len(accepted) : i < j => accepted[i] < accepted[j]

Accepted(m) == \E n \in 1..Len(accepted) : m = accepted[n]

\* Nothing else is ever sent or parsed.
KnownInv ==
  /\ \A i \in 1..Len(Coming) : Accepted(Coming[i][1])
  /\ \A i \in 1..Len(m_sendBuf) : Accepted(m_sendBuf[i][1])
  /\ \A i \in 1..Len(instructions) :
       \E n \in 1..Len(accepted) : instructions[i] = Body(accepted[n])

FrameInv == Framed(Coming) /\ Framed(m_sendBuf)

\* From the last instruction parsed to the last accepted no instruction is left out.
OrderInv ==
  /\ Ordered(accepted, Line)
  /\ Line[Len(Line)] = <<LastAccepted, FrameLen>>
  /\ \A i \in 1..Len(m_sendBuf) : m_sendBuf[i][1] >= m_sendBuf[1][1]

EndsIn(s, m) == \E i \in 1..Len(s) : s[i] = <<m, FrameLen>>

\* The frame of an accepted instruction was parsed, or it ends among the bytes on
\* their way or in the sender's buffer.
NotLostInv ==
  \A n \in 1..Len(accepted) :
    \/ Contains(instructions, Body(accepted[n]))
    \/ EndsIn(Coming, accepted[n])
    \/ EndsIn(m_sendBuf, accepted[n])

Inv == TypeOK /\ AcceptedInv /\ KnownInv /\ FrameInv /\ OrderInv /\ NotLostInv

-----------------------------------------------------------------------------
(* What the invariant says of the buffers *)

LEMMA MinOfTwo ==
  ASSUME NEW a \in Int, NEW b \in Int
  PROVE  Min({a, b}) \in Int /\ Min({a, b}) <= a /\ Min({a, b}) <= b
<1> DEFINE P(x) == \A y \in {a, b} : x =< y
<1>1. \E x \in {a, b} : P(x)
  OBVIOUS
<1> HIDE DEF P
<1>2. (CHOOSE x \in {a, b} : P(x)) \in {a, b} /\ P(CHOOSE x \in {a, b} : P(x))
  BY <1>1
<1>3. QED
  BY <1>2 DEF Min, P

LEMMA BytesAreAny == Bytes \subseteq AnyByte /\ \A s \in Seq(Bytes) : s \in Seq(AnyByte)
<1>1. Bytes \subseteq AnyByte
  BY TaskAssumption DEF Bytes, AnyByte
<1>2. QED
  BY <1>1, SeqMonotonic

\* Bytes of instructions.
LEMMA BytesType ==
  ASSUME NEW s \in Seq(AnyByte), \A i \in 1..Len(s) : s[i][1] \in 1..NumTasks
  PROVE  s \in Seq(Bytes)
<1>1. Len(s) \in Nat /\ s \in [1..Len(s) -> AnyByte]
  BY LenProperties
<1>2. \A i \in 1..Len(s) : s[i] \in Bytes
  <2> SUFFICES ASSUME NEW i \in 1..Len(s) PROVE s[i] \in Bytes
    OBVIOUS
  <2>1. s[i] \in AnyByte /\ s[i][1] \in 1..NumTasks
    BY <1>1
  <2>2. QED
    BY <2>1 DEF AnyByte, Bytes
<1>3. s \in [1..Len(s) -> Bytes]
  BY <1>1, <1>2
<1>4. QED
  BY <1>1, <1>3

LEMMA FrameBodyType ==
  ASSUME NEW m \in 1..NumTasks
  PROVE  Frame(m) \in Seq(Bytes) /\ Body(m) \in Seq(Bytes)
<1>1. m \in Nat /\ FrameLen \in Nat
  BY TaskAssumption, SocketAssumption
<1>2. /\ Frame(m) \in Seq(AnyByte) /\ \A i \in 1..Len(Frame(m)) : Frame(m)[i][1] = m
      /\ Body(m) \in Seq(AnyByte) /\ \A i \in 1..Len(Body(m)) : Body(m)[i][1] = m
  BY <1>1, FrameBytes, BodyBytes
<1>3. QED
  BY <1>2, BytesType

LEMMA SequenceTypes ==
  ASSUME TypeOK
  PROVE  /\ recvbuf \in Seq(Bytes) /\ stream \in Seq(Bytes) /\ m_sendBuf \in Seq(Bytes)
         /\ Coming \in Seq(Bytes) /\ Coming \in Seq(AnyByte) /\ m_sendBuf \in Seq(AnyByte)
         /\ Len(recvbuf) \in Nat /\ Len(stream) \in Nat /\ Len(m_sendBuf) \in Nat
         /\ Len(Coming) = Len(recvbuf) + Len(stream) /\ Len(Coming) \in Nat
         /\ accepted \in Seq(1..NumTasks) /\ Len(accepted) \in Nat
         /\ \A i \in 1..Len(accepted) : accepted[i] \in 1..NumTasks /\ accepted[i] \in Nat
         /\ instructions \in Seq(Seq(Bytes)) /\ Len(instructions) \in Nat
<1>1. /\ recvbuf \in Seq(Bytes) /\ stream \in Seq(Bytes) /\ m_sendBuf \in Seq(Bytes)
      /\ accepted \in Seq(1..NumTasks) /\ instructions \in Seq(Seq(Bytes))
  BY DEF TypeOK
<1>2. Coming \in Seq(Bytes) /\ Len(Coming) = Len(recvbuf) + Len(stream)
  BY <1>1, ConcatProperties DEF Coming
<1>3. Coming \in Seq(AnyByte) /\ m_sendBuf \in Seq(AnyByte)
  BY <1>1, <1>2, BytesAreAny
<1>4. /\ Len(recvbuf) \in Nat /\ Len(stream) \in Nat /\ Len(m_sendBuf) \in Nat
      /\ Len(Coming) \in Nat /\ Len(accepted) \in Nat /\ Len(instructions) \in Nat
  BY <1>1, <1>2, LenProperties
<1>5. \A i \in 1..Len(accepted) : accepted[i] \in 1..NumTasks /\ accepted[i] \in Nat
  <2>1. \A i \in 1..Len(accepted) : accepted[i] \in 1..NumTasks
    BY <1>1, ElementOfSeq
  <2>2. \A m \in 1..NumTasks : m \in Nat
    BY TaskAssumption
  <2>3. QED
    BY <2>1, <2>2
<1>6. QED
  BY <1>1, <1>2, <1>3, <1>4, <1>5

LEMMA LastDoneType == ASSUME Inv PROVE LastDone \in Nat /\ LastDone <= sent
<1>1. /\ instructions \in Seq(Seq(Bytes)) /\ Len(instructions) \in Nat
      /\ \A i \in 1..Len(accepted) : accepted[i] \in Nat /\ accepted[i] <= sent
      /\ sent \in Nat
  BY SequenceTypes DEF Inv, AcceptedInv, TypeOK
<1>2. CASE instructions = <<>>
  BY <1>1, <1>2 DEF LastDone
<1>3. CASE instructions # <<>>
  <2>1. Len(instructions) \in 1..Len(instructions)
    BY <1>1, <1>3, EmptySeq
  <2>2. PICK n \in 1..Len(accepted) : instructions[Len(instructions)] = Body(accepted[n])
    BY <2>1 DEF Inv, KnownInv
  <2>3. LastDone = accepted[n]
    BY <1>1, <1>3, <2>2, BodyBytes DEF LastDone
  <2>4. QED
    BY <1>1, <2>3
<1>4. QED
  BY <1>2, <1>3

\* The bytes of the line.
LEMMA LineAt ==
  ASSUME NEW v \in AnyByte, NEW s \in Seq(AnyByte), NEW t \in Seq(AnyByte)
  PROVE  LET U == (<<v>> \o s) \o t IN
           /\ U \in Seq(AnyByte) /\ Len(s) \in Nat /\ Len(t) \in Nat
           /\ Len(U) = 1 + Len(s) + Len(t)
           /\ U[1] = v
           /\ \A i \in 1..Len(s) : U[1 + i] = s[i]
           /\ \A i \in 1..Len(t) : U[1 + Len(s) + i] = t[i]
<1>1. PICK a \in Seq(AnyByte) : a = <<v>> /\ Len(a) = 1 /\ a[1] = v
  <2>1. <<v>> \in Seq(AnyByte) /\ Len(<<v>>) = 1 /\ <<v>>[1] = v
    OBVIOUS
  <2>2. QED
    BY <2>1
<1>2. PICK b \in Seq(AnyByte) :
        /\ b = a \o s /\ Len(s) \in Nat /\ Len(b) = 1 + Len(s)
        /\ b[1] = v /\ \A i \in 1..Len(s) : b[1 + i] = s[i]
  <2>1. /\ a \o s \in Seq(AnyByte) /\ Len(a) \in Nat /\ Len(s) \in Nat
        /\ Len(a \o s) = Len(a) + Len(s)
        /\ \A i \in 1..Len(a) : (a \o s)[i] = a[i]
        /\ \A i \in 1..Len(s) : (a \o s)[Len(a) + i] = s[i]
    BY ConcatAt
  <2>2. (a \o s)[1] = v
    BY <1>1, <2>1
  <2>3. \A i \in 1..Len(s) : (a \o s)[1 + i] = s[i]
    BY <1>1, <2>1
  <2>4. Len(a \o s) = 1 + Len(s)
    BY <1>1, <2>1
  <2>5. QED
    BY <2>1, <2>2, <2>3, <2>4
<1>3. /\ b \o t \in Seq(AnyByte) /\ Len(t) \in Nat /\ Len(b \o t) = Len(b) + Len(t)
      /\ \A i \in 1..Len(b) : (b \o t)[i] = b[i]
      /\ \A i \in 1..Len(t) : (b \o t)[Len(b) + i] = t[i]
  BY ConcatAt
<1>4. PICK U \in Seq(AnyByte) :
        /\ U = b \o t /\ Len(U) = Len(b) + Len(t)
        /\ \A i \in 1..Len(b) : U[i] = b[i]
        /\ \A i \in 1..Len(t) : U[Len(b) + i] = t[i]
  BY <1>3
<1>5. \A i \in 1..Len(s) : 1 + i \in 1..Len(b)
  BY <1>2
<1>6. 1 \in 1..Len(b)
  BY <1>2
<1>7. U = (<<v>> \o s) \o t
  BY <1>1, <1>2, <1>4
<1>8. /\ Len(U) = 1 + Len(s) + Len(t) /\ U[1] = v
      /\ \A i \in 1..Len(s) : U[1 + i] = s[i]
      /\ \A i \in 1..Len(t) : U[1 + Len(s) + i] = t[i]
  BY <1>2, <1>4, <1>5, <1>6
<1>9. QED
  BY <1>2, <1>3, <1>7, <1>8

-----------------------------------------------------------------------------
(* Sending *)

LineWith(buf) == (<< <<LastDone, FrameLen>> >> \o Coming) \o buf

\* The buffer after setSendMsg and the instructions accepted by then.
Filled(acc, buf) ==
  /\ acc \in Seq(1..NumTasks) /\ buf \in Seq(Bytes) /\ Len(buf) <= MAX_SEND_BUFFER_SIZE
  /\ \A i \in 1..Len(acc) : acc[i] <= sent + 1
  /\ \A i, j \in 1..Len(acc) : i < j => acc[i] < acc[j]
  /\ Framed(buf)
  /\ \A i \in 1..Len(buf) : \E n \in 1..Len(acc) : buf[i][1] = acc[n]
  /\ \A n \in 1..Len(accepted) : n \in 1..Len(acc) /\ acc[n] = accepted[n]
  /\ \A n \in 1..Len(acc) :
       \/ n \in 1..Len(accepted) /\ (EndsIn(m_sendBuf, accepted[n]) => EndsIn(buf, acc[n]))
       \/ EndsIn(buf, acc[n])
  /\ Ordered(acc, LineWith(buf))
  /\ LineWith(buf)[Len(LineWith(buf))] = <<IF acc = <<>> THEN 0 ELSE acc[Len(acc)], FrameLen>>
  /\ \A i \in 1..Len(buf) : buf[i][1] >= buf[1][1]

LEMMA FilledRefused == ASSUME Inv PROVE Filled(accepted, m_sendBuf)
<1>1. /\ accepted \in Seq(1..NumTasks) /\ m_sendBuf \in Seq(Bytes)
      /\ Len(m_sendBuf) <= MAX_SEND_BUFFER_SIZE /\ sent \in Nat
      /\ \A i \in 1..Len(accepted) : accepted[i] \in Nat
  BY SequenceTypes DEF Inv, TypeOK
<1>2. \A i \in 1..Len(accepted) : accepted[i] <= sent + 1
  BY <1>1 DEF Inv, AcceptedInv
<1>3. /\ Ordered(accepted, LineWith(m_sendBuf))
      /\ LineWith(m_sendBuf)[Len(LineWith(m_sendBuf))]
           = <<IF accepted = <<>> THEN 0 ELSE accepted[Len(accepted)], FrameLen>>
      /\ \A i \in 1..Len(m_sendBuf) : m_sendBuf[i][1] >= m_sendBuf[1][1]
  BY DEF Inv, OrderInv, Line, LineWith, LastAccepted
<1>4. /\ \A i, j \in 1..Len(accepted) : i < j => accepted[i] < accepted[j]
      /\ Framed(m_sendBuf)
      /\ \A i \in 1..Len(m_sendBuf) : \E n \in 1..Len(accepted) : m_sendBuf[i][1] = accepted[n]
  BY DEF Inv, AcceptedInv, FrameInv, KnownInv, Accepted
<1>5. QED
  BY <1>1, <1>2, <1>3, <1>4 DEF Filled

LEMMA FilledAccepted ==
  ASSUME Inv, sent < NumTasks, NEW m, m = sent + 1, Fits(Frame(m)),
         NEW acc, acc = Append(accepted, m), NEW buf, buf = m_sendBuf \o Frame(m)
  PROVE  Filled(acc, buf)
<1>1. /\ sent \in Nat /\ m \in 1..NumTasks /\ m \in Nat /\ FrameLen \in Nat /\ FrameLen >= 3
      /\ MAX_SEND_BUFFER_SIZE \in Nat
  BY TaskAssumption, SocketAssumption DEF Inv, TypeOK
<1>2. /\ m_sendBuf \in Seq(Bytes) /\ m_sendBuf \in Seq(AnyByte) /\ Len(m_sendBuf) \in Nat
      /\ Coming \in Seq(AnyByte) /\ Len(Coming) \in Nat
      /\ accepted \in Seq(1..NumTasks) /\ Len(accepted) \in Nat
      /\ \A i \in 1..Len(accepted) : accepted[i] \in Nat /\ accepted[i] < m
      /\ \A i, j \in 1..Len(accepted) : i < j => accepted[i] < accepted[j]
  BY <1>1, SequenceTypes DEF Inv, AcceptedInv
<1>3. /\ Frame(m) \in Seq(Bytes) /\ Frame(m) \in Seq(AnyByte) /\ Len(Frame(m)) = FrameLen
      /\ \A p \in 1..FrameLen : Frame(m)[p] = <<m, p>>
      /\ Framed(Frame(m))
  BY <1>1, FrameBytes, FrameBodyType
<1>4. /\ buf \in Seq(Bytes) /\ buf \in Seq(AnyByte) /\ Len(buf) = Len(m_sendBuf) + FrameLen
      /\ \A i \in 1..Len(m_sendBuf) : buf[i] = m_sendBuf[i]
      /\ \A p \in 1..FrameLen : buf[Len(m_sendBuf) + p] = <<m, p>>
  <2>1. /\ buf \in Seq(Bytes) /\ buf \in Seq(AnyByte)
        /\ Len(buf) = Len(m_sendBuf) + Len(Frame(m))
        /\ \A i \in 1..Len(m_sendBuf) : buf[i] = m_sendBuf[i]
        /\ \A p \in 1..Len(Frame(m)) : buf[Len(m_sendBuf) + p] = Frame(m)[p]
    BY <1>2, <1>3, ConcatAt
  <2>2. QED
    BY <1>3, <2>1
<1>5. Framed(buf)
  BY <1>2, <1>3, FramedConcat DEF Inv, FrameInv
<1>6. Len(buf) <= MAX_SEND_BUFFER_SIZE
  <2>1. Len(m_sendBuf) + Len(Frame(m)) <= MAX_SEND_BUFFER_SIZE
    BY DEF Fits
  <2>2. QED
    BY <1>3, <1>4, <2>1
<1>7. /\ acc \in Seq(1..NumTasks) /\ Len(acc) = Len(accepted) + 1
      /\ \A i \in 1..Len(accepted) : acc[i] = accepted[i]
      /\ acc[Len(accepted) + 1] = m
  BY <1>1, <1>2, AppendProperties
<1>8. /\ \A i \in 1..Len(acc) : acc[i] <= m
      /\ \A i, j \in 1..Len(acc) : i < j => acc[i] < acc[j]
  <2>1. \A i \in 1..Len(acc) : i \in 1..Len(accepted) \/ i = Len(accepted) + 1
    BY <1>2, <1>7
  <2>2. \A i \in 1..Len(acc) : acc[i] <= m
    BY <1>1, <1>2, <1>7, <2>1
  <2>3. ASSUME NEW i \in 1..Len(acc), NEW j \in 1..Len(acc), i < j PROVE acc[i] < acc[j]
    <3>1. i \in 1..Len(accepted)
      BY <1>2, <1>7, <2>3
    <3>2. CASE j \in 1..Len(accepted)
      BY <1>2, <1>7, <2>3, <3>1, <3>2
    <3>3. CASE j = Len(accepted) + 1
      BY <1>2, <1>7, <3>1, <3>3
    <3>4. QED
      BY <2>1, <3>2, <3>3
  <2>4. QED
    BY <2>2, <2>3
<1>9. ASSUME NEW i \in 1..Len(buf)
      PROVE  i \in 1..Len(m_sendBuf) \/ \E p \in 1..FrameLen : i = Len(m_sendBuf) + p
  <2>1. i \in 1..Len(m_sendBuf)
          \/ (i - Len(m_sendBuf) \in 1..FrameLen /\ i = Len(m_sendBuf) + (i - Len(m_sendBuf)))
    BY <1>1, <1>2, <1>4
  <2>2. QED
    BY <2>1
<1>10. ASSUME NEW i \in 1..Len(buf)
       PROVE  \E n \in 1..Len(acc) : buf[i][1] = acc[n]
  <2>1. CASE i \in 1..Len(m_sendBuf)
    <3>1. PICK n \in 1..Len(accepted) : m_sendBuf[i][1] = accepted[n]
      BY <2>1 DEF Inv, KnownInv, Accepted
    <3>2. n \in 1..Len(acc) /\ buf[i][1] = acc[n]
      BY <1>2, <1>4, <1>7, <2>1, <3>1
    <3>3. QED
      BY <3>2
  <2>2. CASE \E p \in 1..FrameLen : i = Len(m_sendBuf) + p
    <3>1. buf[i][1] = m
      BY <1>4, <2>2
    <3>2. Len(accepted) + 1 \in 1..Len(acc)
      BY <1>2, <1>7
    <3>3. QED
      BY <1>7, <3>1, <3>2
  <2>3. QED
    BY <1>9, <2>1, <2>2
<1>11. EndsIn(buf, m) /\ \A k \in Nat : EndsIn(m_sendBuf, k) => EndsIn(buf, k)
  <2>1. Len(m_sendBuf) + FrameLen \in 1..Len(buf) /\ buf[Len(m_sendBuf) + FrameLen] = <<m, FrameLen>>
    BY <1>1, <1>2, <1>4
  <2>2. \A i \in 1..Len(m_sendBuf) : i \in 1..Len(buf)
    BY <1>1, <1>2, <1>4
  <2>3. QED
    BY <1>4, <2>1, <2>2 DEF EndsIn
<1>12. ASSUME NEW n \in 1..Len(acc)
       PROVE  \/ n \in 1..Len(accepted) /\ (EndsIn(m_sendBuf, accepted[n]) => EndsIn(buf, acc[n]))
              \/ EndsIn(buf, acc[n])
  <2>1. n \in 1..Len(accepted) \/ n = Len(accepted) + 1
    BY <1>2, <1>7
  <2>2. QED
    BY <1>2, <1>7, <1>11, <2>1
<1>13. \A i \in 1..Len(buf) : buf[i][1] >= buf[1][1]
  <2>0. /\ \A i \in 1..Len(m_sendBuf) : m_sendBuf[i][1] >= m_sendBuf[1][1]
        /\ \A i \in 1..Len(m_sendBuf) : m_sendBuf[i][1] \in Nat /\ m_sendBuf[i][1] < m
    <3>1. \A i \in 1..Len(m_sendBuf) : Accepted(m_sendBuf[i][1])
      BY DEF Inv, KnownInv
    <3>2. \A i \in 1..Len(m_sendBuf) : m_sendBuf[i][1] \in Nat /\ m_sendBuf[i][1] < m
      BY <1>2, <3>1 DEF Accepted
    <3>3. QED
      BY <3>2 DEF Inv, OrderInv
  <2>1. CASE Len(m_sendBuf) = 0
    <3>1. \A i \in 1..Len(buf) : buf[i][1] = m
      BY <1>4, <1>9, <2>1
    <3>2. 1 \in 1..Len(buf)
      BY <1>1, <1>4, <2>1
    <3>3. buf[1][1] = m /\ m >= m
      BY <1>1, <3>1, <3>2
    <3>4. QED
      BY ONLY <3>1, <3>3
  <2>2. CASE Len(m_sendBuf) # 0
    <3>1. 1 \in 1..Len(m_sendBuf) /\ buf[1] = m_sendBuf[1]
      BY <1>2, <1>4, <2>2
    <3>2. ASSUME NEW i \in 1..Len(buf) PROVE buf[i][1] >= buf[1][1]
      <4>1. CASE i \in 1..Len(m_sendBuf)
        BY <1>4, <2>0, <3>1, <4>1
      <4>2. CASE \E p \in 1..FrameLen : i = Len(m_sendBuf) + p
        <5>1. buf[i][1] = m /\ buf[1][1] \in Nat /\ buf[1][1] < m
          BY <1>4, <2>0, <3>1, <4>2
        <5>2. QED
          BY <1>1, <5>1, SMTT(30)
      <4>3. QED
        BY <1>9, <4>1, <4>2
    <3>3. QED
      BY <3>2
  <2>3. QED
    BY <2>1, <2>2
<1> DEFINE v == <<LastDone, FrameLen>>
           U == LineWith(m_sendBuf)
           V == LineWith(buf)
<1>14. v \in AnyByte /\ v[1] <= sent
  BY <1>1, LastDoneType DEF AnyByte
<1>15. /\ U \in Seq(AnyByte) /\ Len(U) = 1 + Len(Coming) + Len(m_sendBuf) /\ U[1] = v
       /\ \A i \in 1..Len(Coming) : U[1 + i] = Coming[i]
       /\ \A i \in 1..Len(m_sendBuf) : U[1 + Len(Coming) + i] = m_sendBuf[i]
  BY <1>2, <1>14, LineAt DEF LineWith
<1>16. /\ V \in Seq(AnyByte) /\ Len(V) = 1 + Len(Coming) + Len(buf) /\ V[1] = v
       /\ \A i \in 1..Len(Coming) : V[1 + i] = Coming[i]
       /\ \A i \in 1..Len(buf) : V[1 + Len(Coming) + i] = buf[i]
  BY <1>2, <1>4, <1>14, LineAt, SMTT(30) DEF LineWith
<1>17. /\ Ordered(accepted, U)
       /\ U[Len(U)] = <<IF accepted = <<>> THEN 0 ELSE accepted[Len(accepted)], FrameLen>>
  BY DEF Inv, OrderInv, Line, LineWith, LastAccepted
<1> HIDE DEF U, V, v
<1>18. /\ Len(U) \in Nat /\ Len(U) # 0
       /\ \A i \in 1..Len(U) : U[i][1] \in Nat
  BY <1>2, <1>15, BytesOf
<1>19. ASSUME NEW i \in 1..Len(U) PROVE U[i][1] < m
  <2>1. \/ i = 1
        \/ \E j \in 1..Len(Coming) : i = 1 + j
        \/ \E j \in 1..Len(m_sendBuf) : i = 1 + Len(Coming) + j
    <3>1. \/ i = 1
          \/ i - 1 \in 1..Len(Coming) /\ i = 1 + (i - 1)
          \/ i - (1 + Len(Coming)) \in 1..Len(m_sendBuf) /\ i = 1 + Len(Coming) + (i - (1 + Len(Coming)))
      BY <1>2, <1>15, SMTT(30)
    <3>2. QED
      BY <3>1
  <2>2. CASE i = 1
    <3>1. U[i][1] <= sent /\ U[i][1] \in Nat
      BY <1>14, <1>15, <1>18, <2>2
    <3>2. QED
      BY <1>1, <3>1
  <2>3. CASE Accepted(U[i][1])
    BY <1>2, <2>3 DEF Accepted
  <2>4. (\A j \in 1..Len(Coming) : Accepted(Coming[j][1])) /\ \A j \in 1..Len(m_sendBuf) : Accepted(m_sendBuf[j][1])
    BY DEF Inv, KnownInv
  <2>5. QED
    BY <1>15, <2>1, <2>2, <2>3, <2>4, ZenonT(30)
<1>20. /\ Len(V) = Len(U) + FrameLen
       /\ \A i \in 1..Len(U) : V[i] = U[i]
       /\ \A p \in 1..FrameLen : V[Len(U) + p] = <<m, p>>
  <2>1. Len(V) = Len(U) + FrameLen
    BY <1>1, <1>2, <1>4, <1>15, <1>16
  <2>2. ASSUME NEW i \in 1..Len(U) PROVE V[i] = U[i]
    <3>1. CASE i = 1
      BY <1>15, <1>16, <3>1
    <3>2. CASE i \in 2..1 + Len(Coming)
      <4> DEFINE j == i - 1
      <4>1. j \in 1..Len(Coming) /\ i = 1 + j
        BY <1>2, <3>2
      <4> HIDE DEF j
      <4>2. QED
        BY <1>15, <1>16, <4>1
    <3>3. CASE 1 + Len(Coming) < i
      <4> DEFINE j == i - (1 + Len(Coming))
      <4>1. j \in 1..Len(m_sendBuf) /\ j \in 1..Len(buf) /\ i = 1 + Len(Coming) + j
        BY <1>1, <1>2, <1>4, <1>15, <3>3
      <4> HIDE DEF j
      <4>2. QED
        BY <1>4, <1>15, <1>16, <4>1
    <3>4. QED
      BY <1>2, <3>1, <3>2, <3>3
  <2>3. ASSUME NEW p \in 1..FrameLen PROVE V[Len(U) + p] = <<m, p>>
    <3> DEFINE j == Len(m_sendBuf) + p
    <3>1. j \in 1..Len(buf) /\ Len(U) + p = 1 + Len(Coming) + j
      BY <1>1, <1>2, <1>4, <1>15
    <3>2. buf[j] = <<m, p>>
      BY <1>4
    <3> HIDE DEF j
    <3>3. QED
      BY <1>16, <3>1, <3>2
  <2>4. QED
    BY <2>1, <2>2, <2>3
<1>21. IsClose(U[Len(U)]) /\ \A i \in 1..Len(accepted) : accepted[i] <= U[Len(U)][1]
  <2>1. IsClose(U[Len(U)])
    BY <1>17 DEF IsClose
  <2>2. ASSUME NEW i \in 1..Len(accepted) PROVE accepted[i] <= U[Len(U)][1]
    <3>1. accepted # <<>> /\ Len(accepted) \in 1..Len(accepted)
      BY <1>2
    <3>2. U[Len(U)][1] = accepted[Len(accepted)]
      BY <1>17, <3>1
    <3>3. i < Len(accepted) => accepted[i] < accepted[Len(accepted)]
      BY <1>2, <3>1
    <3>4. i = Len(accepted) \/ i < Len(accepted)
      BY <1>2
    <3>5. accepted[i] \in Nat /\ accepted[Len(accepted)] \in Nat
      BY <1>2, <3>1
    <3>6. QED
      BY <3>2, <3>3, <3>4, <3>5
  <2>3. QED
    BY <2>1, <2>2
<1>22. accepted \in Seq(Nat)
  <2>1. 1..NumTasks \subseteq Nat
    BY TaskAssumption
  <2>2. QED
    BY <1>2, <2>1, SeqMonotonic
<1>23. Ordered(acc, V)
  BY <1>1, <1>17, <1>18, <1>19, <1>20, <1>21, <1>22, OrderedAppend
<1>24. V[Len(V)] = <<IF acc = <<>> THEN 0 ELSE acc[Len(acc)], FrameLen>>
  <2>1. FrameLen \in 1..FrameLen
    BY <1>1
  <2>2. V[Len(V)] = <<m, FrameLen>>
    BY <1>20, <2>1
  <2>3. acc # <<>> /\ acc[Len(acc)] = m
    BY <1>2, <1>7
  <2>4. QED
    BY <2>2, <2>3
<1>25. \A n \in 1..Len(accepted) : n \in 1..Len(acc) /\ acc[n] = accepted[n]
  BY <1>2, <1>7
<1>26. \A i \in 1..Len(acc) : acc[i] <= sent + 1
  BY <1>8
<1>27. QED
  BY <1>4, <1>5, <1>6, <1>7, <1>8, <1>10, <1>12, <1>13, <1>23, <1>24, <1>25, <1>26 DEF Filled, V

LEMMA FilledAfter ==
  ASSUME Inv, SendTask
  PROVE  \E buf : /\ Filled(accepted', buf) /\ SendMessage(buf)
                  /\ accepted' = accepted \/ accepted' = Append(accepted, sent + 1)
                  /\ sent' = sent + 1 /\ sent' \in 0..NumTasks
                  /\ UNCHANGED <<recvbuf, instructions>>
<1>1. /\ sent < NumTasks /\ SendMessage(SetSendMsg(Frame(sent + 1)))
      /\ accepted' = IF Fits(Frame(sent + 1)) THEN Append(accepted, sent + 1) ELSE accepted
      /\ sent' = sent + 1 /\ UNCHANGED <<recvbuf, instructions>>
  BY DEF SendTask
<1>2. sent' \in 0..NumTasks
  BY <1>1, TaskAssumption DEF Inv, TypeOK
<1>3. CASE Fits(Frame(sent + 1))
  <2>1. SetSendMsg(Frame(sent + 1)) = m_sendBuf \o Frame(sent + 1)
    BY <1>3 DEF SetSendMsg
  <2>2. Filled(Append(accepted, sent + 1), m_sendBuf \o Frame(sent + 1))
    BY <1>1, <1>3, FilledAccepted
  <2>3. QED
    BY <1>1, <1>2, <1>3, <2>1, <2>2
<1>4. CASE ~Fits(Frame(sent + 1))
  <2>1. SetSendMsg(Frame(sent + 1)) = m_sendBuf
    BY <1>4 DEF SetSendMsg
  <2>2. QED
    BY <1>1, <1>2, <1>4, <2>1, FilledRefused
<1>5. QED
  BY <1>3, <1>4

LEMMA SendNext == ASSUME Inv, SendTask PROVE Inv'
<1>1. PICK buf : /\ Filled(accepted', buf) /\ SendMessage(buf)
                 /\ sent' = sent + 1 /\ sent' \in 0..NumTasks
                 /\ UNCHANGED <<recvbuf, instructions>>
  BY FilledAfter
<1>2. PICK k \in 0..Min({Len(buf), KernelCap - Len(stream)}) :
        /\ stream' = stream \o SubSeq(buf, 1, k)
        /\ m_sendBuf' = IF k = Len(buf) THEN <<>> ELSE buf
  BY <1>1 DEF SendMessage
<1>3. /\ buf \in Seq(Bytes) /\ buf \in Seq(AnyByte) /\ Len(buf) \in Nat
      /\ Coming \in Seq(Bytes) /\ Coming \in Seq(AnyByte) /\ Len(Coming) \in Nat
      /\ recvbuf \in Seq(Bytes) /\ stream \in Seq(Bytes) /\ Len(stream) \in Nat
      /\ KernelCap \in Nat /\ FrameLen \in Nat /\ FrameLen >= 3 /\ Len(stream) <= KernelCap
      /\ MAX_SEND_BUFFER_SIZE \in Nat
  BY <1>1, SequenceTypes, BytesAreAny, LenProperties, SocketAssumption DEF Inv, TypeOK, Filled
<1>4. k \in 0..Len(buf) /\ k <= KernelCap - Len(stream)
  <2>1. /\ Min({Len(buf), KernelCap - Len(stream)}) \in Int
        /\ Min({Len(buf), KernelCap - Len(stream)}) <= Len(buf)
        /\ Min({Len(buf), KernelCap - Len(stream)}) <= KernelCap - Len(stream)
    <3>1. PICK a \in Int, b \in Int : a = Len(buf) /\ b = KernelCap - Len(stream)
      <4>1. Len(buf) \in Int /\ KernelCap - Len(stream) \in Int
        BY <1>3
      <4>2. QED
        BY <4>1
    <3>2. Min({a, b}) \in Int /\ Min({a, b}) <= a /\ Min({a, b}) <= b
      BY MinOfTwo
    <3>3. QED
      BY <3>1, <3>2
  <2>2. QED
    BY <1>3, <2>1
<1>5. PICK part \in Seq(Bytes) :
        /\ part = SubSeq(buf, 1, k) /\ part \in Seq(AnyByte) /\ Len(part) = k
        /\ \A i \in 1..k : part[i] = buf[i]
        /\ Framed(part)
  <2>1. 1 \in 1..Len(buf) + 1 /\ 1 <= k + 1
    BY <1>3, <1>4
  <2>2. SubSeq(buf, 1, k) \in Seq(Bytes) /\ Len(SubSeq(buf, 1, k)) = k - 1 + 1
    BY <1>3, <1>4, <2>1, PartAt
  <2>3. \A i \in 1..k - 1 + 1 : SubSeq(buf, 1, k)[i] = buf[1 + i - 1]
    BY <1>3, <1>4, <2>1, PartAt
  <2>4. Framed(SubSeq(buf, 1, k))
    BY <1>1, <1>3, <1>4, FramedPrefix DEF Filled
  <2>5. \A i \in 1..k : SubSeq(buf, 1, k)[i] = buf[i]
    BY <1>4, <2>3
  <2>6. SubSeq(buf, 1, k) \in Seq(AnyByte) /\ Len(SubSeq(buf, 1, k)) = k
    BY <1>4, <2>2, BytesAreAny
  <2>7. QED
    BY <2>2, <2>4, <2>5, <2>6
<1>6. /\ Coming' = Coming \o part /\ stream' = stream \o part
      /\ stream' \in Seq(Bytes) /\ Len(stream') = Len(stream) + k
  <2>1. stream' = stream \o part
    BY <1>2, <1>5
  <2>2. stream \o part \in Seq(Bytes) /\ Len(stream \o part) = Len(stream) + Len(part)
    BY <1>3, <1>5, ConcatProperties
  <2>3. recvbuf \o (stream \o part) = (recvbuf \o stream) \o part
    <3>1. PICK r \in Seq(Bytes), t \in Seq(Bytes) : r = recvbuf /\ t = stream
      BY <1>3
    <3>2. r \o (t \o part) = (r \o t) \o part
      BY ConcatTwice, SMTT(30)
    <3>3. QED
      BY <3>1, <3>2
  <2>4. Coming' = recvbuf \o stream'
    BY <1>1 DEF Coming
  <2>5. QED
    BY <1>5, <2>1, <2>2, <2>3, <2>4 DEF Coming
<1>7. /\ Coming \o part \in Seq(AnyByte) /\ Len(Coming \o part) = Len(Coming) + k
      /\ \A i \in 1..Len(Coming) : (Coming \o part)[i] = Coming[i]
      /\ \A i \in 1..k : (Coming \o part)[Len(Coming) + i] = part[i]
  <2>1. /\ Coming \o part \in Seq(AnyByte) /\ Len(Coming \o part) = Len(Coming) + Len(part)
        /\ \A i \in 1..Len(Coming) : (Coming \o part)[i] = Coming[i]
        /\ \A i \in 1..Len(part) : (Coming \o part)[Len(Coming) + i] = part[i]
    BY <1>3, <1>5, ConcatAt
  <2>2. QED
    BY <1>5, <2>1
<1>8. PICK come \in Seq(AnyByte) :
        /\ come = Coming' /\ Len(come) = Len(Coming) + k
        /\ \A i \in 1..Len(Coming) : come[i] = Coming[i]
        /\ \A i \in 1..k : come[Len(Coming) + i] = buf[i]
  BY <1>5, <1>6, <1>7, ZenonT(30)
<1>9. TypeOK'
  <2>1. m_sendBuf' \in Seq(Bytes) /\ Len(m_sendBuf') <= MAX_SEND_BUFFER_SIZE
    BY <1>1, <1>2, <1>3 DEF Filled
  <2>2. stream' \in Seq(Bytes) /\ Len(stream') <= KernelCap
    BY <1>3, <1>4, <1>6
  <2>3. accepted' \in Seq(1..NumTasks)
    BY <1>1 DEF Filled
  <2>4. /\ recvbuf' \in Seq(Bytes) /\ Len(recvbuf') < FrameLen
        /\ instructions' \in Seq(Seq(Bytes))
    BY <1>1 DEF Inv, TypeOK
  <2>5. QED
    BY <1>1, <2>1, <2>2, <2>3, <2>4 DEF TypeOK
<1>10. AcceptedInv'
  BY <1>1 DEF Filled, AcceptedInv
<1>11. ASSUME NEW m, Accepted(m) PROVE \E n \in 1..Len(accepted') : m = accepted'[n]
  BY <1>1, <1>11 DEF Filled, Accepted
<1>12. \A i \in 1..Len(buf) : \E n \in 1..Len(accepted') : buf[i][1] = accepted'[n]
  BY <1>1 DEF Filled
<1>a. ASSUME NEW i \in 1..Len(come)
      PROVE  i \in 1..Len(Coming) \/ \E j \in 1..k : j \in 1..Len(buf) /\ i = Len(Coming) + j
  <2>1. \/ i \in 1..Len(Coming)
        \/ /\ i - Len(Coming) \in 1..k /\ i - Len(Coming) \in 1..Len(buf)
           /\ i = Len(Coming) + (i - Len(Coming))
    BY <1>3, <1>4, <1>8
  <2>2. QED
    BY <2>1
<1>13. KnownInv'
  <2>1. ASSUME NEW i \in 1..Len(come)
        PROVE  \E n \in 1..Len(accepted') : come[i][1] = accepted'[n]
    <3>1. CASE i \in 1..Len(Coming)
      <4>1. Accepted(Coming[i][1]) /\ come[i] = Coming[i]
        BY <1>8, <3>1 DEF Inv, KnownInv
      <4>2. QED
        BY <1>11, <4>1
    <3>2. CASE \E j \in 1..k : j \in 1..Len(buf) /\ i = Len(Coming) + j
      <4>1. PICK j \in 1..k : j \in 1..Len(buf) /\ i = Len(Coming) + j
        BY <3>2
      <4>2. come[i] = buf[j]
        BY <1>8, <4>1
      <4>3. QED
        BY <1>12, <4>1, <4>2
    <3>3. QED
      BY <1>a, <3>1, <3>2
  <2>2. \A i \in 1..Len(Coming') : \E n \in 1..Len(accepted') : (Coming')[i][1] = accepted'[n]
    BY <1>8, <2>1
  <2>3. \A i \in 1..Len(m_sendBuf') : \E n \in 1..Len(accepted') : m_sendBuf'[i][1] = accepted'[n]
    BY <1>2, <1>12
  <2>4. \A i \in 1..Len(instructions') :
          \E n \in 1..Len(accepted') : instructions'[i] = Body(accepted'[n])
    <3> SUFFICES ASSUME NEW i \in 1..Len(instructions')
                 PROVE  \E n \in 1..Len(accepted') : instructions'[i] = Body(accepted'[n])
      OBVIOUS
    <3>1. PICK n \in 1..Len(accepted) : instructions[i] = Body(accepted[n])
      BY <1>1 DEF Inv, KnownInv
    <3>2. n \in 1..Len(accepted') /\ accepted'[n] = accepted[n]
      BY <1>1 DEF Filled
    <3>3. QED
      BY <1>1, <3>1, <3>2
  <2>5. QED
    BY <2>2, <2>3, <2>4 DEF KnownInv, Accepted
<1>14. FrameInv'
  <2>1. Framed(Coming')
    BY <1>3, <1>5, <1>6, FramedConcat DEF Inv, FrameInv
  <2>2. Framed(m_sendBuf')
    BY <1>1, <1>2, SMTT(30) DEF Filled, Framed
  <2>3. QED
    BY <2>1, <2>2 DEF FrameInv, Framed
<1> DEFINE v == <<LastDone, FrameLen>>
<1>b. v \in AnyByte /\ LastDone' = LastDone
  BY <1>1, <1>3, LastDoneType DEF AnyByte, LastDone
<1>15. OrderInv'
  <2>0. /\ Ordered(accepted', LineWith(buf))
        /\ LineWith(buf)[Len(LineWith(buf))] = <<LastAccepted, FrameLen>>'
    BY <1>1 DEF Filled, LastAccepted
  <2>1. Line' = (<<v>> \o come) \o m_sendBuf'
    BY <1>8, <1>b DEF Line
  <2>2. CASE k = Len(buf)
    <3>1. part = buf /\ m_sendBuf' = <<>>
      BY <1>2, <1>3, <1>5, <2>2, SubSeqFull
    <3>2. Line' = LineWith(buf)
      <4>1. <<v>> \in Seq(AnyByte) /\ <<v>> \o come \in Seq(AnyByte)
        <5>1. <<v>> \in Seq(AnyByte)
          BY <1>b
        <5>2. QED
          BY <5>1, ConcatProperties
      <4>2. Line' = <<v>> \o come
        BY <2>1, <3>1, <4>1, ConcatEmptySeq
      <4>3. come = Coming \o buf
        BY <1>6, <1>8, <3>1
      <4>4. <<v>> \o (Coming \o buf) = (<<v>> \o Coming) \o buf
        <5>1. PICK a \in Seq(AnyByte) : a = <<v>>
          BY <4>1
        <5>2. PICK c \in Seq(AnyByte), b \in Seq(AnyByte) : c = Coming /\ b = buf
          BY <1>3
        <5>3. a \o (c \o b) = (a \o c) \o b
          BY ConcatTwice, SMTT(30)
        <5>4. QED
          BY <5>1, <5>2, <5>3
      <4>5. QED
        BY <4>2, <4>3, <4>4 DEF LineWith
    <3>3. Len(m_sendBuf') = 0
      BY <3>1
    <3>4. QED
      BY <2>0, <3>2, <3>3 DEF OrderInv
  <2>3. CASE k # Len(buf)
    <3>n. PICK n \in Nat, l \in Nat : n = 1 + Len(Coming) /\ l = Len(buf)
      BY <1>3
    <3>0. /\ m_sendBuf' = buf /\ k \in 0..l - 1 /\ n \in Nat /\ l \in Nat /\ l # 0
      BY <1>2, <1>3, <1>4, <2>3, <3>n
    <3>1. PICK U \in Seq(AnyByte) :
            /\ U = LineWith(buf) /\ Len(U) = n + l /\ U[1] = v
            /\ \A i \in 1..Len(Coming) : U[1 + i] = Coming[i]
            /\ \A i \in 1..l : U[n + i] = buf[i]
      <4>1. /\ LineWith(buf) \in Seq(AnyByte)
            /\ Len(LineWith(buf)) = 1 + Len(Coming) + Len(buf) /\ LineWith(buf)[1] = v
            /\ \A i \in 1..Len(Coming) : LineWith(buf)[1 + i] = Coming[i]
            /\ \A i \in 1..Len(buf) : LineWith(buf)[1 + Len(Coming) + i] = buf[i]
        BY <1>3, <1>b, LineAt DEF LineWith
      <4>2. QED
        BY <3>n, <4>1
    <3>2. PICK V \in Seq(AnyByte) :
            /\ V = Line' /\ Len(V) = 1 + Len(come) + l /\ V[1] = v
            /\ \A i \in 1..Len(come) : V[1 + i] = come[i]
            /\ \A i \in 1..l : V[1 + Len(come) + i] = buf[i]
      <4> DEFINE W == (<<v>> \o come) \o buf
      <4>1. /\ W \in Seq(AnyByte) /\ Len(W) = 1 + Len(come) + Len(buf) /\ W[1] = v
            /\ \A i \in 1..Len(come) : W[1 + i] = come[i]
            /\ \A i \in 1..Len(buf) : W[1 + Len(come) + i] = buf[i]
        BY <1>3, <1>b, LineAt, SMTT(30)
      <4>2. W = Line'
        BY <2>1, <3>0
      <4> HIDE DEF W
      <4>3. QED
        BY <3>n, <4>1, <4>2
    <3>3. \A i \in 1..n + l : U[i][1] \in Nat
      BY <3>1, BytesOf
    <3>4. Len(V) = n + k + l /\ \A i \in 1..l : V[n + k + i] = U[n + i]
      <4>1. 1 + Len(come) = n + k
        BY <1>3, <1>4, <1>8, <3>n
      <4>2. QED
        BY <3>n, <3>1, <3>2, <4>1
    <3>5. ASSUME NEW i \in 1..n + k PROVE V[i] = U[i]
      <4>1. CASE i = 1
        BY <3>1, <3>2, <4>1
      <4>2. CASE i \in 2..n
        <5> DEFINE j == i - 1
        <5>1. j \in 1..Len(Coming) /\ j \in 1..Len(come) /\ i = 1 + j
          BY <1>3, <1>4, <1>8, <3>n, <4>2, SMTT(30)
        <5> HIDE DEF j
        <5>2. QED
          BY <1>8, <3>1, <3>2, <5>1
      <4>3. CASE n < i
        <5> DEFINE j == i - n
        <5>1. /\ j \in 1..k /\ j \in 1..l /\ i = n + j /\ Len(Coming) + j \in 1..Len(come)
              /\ i = 1 + (Len(Coming) + j)
          BY <1>3, <1>4, <1>8, <3>n, <4>3, SMTT(30)
        <5> HIDE DEF j
        <5>2. V[i] = come[Len(Coming) + j] /\ U[i] = buf[j]
          BY <3>1, <3>2, <5>1
        <5>3. QED
          BY <1>8, <5>1, <5>2
      <4>4. QED
        BY <1>3, <1>4, <3>n, <4>1, <4>2, <4>3
    <3>6. U[n + 1] = buf[1] /\ ~IsClose(U[n + 1])
      <4>1. 1 \in 1..l
        BY <3>0
      <4>2. buf[1][2] <= 1
        BY <1>1, <3>n, <4>1 DEF Filled, Framed
      <4>3. U[n + 1] = buf[1]
        BY <3>1, <4>1
      <4>4. FrameLen # buf[1][2]
        <5>1. buf[1][2] \in Nat
          BY <1>3, <3>n, <4>1, BytesOf
        <5>2. QED
          BY <1>3, <4>2, <5>1
      <4>5. QED
        BY <4>3, <4>4 DEF IsClose
    <3>7. \A i \in 1..l : buf[i][1] >= buf[1][1]
      BY <1>1, <3>n DEF Filled
    <3>8. ASSUME NEW i \in n + 1..n + l PROVE U[i][1] >= U[n + 1][1]
      <4> DEFINE j == i - n
      <4>1. j \in 1..l /\ i = n + j
        BY <3>0
      <4> HIDE DEF j
      <4>2. QED
        BY <3>1, <3>6, <3>7, <4>1
    <3>9. accepted' \in Seq(Nat)
      <4>1. accepted' \in Seq(1..NumTasks)
        BY <1>1 DEF Filled
      <4>2. 1..NumTasks \subseteq Nat
        BY TaskAssumption
      <4>3. QED
        BY <4>1, <4>2, SeqMonotonic
    <3>10. Ordered(accepted', V)
      <4>1. Ordered(accepted', U)
        BY <2>0, <3>1
      <4>2. PICK acc \in Seq(Nat) : acc = accepted'
        BY <3>9
      <4>a. \A i \in 1..n + k : V[i] = U[i]
        BY <3>5
      <4>b. \A i \in n + 1..n + l : U[i][1] >= U[n + 1][1]
        BY <3>8
      <4>c. /\ Ordered(acc, U) /\ Len(U) = n + l /\ Len(V) = n + k + l
            /\ \A i \in 1..l : V[n + k + i] = U[n + i]
            /\ ~IsClose(U[n + 1])
        BY <3>1, <3>4, <3>6, <4>1, <4>2
      <4>3. Ordered(acc, V)
        BY <3>0, <3>3, <4>a, <4>b, <4>c, OrderedResend, ZenonT(30)
      <4>4. QED
        BY <4>2, <4>3
    <3>11. V[Len(V)] = U[Len(U)]
      <4>1. l \in 1..l
        BY <3>0
      <4>2. V[n + k + l] = U[n + l]
        BY <3>4, <4>1
      <4>3. QED
        BY <3>1, <3>4, <4>2
    <3>12. QED
      BY <2>0, <3>n, <3>0, <3>1, <3>2, <3>7, <3>10, <3>11 DEF OrderInv
  <2>4. QED
    BY <2>2, <2>3
<1>16. NotLostInv'
  <2> SUFFICES ASSUME NEW n \in 1..Len(accepted')
               PROVE  \/ Contains(instructions', Body(accepted'[n]))
                      \/ EndsIn(Coming', accepted'[n])
                      \/ EndsIn(m_sendBuf', accepted'[n])
    BY DEF NotLostInv, EndsIn
  <2>1. ASSUME NEW m, EndsIn(buf, m)
        PROVE  EndsIn(Coming', m) \/ EndsIn(m_sendBuf', m)
    <3>1. CASE k = Len(buf)
      <4>1. PICK i \in 1..k : buf[i] = <<m, FrameLen>>
        BY <2>1, <3>1 DEF EndsIn
      <4>2. Len(Coming) + i \in 1..Len(come) /\ come[Len(Coming) + i] = <<m, FrameLen>>
        BY <1>3, <1>4, <1>8, <4>1, SMTT(30)
      <4>3. QED
        BY <1>8, <4>2 DEF EndsIn
    <3>2. CASE k # Len(buf)
      BY <1>2, <2>1, <3>2
    <3>3. QED
      BY <3>1, <3>2
  <2>2. ASSUME NEW m, EndsIn(Coming, m) PROVE EndsIn(Coming', m)
    <3>1. PICK i \in 1..Len(Coming) : Coming[i] = <<m, FrameLen>>
      BY <2>2 DEF EndsIn
    <3>2. i \in 1..Len(come) /\ come[i] = <<m, FrameLen>>
      BY <1>3, <1>4, <1>8, <3>1, SMTT(30)
    <3>3. QED
      BY <1>8, <3>2 DEF EndsIn
  <2>3. CASE EndsIn(buf, accepted'[n])
    BY <2>1, <2>3
  <2>4. CASE n \in 1..Len(accepted) /\ (EndsIn(m_sendBuf, accepted[n]) => EndsIn(buf, accepted'[n]))
    <3>1. accepted'[n] = accepted[n]
      BY <1>1, <2>4 DEF Filled
    <3>2. \/ Contains(instructions, Body(accepted[n]))
          \/ EndsIn(Coming, accepted[n])
          \/ EndsIn(m_sendBuf, accepted[n])
      BY <2>4 DEF Inv, NotLostInv
    <3>3. QED
      BY <1>1, <2>2, <2>3, <2>4, <3>1, <3>2
  <2>5. QED
    BY <1>1, <2>3, <2>4 DEF Filled
<1>17. QED
  BY <1>9, <1>10, <1>13, <1>14, <1>15, <1>16 DEF Inv

-----------------------------------------------------------------------------
(* Receiving *)

\* b is r and the first k of s; what is cut off at m stays in front of the rest.
CutAt(S, r, s, k, b, m) ==
  /\ SubSeq(b, m, Len(b)) \in Seq(S) /\ SubSeq(s, k + 1, Len(s)) \in Seq(S)
  /\ Len(SubSeq(b, m, Len(b))) = Len(b) - m + 1
  /\ Len(SubSeq(s, k + 1, Len(s))) = Len(s) - k
  /\ SubSeq(b, m, Len(b)) \o SubSeq(s, k + 1, Len(s)) = SubSeq(r \o s, m, Len(r \o s))

Joined(r, s, k) == r \o SubSeq(s, 1, k)

LEMMA CutJoin ==
  ASSUME NEW S, NEW r \in Seq(S), NEW s \in Seq(S), NEW k \in 1..Len(s),
         NEW b, b = Joined(r, s, k)
  PROVE  /\ b \in Seq(S) /\ Len(b) = Len(r) + k /\ Len(b) <= Len(r \o s)
         /\ b = SubSeq(r \o s, 1, Len(b))
         /\ \A i \in 1..Len(b) : b[i] = (r \o s)[i]
         /\ \A m \in 1..Len(b) + 1 : CutAt(S, r, s, k, b, m)
<1>1. Len(r) \in Nat /\ Len(s) \in Nat /\ k \in Nat /\ 1 <= k /\ k <= Len(s)
  BY LenProperties
<1>2. PICK h \in Seq(S) : /\ h = SubSeq(s, 1, k) /\ Len(h) = k
                          /\ \A i \in 1..k : h[i] = s[i]
  <2>1. 1 \in 1..Len(s) + 1 /\ k \in 0..Len(s) /\ 1 <= k + 1
    BY <1>1
  <2>2. /\ SubSeq(s, 1, k) \in Seq(S) /\ Len(SubSeq(s, 1, k)) = k - 1 + 1
        /\ \A i \in 1..k - 1 + 1 : SubSeq(s, 1, k)[i] = s[1 + i - 1]
    BY <2>1, PartAt
  <2>3. Len(SubSeq(s, 1, k)) = k /\ \A i \in 1..k : SubSeq(s, 1, k)[i] = s[i]
    BY <1>1, <2>2
  <2>4. QED
    BY <2>2, <2>3
<1>3. PICK t \in Seq(S) : /\ t = SubSeq(s, k + 1, Len(s)) /\ Len(t) = Len(s) - k
                          /\ \A i \in 1..Len(s) - k : t[i] = s[k + i]
  <2>1. k + 1 \in 1..Len(s) + 1 /\ Len(s) \in 0..Len(s) /\ k + 1 <= Len(s) + 1
    BY <1>1
  <2>2. /\ SubSeq(s, k + 1, Len(s)) \in Seq(S)
        /\ Len(SubSeq(s, k + 1, Len(s))) = Len(s) - (k + 1) + 1
        /\ \A i \in 1..Len(s) - (k + 1) + 1 : SubSeq(s, k + 1, Len(s))[i] = s[k + 1 + i - 1]
    BY <2>1, PartAt
  <2>3. /\ Len(SubSeq(s, k + 1, Len(s))) = Len(s) - k
        /\ \A i \in 1..Len(s) - k : SubSeq(s, k + 1, Len(s))[i] = s[k + i]
    BY <1>1, <2>2
  <2>4. QED
    BY <2>2, <2>3
<1>4. PICK w \in Seq(S) : /\ w = r \o s /\ Len(w) = Len(r) + Len(s)
                          /\ \A i \in 1..Len(r) : w[i] = r[i]
                          /\ \A i \in 1..Len(s) : w[Len(r) + i] = s[i]
  <2>1. /\ r \o s \in Seq(S) /\ Len(r \o s) = Len(r) + Len(s)
        /\ \A i \in 1..Len(r) : (r \o s)[i] = r[i]
        /\ \A i \in 1..Len(s) : (r \o s)[Len(r) + i] = s[i]
    BY ConcatAt
  <2>2. QED
    BY <2>1
<1>5. /\ b \in Seq(S) /\ Len(b) = Len(r) + k
      /\ \A i \in 1..Len(r) : b[i] = r[i]
      /\ \A i \in 1..k : b[Len(r) + i] = s[i]
  <2>1. /\ r \o h \in Seq(S) /\ Len(r \o h) = Len(r) + Len(h)
        /\ \A i \in 1..Len(r) : (r \o h)[i] = r[i]
        /\ \A i \in 1..Len(h) : (r \o h)[Len(r) + i] = h[i]
    BY ConcatAt
  <2>2. b = r \o h
    BY <1>2 DEF Joined
  <2>3. QED
    BY <1>2, <2>1, <2>2
<1>6. Len(b) <= Len(w) /\ Len(b) \in Nat
  BY <1>1, <1>4, <1>5
<1>7. ASSUME NEW i \in 1..Len(b) PROVE b[i] = w[i]
  <2>1. CASE i \in 1..Len(r)
    BY <1>4, <1>5, <2>1
  <2>2. CASE i \notin 1..Len(r)
    <3>1. PICK j \in 1..k : j \in 1..Len(s) /\ i = Len(r) + j
      <4>1. i - Len(r) \in 1..k /\ i - Len(r) \in 1..Len(s) /\ i = Len(r) + (i - Len(r))
        BY <1>1, <1>5, <2>2
      <4>2. QED
        BY <4>1
    <3>2. QED
      BY <1>4, <1>5, <3>1
  <2>3. QED
    BY <2>1, <2>2
<1>8. b = SubSeq(w, 1, Len(b))
  <2>1. 1 \in 1..Len(w) + 1 /\ Len(b) \in 0..Len(w) /\ 1 <= Len(b) + 1
    BY <1>4, <1>1, <1>6
  <2>2. /\ SubSeq(w, 1, Len(b)) \in Seq(S) /\ Len(SubSeq(w, 1, Len(b))) = Len(b) - 1 + 1
        /\ \A i \in 1..Len(b) - 1 + 1 : SubSeq(w, 1, Len(b))[i] = w[1 + i - 1]
    BY <2>1, PartAt
  <2>3. /\ Len(SubSeq(w, 1, Len(b))) = Len(b)
        /\ \A i \in 1..Len(b) : SubSeq(w, 1, Len(b))[i] = b[i]
    BY <1>6, <1>7, <2>2
  <2>4. QED
    BY <1>5, <2>2, <2>3, SeqEqual
<1>9. ASSUME NEW m \in 1..Len(b) + 1 PROVE CutAt(S, r, s, k, b, m)
  <2>9. PICK p \in Seq(S) : /\ p = SubSeq(b, m, Len(b)) /\ Len(p) = Len(b) - m + 1
                            /\ \A i \in 1..Len(b) - m + 1 : p[i] = b[m + i - 1]
    <3>1. m \in 1..Len(b) + 1 /\ Len(b) \in 0..Len(b) /\ m <= Len(b) + 1
      BY <1>6
    <3>2. PICK a \in Seq(S) : a = b
      BY <1>5
    <3>b. m \in 1..Len(a) + 1 /\ Len(a) \in 0..Len(a) /\ m <= Len(a) + 1
      BY <3>1, <3>2
    <3>3. /\ SubSeq(a, m, Len(a)) \in Seq(S) /\ Len(SubSeq(a, m, Len(a))) = Len(a) - m + 1
          /\ \A i \in 1..Len(a) - m + 1 : SubSeq(a, m, Len(a))[i] = a[m + i - 1]
      BY ONLY <3>b, a \in Seq(S), PartAt
    <3>4. QED
      BY <3>2, <3>3
  <2>10. PICK u \in Seq(S) : /\ u = SubSeq(w, m, Len(w)) /\ Len(u) = Len(w) - m + 1
                             /\ \A i \in 1..Len(w) - m + 1 : u[i] = w[m + i - 1]
    <3>1. m \in 1..Len(w) + 1 /\ Len(w) \in 0..Len(w) /\ m <= Len(w) + 1
      BY <1>1, <1>4, <1>6
    <3>2. /\ SubSeq(w, m, Len(w)) \in Seq(S) /\ Len(SubSeq(w, m, Len(w))) = Len(w) - m + 1
          /\ \A i \in 1..Len(w) - m + 1 : SubSeq(w, m, Len(w))[i] = w[m + i - 1]
      BY <3>1, PartAt
    <3>3. QED
      BY <3>2
  <2>11. PICK x \in Seq(S) : /\ x = p \o t /\ Len(x) = Len(p) + Len(t)
                             /\ \A i \in 1..Len(p) : x[i] = p[i]
                             /\ \A i \in 1..Len(t) : x[Len(p) + i] = t[i]
    <3>1. /\ p \o t \in Seq(S) /\ Len(p \o t) = Len(p) + Len(t)
          /\ \A i \in 1..Len(p) : (p \o t)[i] = p[i]
          /\ \A i \in 1..Len(t) : (p \o t)[Len(p) + i] = t[i]
      BY ConcatAt
    <3>2. QED
      BY <3>1
  <2>12. x = u
    <3>1. Len(x) = Len(u) /\ Len(x) \in Nat /\ Len(p) \in Nat
      <4>1. Len(x) \in Nat /\ Len(p) \in Nat
        BY LenProperties
      <4>2. /\ Len(p) = Len(r) + k - m + 1 /\ Len(t) = Len(s) - k
            /\ Len(u) = Len(r) + Len(s) - m + 1 /\ Len(x) = Len(p) + Len(t)
        BY <1>3, <1>4, <1>5, <2>9, <2>10, <2>11
      <4>3. m \in Nat
        BY <1>6
      <4>4. QED
        BY ONLY <4>1, <4>2, <4>3, <1>1
    <3>2. ASSUME NEW i \in 1..Len(x) PROVE x[i] = u[i]
      <4>0. i \in 1..Len(w) - m + 1 /\ u[i] = w[m + i - 1]
        BY <2>10, <3>1
      <4>1. CASE i \in 1..Len(p)
        <5>1. m + i - 1 \in 1..Len(b)
          BY <1>6, <2>9, <4>1
        <5>2. QED
          BY <1>7, <2>9, <2>11, <4>0, <4>1, <5>1, SMTT(30)
      <4>2. CASE i \notin 1..Len(p)
        <5>1. PICK j \in 1..Len(t) : i = Len(p) + j /\ k + j \in 1..Len(s)
                                     /\ m + i - 1 = Len(r) + (k + j)
          <6> DEFINE j == i - Len(p)
          <6>1. j \in 1..Len(t) /\ i = Len(p) + j /\ Len(t) = Len(s) - k
            BY <1>1, <1>3, <2>11, <3>1, <4>2
          <6>2. Len(p) = Len(r) + k - m + 1
            BY <1>5, <2>9
          <6> HIDE DEF j
          <6>3. k + j \in 1..Len(s) /\ m + i - 1 = Len(r) + (k + j)
            BY <1>1, <6>1, <6>2
          <6>4. QED
            BY <6>1, <6>3
        <5>2. x[i] = t[j] /\ t[j] = s[k + j]
          BY <1>3, <2>11, <5>1
        <5>3. w[Len(r) + (k + j)] = s[k + j]
          BY <1>4, <5>1
        <5>4. QED
          BY <4>0, <5>1, <5>2, <5>3
      <4>3. QED
        BY <4>1, <4>2
    <3>3. QED
      BY <3>1, <3>2, SeqEqual
  <2>13. QED
    BY <1>3, <1>4, <2>9, <2>10, <2>11, <2>12 DEF CutAt
<1>10. QED
  BY <1>3, <1>4, <1>5, <1>6, <1>7, <1>8, <1>9

\* The line loses the instructions parsed, up to the end of a frame at q of come,
\* and what was kept starts at m.
ReceivedUpTo(v, come, w, rest, q, m) ==
  /\ m \in 1..Len(come) + 1 /\ q \in 0..m - 1
  /\ Len(rest) = Len(come) - m + 1 /\ \A i \in 1..Len(rest) : rest[i] = come[m + i - 1]
  /\ q = 0 => w = v
  /\ q # 0 => w = come[q]
  /\ \A i \in q + 1..m - 1 : ~IsClose(come[i])
  /\ m = Len(come) + 1 => q = Len(come)

LineOf(v, s, t) == (<<v>> \o s) \o t

LEMMA OrderedReceived ==
  ASSUME NEW acc, NEW v \in AnyByte, NEW w \in AnyByte,
         NEW come \in Seq(AnyByte), NEW rest \in Seq(AnyByte), NEW buf \in Seq(AnyByte),
         NEW U, U = LineOf(v, come, buf), NEW V, V = LineOf(w, rest, buf),
         NEW q, NEW m, ReceivedUpTo(v, come, w, rest, q, m), Ordered(acc, U)
  PROVE  Ordered(acc, V) /\ V[Len(V)] = U[Len(U)]
<1>0. /\ m \in 1..Len(come) + 1 /\ q \in 0..m - 1
      /\ Len(rest) = Len(come) - m + 1 /\ \A i \in 1..Len(rest) : rest[i] = come[m + i - 1]
      /\ q = 0 => w = v
      /\ q # 0 => w = come[q]
      /\ \A i \in q + 1..m - 1 : ~IsClose(come[i])
      /\ m = Len(come) + 1 => q = Len(come)
  BY DEF ReceivedUpTo
<1>1. PICK l \in Nat, n \in Nat, e \in Nat : l = Len(buf) /\ n = Len(come) /\ e = Len(rest)
  BY LenProperties
<1>2. /\ Len(U) = 1 + n + l /\ U[1] = v
      /\ \A i \in 1..n : U[1 + i] = come[i]
      /\ \A i \in 1..l : U[1 + n + i] = buf[i]
  <2>1. U = (<<v>> \o come) \o buf
    BY DEF LineOf
  <2>2. QED
    BY <1>1, <2>1, LineAt
<1>3. /\ Len(V) = 1 + e + l /\ V[1] = w
      /\ \A i \in 1..e : V[1 + i] = rest[i]
      /\ \A i \in 1..l : V[1 + e + i] = buf[i]
  <2>0. V = (<<w>> \o rest) \o buf
    BY DEF LineOf
  <2>1. /\ Len(V) = 1 + Len(rest) + Len(buf) /\ V[1] = w
        /\ \A i \in 1..Len(rest) : V[1 + i] = rest[i]
        /\ \A i \in 1..Len(buf) : V[1 + Len(rest) + i] = buf[i]
    BY ONLY LineAt, w \in AnyByte, rest \in Seq(AnyByte), buf \in Seq(AnyByte),
            <2>0
  <2>2. QED
    BY <1>1, <2>1
<1>4. e = n - m + 1 /\ \A i \in 1..n - m + 1 : rest[i] = come[m + i - 1]
  BY <1>0, <1>1
<1>5. /\ m \in Nat /\ 1 <= m /\ m <= n + 1 /\ q \in Nat /\ q < m
  BY <1>0, <1>1
<1>6. Len(V) = Len(U) - (m + 1) + 2 /\ Len(U) \in Nat
  <2>1. Len(V) = 1 + e + l /\ Len(U) = 1 + n + l /\ e = n - m + 1
    BY <1>2, <1>3, <1>4
  <2>2. QED
    BY ONLY <1>5, <2>1, l \in Nat, n \in Nat
<1>7. V[1] = U[q + 1] /\ q + 1 \in 1..Len(U) /\ m + 1 \in (q + 1) + 1..Len(U) + 1
  <2>1. CASE q = 0
    BY <1>0, <1>2, <1>3, <1>5, <2>1
  <2>2. CASE q # 0
    <3>1. q \in 1..n /\ 1 + q = q + 1
      BY <1>5, <2>2
    <3>2. QED
      BY <1>0, <1>2, <1>3, <1>5, <2>2, <3>1
  <2>3. QED
    BY <2>1, <2>2
<1>8. ASSUME NEW i \in 2..Len(V) PROVE V[i] = U[(m + 1) + i - 2]
  <2>1. CASE i - 1 <= e
    <3> DEFINE j == i - 1
    <3>1. j \in 1..n - m + 1 /\ j \in 1..e /\ i = 1 + j /\ m + j - 1 \in 1..n
          /\ (m + 1) + i - 2 = 1 + (m + j - 1)
      <4>1. j \in Nat /\ 1 <= j /\ j <= e /\ i = 1 + j /\ e = n - m + 1
        <5>1. i \in Nat /\ 2 <= i
          BY <1>6
        <5>2. QED
          BY ONLY <1>4, <2>1, <5>1, e \in Nat
      <4> HIDE DEF j
      <4>2. QED
        BY ONLY <1>5, <4>1, e \in Nat, n \in Nat
    <3> HIDE DEF j
    <3>2. V[i] = rest[j] /\ U[(m + 1) + i - 2] = come[m + j - 1]
      BY <1>2, <1>3, <3>1
    <3>3. QED
      BY <1>4, <3>1, <3>2
  <2>2. CASE ~(i - 1 <= e)
    <3> DEFINE j == i - (1 + e)
    <3>1. j \in 1..l /\ i = 1 + e + j /\ (m + 1) + i - 2 = 1 + n + j
      <4>1. Len(V) = 1 + e + l /\ e = n - m + 1 /\ i \in 2..Len(V)
        BY <1>3, <1>4
      <4>2. QED
        BY ONLY <1>5, <2>2, <4>1, l \in Nat, n \in Nat, e \in Nat
    <3> HIDE DEF j
    <3>2. V[i] = buf[j] /\ U[1 + n + j] = buf[j]
      BY <1>2, <1>3, <3>1
    <3>3. QED
      BY <3>1, <3>2
  <2>3. QED
    BY <2>1, <2>2
<1>9. ASSUME NEW i \in (q + 1) + 1..(m + 1) - 1 PROVE ~IsClose(U[i])
  <2> DEFINE j == i - 1
  <2>1. j \in q + 1..m - 1 /\ j \in 1..n /\ i = 1 + j
    BY <1>5
  <2> HIDE DEF j
  <2>2. U[i] = come[j] /\ ~IsClose(come[j])
    BY <1>0, <1>2, <2>1
  <2>3. QED
    BY <2>2
<1>10. Ordered(acc, V)
  <2>1. IsCut(V, U, q + 1, m + 1)
    BY <1>6, <1>7, <1>8, <1>9 DEF IsCut
  <2>2. QED
    BY <1>6, <2>1, OrderedCut
<1>11. V[Len(V)] = U[Len(U)]
  <2>1. CASE Len(V) = 1
    <3>1. m = n + 1 /\ l = 0 /\ q = n
      <4>1. 1 = 1 + e + l /\ e = n - m + 1
        BY <1>3, <1>4, <2>1
      <4>a. e = 0 /\ l = 0
        BY ONLY <4>1, l \in Nat, e \in Nat
      <4>2. m = n + 1 /\ l = 0
        BY ONLY <1>5, <4>1, <4>a, n \in Nat
      <4>3. QED
        BY <1>0, <1>1, <4>2
    <3>2. q + 1 = Len(U)
      BY <1>2, <3>1
    <3>3. QED
      BY <1>7, <2>1, <3>2
  <2>2. CASE Len(V) # 1
    <3>1. Len(V) \in 2..Len(V) /\ (m + 1) + Len(V) - 2 = Len(U)
      <4>1. Len(V) = 1 + e + l /\ Len(U) \in Nat /\ Len(V) = Len(U) - (m + 1) + 2
        BY <1>3, <1>6
      <4>2. QED
        BY ONLY <1>5, <2>2, <4>1, l \in Nat, e \in Nat, SMTT(30)
    <3>2. QED
      BY <1>8, <3>1
  <2>3. QED
    BY <2>1, <2>2
<1>12. QED
  BY <1>10, <1>11

\* What is parsed of buf, the first bytes of come, ends at q, if it is anything;
\* what is kept begins at m.
DoneUpTo(come, m, ins, new, q) ==
  /\ q = 0 => new = ins
  /\ q # 0 => /\ come[q][2] = FrameLen
              /\ new # <<>> /\ new[Len(new)][1][1] = come[q][1]
  /\ \A i \in q + 1..m - 1 : ~IsClose(come[i])
  /\ m = Len(come) + 1 => q = Len(come)

LEMMA ParsedUpTo ==
  ASSUME NEW come \in Seq(AnyByte), NEW buf \in Seq(AnyByte), Framed(buf), Len(buf) # 0,
         Len(buf) <= Len(come), \A i \in 1..Len(buf) : buf[i] = come[i],
         NEW m \in 1..Len(buf) + 1, \A j \in Closes(buf) : j < m,
         m = Len(buf) + 1 => IsClose(buf[Len(buf)]),
         NEW ins \in Seq(Seq(AnyByte)), NEW new, new = ins \o Parsed(buf)
  PROVE  \E q \in 0..m - 1 : DoneUpTo(come, m, ins, new, q)
<1> DEFINE C == Closes(buf)
           c == Cardinality(C)
<1>1. /\ C \subseteq 1..Len(buf) /\ Len(buf) \in Nat /\ c \in Nat /\ (c = 0 <=> C = {})
      /\ Parsed(buf) \in Seq(Seq(AnyByte)) /\ Len(Parsed(buf)) = c
      /\ \A n \in 1..c : Nth(C, n) \in C /\ Parsed(buf)[n] = Body(buf[Nth(C, n)][1])
  BY ParsedOf
<1>2. Len(come) \in Nat /\ m \in Nat /\ 1 <= m /\ m <= Len(buf) + 1
  BY <1>1, LenProperties
<1>3. \A i \in 1..Len(buf) : IsClose(come[i]) <=> i \in C
  BY <1>1, BytesOf DEF Closes
<1>4. PICK p \in Seq(Seq(AnyByte)) :
        p = Parsed(buf) /\ Len(p) = c /\ \A n \in 1..c : p[n] = Body(buf[Nth(C, n)][1])
  BY <1>1
<1>5. \A j \in C : j < m
  OBVIOUS
<1>6. m = Len(come) + 1 => m = Len(buf) + 1 /\ Len(buf) = Len(come) /\ Len(come) \in C
  <2>1. m = Len(come) + 1 => m = Len(buf) + 1 /\ Len(buf) = Len(come)
    BY <1>1, <1>2
  <2>2. Len(buf) \in 1..Len(buf)
    BY <1>1
  <2>3. m = Len(buf) + 1 => Len(buf) \in C
    BY <1>3, <2>2
  <2>4. QED
    BY <2>1, <2>3
<1> HIDE DEF C
<1>7. CASE C = {}
  <2>1. new = ins
    <3>1. p = <<>>
      BY <1>1, <1>4, <1>7, EmptySeq
    <3>2. QED
      BY <1>4, <3>1, ConcatEmptySeq
  <2>2. \A i \in 0 + 1..m - 1 : i \in 1..Len(buf)
    BY <1>1, <1>2
  <2>3. \A i \in 0 + 1..m - 1 : ~IsClose(come[i])
    BY <1>3, <1>7, <2>2
  <2>4. m # Len(come) + 1
    BY <1>6, <1>7
  <2>5. 0 \in 0..m - 1
    BY <1>2
  <2>6. QED
    BY <2>1, <2>3, <2>4, <2>5 DEF DoneUpTo
<1>8. CASE C # {}
  <2>1. c \in 1..c
    <3>1. c \in Nat /\ c # 0
      BY <1>1, <1>8, Zenon
    <3> HIDE DEF c
    <3>2. QED
      BY ONLY <3>1
  <2>2. PICK q : q = Nth(C, c) /\ q \in C
    BY <1>1, <2>1
  <2>3. \A i \in C : i <= q
    BY <1>1, <2>1, <2>2, NthOrder
  <2>4. q \in 1..Len(buf) /\ q \in 0..m - 1 /\ q # 0
    BY <1>1, <1>2, <1>5, <2>2
  <2>5. come[q] = buf[q] /\ come[q][2] = FrameLen /\ come[q][1] \in Nat
    <3>1. come[q] = buf[q] /\ IsClose(come[q])
      BY <1>3, <2>2, <2>4
    <3>2. buf[q][1] \in Nat
      BY <2>4, BytesOf
    <3>3. QED
      BY <3>1, <3>2 DEF IsClose
  <2>6. new # <<>> /\ new[Len(new)][1][1] = come[q][1]
    <3>1. /\ ins \o p \in Seq(Seq(AnyByte)) /\ Len(ins) \in Nat
          /\ Len(ins \o p) = Len(ins) + Len(p)
          /\ \A i \in 1..Len(p) : (ins \o p)[Len(ins) + i] = p[i]
      BY ConcatAt
    <3>2. new = ins \o p
      BY <1>4
    <3>3. Len(new) = Len(ins) + c /\ new[Len(ins) + c] = p[c]
      BY <1>4, <2>1, <3>1, <3>2
    <3>4. new # <<>>
      BY <1>1, <2>1, <3>1, <3>3
    <3>5. p[c] = Body(come[q][1])
      BY <1>4, <2>1, <2>2, <2>5
    <3>6. p[c][1][1] = come[q][1]
      BY <2>5, <3>5, BodyBytes, SMTT(30)
    <3>7. QED
      BY <3>3, <3>4, <3>6
  <2>7. ASSUME NEW i \in q + 1..m - 1 PROVE ~IsClose(come[i])
    <3>1. i \in 1..Len(buf) /\ ~(i <= q)
      BY <1>1, <1>2, <2>4
    <3>2. QED
      BY <1>3, <2>3, <3>1
  <2>8. m = Len(come) + 1 => q = Len(come)
    BY <1>2, <1>6, <2>3, <2>4
  <2>9. QED
    BY <2>4, <2>5, <2>6, <2>7, <2>8 DEF DoneUpTo
<1>9. QED
  BY <1>7, <1>8

\* What the client has of Coming when k more bytes have arrived, and what it does.
Collected(k, buf) ==
  /\ k \in 1..Len(stream) /\ buf \in Seq(AnyByte) /\ Len(buf) \in Nat
  /\ Len(buf) # 0 /\ Len(buf) <= Len(Coming) /\ \A i \in 1..Len(buf) : buf[i] = Coming[i]
  /\ Framed(buf)
  /\ \A m \in 1..Len(buf) + 1 : CutAt(Bytes, recvbuf, stream, k, buf, m)
  /\ stream' = SubSeq(stream, k + 1, Len(stream))
  /\ instructions' = instructions \o Parsed(buf) /\ recvbuf' = Kept(buf)
  /\ UNCHANGED <<m_sendBuf, sent, accepted>>

LEMMA ReceiveTypes ==
  ASSUME Inv
  PROVE  /\ recvbuf \in Seq(Bytes) /\ stream \in Seq(Bytes) /\ Len(stream) \in Nat
         /\ Len(recvbuf) \in Nat /\ Len(stream) <= KernelCap /\ KernelCap \in Nat
         /\ Coming \in Seq(AnyByte) /\ Len(Coming) \in Nat /\ m_sendBuf \in Seq(AnyByte)
         /\ instructions \in Seq(Seq(Bytes)) /\ instructions \in Seq(Seq(AnyByte))
         /\ Len(instructions) \in Nat /\ FrameLen \in Nat
<1>1. Seq(Bytes) \subseteq Seq(AnyByte)
  BY BytesAreAny
<1>2. \A s \in Seq(Seq(Bytes)) : s \in Seq(Seq(AnyByte))
  BY <1>1, SeqMonotonic
<1>3. QED
  BY <1>2, SequenceTypes, SocketAssumption DEF Inv, TypeOK

LEMMA CollectedBytes ==
  ASSUME Inv, ReceiveInstructions
  PROVE  \E k, buf : Collected(k, buf)
<1>1. PICK k \in ReceivedNow :
        LET b == recvbuf \o SubSeq(stream, 1, k) IN
          /\ stream' = SubSeq(stream, k + 1, Len(stream))
          /\ instructions' = instructions \o Parsed(b) /\ recvbuf' = Kept(b)
          /\ UNCHANGED <<m_sendBuf, sent, accepted>>
  BY DEF ReceiveInstructions
<1>2. /\ recvbuf \in Seq(Bytes) /\ stream \in Seq(Bytes) /\ Len(stream) \in Nat
      /\ Coming \in Seq(AnyByte) /\ Len(Coming) \in Nat
  BY ReceiveTypes
<1>3. k \in 1..Len(stream)
  <2>1. MAX_RECV_BUFFER_SIZE \in Int /\ Len(stream) \in Int
    BY <1>2, SocketAssumption
  <2>2. PICK a \in Int, b \in Int : a = Len(stream) /\ b = MAX_RECV_BUFFER_SIZE
    BY <2>1
  <2>3. Min({a, b}) \in Int /\ Min({a, b}) <= a
    BY MinOfTwo
  <2>4. k \in 1..Min({a, b})
    BY <2>2 DEF ReceivedNow
  <2>5. QED
    BY <2>2, <2>3, <2>4
<1>4. PICK r \in Seq(Bytes), s \in Seq(Bytes) : r = recvbuf /\ s = stream /\ r \o s = Coming
  BY <1>2 DEF Coming
<1>5. PICK buf : buf = r \o SubSeq(s, 1, k)
  OBVIOUS
<1>6. /\ stream' = SubSeq(s, k + 1, Len(s))
      /\ instructions' = instructions \o Parsed(buf) /\ recvbuf' = Kept(buf)
      /\ UNCHANGED <<m_sendBuf, sent, accepted>>
  BY <1>1, <1>4, <1>5
<1>7. k \in 1..Len(s)
  BY <1>3, <1>4
<1>8. /\ buf \in Seq(Bytes) /\ Len(buf) = Len(r) + k /\ Len(buf) <= Len(r \o s)
      /\ buf = SubSeq(r \o s, 1, Len(buf))
      /\ \A i \in 1..Len(buf) : buf[i] = (r \o s)[i]
      /\ \A m \in 1..Len(buf) + 1 : CutAt(Bytes, r, s, k, buf, m)
  <2>1. buf = Joined(r, s, k)
    BY <1>5 DEF Joined
  <2>2. QED
    BY ONLY <2>1, <1>7, r \in Seq(Bytes), s \in Seq(Bytes), CutJoin
<1>9. /\ buf \in Seq(AnyByte) /\ Len(buf) \in Nat /\ Len(buf) # 0 /\ Len(buf) <= Len(Coming)
      /\ buf = SubSeq(Coming, 1, Len(buf)) /\ \A i \in 1..Len(buf) : buf[i] = Coming[i]
  <2>1. buf \in Seq(AnyByte) /\ Len(buf) \in Nat /\ Len(r) \in Nat
    BY <1>8, BytesAreAny, LenProperties
  <2>2. QED
    BY <1>4, <1>7, <1>8, <2>1
<1>10. Framed(buf) /\ Framed(Coming)
  <2>1. Framed(Coming) /\ Len(buf) \in 0..Len(Coming)
    BY <1>2, <1>9 DEF Inv, FrameInv
  <2>2. QED
    BY <1>2, <1>9, <2>1, FramedPrefix
<1>11. \A m \in 1..Len(buf) + 1 : CutAt(Bytes, recvbuf, stream, k, buf, m)
  BY <1>4, <1>8
<1>12. /\ stream' = SubSeq(stream, k + 1, Len(stream))
       /\ instructions' = instructions \o Parsed(buf) /\ recvbuf' = Kept(buf)
       /\ UNCHANGED <<m_sendBuf, sent, accepted>>
  BY <1>4, <1>6
<1>13. QED
  BY <1>3, <1>9, <1>10, <1>11, <1>12 DEF Collected

LEMMA ReceiveNext == ASSUME Inv, ReceiveInstructions PROVE Inv'
<1>1. PICK k, buf : Collected(k, buf)
  BY CollectedBytes
<1>2. /\ recvbuf \in Seq(Bytes) /\ stream \in Seq(Bytes) /\ Len(stream) \in Nat
      /\ Len(recvbuf) \in Nat /\ Len(stream) <= KernelCap /\ KernelCap \in Nat
      /\ Coming \in Seq(AnyByte) /\ Len(Coming) \in Nat /\ m_sendBuf \in Seq(AnyByte)
      /\ instructions \in Seq(Seq(Bytes)) /\ instructions \in Seq(Seq(AnyByte))
      /\ Len(instructions) \in Nat /\ FrameLen \in Nat
  BY ReceiveTypes
<1>3. k \in 1..Len(stream)
  BY <1>1 DEF Collected
<1>6. /\ stream' = SubSeq(stream, k + 1, Len(stream))
      /\ instructions' = instructions \o Parsed(buf) /\ recvbuf' = Kept(buf)
      /\ UNCHANGED <<m_sendBuf, sent, accepted>>
  BY <1>1 DEF Collected
<1>9. /\ buf \in Seq(AnyByte) /\ Len(buf) \in Nat /\ Len(buf) # 0 /\ Len(buf) <= Len(Coming)
      /\ \A i \in 1..Len(buf) : buf[i] = Coming[i]
  BY <1>1 DEF Collected
<1>10. Framed(buf) /\ Framed(Coming)
  BY <1>1 DEF Collected, Inv, FrameInv
<1>11. PICK m \in 1..Len(buf) + 1 :
         /\ Kept(buf) = SubSeq(buf, m, Len(buf)) /\ Len(buf) - m + 1 < FrameLen
         /\ \A j \in Closes(buf) : j < m
         /\ IF m = Len(buf) + 1 THEN IsClose(buf[Len(buf)]) ELSE IsOpen(buf[m])
  BY <1>9, <1>10, KeptOf
<1>12. /\ recvbuf' = SubSeq(buf, m, Len(buf)) /\ recvbuf' \in Seq(Bytes)
       /\ Len(recvbuf') < FrameLen
       /\ stream' \in Seq(Bytes) /\ Len(stream') = Len(stream) - k
       /\ recvbuf' \o stream' = SubSeq(Coming, m, Len(Coming))
  <2>1. CutAt(Bytes, recvbuf, stream, k, buf, m)
    BY <1>1 DEF Collected
  <2>2. QED
    BY <1>6, <1>11, <2>1 DEF CutAt, Coming
<1>13. m \in 1..Len(Coming) + 1 /\ m \in Nat
  BY <1>2, <1>9
<1>14. PICK rest \in Seq(AnyByte) :
         /\ rest = Coming' /\ rest = SubSeq(Coming, m, Len(Coming))
         /\ Len(rest) = Len(Coming) - m + 1
         /\ \A i \in 1..Len(rest) : rest[i] = Coming[m + i - 1]
  <2>1. Len(Coming) \in 0..Len(Coming) /\ m <= Len(Coming) + 1
    BY <1>2, <1>13
  <2>2. PICK w \in Seq(AnyByte) : w = Coming
    BY <1>2
  <2>3. m \in 1..Len(w) + 1 /\ Len(w) \in 0..Len(w) /\ m <= Len(w) + 1
    BY <1>13, <2>1, <2>2
  <2>4. /\ SubSeq(w, m, Len(w)) \in Seq(AnyByte) /\ Len(SubSeq(w, m, Len(w))) = Len(w) - m + 1
        /\ \A i \in 1..Len(w) - m + 1 : SubSeq(w, m, Len(w))[i] = w[m + i - 1]
    BY ONLY <2>3, w \in Seq(AnyByte), PartAt
  <2>5. Coming' = SubSeq(w, m, Len(w))
    BY <1>12, <2>2 DEF Coming
  <2>6. QED
    BY <2>2, <2>4, <2>5
<1>15. PICK q \in 0..m - 1 :
         /\ q = 0 => instructions' = instructions
         /\ q # 0 => /\ Coming[q][2] = FrameLen
                     /\ instructions' # <<>>
                     /\ instructions'[Len(instructions')][1][1] = Coming[q][1]
         /\ \A i \in q + 1..m - 1 : ~IsClose(Coming[i])
         /\ m = Len(Coming) + 1 => q = Len(Coming)
  <2>1. PICK new : new = instructions \o Parsed(buf) /\ new = instructions'
    BY <1>6
  <2>2. m = Len(buf) + 1 => IsClose(buf[Len(buf)])
    BY <1>11
  <2>3. PICK come \in Seq(AnyByte), ins \in Seq(Seq(AnyByte)) : come = Coming /\ ins = instructions
    BY <1>2
  <2>4. /\ Framed(buf) /\ Len(buf) # 0 /\ Len(buf) <= Len(come)
        /\ \A i \in 1..Len(buf) : buf[i] = come[i]
        /\ \A j \in Closes(buf) : j < m
        /\ new = ins \o Parsed(buf) /\ buf \in Seq(AnyByte)
    BY <1>9, <1>10, <1>11, <2>1, <2>3
  <2>5. \E q \in 0..m - 1 : DoneUpTo(come, m, ins, new, q)
    BY ONLY <2>2, <2>4, m \in 1..Len(buf) + 1, come \in Seq(AnyByte),
            ins \in Seq(Seq(AnyByte)), ParsedUpTo
  <2>6. PICK q \in 0..m - 1 : DoneUpTo(come, m, ins, new, q)
    BY <2>5
  <2>7. QED
    BY <2>1, <2>3, <2>6 DEF DoneUpTo
<1>16. PICK p \in Seq(Seq(AnyByte)) :
         /\ p = Parsed(buf) /\ Len(p) = Cardinality(Closes(buf)) /\ Len(p) \in Nat
         /\ \A n \in 1..Len(p) : \E j \in Closes(buf) :
              j = Nth(Closes(buf), n) /\ j \in 1..Len(buf) /\ p[n] = Body(buf[j][1])
  <2>1. /\ Closes(buf) \subseteq 1..Len(buf) /\ Cardinality(Closes(buf)) \in Nat
        /\ Parsed(buf) \in Seq(Seq(AnyByte)) /\ Len(Parsed(buf)) = Cardinality(Closes(buf))
        /\ \A n \in 1..Cardinality(Closes(buf)) :
             /\ Nth(Closes(buf), n) \in Closes(buf)
             /\ Parsed(buf)[n] = Body(buf[Nth(Closes(buf), n)][1])
    BY <1>9, <1>10, ParsedOf
  <2>2. QED
    BY <2>1
<1>17. ASSUME NEW n \in 1..Len(p)
       PROVE  \E a \in 1..Len(accepted) : p[n] = Body(accepted[a])
  <2>1. PICK j \in 1..Len(buf) : p[n] = Body(buf[j][1])
    BY <1>16
  <2>2. j \in 1..Len(Coming) /\ buf[j] = Coming[j]
    BY <1>2, <1>9
  <2>3. PICK a \in 1..Len(accepted) : Coming[j][1] = accepted[a]
    BY <2>2 DEF Inv, KnownInv, Accepted
  <2>4. QED
    BY <2>1, <2>2, <2>3
<1>18. p \in Seq(Seq(Bytes))
  <2>1. \A n \in 1..Len(p) : p[n] \in Seq(Bytes)
    BY <1>17, SequenceTypes, FrameBodyType DEF Inv
  <2>2. p \in [1..Len(p) -> Seq(Bytes)]
    BY <1>16, <2>1, LenProperties
  <2>3. Len(p) \in Nat
    BY <1>16
  <2>4. PICK l \in Nat : l = Len(p)
    BY <2>3
  <2>5. p \in [1..l -> Seq(Bytes)]
    BY <2>2, <2>4
  <2>6. QED
    BY ONLY <2>5, l \in Nat
<1>b. /\ Len(p) \in Nat /\ Len(p) = Cardinality(Closes(buf))
      /\ \A n \in 1..Len(p), j \in 1..Len(buf) :
           j = Nth(Closes(buf), n) => p[n] = Body(buf[j][1])
  BY <1>16
<1>19. PICK ins \in Seq(Seq(Bytes)) :
         /\ ins = instructions' /\ Len(ins) = Len(instructions) + Len(p)
         /\ \A i \in 1..Len(instructions) : ins[i] = instructions[i]
         /\ \A i \in 1..Len(p) : ins[Len(instructions) + i] = p[i]
  <2>1. PICK o \in Seq(Seq(Bytes)) : o = instructions
    BY <1>2
  <2>2. /\ o \o p \in Seq(Seq(Bytes)) /\ Len(o \o p) = Len(o) + Len(p)
        /\ \A i \in 1..Len(o) : (o \o p)[i] = o[i]
        /\ \A i \in 1..Len(p) : (o \o p)[Len(o) + i] = p[i]
    BY <1>18, ConcatAt
  <2>3. instructions' = o \o p
    BY <1>6, <1>16, <2>1
  <2>4. QED
    BY <2>1, <2>2, <2>3
<1>20. TypeOK'
  <2>1. Len(stream') <= KernelCap
    BY <1>2, <1>3, <1>12
  <2>2. /\ m_sendBuf' \in Seq(Bytes) /\ Len(m_sendBuf') <= MAX_SEND_BUFFER_SIZE
        /\ sent' \in 0..NumTasks /\ accepted' \in Seq(1..NumTasks)
    BY <1>6 DEF Inv, TypeOK
  <2>3. QED
    BY <1>12, <1>19, <2>1, <2>2 DEF TypeOK
<1>21. AcceptedInv'
  BY <1>6 DEF Inv, AcceptedInv
<1>a. ASSUME NEW i \in 1..Len(rest)
      PROVE  m + i - 1 \in 1..Len(Coming) /\ rest[i] = Coming[m + i - 1]
  BY <1>2, <1>13, <1>14
<1>22. KnownInv'
  <2>1. \A i \in 1..Len(Coming') : \E n \in 1..Len(accepted') : (Coming')[i][1] = accepted'[n]
    <3>1. ASSUME NEW i \in 1..Len(rest)
          PROVE  \E n \in 1..Len(accepted) : rest[i][1] = accepted[n]
      <4>1. Accepted(Coming[m + i - 1][1])
        BY <1>a DEF Inv, KnownInv
      <4>2. QED
        BY <1>a, <4>1 DEF Accepted
    <3>2. QED
      BY <1>6, <1>14, <3>1
  <2>2. \A i \in 1..Len(m_sendBuf') : \E n \in 1..Len(accepted') : m_sendBuf'[i][1] = accepted'[n]
    BY <1>6 DEF Inv, KnownInv, Accepted
  <2>3. ASSUME NEW i \in 1..Len(ins)
        PROVE  \E n \in 1..Len(accepted) : ins[i] = Body(accepted[n])
    <3>1. CASE i \in 1..Len(instructions)
      BY <1>19, <3>1 DEF Inv, KnownInv
    <3>2. CASE i \notin 1..Len(instructions)
      <4>1. PICK j \in 1..Len(p) : i = Len(instructions) + j
        <5>1. i - Len(instructions) \in 1..Len(p) /\ i = Len(instructions) + (i - Len(instructions))
          BY <1>2, <1>16, <1>19, <3>2, SMTT(30)
        <5>2. QED
          BY <5>1
      <4>2. QED
        BY <1>17, <1>19, <4>1
    <3>3. QED
      BY <3>1, <3>2
  <2>4. \A i \in 1..Len(instructions') :
          \E n \in 1..Len(accepted') : instructions'[i] = Body(accepted'[n])
    BY <1>6, <1>19, <2>3
  <2>5. QED
    BY <2>1, <2>2, <2>4 DEF KnownInv, Accepted
<1>23. FrameInv'
  <2>1. m <= Len(Coming) => IsOpen(Coming[m])
    <3>1. CASE m = Len(buf) + 1
      <4>1. IsClose(buf[Len(buf)]) /\ Len(buf) \in 1..Len(buf)
        BY <1>9, <1>11, <3>1
      <4>2. Len(buf) \in 1..Len(Coming) /\ IsClose(Coming[Len(buf)])
        BY <1>2, <1>9, <4>1
      <4>3. Len(buf) + 1 <= Len(Coming) => IsOpen(Coming[Len(buf) + 1])
        BY <1>2, <1>10, <4>2, AfterClose
      <4>4. QED
        BY <3>1, <4>3
    <3>2. CASE m # Len(buf) + 1
      <4>1. IsOpen(buf[m]) /\ m \in 1..Len(buf)
        BY <1>9, <1>11, <3>2
      <4>2. QED
        BY <1>9, <4>1
    <3>3. QED
      BY <3>1, <3>2
  <2>2. Framed(SubSeq(Coming, m, Len(Coming)))
    BY <1>2, <1>10, <1>13, <2>1, FramedCut
  <2>3. Framed(Coming')
    BY <1>14, <2>2
  <2>4. Framed(m_sendBuf')
    BY <1>6 DEF Inv, FrameInv
  <2>5. QED
    BY <2>3, <2>4 DEF FrameInv, Framed
<1>24. OrderInv'
  <2>1. LastDone \in Nat
    BY LastDoneType
  <2>2. q \in Nat /\ q \in 0..Len(Coming) /\ q < m
    BY <1>2, <1>13
  <2>3. /\ q = 0 => LastDone' = LastDone
        /\ q # 0 => <<LastDone', FrameLen>> = Coming[q] /\ LastDone' \in Nat
    <3>1. q = 0 => LastDone' = LastDone
      BY <1>15 DEF LastDone
    <3>2. ASSUME q # 0 PROVE <<LastDone', FrameLen>> = Coming[q] /\ LastDone' \in Nat
      <4>1. q \in 1..Len(Coming)
        BY <2>2, <3>2
      <4>2. Coming[q] = <<Coming[q][1], Coming[q][2]>> /\ Coming[q][1] \in Nat
        BY <1>2, <4>1, BytesOf, ByteParts
      <4>3. LastDone' = Coming[q][1] /\ Coming[q][2] = FrameLen
        BY <1>15, <3>2 DEF LastDone
      <4>4. QED
        BY <4>2, <4>3
    <3>3. QED
      BY <3>1, <3>2
  <2>4. PICK v \in AnyByte, w \in AnyByte :
          /\ v = <<LastDone, FrameLen>> /\ w = <<LastDone', FrameLen>>
          /\ q = 0 => w = v
          /\ q # 0 => w = Coming[q]
    <3>1. FrameLen \in 1..FrameLen
      BY SocketAssumption
    <3>2. <<LastDone, FrameLen>> \in AnyByte /\ <<LastDone', FrameLen>> \in AnyByte
      BY <2>1, <2>3, <3>1 DEF AnyByte
    <3>3. QED
      BY <2>3, <3>2
  <2>5. PICK come \in Seq(AnyByte), sbuf \in Seq(AnyByte) : come = Coming /\ sbuf = m_sendBuf
    BY <1>2
  <2>6. PICK U, V : /\ U = (<<v>> \o come) \o sbuf /\ U = Line
                    /\ V = (<<w>> \o rest) \o sbuf /\ V = Line'
    <3>1. Line = (<<v>> \o come) \o sbuf
      BY <2>4, <2>5 DEF Line
    <3>2. Line' = (<<w>> \o rest) \o sbuf
      BY <1>6, <1>14, <2>4, <2>5 DEF Line
    <3>3. QED
      BY <3>1, <3>2
  <2>7. /\ m \in 1..Len(come) + 1 /\ Len(rest) = Len(come) - m + 1
        /\ \A i \in 1..Len(rest) : rest[i] = come[m + i - 1]
        /\ q = 0 => w = v
        /\ q # 0 => w = come[q]
        /\ \A i \in q + 1..m - 1 : ~IsClose(come[i])
        /\ m = Len(come) + 1 => q = Len(come)
    BY <1>13, <1>14, <1>15, <2>4, <2>5
  <2>a. ReceivedUpTo(v, come, w, rest, q, m)
    BY <2>7 DEF ReceivedUpTo
  <2>8. Ordered(accepted, U) /\ U[Len(U)] = <<LastAccepted, FrameLen>>
    BY <2>6 DEF Inv, OrderInv
  <2>b. U = LineOf(v, come, sbuf) /\ V = LineOf(w, rest, sbuf)
    BY <2>6 DEF LineOf
  <2>c. PICK acc : acc = accepted
    OBVIOUS
  <2>d. Ordered(acc, U)
    BY <2>8, <2>c
  <2>e. Ordered(acc, V) /\ V[Len(V)] = U[Len(U)]
    BY ONLY <2>a, <2>b, <2>d, v \in AnyByte, w \in AnyByte, come \in Seq(AnyByte),
            rest \in Seq(AnyByte), sbuf \in Seq(AnyByte), OrderedReceived
  <2>9. Ordered(accepted, V) /\ V[Len(V)] = U[Len(U)]
    BY <2>c, <2>e
  <2>10. LastAccepted' = LastAccepted /\ accepted' = accepted
    BY <1>6 DEF LastAccepted
  <2>11. Ordered(accepted', Line') /\ (Line')[Len(Line')] = <<LastAccepted', FrameLen>>
    BY <2>6, <2>8, <2>9, <2>10
  <2>12. \A i \in 1..Len(m_sendBuf') : m_sendBuf'[i][1] >= m_sendBuf'[1][1]
    BY <1>6 DEF Inv, OrderInv
  <2>13. QED
    BY <2>11, <2>12 DEF OrderInv
<1>25. NotLostInv'
  <2> SUFFICES ASSUME NEW n \in 1..Len(accepted)
               PROVE  \/ Contains(instructions', Body(accepted[n]))
                      \/ EndsIn(Coming', accepted[n])
                      \/ EndsIn(m_sendBuf', accepted[n])
    BY <1>6 DEF NotLostInv, EndsIn
  <2>1. CASE Contains(instructions, Body(accepted[n]))
    <3>1. PICK i \in 1..Len(instructions) : instructions[i] = Body(accepted[n])
      BY <2>1 DEF Contains
    <3>2. i \in 1..Len(ins) /\ ins[i] = Body(accepted[n])
      <4>1. Len(ins) = Len(instructions) + Len(p) /\ ins[i] = instructions[i]
        BY <1>19, <3>1
      <4>2. Len(instructions) \in Nat /\ Len(p) \in Nat
        BY <1>2, <1>b
      <4>3. QED
        BY <3>1, <4>1, <4>2
    <3>3. QED
      BY <1>19, <3>2 DEF Contains
  <2>2. CASE EndsIn(Coming, accepted[n])
    <3>1. PICK i \in 1..Len(Coming) : Coming[i] = <<accepted[n], FrameLen>>
      BY <2>2 DEF EndsIn
    <3>2. CASE i <= Len(buf)
      <4>1. i \in 1..Len(buf) /\ buf[i] = <<accepted[n], FrameLen>>
        BY <1>9, <3>1, <3>2
      <4>2. i \in Closes(buf) /\ Closes(buf) \subseteq 1..Len(buf)
        BY <1>9, <4>1, BytesOf, SMTT(30) DEF Closes, IsClose
      <4>3. PICK h \in 1..Cardinality(Closes(buf)) : Nth(Closes(buf), h) = i
        BY <1>9, <4>2, NthOnto
      <4>4. h \in 1..Len(p) /\ p[h] = Body(buf[i][1])
        BY <1>b, <4>1, <4>3
      <4>5. ins[Len(instructions) + h] = Body(accepted[n])
        <5>1. buf[i][1] = accepted[n]
          BY <4>1
        <5>2. ins[Len(instructions) + h] = p[h]
          BY <1>19, <4>4
        <5>3. QED
          BY <4>4, <5>1, <5>2
      <4>6. Len(instructions) + h \in 1..Len(ins)
        <5>1. Len(ins) = Len(instructions) + Len(p) /\ Len(instructions) \in Nat /\ Len(p) \in Nat
          BY <1>2, <1>b, <1>19
        <5>2. h \in 1..Len(p)
          BY <4>4
        <5>3. QED
          BY ONLY <5>1, <5>2
      <4>7. QED
        BY <1>19, <4>5, <4>6 DEF Contains
    <3>3. CASE ~(i <= Len(buf))
      <4>1. i - m + 1 \in 1..Len(rest) /\ m + (i - m + 1) - 1 = i
        BY <1>2, <1>9, <1>13, <1>14, <3>3
      <4>2. rest[i - m + 1] = <<accepted[n], FrameLen>>
        BY <1>a, <3>1, <4>1
      <4>3. QED
        BY <1>14, <4>1, <4>2 DEF EndsIn
    <3>4. QED
      BY <3>2, <3>3
  <2>3. CASE EndsIn(m_sendBuf, accepted[n])
    BY <1>6, <2>3 DEF EndsIn
  <2>4. QED
    BY <2>1, <2>2, <2>3 DEF Inv, NotLostInv
<1>26. QED
  BY <1>20, <1>21, <1>22, <1>23, <1>24, <1>25 DEF Inv

LEMMA InitInv == Init => Inv
<1> SUFFICES ASSUME Init PROVE Inv
  OBVIOUS
<1>1. /\ m_sendBuf = <<>> /\ stream = <<>> /\ sent = 0 /\ accepted = <<>>
      /\ recvbuf = <<>> /\ instructions = <<>>
  BY DEF Init, InitSocket
<1>2. FrameLen \in Nat /\ FrameLen >= 3 /\ MAX_SEND_BUFFER_SIZE \in Nat /\ KernelCap \in Nat
      /\ NumTasks \in Nat
  BY SocketAssumption, TaskAssumption
<1>3. TypeOK
  BY <1>1, <1>2 DEF TypeOK
<1>4. Coming = <<>> /\ Len(Coming) = 0 /\ Len(m_sendBuf) = 0 /\ Len(accepted) = 0
      /\ Len(instructions) = 0
  BY <1>1 DEF Coming
<1>5. AcceptedInv /\ KnownInv /\ FrameInv /\ NotLostInv
  BY <1>4 DEF AcceptedInv, KnownInv, FrameInv, NotLostInv, Framed
<1>6. OrderInv
  <2>1. PICK v \in AnyByte, s \in Seq(AnyByte) : v = <<0, FrameLen>> /\ s = <<>> /\ Len(s) = 0
    <3>1. <<0, FrameLen>> \in AnyByte /\ <<>> \in Seq(AnyByte) /\ Len(<<>>) = 0
      BY <1>2 DEF AnyByte
    <3>2. QED
      BY <3>1
  <2>2. PICK U : U = (<<v>> \o s) \o s /\ U = Line
    BY <1>1, <1>4, <2>1 DEF Line, LastDone
  <2>3. Len(U) = 1 + Len(s) + Len(s) /\ U[1] = v
    BY <2>2, LineAt
  <2>4. Len(U) = 1
    BY <2>1, <2>3
  <2>5. Ordered(accepted, U)
    BY <2>4 DEF Ordered
  <2>6. U[Len(U)] = <<LastAccepted, FrameLen>>
    BY <1>1, <2>1, <2>3, <2>4 DEF LastAccepted
  <2>7. QED
    BY <1>4, <2>2, <2>5, <2>6 DEF OrderInv
<1>7. QED
  BY <1>3, <1>5, <1>6 DEF Inv

LEMMA StutterInv == ASSUME Inv, UNCHANGED vars PROVE Inv'
<1>1. /\ m_sendBuf' = m_sendBuf /\ stream' = stream /\ sent' = sent /\ accepted' = accepted
      /\ recvbuf' = recvbuf /\ instructions' = instructions
  BY DEF vars
<1>2. Coming' = Coming /\ LastDone' = LastDone /\ LastAccepted' = LastAccepted
  BY <1>1 DEF Coming, LastDone, LastAccepted
<1>3. Line' = Line
  BY <1>1, <1>2 DEF Line
<1>4. TypeOK' /\ AcceptedInv'
  BY <1>1 DEF Inv, TypeOK, AcceptedInv
<1>5. KnownInv' /\ FrameInv'
  BY <1>1, <1>2 DEF Inv, KnownInv, FrameInv, Framed, Accepted
<1>6. OrderInv'
  BY <1>1, <1>2, <1>3 DEF Inv, OrderInv
<1>7. NotLostInv'
  BY <1>1, <1>2 DEF Inv, NotLostInv, EndsIn
<1>8. QED
  BY <1>4, <1>5, <1>6, <1>7 DEF Inv

\* All of it holds in every state.
LEMMA InvCorrect == Spec => []Inv
<1>1. Inv /\ [Next]_vars => Inv'
  BY SendNext, ReceiveNext, StutterInv DEF Next
<1>2. QED
  BY InitInv, <1>1, PTL DEF Spec

\* Both programs' buffers hold bytes of instructions and stay within their sizes:
\* the client never keeps a whole instruction back.
THEOREM TypeCorrect == Spec => []TypeOK
<1>1. Inv => TypeOK
  BY DEF Inv
<1>2. QED
  BY InvCorrect, <1>1, PTL

-----------------------------------------------------------------------------
(* No accepted instruction is lost *)

\* A frame whose end is there is there as a whole.
LEMMA WholeFrame ==
  ASSUME NEW s \in Seq(AnyByte), Framed(s), NEW m \in Nat, EndsIn(s, m)
  PROVE  \E i \in 1..Len(s) - FrameLen + 1 : SubSeq(s, i, i + FrameLen - 1) = Frame(m)
<1>1. FrameLen \in Nat /\ FrameLen >= 3 /\ Len(s) \in Nat
  BY SocketAssumption, BytesOf
<1>2. PICK j \in 1..Len(s) : s[j] = <<m, FrameLen>>
  BY DEF EndsIn
<1>3. s[j][2] = FrameLen /\ s[j][1] = m
  BY <1>2
<1> DEFINE x == j - FrameLen + 1
<1>4. x \in 1..j /\ \A i \in x..j : s[i] = <<m, i - (j - FrameLen)>>
  BY <1>3, FrameOf
<1>5. x \in 1..Len(s) - FrameLen + 1 /\ x + FrameLen - 1 = j
  BY <1>1, <1>4
<1>6. PICK t \in Seq(AnyByte) : /\ t = SubSeq(s, x, j) /\ Len(t) = j - x + 1
                                /\ \A i \in 1..j - x + 1 : t[i] = s[x + i - 1]
  <2>1. x \in 1..Len(s) + 1 /\ j \in 0..Len(s) /\ x <= j + 1
    BY <1>1, <1>4
  <2>2. /\ SubSeq(s, x, j) \in Seq(AnyByte) /\ Len(SubSeq(s, x, j)) = j - x + 1
        /\ \A i \in 1..j - x + 1 : SubSeq(s, x, j)[i] = s[x + i - 1]
    BY <2>1, PartAt
  <2>3. QED
    BY <2>2
<1>7. j - x + 1 = FrameLen
  BY <1>1
<1>8. ASSUME NEW i \in 1..FrameLen PROVE t[i] = <<m, i>>
  <2> DEFINE h == x + i - 1
  <2>1. h \in x..j /\ h - (j - FrameLen) = i
    BY <1>1
  <2> HIDE DEF h
  <2>2. s[h] = <<m, i>>
    BY <1>4, <2>1
  <2>3. QED
    BY <1>6, <1>7, <2>2 DEF h
<1>9. /\ Frame(m) \in Seq(AnyByte) /\ Len(Frame(m)) = FrameLen
      /\ \A i \in 1..FrameLen : Frame(m)[i] = <<m, i>>
  BY FrameBytes
<1> HIDE DEF x
<1>10. t = Frame(m)
  BY <1>6, <1>7, <1>8, <1>9, SeqEqual, ZenonT(30)
<1>11. QED
  BY <1>5, <1>6, <1>10

\* An instruction that setSendMsg took is never lost: it was given to appendTask,
\* or every byte of it is still on its way or in the master's buffer.  The resends
\* of a partly sent buffer and the cuts of the byte stream lose none.
THEOREM AcceptedNotLostCorrect == Spec => []AcceptedNotLost
<1>1. ASSUME Inv PROVE AcceptedNotLost
  <2> SUFFICES ASSUME NEW n \in DOMAIN accepted
               PROVE  LET m == accepted[n]
                          Whole(s) == \E i \in 1..Len(s) - FrameLen + 1 :
                                        SubSeq(s, i, i + FrameLen - 1) = Frame(m)
                      IN  \/ Contains(instructions, Body(m))
                          \/ Whole(recvbuf \o stream) \/ Whole(m_sendBuf)
    BY DEF AcceptedNotLost
  <2>1. n \in 1..Len(accepted) /\ accepted[n] \in Nat
    BY <1>1, SequenceTypes DEF Inv
  <2>2. /\ Coming \in Seq(AnyByte) /\ m_sendBuf \in Seq(AnyByte)
        /\ Framed(Coming) /\ Framed(m_sendBuf)
    BY <1>1, SequenceTypes DEF Inv, FrameInv
  <2>3. \/ Contains(instructions, Body(accepted[n]))
        \/ EndsIn(Coming, accepted[n])
        \/ EndsIn(m_sendBuf, accepted[n])
    BY <1>1, <2>1 DEF Inv, NotLostInv
  <2>4. CASE EndsIn(Coming, accepted[n])
    BY <2>1, <2>2, <2>4, WholeFrame DEF Coming
  <2>5. CASE EndsIn(m_sendBuf, accepted[n])
    BY <2>1, <2>2, <2>5, WholeFrame
  <2>6. QED
    BY <2>3, <2>4, <2>5
<1>2. QED
  BY InvCorrect, <1>1, PTL

-----------------------------------------------------------------------------
(* TaskChannel implements GoBackFifo *)

Rising(acc) == \A i, j \in 1..Len(acc) : i < j => acc[i] < acc[j]

Place(acc, body) == Max({n \in DOMAIN acc : Body(acc[n]) = body} \cup {0})

\* A body is that of one accepted instruction.
LEMMA PlaceIs ==
  ASSUME NEW acc \in Seq(1..NumTasks), Rising(acc), NEW n \in 1..Len(acc)
  PROVE  Place(acc, Body(acc[n])) = n
<1> DEFINE T == {k \in DOMAIN acc : Body(acc[k]) = Body(acc[n])} \cup {0}
<1>1. Len(acc) \in Nat /\ DOMAIN acc = 1..Len(acc)
  BY LenProperties
<1>2. \A k \in 1..Len(acc) : acc[k] \in Nat
  <2>1. \A k \in 1..Len(acc) : acc[k] \in 1..NumTasks
    BY ElementOfSeq
  <2>2. \A m \in 1..NumTasks : m \in Nat
    BY TaskAssumption
  <2>3. QED
    BY <2>1, <2>2
<1>3. ASSUME NEW k \in 1..Len(acc), Body(acc[k]) = Body(acc[n]) PROVE k = n
  <2>1. acc[k] = acc[n]
    <3>1. Body(acc[k])[1][1] = acc[k] /\ Body(acc[n])[1][1] = acc[n]
      BY <1>2, BodyBytes
    <3>2. QED
      BY <1>3, <3>1
  <2>2. (k < n => acc[k] < acc[n]) /\ (n < k => acc[n] < acc[k])
    BY DEF Rising
  <2>3. k \in Nat /\ n \in Nat /\ acc[k] \in Nat /\ acc[n] \in Nat
    BY <1>1, <1>2
  <2>4. QED
    BY <2>1, <2>2, <2>3
<1>4. T \subseteq Nat /\ n \in T /\ \A k \in T : k <= n
  <2>1. \A k \in T : k = n \/ k = 0
    BY <1>1, <1>3
  <2>2. n \in Nat /\ 0 <= n /\ n <= n
    BY <1>1
  <2>3. n \in T
    BY <1>1
  <2> HIDE DEF T
  <2>4. QED
    BY <2>1, <2>2, <2>3
<1> HIDE DEF T
<1>5. Max(T) = n
  <2>1. n \in T
    BY <1>4
  <2>2. QED
    BY <1>4, <2>1, MaxIs
<1>6. QED
  BY <1>5 DEF Place, T

\* With none accepted between, the next one is the next or an earlier one.
LEMMA PlaceNext ==
  ASSUME NEW acc \in Seq(1..NumTasks), Rising(acc), NEW n \in 1..Len(acc),
         NEW prev \in 0..Len(acc), NEW m, prev = 0 => m = 0, prev # 0 => m = acc[prev],
         NoSkip(acc, m, acc[n])
  PROVE  n \in 1..prev + 1
<1>1. Len(acc) \in Nat /\ n \in Nat /\ prev \in Nat /\ 1 <= n /\ n <= Len(acc)
  BY LenProperties
<1>2. ASSUME prev + 1 < n PROVE FALSE
  <2>1. prev + 1 \in 1..Len(acc)
    BY <1>1, <1>2
  <2>2. PICK k \in 1..Len(acc) : k = prev + 1
    BY <2>1
  <2>3. acc[k] < acc[n]
    BY <1>2, <2>2 DEF Rising
  <2>4. m < acc[k]
    <3>1. CASE prev = 0
      <4>1. acc[k] \in 1..NumTasks
        BY ElementOfSeq
      <4>2. 0 < acc[k]
        BY <4>1, TaskAssumption
      <4>3. QED
        BY <3>1, <4>2
    <3>2. CASE prev # 0
      <4>1. prev \in 1..Len(acc) /\ prev < k
        BY <1>1, <2>2, <3>2
      <4>2. QED
        BY <3>2, <4>1 DEF Rising
    <3>3. QED
      BY <3>1, <3>2
  <2>5. QED
    BY <2>3, <2>4 DEF NoSkip
<1>3. QED
  BY <1>1, <1>2

\* body is that of an accepted instruction, with none between m and it.
Follows(acc, m, body) ==
  \E a \in 1..Len(acc) : body = Body(acc[a]) /\ NoSkip(acc, m, acc[a])

\* What is parsed follows what was parsed before it.
LEMMA ParsedInOrder ==
  ASSUME Inv, NEW k, NEW buf, Collected(k, buf), NEW n \in 1..Len(Parsed(buf))
  PROVE  Follows(accepted, IF n = 1 THEN LastDone ELSE Parsed(buf)[n - 1][1][1], Parsed(buf)[n])
<1> DEFINE C == Closes(buf)
           c == Cardinality(C)
<1>1. /\ buf \in Seq(AnyByte) /\ Len(buf) \in Nat /\ Len(buf) <= Len(Coming)
      /\ \A i \in 1..Len(buf) : buf[i] = Coming[i]
      /\ Framed(buf)
  BY DEF Collected
<1>2. /\ C \subseteq 1..Len(buf) /\ c \in Nat /\ Len(Parsed(buf)) = c
      /\ \A h \in 1..c : Nth(C, h) \in C /\ Parsed(buf)[h] = Body(buf[Nth(C, h)][1])
  BY <1>1, ParsedOf
<1>3. Coming \in Seq(AnyByte) /\ m_sendBuf \in Seq(AnyByte) /\ Len(Coming) \in Nat
  BY ReceiveTypes
<1>4. \A i \in 1..Len(buf) : /\ i \in 1..Len(Coming) /\ Coming[i][1] \in Nat
                             /\ IsClose(Coming[i]) <=> i \in C
  <2>1. \A i \in 1..Len(buf) : i \in 1..Len(Coming)
    BY <1>1, <1>3
  <2>2. \A i \in 1..Len(buf) : Coming[i][1] \in Nat
    BY <1>3, <2>1, BytesOf
  <2>3. \A i \in 1..Len(buf) : IsClose(Coming[i]) <=> i \in C
    BY <1>1, BytesOf DEF Closes
  <2>4. QED
    BY <2>1, <2>2, <2>3
<1>5. PICK U : /\ U = Line /\ Len(U) \in Nat /\ Len(Coming) + 1 <= Len(U)
               /\ U[1][1] = LastDone /\ IsClose(U[1])
               /\ \A i \in 1..Len(Coming) : U[1 + i] = Coming[i]
  <2>1. LastDone \in Nat /\ FrameLen \in 1..FrameLen
    BY LastDoneType, SocketAssumption
  <2>2. PICK v \in AnyByte : v = <<LastDone, FrameLen>>
    BY <2>1 DEF AnyByte
  <2>3. PICK come \in Seq(AnyByte), sbuf \in Seq(AnyByte) : come = Coming /\ sbuf = m_sendBuf
    BY <1>3
  <2>4. PICK U : U = (<<v>> \o come) \o sbuf
    OBVIOUS
  <2>5. /\ Len(come) \in Nat /\ Len(sbuf) \in Nat /\ Len(U) = 1 + Len(come) + Len(sbuf)
        /\ U[1] = v /\ \A i \in 1..Len(come) : U[1 + i] = come[i]
    BY <2>4, LineAt
  <2>6. U = Line
    BY <2>2, <2>3, <2>4 DEF Line
  <2>7. v[1] = LastDone /\ IsClose(v)
    BY <2>2 DEF IsClose
  <2>8. Len(U) \in Nat /\ Len(come) + 1 <= Len(U)
    BY <2>5
  <2>9. QED
    BY <2>3, <2>5, <2>6, <2>7, <2>8
<1> HIDE DEF C
<1>6. PICK j \in C : j = Nth(C, n) /\ Parsed(buf)[n] = Body(buf[j][1]) /\ j \in 1..Len(buf)
  <2>1. n \in 1..c
    BY <1>2
  <2>2. QED
    BY <1>2, <2>1
<1>7. PICK a \in 1..Len(accepted) : Coming[j][1] = accepted[a]
  BY <1>4, <1>6 DEF Inv, KnownInv, Accepted
<1>8. PICK i \in 0..j - 1 :
        /\ IF n = 1 THEN i = 0 ELSE i \in C /\ Parsed(buf)[n - 1] = Body(Coming[i][1])
        /\ \A l \in C : l <= i \/ j <= l
  <2>1. CASE n = 1
    <3>1. \A l \in C : j <= l
      BY <1>1, <1>2, <1>6, <2>1, NthOrder
    <3>2. 0 \in 0..j - 1
      BY <1>1, <1>6
    <3>3. QED
      BY <2>1, <3>1, <3>2
  <2>2. CASE n # 1
    <3>1. n - 1 \in 1..c /\ n > 1 /\ n \in 1..c
      <4>1. n \in 1..c
        BY <1>2
      <4> HIDE DEF c
      <4>2. QED
        BY <1>2, <2>2, <4>1
    <3>2. PICK i : i = Nth(C, n - 1) /\ i \in C /\ Parsed(buf)[n - 1] = Body(buf[i][1])
      BY <1>2, <3>1
    <3>3. i < j /\ \A l \in C : l <= i \/ j <= l
      BY <1>1, <1>2, <1>6, <3>1, <3>2, NthOrder
    <3>4. i \in 1..Len(buf) /\ buf[i] = Coming[i]
      BY <1>1, <1>2, <3>2
    <3>5. i \in 0..j - 1
      BY <1>1, <1>6, <3>3, <3>4
    <3>6. QED
      BY <2>2, <3>2, <3>3, <3>4, <3>5
  <2>3. QED
    BY <2>1, <2>2
<1>9. /\ i + 1 \in 1..Len(U) /\ j + 1 \in 1..Len(U) /\ i + 1 < j + 1
      /\ U[j + 1] = Coming[j] /\ IsClose(U[i + 1])
      /\ U[i + 1][1] = IF n = 1 THEN LastDone ELSE Parsed(buf)[n - 1][1][1]
  <2>1. j \in 1..Len(Coming) /\ 1 + j = j + 1
    BY <1>4, <1>6
  <2>2. i + 1 \in 1..Len(U) /\ j + 1 \in 1..Len(U) /\ i + 1 < j + 1
    BY <1>3, <1>5, <1>8, <2>1
  <2>3. U[j + 1] = Coming[j]
    BY <1>5, <2>1
  <2>4. CASE n = 1
    <3>1. i = 0 /\ i + 1 = 1
      BY <1>8, <2>4
    <3>2. QED
      BY <1>5, <2>2, <2>3, <2>4, <3>1
  <2>5. CASE n # 1
    <3>1. i \in C /\ Parsed(buf)[n - 1] = Body(Coming[i][1])
      BY <1>8, <2>5
    <3>2. i \in 1..Len(buf) /\ 1 + i = i + 1
      BY <1>2, <3>1
    <3>3. i \in 1..Len(Coming) /\ IsClose(Coming[i]) /\ Coming[i][1] \in Nat
      BY <1>4, <3>1, <3>2
    <3>4. U[i + 1] = Coming[i]
      BY <1>5, <3>2, <3>3
    <3>5. Parsed(buf)[n - 1][1][1] = Coming[i][1]
      BY <3>1, <3>3, BodyBytes
    <3>6. QED
      BY <2>2, <2>3, <2>5, <3>3, <3>4, <3>5
  <2>6. QED
    BY <2>4, <2>5
<1>10. ASSUME NEW l \in (i + 1) + 1..(j + 1) - 1 PROVE ~IsClose(U[l])
  <2> DEFINE h == l - 1
  <2>0. Len(buf) \in Nat /\ j \in 1..Len(buf)
    BY <1>1, <1>6
  <2>1. h \in 1..Len(buf) /\ l = 1 + h /\ ~(h <= i) /\ ~(j <= h)
    BY ONLY <2>0, i \in 0..j - 1, l \in (i + 1) + 1..(j + 1) - 1
  <2> HIDE DEF h
  <2>2. h \notin C
    BY <1>8, <2>1
  <2>3. h \in 1..Len(Coming) /\ ~IsClose(Coming[h])
    BY <1>4, <2>1, <2>2
  <2>4. QED
    BY <1>5, <2>1, <2>3
<1>11. NoSkip(accepted, U[i + 1][1], U[j + 1][1])
  <2>1. Ordered(accepted, U)
    BY <1>5 DEF Inv, OrderInv
  <2>2. QED
    BY <1>9, <1>10, <2>1 DEF Ordered
<1>12. Parsed(buf)[n] = Body(accepted[a]) /\ U[j + 1][1] = accepted[a]
  BY <1>1, <1>6, <1>7, <1>9
<1>13. QED
  BY <1>9, <1>11, <1>12 DEF Follows

\* The positions of new are those of ins and of what was added in order.
Places(acc, s) == [i \in DOMAIN s |-> Place(acc, s[i])]

AddedInOrder(acc, ins, new) ==
  /\ Len(ins) \in Nat /\ Len(new) \in Nat /\ Len(ins) <= Len(new)
  /\ DOMAIN ins = 1..Len(ins) /\ DOMAIN new = 1..Len(new)
  /\ \A i \in 1..Len(ins) : ins[i] = new[i] /\ \E a \in 1..Len(acc) : ins[i] = Body(acc[a])
  /\ \A j \in Len(ins) + 1..Len(new) :
       Follows(acc, IF j = 1 THEN 0 ELSE new[j - 1][1][1], new[j])

LEMMA PlacesInOrder ==
  ASSUME NEW acc \in Seq(1..NumTasks), Rising(acc), NEW ins, NEW new,
         AddedInOrder(acc, ins, new),
         NEW g, g = Places(acc, ins), NEW h, h = Places(acc, new)
  PROVE  /\ Len(g) = Len(ins) /\ Len(h) = Len(new)
         /\ SubSeq(h, 1, Len(g)) = g
         /\ \A j \in Len(g) + 1..Len(h) :
              h[j] \in 1..(IF j = 1 THEN 0 ELSE h[j - 1]) + 1 /\ h[j] <= Len(acc)
<1>a. /\ Len(ins) \in Nat /\ Len(new) \in Nat /\ Len(ins) <= Len(new)
      /\ DOMAIN ins = 1..Len(ins) /\ DOMAIN new = 1..Len(new)
      /\ \A i \in 1..Len(ins) : ins[i] = new[i] /\ \E a \in 1..Len(acc) : ins[i] = Body(acc[a])
  BY DEF AddedInOrder
<1>b. /\ g = [i \in DOMAIN ins |-> Place(acc, ins[i])]
      /\ h = [i \in DOMAIN new |-> Place(acc, new[i])]
  BY DEF Places
<1>1. Len(acc) \in Nat
  BY LenProperties
<1>2. ASSUME NEW i \in 1..Len(new)
      PROVE  \E a \in 1..Len(acc) : new[i] = Body(acc[a]) /\ h[i] = a
  <2>1. PICK a \in 1..Len(acc) : new[i] = Body(acc[a])
    <3>1. i \in 1..Len(ins) \/ i \in Len(ins) + 1..Len(new)
      BY <1>a
    <3>2. i \in Len(ins) + 1..Len(new) => \E a \in 1..Len(acc) : new[i] = Body(acc[a])
      BY DEF AddedInOrder, Follows
    <3>3. QED
      BY <1>a, <3>1, <3>2
  <2>2. QED
    BY <1>a, <1>b, <2>1, PlaceIs
<1>3. h \in Seq(Nat) /\ Len(h) = Len(new)
  <2>1. \A i \in 1..Len(new) : h[i] \in Nat
    BY <1>1, <1>2
  <2>2. h \in [1..Len(new) -> Nat]
    BY <1>a, <1>b, <2>1
  <2>3. PICK l \in Nat : l = Len(new)
    BY <1>a
  <2>4. h \in [1..l -> Nat]
    BY <2>2, <2>3
  <2>5. h \in Seq(Nat) /\ Len(h) = l
    BY ONLY <2>4, l \in Nat
  <2>6. QED
    BY <2>3, <2>5
<1>4. \A i \in 1..Len(ins) : i \in 1..Len(new) /\ g[i] = h[i]
  BY <1>a, <1>b
<1>5. g \in Seq(Nat) /\ Len(g) = Len(ins)
  <2>1. \A i \in 1..Len(ins) : g[i] \in Nat
    BY <1>1, <1>2, <1>4
  <2>2. PICK l \in Nat : l = Len(ins)
    BY <1>a
  <2>3. g \in [1..l -> Nat]
    BY <1>a, <1>b, <2>1, <2>2
  <2>4. g \in Seq(Nat) /\ Len(g) = l
    BY ONLY <2>3, l \in Nat
  <2>5. QED
    BY <2>2, <2>4
<1>6. SubSeq(h, 1, Len(g)) = g
  <2>1. 1 \in 1..Len(h) + 1 /\ Len(g) \in 0..Len(h) /\ 1 <= Len(g) + 1
    BY <1>3, <1>5, <1>a
  <2>2. /\ SubSeq(h, 1, Len(g)) \in Seq(Nat) /\ Len(SubSeq(h, 1, Len(g))) = Len(g) - 1 + 1
        /\ \A i \in 1..Len(g) - 1 + 1 : SubSeq(h, 1, Len(g))[i] = h[1 + i - 1]
    BY <1>3, <2>1, PartAt
  <2>3. /\ Len(SubSeq(h, 1, Len(g))) = Len(g)
        /\ \A i \in 1..Len(g) : SubSeq(h, 1, Len(g))[i] = g[i]
    BY <1>4, <1>5, <2>2
  <2>4. QED
    BY <1>5, <2>2, <2>3, SeqEqual
<1>7. ASSUME NEW j \in Len(ins) + 1..Len(new)
      PROVE  h[j] \in 1..(IF j = 1 THEN 0 ELSE h[j - 1]) + 1 /\ h[j] <= Len(acc)
  <2>1. PICK a \in 1..Len(acc) :
          /\ new[j] = Body(acc[a])
          /\ NoSkip(acc, IF j = 1 THEN 0 ELSE new[j - 1][1][1], acc[a])
    BY DEF AddedInOrder, Follows
  <2>2. j \in 1..Len(new)
    BY <1>a
  <2>3. h[j] = a
    BY <1>a, <1>b, <2>1, <2>2, PlaceIs
  <2> DEFINE m == IF j = 1 THEN 0 ELSE new[j - 1][1][1]
  <2>4. PICK prev \in 0..Len(acc) :
          /\ prev = 0 => m = 0
          /\ prev # 0 => m = acc[prev]
          /\ prev = IF j = 1 THEN 0 ELSE h[j - 1]
    <3>1. CASE j = 1
      <4>1. 0 \in 0..Len(acc)
        BY <1>1
      <4>2. QED
        BY <3>1, <4>1
    <3>2. CASE j # 1
      <4>1. j - 1 \in 1..Len(new)
        BY <1>a, <2>2, <3>2
      <4>2. PICK b \in 1..Len(acc) : new[j - 1] = Body(acc[b]) /\ h[j - 1] = b
        BY <1>2, <4>1
      <4>3. b \in 0..Len(acc) /\ b # 0
        BY <1>1
      <4>4. acc[b] \in Nat
        <5>1. acc[b] \in 1..NumTasks
          BY ElementOfSeq
        <5>2. QED
          BY <5>1, TaskAssumption
      <4>5. new[j - 1][1][1] = acc[b]
        BY <4>2, <4>4, BodyBytes
      <4>6. /\ acc[b] = IF j = 1 THEN 0 ELSE new[j - 1][1][1]
            /\ b = IF j = 1 THEN 0 ELSE h[j - 1]
        BY <3>2, <4>2, <4>5
      <4>7. QED
        BY <4>3, <4>6, Zenon
    <3>3. QED
      BY <3>1, <3>2
  <2> HIDE DEF m
  <2>5. a \in 1..prev + 1
    <3>1. NoSkip(acc, m, acc[a])
      BY <2>1, Zenon DEF m
    <3>2. (prev = 0 => m = 0) /\ (prev # 0 => m = acc[prev])
      BY <2>4
    <3>3. QED
      BY <3>1, <3>2, PlaceNext
  <2>6. a <= Len(acc)
    BY <1>1
  <2>7. QED
    BY <2>3, <2>4, <2>5, <2>6
<1>8. QED
  BY <1>3, <1>5, <1>6, <1>7

\* What TaskChannel gives for got.
Got == [i \in DOMAIN instructions |-> PositionOf(instructions[i])]

LEMMA GotIs ==
  /\ Got = [i \in DOMAIN instructions |-> Place(accepted, instructions[i])]
  /\ Got' = [i \in DOMAIN instructions' |-> Place(accepted', instructions'[i])]
BY DEF Got, Place, PositionOf

LEMMA InitRefines == Init => Channel!Init
<1> SUFFICES ASSUME Init PROVE Channel!Init
  OBVIOUS
<1>1. accepted = <<>> /\ instructions = <<>>
  BY DEF Init
<1>2. [i \in DOMAIN instructions |-> PositionOf(instructions[i])] = <<>>
  BY <1>1
<1>3. QED
  BY <1>1, <1>2 DEF Channel!Init

LEMMA SendRefines ==
  ASSUME Inv, SendTask
  PROVE  Channel!Next \/ UNCHANGED <<accepted, Got>>
<1>1. /\ accepted \in Seq(1..NumTasks) /\ instructions \in Seq(Seq(Bytes)) /\ sent < NumTasks
      /\ \A i \in 1..Len(instructions) : \E a \in 1..Len(accepted) : instructions[i] = Body(accepted[a])
      /\ \A i \in 1..Len(accepted) : accepted[i] \in Nat /\ accepted[i] <= sent
      /\ Rising(accepted) /\ instructions' = instructions /\ sent + 1 \in 1..NumTasks
      /\ Len(accepted) \in Nat /\ sent \in Nat
      /\ accepted' = IF Fits(Frame(sent + 1)) THEN Append(accepted, sent + 1) ELSE accepted
  <2>1. sent \in Nat /\ sent < NumTasks /\ sent + 1 \in 1..NumTasks
    BY TaskAssumption DEF Inv, TypeOK, SendTask
  <2>2. Rising(accepted) /\ \A i \in 1..Len(accepted) : accepted[i] <= sent
    BY DEF Inv, AcceptedInv, Rising
  <2>3. \A i \in 1..Len(instructions) : \E a \in 1..Len(accepted) : instructions[i] = Body(accepted[a])
    BY DEF Inv, KnownInv
  <2>4. /\ accepted' = IF Fits(Frame(sent + 1)) THEN Append(accepted, sent + 1) ELSE accepted
        /\ instructions' = instructions
    BY DEF SendTask
  <2>5. /\ accepted \in Seq(1..NumTasks) /\ instructions \in Seq(Seq(Bytes)) /\ Len(accepted) \in Nat
        /\ \A i \in 1..Len(accepted) : accepted[i] \in Nat
    BY SequenceTypes DEF Inv
  <2>6. QED
    BY <2>1, <2>2, <2>3, <2>4, <2>5
<1>2. CASE accepted' = accepted
  BY <1>1, <1>2, GotIs
<1>3. CASE accepted' = Append(accepted, sent + 1)
  <2>1. /\ accepted' \in Seq(1..NumTasks) /\ Len(accepted') = Len(accepted) + 1
        /\ \A i \in 1..Len(accepted) : accepted'[i] = accepted[i]
        /\ accepted'[Len(accepted) + 1] = sent + 1
    <3>1. PICK acc \in Seq(1..NumTasks), m \in 1..NumTasks : acc = accepted /\ m = sent + 1
      BY <1>1
    <3>2. /\ Append(acc, m) \in Seq(1..NumTasks) /\ Len(Append(acc, m)) = Len(acc) + 1
          /\ \A i \in 1..Len(acc) : Append(acc, m)[i] = acc[i]
          /\ Append(acc, m)[Len(acc) + 1] = m
      BY AppendProperties
    <3>3. accepted' = Append(acc, m)
      BY <1>3, <3>1
    <3>4. QED
      BY <3>1, <3>2, <3>3
  <2>2. Rising(accepted')
    <3>1. ASSUME NEW i \in 1..Len(accepted'), NEW j \in 1..Len(accepted'), i < j
          PROVE  accepted'[i] < accepted'[j]
      <4>1. i \in 1..Len(accepted) /\ (j \in 1..Len(accepted) \/ j = Len(accepted) + 1)
        BY <1>1, <2>1, <3>1
      <4>2. CASE j \in 1..Len(accepted)
        BY <1>1, <2>1, <3>1, <4>1, <4>2 DEF Rising
      <4>3. CASE j = Len(accepted) + 1
        BY <1>1, <2>1, <4>1, <4>3
      <4>4. QED
        BY <4>1, <4>2, <4>3
    <3>2. QED
      BY <3>1 DEF Rising
  <2>3. ASSUME NEW i \in DOMAIN instructions
        PROVE  Place(accepted', instructions[i]) = Place(accepted, instructions[i])
    <3>1. i \in 1..Len(instructions)
      BY <1>1, LenProperties
    <3>2. PICK a \in 1..Len(accepted) : instructions[i] = Body(accepted[a])
      BY <1>1, <3>1
    <3>3. Place(accepted, instructions[i]) = a
      BY <1>1, <3>2, PlaceIs
    <3>4. a \in 1..Len(accepted') /\ accepted'[a] = accepted[a]
      BY <1>1, <2>1
    <3>5. Place(accepted', instructions[i]) = a
      <4>1. PICK acc \in Seq(1..NumTasks) : acc = accepted'
        BY <2>1
      <4>2. Rising(acc) /\ a \in 1..Len(acc) /\ instructions[i] = Body(acc[a])
        BY <2>2, <3>2, <3>4, <4>1
      <4>3. Place(acc, Body(acc[a])) = a
        BY <4>2, PlaceIs
      <4>4. QED
        BY <4>1, <4>2, <4>3
    <3>6. QED
      BY <3>3, <3>5
  <2>4. Got' = Got
    BY <1>1, <2>3, GotIs
  <2>5. SubSeq(accepted', 1, Len(accepted)) = accepted
    <3>1. PICK acc \in Seq(1..NumTasks) : acc = accepted'
      BY <2>1
    <3>2. 1 \in 1..Len(acc) + 1 /\ Len(accepted) \in 0..Len(acc) /\ 1 <= Len(accepted) + 1
      BY <1>1, <2>1, <3>1
    <3>3. PICK l \in 0..Len(acc) : l = Len(accepted)
      BY <3>2
    <3>4. /\ SubSeq(acc, 1, l) \in Seq(1..NumTasks) /\ Len(SubSeq(acc, 1, l)) = l - 1 + 1
          /\ \A i \in 1..l - 1 + 1 : SubSeq(acc, 1, l)[i] = acc[1 + i - 1]
      BY <3>2, <3>3, PartAt, ZenonT(30)
    <3>5. Len(SubSeq(acc, 1, l)) = l /\ \A i \in 1..l : SubSeq(acc, 1, l)[i] = accepted[i]
      BY <1>1, <2>1, <3>1, <3>3, <3>4
    <3>6. QED
      BY <1>1, <3>1, <3>3, <3>4, <3>5, SeqEqual
  <2>6. Channel!Accept
    BY <2>1, <2>4, <2>5 DEF Channel!Accept, Got
  <2>7. QED
    BY <2>6 DEF Channel!Next
<1>4. QED
  BY <1>1, <1>2, <1>3

LEMMA ReceiveRefines ==
  ASSUME Inv, ReceiveInstructions
  PROVE  Channel!Next \/ UNCHANGED <<accepted, Got>>
<1>1. PICK k, buf : Collected(k, buf)
  BY CollectedBytes
<1>2. accepted' = accepted /\ instructions' = instructions \o Parsed(buf)
  BY <1>1 DEF Collected
<1>3. Parsed(buf) \in Seq(Seq(AnyByte)) /\ buf \in Seq(AnyByte) /\ Framed(buf)
  BY <1>1, ParsedOf DEF Collected
<1>4. CASE Len(Parsed(buf)) = 0
  <2>1. Parsed(buf) = <<>>
    BY <1>3, <1>4, EmptySeq
  <2>2. instructions' = instructions
    BY <1>2, <2>1, ReceiveTypes, ConcatEmptySeq
  <2>3. QED
    BY <1>2, <2>2, GotIs
<1>5. CASE Len(Parsed(buf)) # 0
  <2>1. PICK acc \in Seq(1..NumTasks) : acc = accepted /\ Rising(acc)
    BY SequenceTypes DEF Inv, AcceptedInv, Rising
  <2>2. PICK ins \in Seq(Seq(AnyByte)) : ins = instructions
    BY ReceiveTypes
  <2>3. PICK p \in Seq(Seq(AnyByte)) : p = Parsed(buf)
    BY <1>3
  <2>4. PICK new \in Seq(Seq(AnyByte)) :
          /\ new = instructions' /\ Len(new) = Len(ins) + Len(p)
          /\ \A i \in 1..Len(ins) : new[i] = ins[i]
          /\ \A i \in 1..Len(p) : new[Len(ins) + i] = p[i]
    <3>1. /\ ins \o p \in Seq(Seq(AnyByte)) /\ Len(ins \o p) = Len(ins) + Len(p)
          /\ \A i \in 1..Len(ins) : (ins \o p)[i] = ins[i]
          /\ \A i \in 1..Len(p) : (ins \o p)[Len(ins) + i] = p[i]
      BY ConcatAt
    <3>2. ins \o p = instructions'
      BY <1>2, <2>2, <2>3
    <3>3. QED
      BY <3>1, <3>2
  <2>5. /\ Len(ins) \in Nat /\ Len(p) \in Nat /\ Len(new) \in Nat /\ Len(p) # 0
        /\ DOMAIN ins = 1..Len(ins) /\ DOMAIN new = 1..Len(new)
    BY <1>5, <2>3, LenProperties
  <2>6. ASSUME NEW j \in Len(ins) + 1..Len(new)
        PROVE  Follows(acc, IF j = 1 THEN 0 ELSE new[j - 1][1][1], new[j])
    <3>1. PICK n \in 1..Len(p) : j = Len(ins) + n /\ (n # 1 => n - 1 \in 1..Len(p))
      <4>1. j - Len(ins) \in 1..Len(p) /\ j = Len(ins) + (j - Len(ins))
        BY <2>4, <2>5
      <4>2. j - Len(ins) # 1 => (j - Len(ins)) - 1 \in 1..Len(p)
        BY <2>5, <4>1
      <4>3. QED
        BY <4>1, <4>2
    <3>2. Follows(acc, IF n = 1 THEN LastDone ELSE p[n - 1][1][1], p[n])
      BY <1>1, <2>1, <2>3, ParsedInOrder
    <3>3. new[j] = p[n]
      BY <2>4, <3>1
    <3>4. (IF j = 1 THEN 0 ELSE new[j - 1][1][1]) = IF n = 1 THEN LastDone ELSE p[n - 1][1][1]
      <4>1. CASE n # 1
        <5>1. j - 1 = Len(ins) + (n - 1) /\ j # 1
          BY <2>5, <3>1, <4>1
        <5>2. new[j - 1] = p[n - 1]
          BY <2>4, <3>1, <4>1, <5>1
        <5>3. QED
          BY <4>1, <5>1, <5>2
      <4>2. CASE n = 1 /\ ins = <<>>
        <5>1. LastDone = 0 /\ j = 1
          BY <2>2, <2>5, <3>1, <4>2 DEF LastDone
        <5>2. QED
          BY <4>2, <5>1
      <4>3. CASE n = 1 /\ ins # <<>>
        <5>1. Len(ins) # 0
          BY <4>3, EmptySeq
        <5>2. Len(ins) \in 1..Len(ins) /\ j - 1 = Len(ins) /\ j # 1
          BY <2>5, <3>1, <4>3, <5>1
        <5>3. new[j - 1] = ins[Len(ins)]
          BY <2>4, <5>2
        <5>4. LastDone = ins[Len(ins)][1][1]
          BY <2>2, <4>3 DEF LastDone
        <5>5. QED
          BY <4>3, <5>2, <5>3, <5>4
      <4>4. QED
        BY <4>1, <4>2, <4>3
    <3>5. QED
      BY <3>2, <3>3, <3>4
  <2>7. \A i \in 1..Len(ins) : ins[i] = new[i] /\ \E a \in 1..Len(acc) : ins[i] = Body(acc[a])
    BY <2>1, <2>2, <2>4 DEF Inv, KnownInv
  <2>8. PICK g : g = [i \in DOMAIN ins |-> Place(acc, ins[i])] /\ g = Got
    BY <2>1, <2>2, GotIs
  <2>9. PICK h : h = [i \in DOMAIN new |-> Place(acc, new[i])] /\ h = Got'
    BY <1>2, <2>1, <2>4, GotIs
  <2>10. Len(ins) <= Len(new) /\ Len(new) > Len(ins)
    BY <2>4, <2>5
  <2>11. /\ Len(g) = Len(ins) /\ Len(h) = Len(new) /\ SubSeq(h, 1, Len(g)) = g
         /\ \A j \in Len(g) + 1..Len(h) :
              h[j] \in 1..(IF j = 1 THEN 0 ELSE h[j - 1]) + 1 /\ h[j] <= Len(acc)
    <3>1. g = Places(acc, ins) /\ h = Places(acc, new) /\ Rising(acc)
      BY <2>1, <2>8, <2>9 DEF Places
    <3>2. AddedInOrder(acc, ins, new)
      BY <2>5, <2>6, <2>7, <2>10 DEF AddedInOrder
    <3>3. QED
      BY ONLY <3>1, <3>2, acc \in Seq(1..NumTasks), PlacesInOrder, SMTT(30)
  <2>12. /\ Len(Got') > Len(Got) /\ SubSeq(Got', 1, Len(Got)) = Got
         /\ \A j \in Len(Got) + 1..Len(Got') :
              Got'[j] \in 1..(IF j = 1 THEN 0 ELSE Got'[j - 1]) + 1 /\ Got'[j] <= Len(accepted)
    BY <2>1, <2>8, <2>9, <2>10, <2>11
  <2>13. Channel!Deliver
    BY <1>2, <2>12 DEF Channel!Deliver, Channel!NextAllowed, Got
  <2>14. QED
    BY <2>13 DEF Channel!Next
<1>6. QED
  BY <1>4, <1>5

\* The instructions appended are whole accepted ones, in the order they were sent,
\* with none skipped and only stretches from an earlier one on repeated: whatever
\* bytes the kernel takes and however they arrive, TaskChannel is a GoBackFifo.
THEOREM ImplementsFifoCorrect == Spec => ImplementsFifo
<1>1. ASSUME Inv, [Next]_vars
      PROVE  [Channel!Next]_<<accepted, [i \in DOMAIN instructions |-> PositionOf(instructions[i])]>>
  <2>1. CASE UNCHANGED vars
    <3>1. accepted' = accepted /\ instructions' = instructions
      BY <2>1 DEF vars
    <3>2. UNCHANGED <<accepted, Got>>
      BY <3>1, GotIs
    <3>3. QED
      BY <3>2 DEF Got
  <2>2. CASE SendTask
    BY <1>1, <2>2, SendRefines DEF Got
  <2>3. CASE ReceiveInstructions
    BY <1>1, <2>3, ReceiveRefines DEF Got
  <2>4. QED
    BY <1>1, <2>1, <2>2, <2>3 DEF Next
<1>2. QED
  BY InitRefines, InvCorrect, <1>1, PTL DEF Spec, ImplementsFifo, Channel!Spec
=============================================================================
