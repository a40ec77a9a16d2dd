-------------------------- MODULE PacketiserProofs --------------------------
(***************************************************************************)
(* Proofs about the packetiser on an arbitrary stream of bytes and on a    *)
(* line with noise between the frames, for every byte width, frame layout  *)
(* and capacity.                                                           *)
(***************************************************************************)
EXTENDS PacketiserLink, FiniteSetTheorems, SequenceTheorems,
        WellFoundedInduction, TLAPS

\* The weight of a byte in the length is a number.  (The provers know no
\* law of exponentiation; the library counts the subsets of 1 .. n.)
LEMMA PowerOfTwo ==
    ASSUME NEW n \in Nat
    PROVE  2 ^ n \in Nat
<1>1. IsFiniteSet(1 .. n) /\ Cardinality(1 .. n) = n
  BY FS_Interval
<1>2. IsFiniteSet(SUBSET (1 .. n)) /\ Cardinality(SUBSET (1 .. n)) = 2 ^ n
  BY <1>1, FS_SUBSET
<1> QED BY <1>2, FS_CardinalityType

\* The length a byte adds to is a number.
LEMMA LengthIsNatural ==
    ASSUME PacketiserTypeOK, NEW b \in Byte, count < LengthSize
    PROVE  AppendLengthByte(b) \in Nat
<1> DEFINE shift == ByteBits * (IF LittleEndian THEN count
                                               ELSE LengthSize - count - 1)
<1>1. shift \in Nat
  <2>1. (IF LittleEndian THEN count ELSE LengthSize - count - 1) \in Nat
    BY SizeAssumption DEF PacketiserTypeOK
  <2> QED BY <2>1, ByteAssumption
<1>2. 2 ^ shift \in Nat BY <1>1, PowerOfTwo
<1>3. b \in Nat /\ expected_length \in Nat
  BY ByteAssumption DEF Byte, PacketiserTypeOK
<1>4. AppendLengthByte(b) = expected_length + b * 2 ^ shift
  BY DEF AppendLengthByte
<1> HIDE DEF shift
<1> QED BY <1>2, <1>3, <1>4

\* A valid payload of n bytes decodes to a message no longer than it.
LEMMA MessageIsBytes ==
    ASSUME NEW s \in Seq(Byte)
    PROVE  SubSeq(s, 1, DecodedLength(Len(s))) \in Seq(Byte)
<1>1. NumChunks(Len(s)) \in Nat
  BY SizeAssumption DEF NumChunks
<1>2. DecodedLength(Len(s)) \in Int /\ DecodedLength(Len(s)) <= Len(s)
  BY <1>1, SizeAssumption DEF DecodedLength
<1> QED BY <1>2, SubSeqProperties

\* After reset() the parser is empty-handed, whatever came before.
LEMMA ResetKeepsInv ==
    ASSUME ResetParser, decoded' \in Seq(Byte), message' \in Seq(Byte)
    PROVE  PacketiserInv'
<1>1. escape_expected' \in BOOLEAN BY Zenon DEF ResetParser
<1>2. /\ curr_state' = "HEADER" /\ count' = 0 /\ expected_length' = 0
      /\ buffer' = <<>>
  BY DEF ResetParser
<1>3. <<>> \in Seq(Byte) OBVIOUS
<1>4. PacketiserTypeOK' BY <1>1, <1>2, <1>3 DEF PacketiserTypeOK
<1>5. PayloadWithinLength' BY <1>2 DEF PayloadWithinLength
<1> QED BY <1>4, <1>5 DEF PacketiserInv

\* Every byte, in every state, keeps the payload within the announced length.
LEMMA PacketiserInvStep ==
    ASSUME PacketiserInv, [PacketiserNext]_packetiserVars
    PROVE  PacketiserInv'
<1> USE DEF PacketiserInv, PacketiserTypeOK, PayloadWithinLength
<1>1. ASSUME NEW b \in Byte, AddByte(b) PROVE PacketiserInv'
  <2> USE SizeAssumption
  <2>0. <<>> \in Seq(Byte) OBVIOUS
  <2>1. CASE EscapeByteSeen(b)
    <3>1. escape_expected' \in BOOLEAN BY <2>1, Zenon DEF EscapeByteSeen
    <3>2. UNCHANGED <<curr_state, count, expected_length, buffer>>
      BY <2>1 DEF EscapeByteSeen
    <3>3. decoded' \in Seq(Byte) /\ message' \in Seq(Byte)
      BY <2>0, <2>1 DEF EscapeByteSeen, NoMessage
    <3> QED BY <3>1, <3>2, <3>3
  <2>2. CASE EscapeByteMissing(b)
    BY <2>0, <2>2, ResetKeepsInv DEF EscapeByteMissing, NoMessage
  <2>3. CASE HeaderByteSeen(b)
    BY <2>3 DEF HeaderByteSeen, SetState, EscapeNeeded, NoMessage
  <2>4. CASE LengthByteSeen(b)
    BY <2>4, LengthIsNatural DEF LengthByteSeen, EscapeNeeded, NoMessage
  <2>5. CASE LengthComplete(b)
    BY <2>5, LengthIsNatural
    DEF LengthComplete, SetState, EscapeNeeded, NoMessage
  <2>6. CASE LengthTooLarge(b)
    BY <2>0, <2>6, ResetKeepsInv DEF LengthTooLarge, NoMessage
  <2>7. CASE PayloadByteSeen(b)
    BY <2>7 DEF PayloadByteSeen, SetState, EscapeNeeded, NoMessage
  <2>8. CASE FooterByteSeen(b)
    BY <2>8 DEF FooterByteSeen, EscapeNeeded, NoMessage
  <2>9. ASSUME NEW valid \in BOOLEAN, FooterComplete(b, valid)
        PROVE  PacketiserInv'
    BY <2>0, <2>9, MessageIsBytes, ResetKeepsInv DEF FooterComplete
  <2>10. CASE UnexpectedByte(b)
    BY <2>0, <2>10, ResetKeepsInv DEF UnexpectedByte, NoMessage
  <2> QED
    BY <1>1, <2>1, <2>2, <2>3, <2>4, <2>5, <2>6, <2>7, <2>8, <2>9, <2>10
    DEF AddByte
<1>2. CASE UNCHANGED packetiserVars
  BY <1>2 DEF packetiserVars, parser
<1> QED BY <1>1, <1>2 DEF PacketiserNext

\* On any stream of bytes, the payload the parser collects stays within the
\* length the frame announced, unless that is 0, and the length within
\* max_packet_size.
THEOREM PayloadStaysWithinLength == PacketiserSpec => []PacketiserInv
<1>1. PacketiserInit => PacketiserInv
  <2> SUFFICES ASSUME PacketiserInit PROVE PacketiserInv OBVIOUS
  <2>1. escape_expected \in BOOLEAN BY Zenon DEF PacketiserInit
  <2>2. /\ curr_state = "HEADER" /\ count = 0 /\ expected_length = 0
        /\ buffer = <<>> /\ decoded = <<>> /\ message = <<>>
    BY DEF PacketiserInit
  <2>3. PacketiserTypeOK BY <2>1, <2>2 DEF PacketiserTypeOK
  <2>4. PayloadWithinLength BY <2>2 DEF PayloadWithinLength
  <2> QED BY <2>3, <2>4 DEF PacketiserInv
<1>2. PacketiserInv /\ [PacketiserNext]_packetiserVars => PacketiserInv'
  BY PacketiserInvStep
<1> QED BY <1>1, <1>2, PTL DEF PacketiserSpec

-----------------------------------------------------------------------------
(* Numbers and the bytes of a length *)

\* Induction, as the provers can use it: a set of numbers has a least one.
LEMMA LeastNatural ==
    ASSUME NEW T, T \subseteq Nat, T # {}
    PROVE  \E x \in T : \A y \in T : x <= y
<1>1. PICK x \in T : \A y \in T : ~ (<<y, x>> \in OpToRel(<, Nat))
  BY NatLessThanWellFounded, WFMin
<1>2. \A y \in T : ~ (y < x)
  BY <1>1 DEF OpToRel
<1> QED BY <1>2

\* A power of two is not 0, and adding exponents multiplies: a set of a + b
\* elements has as many subsets as there are pairs of subsets of its two parts.
LEMMA PowerSum ==
    ASSUME NEW a \in Nat, NEW b \in Nat
    PROVE  /\ 2 ^ (a + b) = 2 ^ a * 2 ^ b
           /\ 2 ^ a \in Nat \ {0}
<1> DEFINE A == 1 .. a
           B == a + 1 .. a + b
           C == 1 .. a + b
           split == [X \in SUBSET C |-> <<X \cap A, X \cap B>>]
<1>1. /\ IsFiniteSet(A) /\ Cardinality(A) = a
      /\ IsFiniteSet(B) /\ Cardinality(B) = b
      /\ IsFiniteSet(C) /\ Cardinality(C) = a + b
  <2>1. \A i, j \in Int : /\ IsFiniteSet(i .. j)
                          /\ Cardinality(i .. j) = IF i > j THEN 0 ELSE j - i + 1
    <3> SUFFICES ASSUME NEW i \in Int, NEW j \in Int
                 PROVE  /\ IsFiniteSet(i .. j)
                        /\ Cardinality(i .. j) = IF i > j THEN 0 ELSE j - i + 1
      OBVIOUS
    <3> QED BY FS_Interval
  <2>2. Cardinality(A) = a /\ IsFiniteSet(A) BY <2>1
  <2>3. Cardinality(B) = b /\ IsFiniteSet(B) BY <2>1
  <2>4. \A n \in Nat : Cardinality(1 .. n) = n /\ IsFiniteSet(1 .. n) BY <2>1
  <2>5. Cardinality(C) = a + b /\ IsFiniteSet(C)
    <3>1. a + b \in Nat OBVIOUS
    <3> QED BY <2>4, <3>1, Zenon
  <2> QED BY <2>2, <2>3, <2>5
<1>2. /\ IsFiniteSet(SUBSET A) /\ Cardinality(SUBSET A) = 2 ^ a
      /\ IsFiniteSet(SUBSET B) /\ Cardinality(SUBSET B) = 2 ^ b
      /\ IsFiniteSet(SUBSET C) /\ Cardinality(SUBSET C) = 2 ^ (a + b)
  <2>1. \A S : IsFiniteSet(S) => /\ IsFiniteSet(SUBSET S)
                                 /\ Cardinality(SUBSET S) = 2 ^ Cardinality(S)
    BY FS_SUBSET
  <2> HIDE DEF A, B, C
  <2> QED BY <1>1, <2>1, Zenon
<1>3. C = A \cup B /\ A \cap B = {}
  OBVIOUS
<1> HIDE DEF A, B, C
<1>4. split \in [SUBSET C -> (SUBSET A) \X (SUBSET B)]
  OBVIOUS
<1>5. \A X \in SUBSET C : X = (X \cap A) \cup (X \cap B)
  BY <1>3
<1>6. IsInjective(split)
  BY <1>5, Zenon DEF IsInjective
<1>7. ASSUME NEW t \in (SUBSET A) \X (SUBSET B)
      PROVE  \E X \in SUBSET C : split[X] = t
  <2>1. PICK Y \in SUBSET A, Z \in SUBSET B : t = <<Y, Z>> OBVIOUS
  <2>2. Y \cup Z \in SUBSET C BY <1>3
  <2>3. (Y \cup Z) \cap A = Y /\ (Y \cup Z) \cap B = Z BY <1>3
  <2> QED BY <2>1, <2>2, <2>3
<1>8. ExistsBijection(SUBSET C, (SUBSET A) \X (SUBSET B))
  BY <1>4, <1>6, <1>7, Zenon DEF ExistsBijection, Bijection, Injection, Surjection
<1>9. Cardinality((SUBSET A) \X (SUBSET B)) = Cardinality(SUBSET C)
  BY <1>2, <1>8, FS_Bijection
<1>10. Cardinality((SUBSET A) \X (SUBSET B)) = 2 ^ a * 2 ^ b
  <2>1. \A S, T : IsFiniteSet(S) /\ IsFiniteSet(T) =>
                     Cardinality(S \X T) = Cardinality(S) * Cardinality(T)
    BY FS_Product
  <2>2. Cardinality((SUBSET A) \X (SUBSET B))
          = Cardinality(SUBSET A) * Cardinality(SUBSET B)
    BY <1>2, <2>1, Zenon
  <2> QED BY <1>2, <2>2, Zenon
<1>11. 2 ^ a \in Nat BY PowerOfTwo
<1>12. 2 ^ a # 0
  <2>1. SUBSET A # {} OBVIOUS
  <2>2. Cardinality(SUBSET A) # 0
    BY <2>1, <1>2, FS_EmptySet
  <2> QED BY <2>2, <1>2
<1> QED BY <1>2, <1>9, <1>10, <1>11, <1>12

\* Quotient and remainder are what they are.
LEMMA Divide ==
    ASSUME NEW n \in Nat, NEW d \in Nat \ {0}
    PROVE  /\ n \div d \in Nat /\ n % d \in 0 .. d - 1
           /\ n = d * (n \div d) + (n % d)
  OBVIOUS

\* A quotient and a remainder that fit are the quotient and the remainder.
LEMMA DivideUnique ==
    ASSUME NEW n \in Nat, NEW d \in Nat \ {0}, NEW q \in Nat, NEW r \in 0 .. d - 1,
           n = d * q + r
    PROVE  n \div d = q /\ n % d = r
  OBVIOUS

\* One more byte written at a place where n has none.
LEMMA DigitAdded ==
    ASSUME NEW d \in Nat \ {0}, NEW B \in Nat \ {0}, NEW n \in Nat,
           NEW b \in 0 .. B - 1, (n \div d) % B = 0
    PROVE  ((n + b * d) \div d) % B = b
<1> DEFINE q == n \div d
           r == n % d
           m == q \div B
<1>1. q \in Nat /\ r \in 0 .. d - 1 /\ n = d * q + r /\ q % B = 0
  BY Divide
<1> HIDE DEF q, r
<1>2. m \in Nat /\ q = B * m
  BY <1>1, Divide
<1> HIDE DEF m
<1>3. n + b * d = d * (q + b) + r /\ q + b \in Nat
  BY <1>1
<1>4. n + b * d \in Nat BY <1>1
<1>5. (n + b * d) \div d = q + b
  BY <1>1, <1>3, <1>4, DivideUnique
<1>6. (q + b) % B = b
  BY <1>1, <1>2, DivideUnique
<1> QED BY <1>5, <1>6

\* d is a place above e, where digits are less than B.
Above(d, e, B) == \E g \in Nat \ {0} : d = e * B * g

\* Writing b at d does not show at e.
Undisturbed(e, B, n, b, d) == ((n + b * d) \div e) % B = (n \div e) % B

\* It does not disturb the places below.
LEMMA DigitBelow ==
    ASSUME NEW e \in Nat \ {0}, NEW B \in Nat \ {0}, NEW n \in Nat,
           NEW b \in Nat, NEW d \in Nat, Above(d, e, B)
    PROVE  Undisturbed(e, B, n, b, d)
<1>0. PICK g \in Nat \ {0} : d = e * B * g BY DEF Above
<1> DEFINE q == n \div e
           r == n % e
           m == q \div B
           s == q % B
           k == b * g
<1>1. q \in Nat /\ r \in 0 .. e - 1 /\ n = e * q + r
  BY Divide
<1> HIDE DEF q, r
<1>2. m \in Nat /\ s \in 0 .. B - 1 /\ q = B * m + s
  BY <1>1, Divide
<1> HIDE DEF m
<1>3. k \in Nat /\ b * d = e * (B * k)
  BY <1>0
<1> HIDE DEF k
<1>4. n + e * (B * k) = e * (q + B * k) + r /\ q + B * k \in Nat
  BY <1>1, <1>3
<1>5. (n + e * (B * k)) \div e = q + B * k
  BY <1>1, <1>4, DivideUnique
<1>6. q + B * k = B * (m + k) + s /\ m + k \in Nat
  BY <1>1, <1>2, <1>3
<1>7. (q + B * k) % B = s
  BY <1>2, <1>4, <1>6, DivideUnique
<1> QED BY <1>3, <1>5, <1>7 DEF q, s, Undisturbed

\* Nor the places above, since it carries nothing.
LEMMA DigitAbove ==
    ASSUME NEW e \in Nat, NEW B \in Nat \ {0}, NEW n \in Nat,
           NEW b \in 0 .. B - 1, NEW d \in Nat \ {0}, Above(e, d, B),
           (n \div d) % B = 0
    PROVE  Undisturbed(e, B, n, b, d)
<1>0. PICK g \in Nat \ {0} : e = d * B * g BY DEF Above
<1> DEFINE D == d * B
           q == n \div e
           r == n % e
           w == n % D
           p == n \div D
<1>1. D \in Nat \ {0} /\ e \in Nat \ {0} /\ e = D * g
  BY <1>0
<1>2. q \in Nat /\ r \in 0 .. e - 1 /\ n = e * q + r
  <2>1. e \in Nat \ {0} BY <1>1
  <2> QED BY <2>1, Divide
<1>3. p \in Nat /\ w \in 0 .. D - 1 /\ n = D * p + w
  <2>1. D \in Nat \ {0} BY <1>1
  <2> HIDE DEF D
  <2> QED BY <2>1, Divide
<1>4. w < d
  <2> DEFINE t == n \div d
             u == n % d
             v == t \div B
  <2>1. t \in Nat /\ u \in 0 .. d - 1 /\ n = d * t + u /\ t % B = 0
    BY Divide
  <2> HIDE DEF t, u
  <2>2. v \in Nat /\ t = B * v
    <3>1. t = B * v + (t % B) /\ v \in Nat BY <2>1, Divide
    <3> HIDE DEF v
    <3> QED BY <2>1, <3>1
  <2> HIDE DEF v
  <2>3. n = D * v + u BY <2>1, <2>2
  <2>4. u \in 0 .. D - 1 BY <2>1
  <2>5. w = u BY <2>2, <2>3, <2>4, <1>1, DivideUnique
  <2> QED BY <2>1, <2>5
<1> HIDE DEF q, r, w, p
<1>5. w + b * d \in 0 .. D - 1
  <2>1. b * d <= (B - 1) * d /\ b * d \in Nat OBVIOUS
  <2>2. (B - 1) * d = D - d OBVIOUS
  <2> QED BY <2>1, <2>2, <1>1, <1>3, <1>4
<1> HIDE DEF D
<1>6. p \div g = q /\ p \div g \in Nat
  <2> DEFINE x == p \div g
             y == p % g
  <2>1. x \in Nat /\ y \in 0 .. g - 1 /\ p = g * x + y
    BY <1>3, Divide
  <2> HIDE DEF x, y
  <2>2. n = e * x + (D * y + w)
    BY <1>1, <1>3, <2>1
  <2>3. D * y + w \in 0 .. e - 1
    <3>1. D * y <= D * (g - 1) /\ D * y \in Nat BY <1>1, <2>1
    <3>2. D * (g - 1) = e - D BY <1>1
    <3> QED BY <3>1, <3>2, <1>1, <1>3
  <2>4. n \div e = x
    BY <2>1, <2>2, <2>3, <1>1, DivideUnique
  <2> QED BY <2>1, <2>4 DEF q, x
<1>7. (n + b * d) \div e = q
  <2> DEFINE y == p % g
  <2>1. y \in 0 .. g - 1 /\ p = g * q + y /\ q \in Nat
    BY <1>3, <1>6, Divide
  <2> HIDE DEF y
  <2>2. n + b * d = e * q + (D * y + (w + b * d))
    BY <1>1, <1>3, <2>1
  <2>3. D * y + (w + b * d) \in 0 .. e - 1
    <3>1. D * y <= D * (g - 1) /\ D * y \in Nat BY <1>1, <2>1
    <3>2. D * (g - 1) = e - D BY <1>1
    <3> QED BY <3>1, <3>2, <1>1, <1>5
  <2> DEFINE x == n + b * d
             z == D * y + (w + b * d)
  <2>4. x \in Nat OBVIOUS
  <2>5. x = e * q + z /\ z \in 0 .. e - 1 BY <2>2, <2>3
  <2> HIDE DEF x, z
  <2>6. x \div e = q
    BY <2>1, <2>4, <2>5, <1>1, DivideUnique
  <2> QED BY <2>6 DEF x
<1> QED BY <1>7 DEF q, Undisturbed

\* The lowest digits of a number, and its highest ones, one more at a time.
LEMMA LowDigits ==
    ASSUME NEW d \in Nat \ {0}, NEW B \in Nat \ {0}, NEW n \in Nat
    PROVE  (n % d) + ((n \div d) % B) * d = n % (d * B)
<1> DEFINE q == n \div d
           r == n % d
           m == q \div B
           s == q % B
<1>1. q \in Nat /\ r \in 0 .. d - 1 /\ n = d * q + r
  BY Divide
<1> HIDE DEF q, r
<1>2. m \in Nat /\ s \in 0 .. B - 1 /\ q = B * m + s
  BY <1>1, Divide
<1> HIDE DEF m, s
<1>3. n = (d * B) * m + (s * d + r) /\ d * B \in Nat \ {0}
  BY <1>1, <1>2
<1>4. s * d + r \in 0 .. d * B - 1
  <2>1. s * d <= (B - 1) * d /\ s * d \in Nat BY <1>2
  <2>2. (B - 1) * d = d * B - d OBVIOUS
  <2> QED BY <2>1, <2>2, <1>1
<1>5. n % (d * B) = s * d + r
  BY <1>2, <1>3, <1>4, DivideUnique
<1> QED BY <1>1, <1>2, <1>5 DEF q, r, s

\* The digits from a place up, from those above it and the digit there.
LEMMA HighDigits ==
    ASSUME NEW d \in Nat \ {0}, NEW B \in Nat \ {0}, NEW n \in Nat
    PROVE  (n \div (d * B)) * (d * B) + ((n \div d) % B) * d = (n \div d) * d
<1>1. n % d = n - d * (n \div d) /\ n \div d \in Nat
  BY Divide
<1>2. d * B \in Nat \ {0} OBVIOUS
<1>3. n % (d * B) = n - (d * B) * (n \div (d * B)) /\ n \div (d * B) \in Nat
  <2> DEFINE e == d * B
  <2> HIDE DEF e
  <2>1. e \in Nat \ {0} => n % e = n - e * (n \div e) /\ n \div e \in Nat
    BY Divide
  <2> QED BY <1>2, <2>1 DEF e
<1>4. (n % d) + ((n \div d) % B) * d = n % (d * B)
  BY LowDigits
<1>5. (n \div d) % B \in Nat
  BY <1>1, Divide
<1> DEFINE e == d * B
           x == n \div d
           y == n \div e
           z == (x % B) * d
<1>6. z \in Nat BY <1>5
<1>7. d * x = x * d /\ e * y = y * e BY <1>1, <1>2, <1>3
<1> HIDE DEF z
<1>8. n - x * d + z = n - y * e
  BY <1>1, <1>3, <1>4, <1>7 DEF z
<1>9. x * d \in Nat /\ y * e \in Nat BY <1>1, <1>2, <1>3
<1> HIDE DEF x, y, e
<1>10. y * e + z = x * d BY <1>6, <1>8, <1>9
<1> QED BY <1>10 DEF x, y, z, e

-----------------------------------------------------------------------------
(* The bytes of a length *)

\* Where the i-th byte of the length stands in it.
Place(i) == IF LittleEndian THEN i - 1 ELSE LengthSize - i
Weight(i) == 2 ^ (ByteBits * Place(i))

\* Values of a byte.
LEMMA ByteRange == 2 ^ ByteBits \in Nat \ {0}
  BY PowerSum, ByteAssumption

\* A place has a weight.
LEMMA WeightRange ==
    ASSUME NEW p \in Nat
    PROVE  ByteBits * p \in Nat /\ 2 ^ (ByteBits * p) \in Nat \ {0}
<1>1. ByteBits * p \in Nat BY ByteAssumption
<1> QED BY <1>1, PowerSum

\* A byte of the length has a place in it.
LEMMA PlaceRange ==
    ASSUME NEW i \in 1 .. LengthSize
    PROVE  Place(i) \in Nat /\ Place(i) < LengthSize
  BY SizeAssumption DEF Place

\* The bytes of a length are its digits, each at its place.
LEMMA LengthByteAt ==
    ASSUME NEW n \in Nat
    PROVE  /\ LengthBytes(n) \in Seq(Byte) /\ Len(LengthBytes(n)) = LengthSize
           /\ \A i \in 1 .. LengthSize :
                 LengthBytes(n)[i] = (n \div Weight(i)) % 2 ^ ByteBits
<1>1. \A i \in 1 .. LengthSize :
        LengthBytes(n)[i] = (n \div Weight(i)) % 2 ^ ByteBits
  BY DEF LengthBytes, Weight, Place
<1>2. ASSUME NEW i \in 1 .. LengthSize
      PROVE  LengthBytes(n)[i] \in Byte
  <2>1. Weight(i) \in Nat \ {0} BY PlaceRange, WeightRange DEF Weight
  <2> DEFINE q == n \div Weight(i)
  <2>2. q \in Nat BY <2>1, Divide
  <2> HIDE DEF q
  <2>3. q % 2 ^ ByteBits \in 0 .. 2 ^ ByteBits - 1
    BY <2>2, ByteRange, Divide
  <2> QED BY <1>1, <2>3 DEF q, Byte
<1>3. LengthBytes(n) = [i \in 1 .. LengthSize |-> LengthBytes(n)[i]]
  BY DEF LengthBytes
<1> HIDE DEF LengthBytes
<1> QED BY <1>1, <1>2, <1>3, SizeAssumption

\* The places of two bytes of the length divide one another.
LEMMA WeightAbove ==
    ASSUME NEW p \in Nat, NEW k \in Nat
    PROVE  2 ^ (ByteBits * (p + 1 + k)) =
             2 ^ (ByteBits * p) * 2 ^ ByteBits * 2 ^ (ByteBits * k)
<1> DEFINE a == ByteBits * p
           c == ByteBits * k
<1>1. a \in Nat /\ c \in Nat /\ ByteBits \in Nat BY WeightRange, ByteAssumption
<1>2. ByteBits * (p + 1 + k) = (a + ByteBits) + c BY ByteAssumption
<1> HIDE DEF a, c
<1>3. 2 ^ (a + ByteBits) = 2 ^ a * 2 ^ ByteBits BY <1>1, PowerSum
<1>4. a + ByteBits \in Nat BY <1>1
<1>5. 2 ^ ((a + ByteBits) + c) = 2 ^ (a + ByteBits) * 2 ^ c
  BY <1>1, <1>4, PowerSum
<1> QED BY <1>2, <1>3, <1>5, Zenon DEF a, c

\* A byte of the length that arrives changes that byte of what is announced.
LEMMA LengthByteAdded ==
    ASSUME NEW n \in Nat, NEW i \in 1 .. LengthSize, NEW b \in Byte,
           LengthBytes(n)[i] = 0
    PROVE  /\ n + b * Weight(i) \in Nat
           /\ LengthBytes(n + b * Weight(i))[i] = b
           /\ \A j \in 1 .. LengthSize \ {i} :
                LengthBytes(n + b * Weight(i))[j] = LengthBytes(n)[j]
<1> DEFINE B == 2 ^ ByteBits
           d == Weight(i)
           m == n + b * d
<1>1. B \in Nat \ {0} /\ b \in 0 .. B - 1 BY ByteRange DEF Byte
<1>2. d \in Nat \ {0} BY PlaceRange, WeightRange DEF Weight
<1>3. (n \div d) % B = 0 BY LengthByteAt
<1>4. \A j \in 1 .. LengthSize : LengthBytes(n)[j] = (n \div Weight(j)) % B
  BY LengthByteAt
<1>5. m \in Nat BY <1>1, <1>2
<1>6. \A j \in 1 .. LengthSize : LengthBytes(m)[j] = (m \div Weight(j)) % B
  <2> HIDE DEF m
  <2> QED BY <1>5, LengthByteAt
<1>7. (m \div d) % B = b
  <2> HIDE DEF B, d
  <2> QED BY <1>1, <1>2, <1>3, DigitAdded
<1>8. ASSUME NEW j \in 1 .. LengthSize \ {i}
      PROVE  (m \div Weight(j)) % B = (n \div Weight(j)) % B
  <2> DEFINE e == Weight(j)
  <2>1. Place(i) \in Nat /\ Place(j) \in Nat /\ Place(i) # Place(j)
    BY PlaceRange, SizeAssumption DEF Place
  <2>2. e \in Nat \ {0} BY PlaceRange, WeightRange DEF Weight
  <2>3. CASE Place(j) < Place(i)
    <3> DEFINE k == Place(i) - Place(j) - 1
               g == 2 ^ (ByteBits * k)
    <3>1. k \in Nat /\ Place(i) = Place(j) + 1 + k BY <2>1, <2>3
    <3>2. g \in Nat \ {0} BY <3>1, WeightRange
    <3> HIDE DEF k
    <3>3. d = e * B * g BY <2>1, <3>1, WeightAbove DEF Weight
    <3> HIDE DEF B, d, e, g
    <3>4. b \in Nat BY <1>1
    <3>5. Above(d, e, B) BY <3>2, <3>3 DEF Above
    <3>6. Undisturbed(e, B, n, b, d)
      BY <1>1, <1>2, <2>2, <3>4, <3>5, DigitBelow
    <3> QED BY <3>6 DEF e, Undisturbed
  <2>4. CASE Place(i) < Place(j)
    <3> DEFINE k == Place(j) - Place(i) - 1
               g == 2 ^ (ByteBits * k)
    <3>1. k \in Nat /\ Place(j) = Place(i) + 1 + k BY <2>1, <2>4
    <3>2. g \in Nat \ {0} BY <3>1, WeightRange
    <3> HIDE DEF k
    <3>3. e = d * B * g BY <2>1, <3>1, WeightAbove DEF Weight
    <3> HIDE DEF B, d, e, g
    <3>4. Above(e, d, B) BY <3>2, <3>3 DEF Above
    <3>5. Undisturbed(e, B, n, b, d)
      BY <1>1, <1>2, <1>3, <2>2, <3>4, DigitAbove
    <3> QED BY <3>5 DEF e, Undisturbed
  <2> QED BY <2>1, <2>3, <2>4
<1> HIDE DEF m, B, d
<1> QED BY <1>4, <1>5, <1>6, <1>7, <1>8 DEF m, d

\* No byte of the length of 0 is anything else.
LEMMA NoLength == \A i \in 1 .. LengthSize : LengthBytes(0)[i] = 0
<1> SUFFICES ASSUME NEW i \in 1 .. LengthSize PROVE LengthBytes(0)[i] = 0
  OBVIOUS
<1>1. Weight(i) \in Nat \ {0} BY PlaceRange, WeightRange DEF Weight
<1> DEFINE d == Weight(i)
           B == 2 ^ ByteBits
<1>2. LengthBytes(0)[i] = (0 \div d) % B BY LengthByteAt
<1>3. B \in Nat \ {0} BY ByteRange
<1> HIDE DEF d, B
<1>4. 0 \div d = 0 BY <1>1, DivideUnique DEF d
<1>5. 0 % B = 0 BY <1>3, DivideUnique
<1> QED BY <1>2, <1>4, <1>5

\* What is announced when c bytes of the length n have arrived.
Announced(n, c) ==
    IF LittleEndian THEN n % 2 ^ (ByteBits * c)
    ELSE LET d == 2 ^ (ByteBits * (LengthSize - c)) IN (n \div d) * d

\* A length that fits is announced byte by byte.
LEMMA AnnouncedSteps ==
    ASSUME NEW n \in Nat, n < 2 ^ (ByteBits * LengthSize)
    PROVE  /\ Announced(n, 0) = 0
           /\ Announced(n, LengthSize) = n
           /\ \A c \in 0 .. LengthSize - 1 :
                 Announced(n, c) + LengthBytes(n)[c + 1] * Weight(c + 1)
                    = Announced(n, c + 1)
<1> DEFINE W(p) == 2 ^ (ByteBits * p)
           B == 2 ^ ByteBits
<1>1. \A p \in Nat : W(p) \in Nat \ {0} BY WeightRange
<1>2. B \in Nat \ {0} BY ByteRange
<1>3. W(0) = 1
  <2>1. ByteBits * 0 = 0 BY ByteAssumption
  <2>2. 2 ^ (0 + 0) = 2 ^ 0 * 2 ^ 0 /\ 2 ^ 0 \in Nat \ {0} BY PowerSum
  <2>3. 2 ^ 0 = 2 ^ 0 * 2 ^ 0 BY <2>2
  <2>4. \A x \in Nat \ {0} : x = x * x => x = 1 OBVIOUS
  <2> QED BY <2>1, <2>2, <2>3, <2>4
<1>4. ASSUME NEW p \in Nat PROVE W(p + 1) = W(p) * B
  <2>1. ByteBits * (p + 1) = ByteBits * p + ByteBits BY ByteAssumption
  <2>2. ByteBits * p \in Nat /\ ByteBits \in Nat BY WeightRange, ByteAssumption
  <2> DEFINE a == ByteBits * p
  <2> HIDE DEF a
  <2>3. 2 ^ (a + ByteBits) = 2 ^ a * 2 ^ ByteBits BY <2>2, PowerSum DEF a
  <2> QED BY <2>1, <2>3 DEF a
<1>5. n % 1 = 0 /\ n \div 1 = n BY DivideUnique
<1>6. n < W(LengthSize) /\ LengthSize \in Nat BY SizeAssumption
<1>7. n % W(LengthSize) = n /\ n \div W(LengthSize) = 0
  <2> DEFINE d == W(LengthSize)
  <2>1. d \in Nat \ {0} /\ n < d BY <1>1, <1>6
  <2> HIDE DEF d
  <2>2. n % d = n /\ n \div d = 0 BY <2>1, DivideUnique
  <2> QED BY <2>2 DEF d
<1>8. \A i \in 1 .. LengthSize :
        LengthBytes(n)[i] = (n \div W(Place(i))) % B /\ Weight(i) = W(Place(i))
  BY LengthByteAt DEF Weight
<1>9. Announced(n, 0) = 0
  <2>1. LengthSize - 0 = LengthSize BY <1>6
  <2>2. 0 * W(LengthSize) = 0 BY <1>1, <1>6
  <2> QED BY <1>3, <1>5, <1>7, <2>1, <2>2 DEF Announced
<1>10. Announced(n, LengthSize) = n
  <2>1. LengthSize - LengthSize = 0 /\ n * 1 = n BY <1>6
  <2> QED BY <1>3, <1>5, <1>7, <2>1 DEF Announced
<1>11. ASSUME NEW c \in 0 .. LengthSize - 1
       PROVE  Announced(n, c) + LengthBytes(n)[c + 1] * Weight(c + 1)
                = Announced(n, c + 1)
  <2>1. c + 1 \in 1 .. LengthSize /\ c \in Nat BY <1>6
  <2>2. CASE LittleEndian
    <3>1. Place(c + 1) = c BY <2>1, <2>2 DEF Place
    <3> DEFINE d == W(c)
    <3>2. d \in Nat \ {0} /\ W(c + 1) = d * B BY <1>1, <1>4, <2>1
    <3>3. /\ Announced(n, c) = n % d /\ Announced(n, c + 1) = n % W(c + 1)
          /\ LengthBytes(n)[c + 1] = (n \div d) % B /\ Weight(c + 1) = d
      BY <1>8, <2>1, <2>2, <3>1 DEF Announced
    <3> HIDE DEF d, B, W
    <3>4. (n % d) + ((n \div d) % B) * d = n % (d * B)
      BY <1>2, <3>2, LowDigits
    <3> QED BY <3>2, <3>3, <3>4
  <2>3. CASE ~LittleEndian
    <3> DEFINE p == LengthSize - (c + 1)
               d == W(p)
    <3>1. Place(c + 1) = p /\ p \in Nat /\ LengthSize - c = p + 1
      BY <1>6, <2>1, <2>3 DEF Place
    <3>2. d \in Nat \ {0} /\ W(p + 1) = d * B BY <1>1, <1>4, <3>1
    <3>3. Announced(n, c) = (n \div W(p + 1)) * W(p + 1)
      BY <2>3, <3>1 DEF Announced
    <3>4. Announced(n, c + 1) = (n \div d) * d
      BY <2>3 DEF Announced
    <3>5. LengthBytes(n)[c + 1] = (n \div d) % B /\ Weight(c + 1) = d
      BY <1>8, <2>1, <3>1
    <3> HIDE DEF d, B, W, p
    <3>6. (n \div (d * B)) * (d * B) + ((n \div d) % B) * d = (n \div d) * d
      BY <1>2, <3>2, HighDigits
    <3> QED BY <3>2, <3>3, <3>4, <3>5, <3>6
  <2> QED BY <2>2, <2>3
<1> QED BY <1>9, <1>10, <1>11

-----------------------------------------------------------------------------
(* Sequences of sequences, flattened *)

\* Induction on sequences, as the provers can use it: among some sequences
\* there is one that is empty, or that loses its last byte to leave them.
LEMMA LeastSequence ==
    ASSUME NEW T, T \subseteq Seq(Byte), T # {}
    PROVE  \E s \in T : \/ s = <<>>
                        \/ \E t \in Seq(Byte) \ T, b \in Byte : s = Append(t, b)
<1> DEFINE L == {Len(s) : s \in T}
<1>1. L \subseteq Nat /\ L # {}
  <2>1. \A s \in T : Len(s) \in Nat BY LenProperties
  <2> QED BY <2>1
<1>2. PICK n \in L : \A m \in L : n <= m
  <2> HIDE DEF L
  <2> QED BY <1>1, LeastNatural
<1>3. PICK s \in T : Len(s) = n OBVIOUS
<1>4. s \in Seq(Byte) OBVIOUS
<1>5. CASE s = <<>> BY <1>5
<1>6. CASE s # <<>>
  <2>1. PICK t \in Seq(Byte), b \in Byte : s = Append(t, b)
    BY <1>4, <1>6, SequenceEmptyOrAppend
  <2>2. Len(t) \in Nat /\ n = Len(t) + 1 BY <1>3, <2>1
  <2>3. t \notin T
    <3> SUFFICES ASSUME t \in T PROVE FALSE OBVIOUS
    <3>1. Len(t) \in L OBVIOUS
    <3>2. n <= Len(t) BY <1>2, <3>1
    <3> HIDE DEF L
    <3> QED BY <2>2, <3>2
  <2> QED BY <2>1, <2>3
<1> QED BY <1>5, <1>6

\* f is the function FlattenSeq computes, on the first n sequences of ss.
Flattens(f, ss, n) ==
    f = [i \in 1 .. n |-> IF i = 1 THEN ss[i] ELSE f[i - 1] \o ss[i]]

\* There is such a function.
LEMMA FlattenExists ==
    ASSUME NEW ss, NEW n \in Nat
    PROVE  \E f : Flattens(f, ss, n)
<1> DEFINE T == {k \in Nat : ~ \E f : Flattens(f, ss, k)}
<1> SUFFICES ASSUME T # {} PROVE FALSE OBVIOUS
<1>1. PICK k \in T : \A m \in T : k <= m
  <2>1. T \subseteq Nat OBVIOUS
  <2> HIDE DEF T
  <2> QED BY <2>1, LeastNatural
<1>2. k # 0
  <2> SUFFICES ASSUME k = 0 PROVE FALSE OBVIOUS
  <2> DEFINE f == [i \in 1 .. 0 |-> <<>>]
  <2>1. f = [i \in 1 .. 0 |-> IF i = 1 THEN ss[i] ELSE f[i - 1] \o ss[i]]
    <3>1. 1 .. 0 = {} OBVIOUS
    <3> QED BY <3>1, Zenon
  <2>2. Flattens(f, ss, 0) BY <2>1 DEF Flattens
  <2> QED BY <1>1, <2>2
<1>3. k - 1 \in Nat /\ ~(k <= k - 1) BY <1>1, <1>2
<1>4. PICK g : Flattens(g, ss, k - 1) BY <1>1, <1>3
<1> DEFINE f == [i \in 1 .. k |-> IF i = 1 THEN ss[i] ELSE g[i - 1] \o ss[i]]
<1>5. \A i \in 1 .. k - 1 : f[i] = g[i]
  <2> SUFFICES ASSUME NEW i \in 1 .. k - 1 PROVE f[i] = g[i] OBVIOUS
  <2>1. f[i] = IF i = 1 THEN ss[i] ELSE g[i - 1] \o ss[i]
    BY <1>3
  <2>2. g[i] = IF i = 1 THEN ss[i] ELSE g[i - 1] \o ss[i]
    BY <1>4, Zenon DEF Flattens
  <2> QED BY <2>1, <2>2
<1>6. \A i \in 1 .. k : i = 1 \/ i - 1 \in 1 .. k - 1 OBVIOUS
<1>7. \A i \in 1 .. k : (IF i = 1 THEN ss[i] ELSE g[i - 1] \o ss[i])
                           = (IF i = 1 THEN ss[i] ELSE f[i - 1] \o ss[i])
  <2> HIDE DEF f
  <2> QED BY <1>5, <1>6, Zenon
<1>8. f = [i \in 1 .. k |-> IF i = 1 THEN ss[i] ELSE f[i - 1] \o ss[i]]
  <2>1. f = [i \in 1 .. k |-> IF i = 1 THEN ss[i] ELSE g[i - 1] \o ss[i]]
    BY Zenon
  <2> HIDE DEF f
  <2> QED BY <1>7, <2>1
<1>9. Flattens(f, ss, k) 
  <2> HIDE DEF f
  <2> QED BY <1>8 DEF Flattens
<1> QED BY <1>1, <1>9

\* There is one such function, and it is the same on a longer sequence.
LEMMA FlattenUnique ==
    ASSUME NEW f, NEW ss, NEW n \in Nat, Flattens(f, ss, n),
           NEW g, NEW tt, NEW m \in Nat, Flattens(g, tt, m),
           n <= m, \A i \in 1 .. n : ss[i] = tt[i]
    PROVE  \A i \in 1 .. n : f[i] = g[i]
<1> DEFINE T == {i \in 1 .. n : f[i] # g[i]}
<1> SUFFICES ASSUME T # {} PROVE FALSE OBVIOUS
<1>1. PICK k \in T : \A i \in T : k <= i
  <2>1. T \subseteq Nat OBVIOUS
  <2> HIDE DEF T
  <2> QED BY <2>1, LeastNatural
<1>2. k \in 1 .. n /\ k \in 1 .. m OBVIOUS
<1>3. f[k] = IF k = 1 THEN ss[k] ELSE f[k - 1] \o ss[k]
  BY <1>2, Zenon DEF Flattens
<1>4. g[k] = IF k = 1 THEN tt[k] ELSE g[k - 1] \o tt[k]
  BY <1>2, Zenon DEF Flattens
<1>5. k # 1 => k - 1 \in 1 .. n /\ ~(k <= k - 1) BY <1>2
<1>6. k # 1 => f[k - 1] = g[k - 1] BY <1>1, <1>5
<1>7. f[k] = g[k]
  <2> HIDE DEF T
  <2> QED BY <1>2, <1>3, <1>4, <1>6, Zenon
<1> QED BY <1>1, <1>7

\* FlattenSeq of nothing.
LEMMA FlattenEmpty == FlattenSeq(<<>>) = <<>>
  BY DEF FlattenSeq

\* Such a function ends in the flattened sequence.
LEMMA FlattenIs ==
    ASSUME NEW S, NEW ss \in Seq(S), ss # <<>>, NEW f, Flattens(f, ss, Len(ss))
    PROVE  FlattenSeq(ss) = f[Len(ss)]
<1> DEFINE n == Len(ss)
           h == CHOOSE h : h = [i \in 1 .. n |->
                                  IF i = 1 THEN ss[i] ELSE h[i - 1] \o ss[i]]
<1>1. n \in Nat \ {0} BY EmptySeq
<1>2. Flattens(h, ss, n) BY Zenon DEF Flattens
<1>3. FlattenSeq(ss) = h[n] BY <1>1, Zenon DEF FlattenSeq
<1> HIDE DEF h
<1>4. \A i \in 1 .. n : h[i] = f[i]
  <2> HIDE DEF n
  <2>1. n \in Nat /\ n <= n BY <1>1
  <2>2. Flattens(f, ss, n) BY DEF n
  <2> QED BY <1>2, <2>1, <2>2, FlattenUnique
<1> QED BY <1>1, <1>3, <1>4

\* One sequence more.
LEMMA FlattenAppend ==
    ASSUME NEW S, NEW ss \in Seq(Seq(S)), NEW s \in Seq(S)
    PROVE  FlattenSeq(Append(ss, s)) = FlattenSeq(ss) \o s
<1> DEFINE n == Len(ss)
           tt == Append(ss, s)
<1>1. /\ n \in Nat /\ tt \in Seq(Seq(S)) /\ tt # <<>> /\ Len(tt) = n + 1
      /\ n + 1 \in Nat /\ n <= n + 1 /\ n + 1 \in 1 .. n + 1
      /\ \A i \in 1 .. n : tt[i] = ss[i]
      /\ tt[n + 1] = s
  BY AppendProperties
<1> HIDE DEF tt
<1>2. PICK f : Flattens(f, tt, n + 1) BY <1>1, FlattenExists
<1>3. FlattenSeq(tt) = f[n + 1]
  BY <1>1, <1>2, FlattenIs, Zenon
<1>4. /\ n = 0 => f[n + 1] = s
      /\ n # 0 => f[n + 1] = f[n] \o s
  <2> HIDE DEF n
  <2> DEFINE k == n + 1
  <2>0. k \in 1 .. k /\ tt[k] = s /\ (k = 1 <=> n = 0) /\ k - 1 = n BY <1>1
  <2>1. Flattens(f, tt, k) BY <1>2
  <2> HIDE DEF k
  <2>2. f[k] = IF k = 1 THEN tt[k] ELSE f[k - 1] \o tt[k]
    BY <2>0, <2>1, Zenon DEF Flattens
  <2>3. n = 0 => f[k] = s BY <2>0, <2>2, Zenon
  <2>4. n # 0 => f[k] = f[n] \o s BY <2>0, <2>2, Zenon
  <2> QED BY <2>3, <2>4 DEF k
<1>5. CASE n = 0
  <2>1. ss = <<>> BY <1>5, EmptySeq
  <2>2. FlattenSeq(ss) \o s = s BY <2>1, FlattenEmpty, ConcatEmptySeq
  <2> QED BY <1>3, <1>4, <1>5, <2>2 DEF tt
<1>6. CASE n # 0
  <2>1. n \in 1 .. n BY <1>1, <1>6
  <2>2. PICK g : Flattens(g, ss, n) BY <1>1, FlattenExists
  <2>3. FlattenSeq(ss) = g[n]
    <3>1. ss # <<>> BY <1>6
    <3> QED BY <2>2, <3>1, FlattenIs, Zenon
  <2>4. g[n] = f[n]
    <3> HIDE DEF n
    <3>1. \A i \in 1 .. n : ss[i] = tt[i] BY <1>1
    <3>2. \A i \in 1 .. n : g[i] = f[i]
      <4> DEFINE m == n + 1
      <4>1. n \in Nat /\ m \in Nat /\ n <= m /\ Flattens(f, tt, m)
        BY <1>1, <1>2
      <4> HIDE DEF m
      <4> QED BY <2>2, <3>1, <4>1, FlattenUnique
    <3> QED BY <2>1, <3>2
  <2> QED BY <1>3, <1>4, <1>6, <2>3, <2>4, Zenon DEF tt
<1> QED BY <1>5, <1>6

-----------------------------------------------------------------------------
(* Concatenation, and the escape bytes *)

\* Concatenation of bytes, in the forms the proofs below need.
Regroups(r, s, t) == (r \o s) \o t = r \o (s \o t)

\* Bytes joined to bytes are bytes.
LEMMA Joined ==
    ASSUME NEW r \in Seq(Byte), NEW s \in Seq(Byte)
    PROVE  r \o s \in Seq(Byte)
  BY ConcatProperties, Zenon

\* Joining is associative.
LEMMA Regroup ==
    ASSUME NEW r \in Seq(Byte), NEW s \in Seq(Byte), NEW t \in Seq(Byte)
    PROVE  Regroups(r, s, t)
  BY DEF Regroups

\* Joining a byte to the second is joining it to both.
LEMMA ConcatAppend ==
    ASSUME NEW s \in Seq(Byte), NEW t \in Seq(Byte), NEW b \in Byte
    PROVE  s \o Append(t, b) = Append(s \o t, b)
<1>1. <<b>> \in Seq(Byte) /\ s \o t \in Seq(Byte) BY Joined
<1>2. Append(t, b) = t \o <<b>> BY AppendIsConcat, Zenon
<1>3. Append(s \o t, b) = (s \o t) \o <<b>> BY <1>1, AppendIsConcat, Zenon
<1>4. (s \o t) \o <<b>> = s \o (t \o <<b>>) BY <1>1, Regroup DEF Regroups
<1> QED BY <1>2, <1>3, <1>4, Zenon

\* The length and the end of two sequences joined.
LEMMA ConcatLength ==
    ASSUME NEW s \in Seq(Byte), NEW t \in Seq(Byte)
    PROVE  /\ Len(s) \in Nat /\ Len(t) \in Nat
           /\ Len(s \o t) = Len(s) + Len(t)
           /\ t # <<>> => /\ s \o t # <<>>
                         /\ (s \o t)[Len(s \o t)] = t[Len(t)]
<1>1. /\ Len(s) \in Nat /\ Len(t) \in Nat
      /\ Len(s \o t) = Len(s) + Len(t)
      /\ \A i \in 1 .. Len(s) + Len(t) :
            (s \o t)[i] = IF i <= Len(s) THEN s[i] ELSE t[i - Len(s)]
  BY ConcatProperties, LenProperties
<1>2. ASSUME t # <<>>
      PROVE  s \o t # <<>> /\ (s \o t)[Len(s \o t)] = t[Len(t)]
  <2> DEFINE i == Len(s) + Len(t)
  <2>1. Len(t) > 0 BY <1>2, EmptySeq
  <2>2. i \in 1 .. Len(s) + Len(t) /\ ~(i <= Len(s)) /\ i - Len(s) = Len(t)
    BY <1>1, <2>1
  <2>3. (s \o t)[i] = t[i - Len(s)] BY <1>1, <2>2
  <2>4. s \o t # <<>>
    <3>1. Len(s \o t) # 0 BY <1>1, <2>1
    <3> QED BY <3>1
  <2> QED BY <1>1, <2>2, <2>3, <2>4
<1> QED BY <1>1, <1>2

\* A byte as it stands in a frame.
EscapedByte(b) == IF b \in Special THEN <<b, EscapeByte>> ELSE <<b>>

\* A byte and its escape byte are bytes, one at least.
LEMMA EscapedByteType ==
    ASSUME NEW b \in Byte
    PROVE  /\ EscapedByte(b) \in Seq(Byte)
           /\ EscapedByte(b) # <<>> /\ Len(EscapedByte(b)) >= 1
  BY ByteAssumption DEF EscapedByte, Special

\* Nothing is escaped by nothing.
LEMMA EscapedEmpty == Escaped(<<>>) = <<>>
<1> DEFINE ss == [i \in DOMAIN <<>> |->
                    IF <<>>[i] \in Special THEN << <<>>[i], EscapeByte>>
                                           ELSE << <<>>[i] >>]
<1>1. DOMAIN <<>> = {} OBVIOUS
<1>2. ss = <<>>
  <2> HIDE DEF ss
  <2>1. ss = [i \in {} |-> EscapedByte(<<>>[i])] BY <1>1 DEF ss, EscapedByte
  <2> QED BY <2>1
<1>3. Escaped(<<>>) = FlattenSeq(ss) BY DEF Escaped
<1> QED BY <1>2, <1>3, FlattenEmpty

\* Escaped in terms of the bytes escaped one by one.
LEMMA EscapedIs ==
    ASSUME NEW s \in Seq(Byte)
    PROVE  /\ Escaped(s) = FlattenSeq([i \in 1 .. Len(s) |-> EscapedByte(s[i])])
           /\ [i \in 1 .. Len(s) |-> EscapedByte(s[i])] \in Seq(Seq(Byte))
<1>1. DOMAIN s = 1 .. Len(s) /\ Len(s) \in Nat BY LenProperties
<1>2. Escaped(s) = FlattenSeq([i \in 1 .. Len(s) |-> EscapedByte(s[i])])
  BY <1>1, Zenon DEF Escaped, EscapedByte
<1>3. \A i \in 1 .. Len(s) : EscapedByte(s[i]) \in Seq(Byte)
  BY ElementOfSeq, EscapedByteType
<1> QED BY <1>1, <1>2, <1>3

\* One more byte.
LEMMA EscapedAppend ==
    ASSUME NEW s \in Seq(Byte), NEW b \in Byte
    PROVE  Escaped(Append(s, b)) = Escaped(s) \o EscapedByte(b)
<1> DEFINE E(t) == [i \in 1 .. Len(t) |-> EscapedByte(t[i])]
           t == Append(s, b)
<1>1. /\ t \in Seq(Byte) /\ Len(t) = Len(s) + 1 /\ Len(s) \in Nat
      /\ \A i \in 1 .. Len(s) : t[i] = s[i]
      /\ t[Len(s) + 1] = b
  BY AppendProperties
<1>2. EscapedByte(b) \in Seq(Byte) BY EscapedByteType
<1>3. E(s) \in Seq(Seq(Byte)) /\ Escaped(s) = FlattenSeq(E(s)) BY EscapedIs
<1> HIDE DEF t
<1>4. E(t) \in Seq(Seq(Byte)) /\ Escaped(t) = FlattenSeq(E(t))
  BY <1>1, EscapedIs
<1>5. E(t) = Append(E(s), EscapedByte(b))
  <2> DEFINE e == E(t)
             f == E(s)
             c == EscapedByte(b)
             g == Append(f, c)
  <2>1. Len(f) = Len(s) /\ Len(e) = Len(s) + 1 BY <1>1
  <2>2. \A i \in 1 .. Len(s) : f[i] = EscapedByte(s[i]) OBVIOUS
  <2>3. \A i \in 1 .. Len(s) + 1 : e[i] = EscapedByte(t[i]) BY <1>1
  <2>4. e \in Seq(Seq(Byte)) /\ f \in Seq(Seq(Byte)) /\ c \in Seq(Byte)
    BY <1>2, <1>3, <1>4
  <2> HIDE DEF e, f, c
  <2>5. /\ g \in Seq(Seq(Byte)) /\ Len(g) = Len(f) + 1
        /\ \A i \in 1 .. Len(f) : g[i] = f[i]
        /\ g[Len(f) + 1] = c
    BY <2>4, AppendProperties
  <2> HIDE DEF g
  <2>6. ASSUME NEW i \in 1 .. Len(s) + 1 PROVE e[i] = g[i]
    <3>1. CASE i \in 1 .. Len(s)
      BY <1>1, <2>1, <2>2, <2>3, <2>5, <3>1
    <3>2. CASE i = Len(s) + 1
      BY <1>1, <2>1, <2>3, <2>5, <3>2 DEF c
    <3> QED BY <1>1, <3>1, <3>2
  <2>7. e = g BY <2>1, <2>4, <2>5, <2>6, SeqEqual
  <2> QED BY <2>7 DEF e, f, c, g
<1>6. FlattenSeq(Append(E(s), EscapedByte(b))) = FlattenSeq(E(s)) \o EscapedByte(b)
  <2> DEFINE f == E(s)
             c == EscapedByte(b)
  <2>1. f \in Seq(Seq(Byte)) /\ c \in Seq(Byte) BY <1>2, <1>3
  <2> HIDE DEF f, c
  <2>2. FlattenSeq(Append(f, c)) = FlattenSeq(f) \o c BY <2>1, FlattenAppend
  <2> QED BY <2>2 DEF f, c
<1> HIDE DEF E
<1> QED BY <1>3, <1>4, <1>5, <1>6, Zenon DEF t

\* Escaping lengthens, and what it does not lengthen it leaves alone.
LEMMA EscapedType ==
    ASSUME NEW s \in Seq(Byte)
    PROVE  Escaped(s) \in Seq(Byte) /\ Len(Escaped(s)) \in Nat /\ Len(Escaped(s)) >= Len(s)
<1> DEFINE Good(t) == Escaped(t) \in Seq(Byte) /\ Len(Escaped(t)) >= Len(t)
           T == {t \in Seq(Byte) : ~Good(t)}
<1>1. T = {}
  <2> SUFFICES ASSUME T # {} PROVE FALSE OBVIOUS
  <2>1. PICK t \in T : \/ t = <<>>
                       \/ \E r \in Seq(Byte) \ T, b \in Byte : t = Append(r, b)
    <3>1. T \subseteq Seq(Byte) OBVIOUS
    <3> HIDE DEF T
    <3> QED BY <3>1, LeastSequence
  <2>2. CASE t = <<>> 
    <3>1. <<>> \in Seq(Byte) /\ Len(<<>>) >= Len(<<>>) OBVIOUS
    <3>2. Good(<<>>) BY <3>1, EscapedEmpty, Zenon
    <3> HIDE DEF Good
    <3> QED BY <2>2, <3>2
  <2>3. ASSUME NEW r \in Seq(Byte) \ T, NEW b \in Byte, t = Append(r, b)
        PROVE  FALSE
    <3>1. Good(r) OBVIOUS
    <3> DEFINE e == Escaped(r)
               p == EscapedByte(b)
    <3>2. p \in Seq(Byte) /\ p # <<>> /\ Len(p) >= 1 BY EscapedByteType
    <3>3. Escaped(t) = e \o p BY <2>3, EscapedAppend
    <3>4. Len(t) = Len(r) + 1 /\ Len(r) \in Nat BY <2>3
    <3> HIDE DEF p
    <3>5. e \in Seq(Byte) /\ Len(e) >= Len(r) BY <3>1
    <3> HIDE DEF e
    <3>6. e \o p \in Seq(Byte) /\ Len(e \o p) = Len(e) + Len(p) /\ Len(e) \in Nat
      BY <3>2, <3>5, Joined, ConcatLength
    <3>7. Len(e \o p) >= Len(t)
      <4> HIDE DEF T, Good
      <4>1. \A i, j, k, l, m \in Nat :
              i = k + 1 /\ l = j + m /\ j >= k /\ m >= 1 => l >= i
        OBVIOUS
      <4>2. Len(p) \in Nat /\ Len(p) >= 1 BY <3>2, LenProperties
      <4>3. Len(e \o p) \in Nat /\ Len(t) \in Nat BY <3>4, <3>6, <4>2
      <4> QED BY <3>4, <3>5, <3>6, <4>1, <4>2, <4>3
    <3>8. Good(t) BY <3>3, <3>6, <3>7, Zenon
    <3> HIDE DEF Good
    <3> QED BY <3>8
  <2> QED BY <2>1, <2>2, <2>3
<1>2. Good(s) BY <1>1
<1> QED BY <1>2

\* Sequences are escaped piece by piece.
LEMMA EscapedConcat ==
    ASSUME NEW s \in Seq(Byte), NEW t \in Seq(Byte)
    PROVE  Escaped(s \o t) = Escaped(s) \o Escaped(t)
<1> DEFINE Good(u) == Escaped(s \o u) = Escaped(s) \o Escaped(u)
           T == {u \in Seq(Byte) : ~Good(u)}
<1>1. T = {}
  <2> SUFFICES ASSUME T # {} PROVE FALSE OBVIOUS
  <2>1. PICK u \in T : \/ u = <<>>
                       \/ \E r \in Seq(Byte) \ T, b \in Byte : u = Append(r, b)
    <3>1. T \subseteq Seq(Byte) OBVIOUS
    <3> HIDE DEF T
    <3> QED BY <3>1, LeastSequence
  <2>2. CASE u = <<>>
    <3>1. s \o <<>> = s BY ConcatEmptySeq
    <3>2. Escaped(s) \o <<>> = Escaped(s)
      <4> DEFINE e == Escaped(s)
      <4>1. e \in Seq(Byte) BY EscapedType
      <4> HIDE DEF e
      <4>2. e \o <<>> = e BY <4>1, ConcatEmptySeq
      <4> QED BY <4>2 DEF e
    <3>3. Good(<<>>) BY <3>1, <3>2, EscapedEmpty, Zenon
    <3> HIDE DEF Good
    <3> QED BY <2>2, <3>3
  <2>3. ASSUME NEW r \in Seq(Byte) \ T, NEW b \in Byte, u = Append(r, b)
        PROVE  FALSE
    <3>1. r \in Seq(Byte) /\ Escaped(s \o r) = Escaped(s) \o Escaped(r) OBVIOUS
    <3> DEFINE p == EscapedByte(b)
               e == Escaped(s)
               f == Escaped(r)
               sr == s \o r
    <3>2. p \in Seq(Byte) /\ e \in Seq(Byte) /\ f \in Seq(Byte)
      BY <3>1, EscapedByteType, EscapedType
    <3>3. sr \in Seq(Byte) /\ s \o Append(r, b) = Append(sr, b)
      <4>1. s \o r \in Seq(Byte) BY <3>1, Joined
      <4>2. s \o Append(r, b) = Append(s \o r, b) BY <3>1, ConcatAppend
      <4> QED BY <4>1, <4>2
    <3> HIDE DEF sr
    <3>4. Escaped(Append(sr, b)) = Escaped(sr) \o p BY <3>3, EscapedAppend
    <3>5. Escaped(u) = f \o p BY <2>3, <3>1, EscapedAppend
    <3>6. Escaped(sr) = e \o f BY <3>1 DEF sr
    <3> HIDE DEF p, e, f
    <3>7. (e \o f) \o p = e \o (f \o p)
      <4>1. Regroups(e, f, p) BY <3>2, Regroup
      <4> QED BY <4>1, Zenon DEF Regroups
    <3>8. Escaped(s \o u) = e \o Escaped(u)
      BY <2>3, <3>3, <3>4, <3>5, <3>6, <3>7, Zenon
    <3>9. Good(u) BY <3>8 DEF e
    <3> HIDE DEF Good
    <3> QED BY <3>9
  <2> QED BY <2>1, <2>2, <2>3
<1>2. Good(t) BY <1>1
<1> QED BY <1>2

\* One byte, escaped.
LEMMA EscapedOne ==
    ASSUME NEW b \in Byte
    PROVE  Escaped(<<b>>) = EscapedByte(b)
<1>1. <<b>> = Append(<<>>, b) /\ <<>> \in Seq(Byte) OBVIOUS
<1>2. Escaped(<<b>>) = Escaped(<<>>) \o EscapedByte(b) BY <1>1, EscapedAppend
<1>3. <<>> \o EscapedByte(b) = EscapedByte(b)
  BY EscapedByteType, ConcatEmptySeq
<1> QED BY <1>2, <1>3, EscapedEmpty

\* The first byte of what is left of a sequence.
LEMMA EscapedRest ==
    ASSUME NEW s \in Seq(Byte), NEW k \in 0 .. Len(s) - 1
    PROVE  /\ s[k + 1] \in Byte
           /\ SubSeq(s, k + 2, Len(s)) \in Seq(Byte)
           /\ Escaped(SubSeq(s, k + 1, Len(s)))
                = EscapedByte(s[k + 1]) \o Escaped(SubSeq(s, k + 2, Len(s)))
<1> DEFINE c == s[k + 1]
           r == SubSeq(s, k + 2, Len(s))
<1>1. Len(s) \in Nat /\ k + 1 \in 1 .. Len(s) /\ Len(s) \in k + 1 .. Len(s)
      /\ k + 1 + 1 = k + 2
  OBVIOUS
<1>2. c \in Byte BY <1>1, ElementOfSeq
<1>3. r \in Seq(Byte)
  <2>1. \A i \in k + 2 .. Len(s) : s[i] \in Byte BY <1>1, ElementOfSeq
  <2> QED BY <1>1, <2>1, SubSeqProperties
<1>4. SubSeq(s, k + 1, Len(s)) = <<c>> \o r
  <2> DEFINE m == k + 1
  <2>1. m \in 1 .. Len(s) /\ Len(s) \in m .. Len(s) /\ m + 1 = k + 2 BY <1>1
  <2> HIDE DEF m
  <2>2. SubSeq(s, m, Len(s)) = <<s[m]>> \o SubSeq(s, m + 1, Len(s))
    BY <2>1, SubSeqRecursiveFirst
  <2> QED BY <2>1, <2>2, Zenon DEF m
<1> HIDE DEF c, r
<1>5. <<c>> \in Seq(Byte) BY <1>2
<1>6. Escaped(<<c>> \o r) = Escaped(<<c>>) \o Escaped(r)
  BY <1>3, <1>5, EscapedConcat
<1>7. Escaped(<<c>>) = EscapedByte(c) BY <1>2, EscapedOne
<1>8. Escaped(SubSeq(s, k + 1, Len(s))) = EscapedByte(c) \o Escaped(r)
  BY <1>4, <1>6, <1>7, Zenon
<1> QED BY <1>2, <1>3, <1>8, Zenon DEF c, r

\* No escaped sequence ends like a footer.
LEMMA EscapedEnd ==
    ASSUME FooterByte # EscapeByte, NEW s \in Seq(Byte), s # <<>>
    PROVE  /\ Escaped(s) # <<>>
           /\ Escaped(s)[Len(Escaped(s))] # FooterByte
<1>1. PICK r \in Seq(Byte), b \in Byte : s = Append(r, b)
  BY SequenceEmptyOrAppend
<1> DEFINE e == Escaped(r)
           p == EscapedByte(b)
<1>2. Escaped(s) = e \o p BY <1>1, EscapedAppend
<1>3. e \in Seq(Byte) /\ p \in Seq(Byte) /\ p # <<>> /\ Len(p) >= 1
  BY EscapedType, EscapedByteType
<1>4. p[Len(p)] # FooterByte
  BY DEF EscapedByte, Special
<1> HIDE DEF e, p
<1>5. e \o p # <<>> /\ (e \o p)[Len(e \o p)] = p[Len(p)]
  BY <1>3, ConcatLength
<1> QED BY <1>2, <1>4, <1>5, Zenon

-----------------------------------------------------------------------------
(* Runs of one byte *)

\* A run of one byte.
LEMMA RepeatType ==
    ASSUME NEW b \in Byte, NEW n \in Nat
    PROVE  /\ Repeat(b, n) \in Seq(Byte)
           /\ Len(Repeat(b, n)) = n
           /\ \A i \in 1 .. n : Repeat(b, n)[i] = b
  BY DEF Repeat

\* No byte at all.
LEMMA RepeatNone == ASSUME NEW b PROVE Repeat(b, 0) = <<>>
<1>1. 1 .. 0 = {} OBVIOUS
<1>2. Repeat(b, 0) = [i \in {} |-> b] BY <1>1 DEF Repeat
<1> QED BY <1>2

\* One more, at either end.
LEMMA RepeatMore ==
    ASSUME NEW b \in Byte, NEW n \in Nat
    PROVE  /\ Repeat(b, n + 1) = Append(Repeat(b, n), b)
           /\ Repeat(b, n + 1) = <<b>> \o Repeat(b, n)
<1>1. PICK r : r = Repeat(b, n) OBVIOUS
<1>2. PICK t : t = Repeat(b, n + 1) OBVIOUS
<1>3. r \in Seq(Byte) /\ Len(r) = n /\ \A i \in 1 .. n : r[i] = b
  BY <1>1, RepeatType
<1>4. t \in Seq(Byte) /\ Len(t) = n + 1 /\ \A i \in 1 .. n + 1 : t[i] = b
  <2>1. n + 1 \in Nat OBVIOUS
  <2> QED BY <1>2, <2>1, RepeatType
<1>5. t = Append(r, b)
  <2>1. PICK u : u = Append(r, b) OBVIOUS
  <2>2. /\ u \in Seq(Byte) /\ Len(u) = n + 1
        /\ \A i \in 1 .. n : u[i] = r[i]
        /\ u[n + 1] = b
    BY <1>3, <2>1, AppendProperties
  <2>3. \A i \in 1 .. n + 1 : u[i] = b BY <1>3, <2>2
  <2>4. t = u BY <1>4, <2>2, <2>3, SeqEqual
  <2> QED BY <2>1, <2>4
<1>6. t = <<b>> \o r
  <2>1. PICK u : u = <<b>> \o r OBVIOUS
  <2>2. <<b>> \in Seq(Byte) /\ Len(<<b>>) = 1 /\ <<b>>[1] = b OBVIOUS
  <2>3. /\ u \in Seq(Byte) /\ Len(u) = 1 + n
        /\ \A i \in 1 .. 1 + n : u[i] = IF i <= 1 THEN <<b>>[i] ELSE r[i - 1]
    BY <1>3, <2>1, <2>2, ConcatProperties
  <2>4. \A i \in 1 .. n + 1 : u[i] = b
    <3> SUFFICES ASSUME NEW i \in 1 .. n + 1 PROVE u[i] = b OBVIOUS
    <3>1. CASE i = 1 BY <2>2, <2>3, <3>1
    <3>2. CASE i # 1
      <4>1. i - 1 \in 1 .. n /\ ~(i <= 1) BY <3>2
      <4> QED BY <1>3, <2>3, <4>1
    <3> QED BY <3>1, <3>2
  <2>5. t = u BY <1>4, <2>3, <2>4, SeqEqual
  <2> QED BY <2>1, <2>5
<1> QED BY <1>1, <1>2, <1>5, <1>6

-----------------------------------------------------------------------------
(* What the parser has read *)

\* The bytes of the frame between its header and its footer, read so far.
Read == IF curr_state = "LENGTH"
          THEN SubSeq(LengthBytes(expected_length), 1, count)
          ELSE LengthBytes(expected_length) \o buffer

\* The escape byte the parser expects next.
Escaping == IF escape_expected THEN <<EscapeByte>> ELSE <<>>

\* The parser is somewhere a frame can have led it.
ParserShape ==
    /\ curr_state = "HEADER" => /\ ~escape_expected
                                /\ count < HeaderSize
                                /\ expected_length = 0
    /\ curr_state = "FOOTER" /\ escape_expected => count = 0
    /\ curr_state = "LENGTH" =>
         \A i \in count + 1 .. LengthSize : LengthBytes(expected_length)[i] = 0

\* The bytes since the parser started, and the escape byte it expects, are
\* the beginning of the frame of what it has read.
SeenIsRead ==
    /\ curr_state = "HEADER" => seen = Repeat(HeaderByte, count)
    /\ curr_state \in {"LENGTH", "PAYLOAD"} =>
         seen \o Escaping = Repeat(HeaderByte, HeaderSize) \o Escaped(Read)
    /\ curr_state = "FOOTER" =>
         seen \o Escaping = (Repeat(HeaderByte, HeaderSize) \o Escaped(Read))
                              \o Repeat(FooterByte, count)

LinkTypeOK ==
    /\ wire \in Seq(Byte)
    /\ sent \in Seq(Byte)
    /\ seen \in Seq(Byte)

LinkInv == PacketiserInv /\ LinkTypeOK /\ ParserShape /\ SeenIsRead

\* The bytes and the sizes that frame a payload.
LEMMA SpecialBytes ==
    /\ HeaderByte \in Byte /\ FooterByte \in Byte /\ EscapeByte \in Byte
    /\ HeaderSize \in Nat /\ LengthSize \in Nat /\ FooterSize \in Nat
  BY ByteAssumption, SizeAssumption DEF Special

\* After b, x and the escape byte that follows are r and s with b escaped.
ReadsOn(x, b, r, s) ==
    Append(x, b) \o (IF b \in Special THEN <<EscapeByte>> ELSE <<>>)
      = r \o Escaped(Append(s, b))

\* A byte between header and footer is read as it is escaped.
LEMMA ByteRead ==
    ASSUME NEW r \in Seq(Byte), NEW s \in Seq(Byte), NEW x \in Seq(Byte),
           NEW b \in Byte, x = r \o Escaped(s)
    PROVE  ReadsOn(x, b, r, s)
<1>1. PICK e : e = Escaped(s) OBVIOUS
<1>2. PICK p : p = EscapedByte(b) OBVIOUS
<1>3. e \in Seq(Byte) /\ p \in Seq(Byte) /\ <<b>> \in Seq(Byte)
  BY <1>1, <1>2, EscapedType, EscapedByteType
<1>4. Escaped(Append(s, b)) = e \o p
  BY <1>1, <1>2, EscapedAppend
<1>5. (r \o e) \o p = r \o (e \o p)
  <2>1. Regroups(r, e, p) BY <1>3, Regroup
  <2> QED BY <2>1, Zenon DEF Regroups
<1>6. Append(x, b) = x \o <<b>>
  BY AppendIsConcat, Zenon
<1>7. Append(x, b) \o (IF b \in Special THEN <<EscapeByte>> ELSE <<>>) = x \o p
  <2>1. CASE b \in Special
    <3>1. PICK k : k = <<EscapeByte>> OBVIOUS
    <3>2. k \in Seq(Byte) BY <3>1, ByteAssumption DEF Special
    <3>3. (x \o <<b>>) \o k = x \o (<<b>> \o k)
      <4>1. PICK o : o = <<b>> OBVIOUS
      <4>2. o \in Seq(Byte) BY <1>3, <4>1
      <4>3. Regroups(x, o, k) BY <3>2, <4>2, Regroup
      <4> QED BY <4>1, <4>3, Zenon DEF Regroups
    <3>4. <<b>> \o k = p
      <4>1. p = <<b, EscapeByte>> BY <1>2, <2>1 DEF EscapedByte
      <4>2. <<b>> \o k = Append(<<b>>, EscapeByte)
        BY <1>3, <3>1, SpecialBytes, AppendIsConcat, Zenon
      <4>3. PICK u : u = Append(<<b>>, EscapeByte) OBVIOUS
      <4>4. <<b>> \in Seq(Byte) /\ Len(<<b>>) = 1 /\ <<b>>[1] = b OBVIOUS
      <4>5. u \in Seq(Byte) /\ Len(u) = 1 + 1 /\ u[1] = b /\ u[1 + 1] = EscapeByte
        BY <4>3, <4>4, SpecialBytes, AppendProperties
      <4>6. p \in Seq(Byte) /\ Len(p) = 2 /\ p[1] = b /\ p[2] = EscapeByte
        BY <1>3, <4>1
      <4>7. Len(p) = Len(u) /\ \A i \in 1 .. Len(p) : p[i] = u[i]
        BY <4>5, <4>6
      <4>8. p = u BY <4>5, <4>6, <4>7, SeqEqual
      <4> QED BY <4>2, <4>3, <4>8, Zenon
    <3> QED BY <1>6, <2>1, <3>1, <3>3, <3>4, Zenon
  <2>2. CASE b \notin Special
    <3>1. p = <<b>> BY <1>2, <2>2 DEF EscapedByte
    <3>2. Append(x, b) \in Seq(Byte) OBVIOUS
    <3>3. Append(x, b) \o <<>> = Append(x, b) BY <3>2, ConcatEmptySeq, Zenon
    <3> QED BY <1>6, <2>2, <3>1, <3>3, Zenon
  <2> QED BY <2>1, <2>2
<1> QED BY <1>1, <1>4, <1>5, <1>7, Zenon DEF ReadsOn

\* A byte adds its digit to the length.
LEMMA AppendLengthByteIs ==
    ASSUME NEW b \in Byte, count \in Nat
    PROVE  AppendLengthByte(b) = expected_length + b * Weight(count + 1)
<1>1. count + 1 - 1 = count /\ LengthSize - (count + 1) = LengthSize - count - 1
  BY SizeAssumption
<1> DEFINE p == IF LittleEndian THEN count ELSE LengthSize - count - 1
<1>2. Place(count + 1) = p
  <2>1. CASE LittleEndian BY <1>1, <2>1 DEF Place
  <2>2. CASE ~LittleEndian BY <1>1, <2>2 DEF Place
  <2> QED BY <2>1, <2>2
<1>3. AppendLengthByte(b) = expected_length + b * 2 ^ (ByteBits * p)
  BY DEF AppendLengthByte
<1>4. Weight(count + 1) = 2 ^ (ByteBits * Place(count + 1)) BY DEF Weight
<1> HIDE DEF p
<1> QED BY <1>2, <1>3, <1>4

-----------------------------------------------------------------------------
(* Every byte extends what the parser has read *)

\* After a reset the parser has read nothing.
LEMMA ResetReadsNothing ==
    ASSUME ResetParser, NEW b, Receive(b)
    PROVE  /\ AtStart' /\ seen' = <<>>
           /\ ParserShape' /\ SeenIsRead'
<1>1. /\ curr_state' = "HEADER" /\ count' = 0 /\ expected_length' = 0
      /\ escape_expected' = FALSE
  BY DEF ResetParser
<1>2. AtStart' BY <1>1 DEF AtStart
<1>3. seen' = <<>> BY <1>2 DEF Receive
<1>4. ParserShape' BY <1>1, SizeAssumption DEF ParserShape
<1>5. SeenIsRead' BY <1>1, <1>3, RepeatNone DEF SeenIsRead
<1> QED BY <1>2, <1>3, <1>4, <1>5

\* What the parser has read is bytes.
LEMMA ReadType ==
    ASSUME PacketiserInv, curr_state # "HEADER"
    PROVE  Read \in Seq(Byte)
<1>1. PICK l : l = LengthBytes(expected_length) OBVIOUS
<1>2. l \in Seq(Byte) /\ Len(l) = LengthSize
  BY <1>1, LengthByteAt DEF PacketiserInv, PacketiserTypeOK
<1>3. CASE curr_state = "LENGTH"
  <2>1. count \in Nat /\ count < LengthSize /\ LengthSize \in Nat
    BY <1>3, SpecialBytes DEF PacketiserInv, PacketiserTypeOK, PayloadWithinLength
  <2>2. \A i \in 1 .. count : l[i] \in Byte
    BY <1>2, <2>1, ElementOfSeq
  <2>3. SubSeq(l, 1, count) \in Seq(Byte)
    BY <2>1, <2>2, SubSeqProperties
  <2> QED BY <1>1, <1>3, <2>3 DEF Read
<1>4. CASE curr_state # "LENGTH"
  <2>1. buffer \in Seq(Byte) BY DEF PacketiserInv, PacketiserTypeOK
  <2>2. l \o buffer \in Seq(Byte) BY <1>2, <2>1, Joined
  <2> QED BY <1>1, <1>4, <2>2 DEF Read
<1> QED BY <1>3, <1>4

\* One more byte of the length.
LEMMA LengthByteRead ==
    ASSUME PacketiserInv, ParserShape, curr_state = "LENGTH",
           NEW b \in Byte, expected_length' = AppendLengthByte(b)
    PROVE  /\ SubSeq(LengthBytes(expected_length'), 1, count + 1)
                = Append(SubSeq(LengthBytes(expected_length), 1, count), b)
           /\ \A i \in count + 2 .. LengthSize :
                LengthBytes(expected_length')[i] = 0
<1>1. PICK n : n = expected_length OBVIOUS
<1>2. PICK m : m = expected_length' OBVIOUS
<1>3. PICK k : k = LengthBytes(n) OBVIOUS
<1>4. PICK l : l = LengthBytes(m) OBVIOUS
<1>5. /\ n \in Nat /\ count \in Nat /\ count < LengthSize /\ LengthSize \in Nat
      /\ count + 1 \in 1 .. LengthSize
  BY <1>1, SpecialBytes DEF PacketiserInv, PacketiserTypeOK, PayloadWithinLength
<1>6. \A i \in count + 1 .. LengthSize : k[i] = 0
  BY <1>1, <1>3 DEF ParserShape
<1>7. k[count + 1] = 0 BY <1>5, <1>6
<1>8. m = n + b * Weight(count + 1)
  BY <1>1, <1>2, <1>5, AppendLengthByteIs
<1>9. PICK c : c = count + 1 OBVIOUS
<1>10. c \in 1 .. LengthSize /\ LengthBytes(n)[c] = 0 BY <1>3, <1>5, <1>7, <1>9
<1>11. /\ m \in Nat
       /\ l[c] = b
       /\ \A j \in 1 .. LengthSize \ {c} : l[j] = k[j]
  BY <1>3, <1>4, <1>5, <1>8, <1>9, <1>10, LengthByteAdded
<1>12. /\ k \in Seq(Byte) /\ Len(k) = LengthSize
       /\ l \in Seq(Byte) /\ Len(l) = LengthSize
  BY <1>3, <1>4, <1>5, <1>11, LengthByteAt
<1>13. SubSeq(l, 1, c) = Append(SubSeq(k, 1, count), b)
  <2>1. SubSeq(l, 1, c) = SubSeq(l, 1, c - 1) \o <<l[c]>>
    <3>1. 1 \in 1 .. Len(l) /\ c \in 1 .. Len(l) BY <1>10, <1>12
    <3> QED BY <1>12, <3>1, SubSeqRecursiveSecond
  <2>2. c - 1 = count BY <1>5, <1>9
  <2>3. SubSeq(l, 1, count) = SubSeq(k, 1, count)
    <3>1. \A i \in 1 .. count : i \in 1 .. LengthSize \ {c} BY <1>5, <1>9
    <3>2. \A i \in 1 .. count : l[i] = k[i] BY <1>11, <3>1
    <3>3. \A i \in 1 .. count : l[i] \in Byte /\ k[i] \in Byte
      BY <1>12, <3>1, ElementOfSeq
    <3>4. PICK s : s = SubSeq(l, 1, count) OBVIOUS
    <3>5. PICK t : t = SubSeq(k, 1, count) OBVIOUS
    <3>6. /\ s \in Seq(Byte) /\ Len(s) = (IF 1 <= count THEN count - 1 + 1 ELSE 0)
          /\ \A i \in 1 .. count - 1 + 1 : s[i] = l[1 + i - 1]
      BY <1>5, <3>3, <3>4, SubSeqProperties
    <3>7. /\ t \in Seq(Byte) /\ Len(t) = (IF 1 <= count THEN count - 1 + 1 ELSE 0)
          /\ \A i \in 1 .. count - 1 + 1 : t[i] = k[1 + i - 1]
      BY <1>5, <3>3, <3>5, SubSeqProperties
    <3>8. Len(s) = Len(t) /\ \A i \in 1 .. Len(s) : s[i] = t[i]
      BY <1>5, <3>2, <3>6, <3>7
    <3>9. s = t BY <3>6, <3>7, <3>8, SeqEqual
    <3> QED BY <3>4, <3>5, <3>9
  <2>4. PICK s : s = SubSeq(k, 1, count) OBVIOUS
  <2>5. s \in Seq(Byte)
    <3>1. \A i \in 1 .. count : k[i] \in Byte BY <1>5, <1>12, ElementOfSeq
    <3> QED BY <1>5, <2>4, <3>1, SubSeqProperties
  <2>6. Append(s, b) = s \o <<b>> BY <2>5, AppendIsConcat, Zenon
  <2> QED BY <1>11, <2>1, <2>2, <2>3, <2>4, <2>6, Zenon
<1>14. \A i \in count + 2 .. LengthSize : l[i] = 0
  <2> SUFFICES ASSUME NEW i \in count + 2 .. LengthSize PROVE l[i] = 0 OBVIOUS
  <2>1. i \in 1 .. LengthSize \ {c} /\ i \in count + 1 .. LengthSize
    BY <1>5, <1>9
  <2> QED BY <1>6, <1>11, <2>1
<1> QED BY <1>1, <1>2, <1>3, <1>4, <1>9, <1>13, <1>14

\* Every byte the parser takes extends what it has read the way a frame does.
LEMMA ReceiveKeepsRead ==
    ASSUME PacketiserInv, ParserShape, SeenIsRead, seen \in Seq(Byte),
           NEW b \in Byte, Receive(b)
    PROVE  /\ ParserShape' /\ SeenIsRead'
           /\ seen' \in Seq(Byte)
<1> USE DEF PacketiserInv, PacketiserTypeOK, PayloadWithinLength
<1>1. seen' \in Seq(Byte)
  <2>1. <<>> \in Seq(Byte) /\ Append(seen, b) \in Seq(Byte) OBVIOUS
  <2> QED BY <2>1 DEF Receive
<1>2. AddByte(b) BY DEF Receive
<1>3. CASE ResetParser BY <1>1, <1>3, ResetReadsNothing
<1>4. PICK R : R = Repeat(HeaderByte, HeaderSize) OBVIOUS
<1>5. R \in Seq(Byte) BY <1>4, SpecialBytes, RepeatType
<1>6. PICK s : s = Append(seen, b) OBVIOUS
<1>7. ~AtStart' => seen' = s BY <1>6 DEF Receive
<1>8. s \in Seq(Byte) /\ s \o <<>> = s /\ seen \o <<>> = seen
  BY <1>6, ConcatEmptySeq
<1>9. ~escape_expected => Escaping = <<>> BY DEF Escaping
<1>10. CASE EscapeByteSeen(b)
  <2>1. /\ escape_expected /\ b = EscapeByte /\ escape_expected' = FALSE
        /\ UNCHANGED <<curr_state, count, expected_length, buffer>>
    BY <1>10 DEF EscapeByteSeen
  <2>2. curr_state # "HEADER" BY <2>1 DEF ParserShape
  <2>3. seen' = s BY <1>7, <2>1, <2>2 DEF AtStart
  <2>4. Escaping = <<EscapeByte>> /\ Escaping' = <<>> BY <2>1 DEF Escaping
  <2>5. seen' \o Escaping' = seen \o Escaping
    <3>1. Append(seen, b) = seen \o <<b>> BY AppendIsConcat, Zenon
    <3> QED BY <1>6, <1>8, <2>1, <2>3, <2>4, <3>1, Zenon
  <2>6. Read' = Read BY <2>1 DEF Read
  <2>7. ParserShape' BY <2>1, <2>2 DEF ParserShape
  <2>8. SeenIsRead' BY <2>1, <2>2, <2>5, <2>6 DEF SeenIsRead
  <2> QED BY <1>1, <2>7, <2>8
<1>11. CASE HeaderByteSeen(b)
  <2>1. /\ ~escape_expected /\ curr_state = "HEADER" /\ b = HeaderByte
        /\ UNCHANGED <<expected_length, buffer>>
        /\ escape_expected' = FALSE
    BY <1>11 DEF HeaderByteSeen, EscapeNeeded
  <2>2. /\ seen = Repeat(HeaderByte, count) /\ count < HeaderSize
        /\ expected_length = 0
    BY <2>1 DEF ParserShape, SeenIsRead
  <2>3. s = Repeat(HeaderByte, count + 1)
    BY <1>6, <2>1, <2>2, SpecialBytes, RepeatMore
  <2>4. CASE count + 1 = HeaderSize
    <3>1. curr_state' = "LENGTH" /\ count' = 0
      BY <1>11, <2>4 DEF HeaderByteSeen, SetState
    <3>2. seen' = s BY <1>7, <3>1 DEF AtStart
    <3>3. Read' = <<>>
      <4>1. Read' = SubSeq(LengthBytes(expected_length'), 1, 0)
        BY <3>1 DEF Read
      <4> QED BY <4>1, SubSeqEmpty
    <3>4. Escaping' = <<>> BY <2>1 DEF Escaping
    <3>5. Escaped(Read') = <<>> BY <3>3, EscapedEmpty
    <3>6. seen' \o Escaping' = R /\ R \o Escaped(Read') = R
      <4>1. R \o <<>> = R BY <1>5, ConcatEmptySeq
      <4>2. s = R BY <1>4, <2>3, <2>4
      <4> QED BY <3>2, <3>4, <3>5, <4>1, <4>2, Zenon
    <3>7. SeenIsRead' BY <1>4, <3>1, <3>6 DEF SeenIsRead
    <3>8. ParserShape'
      <4>1. \A i \in 1 .. LengthSize : LengthBytes(expected_length')[i] = 0
        BY <2>1, <2>2, NoLength
      <4> QED BY <3>1, <4>1 DEF ParserShape
    <3> QED BY <1>1, <3>7, <3>8
  <2>5. CASE count + 1 # HeaderSize
    <3>1. curr_state' = "HEADER" /\ count' = count + 1
      BY <1>11, <2>1, <2>5 DEF HeaderByteSeen
    <3>2. seen' = s BY <1>7, <3>1 DEF AtStart
    <3>3. SeenIsRead' BY <2>3, <3>1, <3>2 DEF SeenIsRead
    <3>4. ParserShape'
      BY <2>1, <2>2, <2>5, <3>1, SpecialBytes DEF ParserShape
    <3> QED BY <1>1, <3>3, <3>4
  <2> QED BY <2>4, <2>5
\* A byte of the length or the payload.
<1>12. ASSUME curr_state \in {"LENGTH", "PAYLOAD"}, ~escape_expected,
              curr_state' # "HEADER",
              escape_expected' = EscapeNeeded(b), Read' = Append(Read, b)
       PROVE  seen' \o Escaping' = R \o Escaped(Read')
  <2>1. PICK r : r = Read OBVIOUS
  <2>2. r \in Seq(Byte) BY <1>12, <2>1, ReadType
  <2>3. seen = R \o Escaped(r)
    BY <1>4, <1>8, <1>9, <1>12, <2>1 DEF SeenIsRead
  <2>4. Append(seen, b) \o (IF b \in Special THEN <<EscapeByte>> ELSE <<>>)
           = R \o Escaped(Append(r, b))
    <3>1. ReadsOn(seen, b, R, r) BY <1>5, <2>2, <2>3, ByteRead
    <3> QED BY <3>1, Zenon DEF ReadsOn
  <2>5. Escaping' = IF b \in Special THEN <<EscapeByte>> ELSE <<>>
    BY <1>12 DEF Escaping, EscapeNeeded
  <2>6. seen' = Append(seen, b) BY <1>6, <1>7, <1>12 DEF AtStart
  <2> QED BY <1>12, <2>1, <2>4, <2>5, <2>6, Zenon
<1>13. CASE LengthByteSeen(b)
  <2>1. /\ ~escape_expected /\ curr_state = "LENGTH" /\ curr_state' = "LENGTH"
        /\ expected_length' = AppendLengthByte(b)
        /\ escape_expected' = EscapeNeeded(b) /\ count' = count + 1
    BY <1>13 DEF LengthByteSeen
  <2>2. /\ Read' = Append(Read, b)
        /\ \A i \in count + 2 .. LengthSize : LengthBytes(expected_length')[i] = 0
    BY <2>1, LengthByteRead DEF Read
  <2>3. seen' \o Escaping' = R \o Escaped(Read') BY <1>12, <2>1, <2>2
  <2>4. SeenIsRead' BY <1>4, <2>1, <2>3 DEF SeenIsRead
  <2>5. ParserShape'
    <3>1. count' + 1 = count + 2 BY <2>1
    <3> QED BY <2>1, <2>2, <3>1 DEF ParserShape
  <2> QED BY <1>1, <2>4, <2>5
<1>14. CASE LengthComplete(b)
  <2>1. /\ ~escape_expected /\ curr_state = "LENGTH" /\ curr_state' = "PAYLOAD"
        /\ count + 1 = LengthSize
        /\ expected_length' = AppendLengthByte(b)
        /\ escape_expected' = EscapeNeeded(b) /\ buffer' = buffer
    BY <1>14 DEF LengthComplete, SetState
  <2>2. Read' = Append(Read, b)
    <3>1. PICK l : l = LengthBytes(expected_length') OBVIOUS
    <3>2. SubSeq(l, 1, LengthSize) = Append(Read, b)
      BY <2>1, <3>1, LengthByteRead DEF Read
    <3>3. l \in Seq(Byte) /\ Len(l) = LengthSize
      <4>1. expected_length' \in Nat BY <2>1, LengthIsNatural
      <4> QED BY <3>1, <4>1, LengthByteAt
    <3>4. SubSeq(l, 1, LengthSize) = l BY <3>3, SubSeqFull
    <3>5. buffer' = <<>> BY <2>1
    <3>6. Read' = l \o <<>> BY <2>1, <3>1, <3>5 DEF Read
    <3>7. l \o <<>> = l BY <3>3, ConcatEmptySeq
    <3> QED BY <3>2, <3>4, <3>6, <3>7
  <2>3. seen' \o Escaping' = R \o Escaped(Read') BY <1>12, <2>1, <2>2
  <2>4. SeenIsRead' BY <1>4, <2>1, <2>3 DEF SeenIsRead
  <2>5. ParserShape' BY <2>1 DEF ParserShape
  <2> QED BY <1>1, <2>4, <2>5
<1>15. CASE PayloadByteSeen(b)
  <2>1. /\ ~escape_expected /\ curr_state = "PAYLOAD"
        /\ buffer' = Append(buffer, b)
        /\ escape_expected' = EscapeNeeded(b)
        /\ expected_length' = expected_length
        /\ \/ curr_state' = "FOOTER" /\ count' = 0
           \/ curr_state' = "PAYLOAD"
    BY <1>15 DEF PayloadByteSeen, SetState
  <2>2. Read' = Append(Read, b)
    <3>1. PICK l : l = LengthBytes(expected_length) OBVIOUS
    <3>2. l \in Seq(Byte) BY <3>1, LengthByteAt
    <3>3. l \o Append(buffer, b) = Append(l \o buffer, b)
      BY <3>2, ConcatAppend
    <3>4. Read = l \o buffer /\ Read' = l \o Append(buffer, b)
      BY <2>1, <3>1 DEF Read
    <3> QED BY <3>3, <3>4
  <2>3. seen' \o Escaping' = R \o Escaped(Read') BY <1>12, <2>1, <2>2
  <2>4. CASE curr_state' = "PAYLOAD"
    <3>1. SeenIsRead' BY <1>4, <2>3, <2>4 DEF SeenIsRead
    <3>2. ParserShape' BY <2>4 DEF ParserShape
    <3> QED BY <1>1, <3>1, <3>2
  <2>5. CASE curr_state' = "FOOTER" /\ count' = 0
    <3>1. PICK x : x = R \o Escaped(Read') OBVIOUS
    <3>2. x \in Seq(Byte)
      <4>1. Read \in Seq(Byte) BY <2>1, ReadType
      <4>2. Read' \in Seq(Byte) BY <2>2, <4>1
      <4>3. PICK e : e = Escaped(Read') OBVIOUS
      <4>4. e \in Seq(Byte) BY <4>2, <4>3, EscapedType
      <4> QED BY <1>5, <3>1, <4>3, <4>4, Joined
    <3>3. x \o Repeat(FooterByte, 0) = x
      BY <3>2, RepeatNone, ConcatEmptySeq
    <3>4. SeenIsRead' BY <1>4, <2>3, <2>5, <3>1, <3>3 DEF SeenIsRead
    <3>5. ParserShape' BY <2>5 DEF ParserShape
    <3> QED BY <1>1, <3>4, <3>5
  <2> QED BY <2>1, <2>4, <2>5
<1>16. CASE FooterByteSeen(b)
  <2>1. /\ ~escape_expected /\ curr_state = "FOOTER" /\ b = FooterByte
        /\ curr_state' = "FOOTER" /\ count' = count + 1
        /\ escape_expected' = FALSE
        /\ UNCHANGED <<expected_length, buffer>>
    BY <1>16 DEF FooterByteSeen, EscapeNeeded
  <2>2. Read' = Read BY <2>1 DEF Read
  <2>3. PICK x : x = R \o Escaped(Read) OBVIOUS
  <2>4. x \in Seq(Byte)
    <3>1. Read \in Seq(Byte) BY <2>1, ReadType
    <3>2. PICK e : e = Escaped(Read) OBVIOUS
    <3>3. e \in Seq(Byte) BY <3>1, <3>2, EscapedType
    <3> QED BY <1>5, <2>3, <3>2, <3>3, Joined
  <2>5. seen = x \o Repeat(FooterByte, count)
    BY <1>4, <1>8, <1>9, <2>1, <2>3 DEF SeenIsRead
  <2>6. PICK f : f = Repeat(FooterByte, count) OBVIOUS
  <2>7. f \in Seq(Byte) /\ Repeat(FooterByte, count + 1) = Append(f, FooterByte)
    BY <2>6, SpecialBytes, RepeatType, RepeatMore
  <2>8. x \o Append(f, FooterByte) = Append(x \o f, FooterByte)
    BY <2>4, <2>7, SpecialBytes, ConcatAppend
  <2>9. seen' = s BY <1>7, <2>1 DEF AtStart
  <2>10. Escaping' = <<>> BY <2>1 DEF Escaping
  <2>11. seen' \o Escaping' = x \o Repeat(FooterByte, count')
    BY <1>6, <1>8, <2>1, <2>5, <2>6, <2>7, <2>8, <2>9, <2>10, Zenon
  <2>12. SeenIsRead' BY <1>4, <2>1, <2>2, <2>3, <2>11 DEF SeenIsRead
  <2>13. ParserShape' BY <2>1 DEF ParserShape
  <2> QED BY <1>1, <2>12, <2>13
<1> QED
  BY <1>2, <1>3, <1>10, <1>11, <1>13, <1>14, <1>15, <1>16
  DEF AddByte, EscapeByteMissing, LengthTooLarge, FooterComplete, UnexpectedByte

-----------------------------------------------------------------------------
(* What is decoded is a frame *)

\* A payload is bytes, one at least, and fits the buffer.
LEMMA PayloadType ==
    ASSUME NEW p \in Payloads
    PROVE  /\ p \in Seq(Byte) /\ p # <<>>
           /\ Len(p) \in Nat /\ 1 <= Len(p) /\ Len(p) <= MaxPacketSize
<1>1. PICK m \in 0 .. MaxPacketSize : p \in [1 .. m -> Byte]
  BY DEF Payloads, BoundedSeq, SeqOf
<1>2. m \in Nat /\ m <= MaxPacketSize BY SizeAssumption
<1>3. p \in Seq(Byte) BY <1>1, <1>2
<1>4. Len(p) = m BY <1>1, <1>2
<1>5. p # <<>> BY DEF Payloads
<1>6. Len(p) # 0 BY <1>3, <1>5, EmptySeq
<1> QED BY <1>2, <1>3, <1>4, <1>5, <1>6

\* What a frame carries between header and footer.
Content(p) == LengthBytes(Len(p)) \o p

\* The length comes first, then the payload.
LEMMA ContentType ==
    ASSUME NEW p \in Seq(Byte)
    PROVE  /\ Content(p) \in Seq(Byte)
           /\ Len(p) \in Nat /\ Len(Content(p)) = LengthSize + Len(p)
           /\ \A i \in 1 .. LengthSize : Content(p)[i] = LengthBytes(Len(p))[i]
           /\ \A i \in 1 .. Len(p) : Content(p)[LengthSize + i] = p[i]
<1>1. PICK l : l = LengthBytes(Len(p)) OBVIOUS
<1>2. PICK c : c = Content(p) OBVIOUS
<1>3. Len(p) \in Nat /\ LengthSize \in Nat BY SpecialBytes
<1>4. l \in Seq(Byte) /\ Len(l) = LengthSize BY <1>1, <1>3, LengthByteAt
<1>5. /\ c \in Seq(Byte) /\ Len(c) = LengthSize + Len(p)
      /\ \A i \in 1 .. LengthSize + Len(p) :
           c[i] = IF i <= LengthSize THEN l[i] ELSE p[i - LengthSize]
  BY <1>1, <1>2, <1>4, ConcatProperties DEF Content
<1>6. ASSUME NEW i \in 1 .. LengthSize PROVE c[i] = l[i]
  <2>1. i \in 1 .. LengthSize + Len(p) /\ i <= LengthSize BY <1>3
  <2> QED BY <1>5, <2>1
<1>7. ASSUME NEW i \in 1 .. Len(p) PROVE c[LengthSize + i] = p[i]
  <2>1. PICK j : j = LengthSize + i OBVIOUS
  <2>2. /\ j \in 1 .. LengthSize + Len(p)
        /\ ~(j <= LengthSize) /\ j - LengthSize = i
    BY <1>3, <2>1
  <2>3. c[j] = p[i] BY <1>5, <2>2
  <2> QED BY <2>1, <2>3
<1> QED BY <1>1, <1>2, <1>3, <1>5, <1>6, <1>7

\* The two layouts differ in the escape bytes only.
LEMMA FrameType ==
    ASSUME NEW p \in Seq(Byte)
    PROVE  /\ FrameOf(p) \in Seq(Byte)
           /\ FrameOf(p) = Repeat(HeaderByte, HeaderSize)
                \o (Escaped(Content(p)) \o Repeat(FooterByte, FooterSize))
           /\ TesterFrameOf(p) \in Seq(Byte)
           /\ Len(TesterFrameOf(p)) <= Len(FrameOf(p))
<1>1. PICK h : h = Repeat(HeaderByte, HeaderSize) OBVIOUS
<1>2. PICK f : f = Repeat(FooterByte, FooterSize) OBVIOUS
<1>3. PICK l : l = LengthBytes(Len(p)) OBVIOUS
<1>4. PICK c : c = Content(p) OBVIOUS
<1>5. PICK e : e = Escaped(c) OBVIOUS
<1>6. /\ h \in Seq(Byte) /\ f \in Seq(Byte) /\ l \in Seq(Byte)
      /\ c \in Seq(Byte) /\ e \in Seq(Byte) /\ Len(e) >= Len(c)
  <2>1. Len(p) \in Nat OBVIOUS
  <2>2. l \in Seq(Byte) BY <1>3, <2>1, LengthByteAt
  <2>3. c \in Seq(Byte) BY <1>4, ContentType
  <2>4. e \in Seq(Byte) /\ Len(e) >= Len(c) BY <1>5, <2>3, EscapedType
  <2>5. h \in Seq(Byte) BY <1>1, SpecialBytes, RepeatType
  <2>6. f \in Seq(Byte) BY <1>2, SpecialBytes, RepeatType
  <2> QED BY <2>2, <2>3, <2>4, <2>5, <2>6
<1>7. FrameOf(p) = (h \o e) \o f
  BY <1>1, <1>2, <1>4, <1>5, Zenon DEF FrameOf, Content
<1>8. (h \o e) \o f = h \o (e \o f)
  <2>1. Regroups(h, e, f) BY <1>6, Regroup
  <2> QED BY <2>1, Zenon DEF Regroups
<1>9. c = l \o p BY <1>3, <1>4 DEF Content
<1>10. TesterFrameOf(p) = ((h \o l) \o p) \o f
  BY <1>1, <1>2, <1>3, Zenon DEF TesterFrameOf, ConstructPacket
<1>11. (h \o l) \o p = h \o c
  <2>1. Regroups(h, l, p) BY <1>6, Regroup
  <2> QED BY <1>9, <2>1, Zenon DEF Regroups
<1>12. PICK x : x = h \o e OBVIOUS
<1>13. PICK y : y = h \o c OBVIOUS
<1>14. /\ x \in Seq(Byte) /\ Len(x) = Len(h) + Len(e)
       /\ y \in Seq(Byte) /\ Len(y) = Len(h) + Len(c)
       /\ Len(h) \in Nat /\ Len(e) \in Nat /\ Len(c) \in Nat
  BY <1>6, <1>12, <1>13, Joined, ConcatLength
<1>15. /\ x \o f \in Seq(Byte) /\ Len(x \o f) = Len(x) + Len(f)
       /\ y \o f \in Seq(Byte) /\ Len(y \o f) = Len(y) + Len(f)
       /\ Len(f) \in Nat
  BY <1>6, <1>14, Joined, ConcatLength
<1>16. Len(y \o f) <= Len(x \o f) BY <1>6, <1>14, <1>15
<1>17. FrameOf(p) = x \o f /\ TesterFrameOf(p) = y \o f
  BY <1>7, <1>10, <1>11, <1>12, <1>13, Zenon
<1>18. FrameOf(p) = h \o (e \o f) BY <1>7, <1>8, Zenon
<1>19. /\ FrameOf(p) \in Seq(Byte) /\ TesterFrameOf(p) \in Seq(Byte)
       /\ Len(TesterFrameOf(p)) <= Len(FrameOf(p))
  BY <1>15, <1>16, <1>17, Zenon
<1> QED BY <1>1, <1>2, <1>4, <1>5, <1>18, <1>19, Zenon

\* Noise, a new frame and a byte of it keep the invariant.
LEMMA LinkInvStep ==
    ASSUME LinkInv, [LinkNext]_linkVars
    PROVE  LinkInv'
<1>1. ASSUME NEW b \in Byte, Receive(b)
      PROVE  PacketiserInv' /\ ParserShape' /\ SeenIsRead' /\ seen' \in Seq(Byte)
  <2>1. PacketiserNext BY <1>1 DEF Receive, PacketiserNext
  <2>2. PacketiserInv' BY <2>1, PacketiserInvStep DEF LinkInv
  <2> QED BY <1>1, <2>2, ReceiveKeepsRead DEF LinkInv, LinkTypeOK
<1>2. CASE Noise
  <2>1. PICK b \in Byte : Receive(b) BY <1>2 DEF Noise
  <2>2. wire' = wire /\ sent' = <<>> BY <1>2 DEF Noise
  <2> QED BY <1>1, <2>1, <2>2 DEF LinkInv, LinkTypeOK
<1>3. CASE StartFrame
  <2>1. PICK p \in Payloads, framing \in Framings :
          sent' = p /\ wire' = Encode(framing, p)
    BY <1>3 DEF StartFrame
  <2>2. p \in Seq(Byte) BY PayloadType
  <2>3. wire' \in Seq(Byte) /\ sent' \in Seq(Byte)
    BY <2>1, <2>2, FrameType DEF Encode
  <2>4. UNCHANGED <<curr_state, count, escape_expected, expected_length, buffer, seen>>
        /\ decoded' = <<>> /\ message' = <<>>
    BY <1>3 DEF StartFrame, NoMessage, parser
  <2>5. PacketiserInv'
    BY <2>4 DEF LinkInv, PacketiserInv, PacketiserTypeOK, PayloadWithinLength
  <2>6. ParserShape' BY <2>4 DEF LinkInv, ParserShape
  <2>7. Read' = Read /\ Escaping' = Escaping BY <2>4 DEF Read, Escaping
  <2>8. SeenIsRead' BY <2>4, <2>7 DEF LinkInv, SeenIsRead
  <2> QED BY <2>3, <2>4, <2>5, <2>6, <2>8 DEF LinkInv, LinkTypeOK
<1>4. CASE SendByte
  <2>1. wire # <<>> /\ Receive(Head(wire)) /\ wire' = Tail(wire) /\ sent' = sent
    BY <1>4 DEF SendByte
  <2>2. Head(wire) \in Byte /\ Tail(wire) \in Seq(Byte)
    BY <2>1 DEF LinkInv, LinkTypeOK
  <2> QED BY <1>1, <2>1, <2>2 DEF LinkInv, LinkTypeOK
<1>5. CASE UNCHANGED linkVars
  <2>1. UNCHANGED <<curr_state, count, escape_expected, expected_length, buffer,
                    decoded, message, seen, wire, sent>>
    BY <1>5 DEF linkVars, packetiserVars, parser
  <2>2. PacketiserInv'
    BY <2>1 DEF LinkInv, PacketiserInv, PacketiserTypeOK, PayloadWithinLength
  <2>3. ParserShape' BY <2>1 DEF LinkInv, ParserShape
  <2>4. Read' = Read /\ Escaping' = Escaping BY <2>1 DEF Read, Escaping
  <2>5. SeenIsRead' BY <2>1, <2>4 DEF LinkInv, SeenIsRead
  <2> QED BY <2>1, <2>2, <2>3, <2>5 DEF LinkInv, LinkTypeOK
<1> QED BY <1>2, <1>3, <1>4, <1>5 DEF LinkNext

\* It holds before the first byte.
LEMMA LinkInvInit == LinkInit => LinkInv
<1> SUFFICES ASSUME LinkInit PROVE LinkInv OBVIOUS
<1>1. PacketiserInit BY DEF LinkInit
<1>2. escape_expected \in BOOLEAN /\ ~escape_expected BY <1>1, Zenon DEF PacketiserInit
<1>3. /\ curr_state = "HEADER" /\ count = 0 /\ expected_length = 0
      /\ buffer = <<>> /\ decoded = <<>> /\ message = <<>>
  BY <1>1 DEF PacketiserInit
<1>4. PacketiserInv
  BY <1>2, <1>3 DEF PacketiserInv, PacketiserTypeOK, PayloadWithinLength
<1>5. wire = <<>> /\ sent = <<>> /\ seen = <<>> BY DEF LinkInit
<1>6. LinkTypeOK BY <1>5 DEF LinkTypeOK
<1>7. ParserShape BY <1>2, <1>3, SizeAssumption DEF ParserShape
<1>8. SeenIsRead BY <1>3, <1>5, RepeatNone DEF SeenIsRead
<1> QED BY <1>4, <1>6, <1>7, <1>8 DEF LinkInv

\* A byte that completes a frame completes the frame of what is decoded.
LEMMA DecodedIsFrame ==
    ASSUME LinkInv, NEW b \in Byte, Receive(b), decoded' # <<>>
    PROVE  /\ b = FooterByte
           /\ Append(seen, FooterByte) = FrameOf(decoded')
<1>1. PICK valid \in BOOLEAN : FooterComplete(b, valid)
  BY DEF Receive, AddByte, EscapeByteSeen, EscapeByteMissing, HeaderByteSeen,
         LengthByteSeen, LengthComplete, LengthTooLarge, PayloadByteSeen,
         FooterByteSeen, UnexpectedByte, NoMessage
<1>2. /\ ~escape_expected /\ curr_state = "FOOTER" /\ b = FooterByte
      /\ count + 1 = FooterSize /\ decoded' = buffer
  BY <1>1 DEF FooterComplete
<1>3. /\ Len(buffer) = expected_length /\ count \in Nat /\ buffer \in Seq(Byte)
  BY <1>2 DEF LinkInv, PacketiserInv, PacketiserTypeOK, PayloadWithinLength
<1>4. Read = Content(buffer) BY <1>2, <1>3 DEF Read, Content
<1>5. PICK h : h = Repeat(HeaderByte, HeaderSize) OBVIOUS
<1>6. PICK e : e = Escaped(Content(buffer)) OBVIOUS
<1>7. PICK f : f = Repeat(FooterByte, count) OBVIOUS
<1>8. h \in Seq(Byte) /\ e \in Seq(Byte) /\ f \in Seq(Byte)
  <2>1. h \in Seq(Byte) BY <1>5, SpecialBytes, RepeatType
  <2>2. f \in Seq(Byte) BY <1>3, <1>7, SpecialBytes, RepeatType
  <2>3. Content(buffer) \in Seq(Byte) BY <1>3, ContentType
  <2> QED BY <1>6, <2>1, <2>2, <2>3, EscapedType
<1>9. seen = (h \o e) \o f
  <2>1. seen \o <<>> = seen
    BY ConcatEmptySeq DEF LinkInv, LinkTypeOK
  <2>2. Escaping = <<>> BY <1>2 DEF Escaping
  <2>3. seen \o Escaping = (h \o e) \o f
    BY <1>2, <1>4, <1>5, <1>6, <1>7 DEF LinkInv, SeenIsRead
  <2> QED BY <2>1, <2>2, <2>3, Zenon
<1>10. PICK x : x = h \o e OBVIOUS
<1>11. x \in Seq(Byte) BY <1>8, <1>10, Joined
<1>12. x \o Append(f, FooterByte) = Append(x \o f, FooterByte)
  BY <1>8, <1>11, SpecialBytes, ConcatAppend
<1>13. Append(f, FooterByte) = Repeat(FooterByte, FooterSize)
  <2>1. Repeat(FooterByte, count + 1) = Append(f, FooterByte)
    BY <1>3, <1>7, SpecialBytes, RepeatMore
  <2> QED BY <1>2, <2>1
<1>14. FrameOf(buffer) = (h \o e) \o Repeat(FooterByte, FooterSize)
  BY <1>5, <1>6, Zenon DEF FrameOf, Content
<1>15. Append(seen, FooterByte) = FrameOf(buffer)
  BY <1>9, <1>10, <1>12, <1>13, <1>14, Zenon
<1> QED BY <1>2, <1>15

\* Whatever the noise, a payload reaches the decoder only if the bytes since
\* the parser last started are exactly its frame.
THEOREM OnlyFramesAreDecoded == LinkSpec => DecodesOnlyFrames
<1>1. LinkInit => LinkInv BY LinkInvInit
<1>2. LinkInv /\ [LinkNext]_linkVars => LinkInv' BY LinkInvStep
<1>3. LinkInv /\ [LinkNext]_linkVars =>
        [decoded' # <<>> =>
           Append(seen, FooterByte) = FrameOf(decoded')]_linkVars
  <2> SUFFICES ASSUME LinkInv, LinkNext, decoded' # <<>>
               PROVE  Append(seen, FooterByte) = FrameOf(decoded')
    BY Zenon
  <2>1. CASE Noise BY <2>1, DecodedIsFrame DEF Noise
  <2>2. CASE StartFrame BY <2>2 DEF StartFrame, NoMessage
  <2>3. CASE SendByte
    <3>1. wire # <<>> /\ Receive(Head(wire)) BY <2>3 DEF SendByte
    <3>2. Head(wire) \in Byte BY <3>1 DEF LinkInv, LinkTypeOK
    <3> QED BY <3>1, <3>2, DecodedIsFrame
  <2> QED BY <2>1, <2>2, <2>3 DEF LinkNext
<1> QED BY <1>1, <1>2, <1>3, PTL DEF LinkSpec, DecodesOnlyFrames

-----------------------------------------------------------------------------
(* A whole frame resynchronizes *)

\* Two bytes of footer at least, that are neither header nor escape.
FooterIsDistinct == FooterSize >= 2 /\ FooterByte \notin {HeaderByte, EscapeByte}

\* Where m footer bytes of the frame being sent leave the parser.
InFooter(m) ==
    \/ AtStart
    \/ m = 1 /\ escape_expected
    \/ curr_state = "FOOTER" /\ count = m /\ ~escape_expected

\* What is left of an escaped frame ends in a whole footer, that meets no
\* footer begun before it, or in the rest of one the parser is reading.
FooterToCome ==
    escaped /\ wire # <<>> =>
      \/ \E rest \in Seq(Byte) :
            /\ wire = rest \o Repeat(FooterByte, FooterSize)
            /\ rest # <<>> => rest[Len(rest)] # FooterByte
            /\ rest = <<>> => ~(curr_state = "FOOTER" /\ count > 0)
      \/ \E m \in 1 .. FooterSize - 1 :
            /\ wire = Repeat(FooterByte, FooterSize - m)
            /\ InFooter(m)

ResyncInv == LinkInv /\ FooterToCome /\ WholeFrameResynchronizes

\* The first footer byte.
LEMMA FirstFooterByte ==
    ASSUME FooterIsDistinct, PacketiserInv,
           ~(curr_state = "FOOTER" /\ count > 0), Receive(FooterByte)
    PROVE  InFooter(1)'
<1> USE DEF FooterIsDistinct, PacketiserInv, PacketiserTypeOK, PayloadWithinLength
<1> DEFINE b == FooterByte
<1>1. AddByte(b) BY DEF Receive
<1>2. CASE ResetParser BY <1>2, ResetReadsNothing DEF InFooter
<1>3. CASE EscapeByteSeen(b) BY <1>3 DEF EscapeByteSeen
<1>4. CASE HeaderByteSeen(b) BY <1>4 DEF HeaderByteSeen
<1>5. CASE LengthByteSeen(b)
  BY <1>5 DEF LengthByteSeen, EscapeNeeded, Special, InFooter
<1>6. CASE LengthComplete(b)
  BY <1>6 DEF LengthComplete, EscapeNeeded, Special, InFooter
<1>7. CASE PayloadByteSeen(b)
  BY <1>7 DEF PayloadByteSeen, EscapeNeeded, Special, InFooter
<1>8. CASE FooterByteSeen(b)
  <2>1. curr_state = "FOOTER" /\ curr_state' = "FOOTER" /\ count' = count + 1
    BY <1>8 DEF FooterByteSeen
  <2>2. escape_expected' = FALSE BY <1>8 DEF FooterByteSeen, EscapeNeeded
  <2>3. count = 0 BY <2>1
  <2> QED BY <2>1, <2>2, <2>3 DEF InFooter
<1> QED
  BY <1>1, <1>2, <1>3, <1>4, <1>5, <1>6, <1>7, <1>8
  DEF AddByte, EscapeByteMissing, LengthTooLarge, FooterComplete, UnexpectedByte

\* The next one.
LEMMA NextFooterByte ==
    ASSUME FooterIsDistinct, PacketiserInv, NEW m \in 1 .. FooterSize - 1,
           InFooter(m), Receive(FooterByte)
    PROVE  \/ AtStart'
           \/ m + 1 < FooterSize /\ InFooter(m + 1)'
<1> USE DEF FooterIsDistinct, PacketiserInv, PacketiserTypeOK, PayloadWithinLength
<1> DEFINE b == FooterByte
<1>1. AddByte(b) BY DEF Receive
<1>2. CASE ResetParser BY <1>2, ResetReadsNothing
<1>3. CASE ~ResetParser
  <2>1. ~escape_expected
    BY <1>1, <1>3
    DEF AddByte, EscapeByteSeen, EscapeByteMissing, HeaderByteSeen,
        LengthByteSeen, LengthComplete, LengthTooLarge, PayloadByteSeen,
        FooterByteSeen, FooterComplete, UnexpectedByte
  <2>2. CASE AtStart
    BY <1>1, <1>3, <2>2
    DEF AtStart, AddByte, EscapeByteSeen, EscapeByteMissing, HeaderByteSeen,
        LengthByteSeen, LengthComplete, LengthTooLarge, PayloadByteSeen,
        FooterByteSeen, FooterComplete, UnexpectedByte
  <2>3. CASE curr_state = "FOOTER" /\ count = m
    <3>1. FooterByteSeen(b)
      BY <1>1, <1>3, <2>1, <2>3
      DEF AddByte, EscapeByteSeen, EscapeByteMissing, HeaderByteSeen,
          LengthByteSeen, LengthComplete, LengthTooLarge, PayloadByteSeen,
          FooterComplete, UnexpectedByte
    <3>2. /\ count + 1 < FooterSize /\ count' = count + 1
          /\ curr_state' = "FOOTER" /\ escape_expected' = FALSE
      BY <2>3, <3>1 DEF FooterByteSeen, EscapeNeeded
    <3> QED BY <2>3, <3>2 DEF InFooter
  <2> QED BY <2>1, <2>2, <2>3 DEF InFooter
<1> QED BY <1>2, <1>3

\* Any other byte leaves no footer begun.
LEMMA NoFooterByte ==
    ASSUME PacketiserInv, ParserShape, NEW b \in Byte, b # FooterByte, Receive(b)
    PROVE  ~(curr_state = "FOOTER" /\ count > 0)'
<1> USE DEF PacketiserInv, PacketiserTypeOK, PayloadWithinLength
<1>1. AddByte(b) BY DEF Receive
<1>2. CASE ResetParser BY <1>2 DEF ResetParser
<1>3. CASE EscapeByteSeen(b) BY <1>3 DEF EscapeByteSeen, ParserShape
<1>4. CASE HeaderByteSeen(b) BY <1>4 DEF HeaderByteSeen, SetState
<1>5. CASE LengthByteSeen(b) BY <1>5 DEF LengthByteSeen
<1>6. CASE LengthComplete(b) BY <1>6 DEF LengthComplete, SetState
<1>7. CASE PayloadByteSeen(b) BY <1>7 DEF PayloadByteSeen, SetState
<1>8. CASE FooterByteSeen(b) BY <1>8 DEF FooterByteSeen
<1> QED
  BY <1>1, <1>2, <1>3, <1>4, <1>5, <1>6, <1>7, <1>8
  DEF AddByte, EscapeByteMissing, LengthTooLarge, FooterComplete, UnexpectedByte

\* The first byte of a sequence that is joined from two.
LEMMA FirstByte ==
    ASSUME NEW s \in Seq(Byte), NEW t \in Seq(Byte), s # <<>>
    PROVE  /\ s \o t # <<>> /\ Head(s) \in Byte /\ Tail(s) \in Seq(Byte)
           /\ Head(s \o t) = Head(s)
           /\ Tail(s \o t) = Tail(s) \o t
  OBVIOUS

\* A frame with its escape bytes ends in a footer that nothing runs into.
LEMMA FrameHasFooter ==
    ASSUME FooterIsDistinct, NEW p \in Seq(Byte)
    PROVE  \E rest \in Seq(Byte) :
              /\ FrameOf(p) = rest \o Repeat(FooterByte, FooterSize)
              /\ rest # <<>> /\ rest[Len(rest)] # FooterByte
<1>1. PICK h : h = Repeat(HeaderByte, HeaderSize) OBVIOUS
<1>2. PICK e : e = Escaped(Content(p)) OBVIOUS
<1>3. /\ h \in Seq(Byte) /\ e \in Seq(Byte)
      /\ e # <<>> /\ e[Len(e)] # FooterByte
  <2>1. Content(p) \in Seq(Byte) /\ Content(p) # <<>>
    <3>1. PICK c : c = Content(p) OBVIOUS
    <3>2. c \in Seq(Byte) /\ Len(c) = LengthSize + Len(p) /\ Len(p) \in Nat
      BY <3>1, ContentType
    <3>3. Len(c) # 0 BY <3>2, SizeAssumption
    <3>4. c # <<>> BY <3>3
    <3> QED BY <3>1, <3>2, <3>4
  <2>2. h \in Seq(Byte) BY <1>1, SpecialBytes, RepeatType
  <2>3. FooterByte # EscapeByte BY DEF FooterIsDistinct
  <2> QED BY <1>2, <2>1, <2>2, <2>3, EscapedType, EscapedEnd
<1>4. PICK rest : rest = h \o e OBVIOUS
<1>5. rest \in Seq(Byte) /\ rest # <<>> /\ rest[Len(rest)] # FooterByte
  BY <1>3, <1>4, Joined, ConcatLength
<1>6. FrameOf(p) = rest \o Repeat(FooterByte, FooterSize)
  BY <1>1, <1>2, <1>4, Zenon DEF FrameOf, Content
<1> QED BY <1>5, <1>6

\* Every step keeps what is left of a frame in line with the parser.
LEMMA ResyncStep ==
    ASSUME FooterIsDistinct, ResyncInv, [LinkNext]_linkVars
    PROVE  ResyncInv'
<1>1. LinkInv' BY LinkInvStep DEF ResyncInv
<1>2. CASE Noise
  <2>1. escaped' = FALSE /\ follows' = FALSE BY <1>2 DEF Noise
  <2> QED BY <1>1, <2>1 DEF ResyncInv, FooterToCome, WholeFrameResynchronizes
<1>3. CASE StartFrame
  <2>1. PICK p \in Payloads : escaped' = (wire' = FrameOf(p))
    BY <1>3 DEF StartFrame
  <2>2. p \in Seq(Byte) BY PayloadType
  <2>3. PICK rest \in Seq(Byte) :
           /\ FrameOf(p) = rest \o Repeat(FooterByte, FooterSize)
           /\ rest # <<>> /\ rest[Len(rest)] # FooterByte
    BY <2>2, FrameHasFooter
  <2>4. FooterToCome' BY <2>1, <2>3 DEF FooterToCome
  <2>5. wire = <<>> /\ UNCHANGED <<curr_state, count, escape_expected, follows>>
    BY <1>3 DEF StartFrame, parser
  <2>6. WholeFrameResynchronizes'
    BY <2>5 DEF ResyncInv, WholeFrameResynchronizes, AtStart
  <2> QED BY <1>1, <2>4, <2>6 DEF ResyncInv
<1>4. CASE SendByte
  <2>1. /\ wire # <<>> /\ Receive(Head(wire)) /\ wire' = Tail(wire)
        /\ escaped' = escaped
        /\ follows' = IF escaped THEN follows \/ wire' = <<>> ELSE FALSE
    BY <1>4 DEF SendByte
  <2>2. CASE ~escaped
    <3>1. ~escaped' /\ ~follows' BY <2>1, <2>2
    <3> QED BY <1>1, <3>1 DEF ResyncInv, FooterToCome, WholeFrameResynchronizes
  <2>3. ASSUME escaped, FooterToCome', wire' = <<>> => AtStart'
        PROVE  ResyncInv'
    BY <1>1, <2>3 DEF ResyncInv, WholeFrameResynchronizes
  <2>4. PacketiserInv /\ ParserShape /\ wire \in Seq(Byte)
    BY DEF ResyncInv, LinkInv, LinkTypeOK
  <2>5. FooterSize \in Nat /\ FooterSize >= 2 /\ FooterByte \in Byte
    BY SpecialBytes DEF FooterIsDistinct
  <2>6. ASSUME escaped, NEW rest \in Seq(Byte),
               wire = rest \o Repeat(FooterByte, FooterSize),
               rest # <<>>, rest[Len(rest)] # FooterByte
        PROVE  FooterToCome' /\ wire' # <<>>
    <3>1. PICK f : f = Repeat(FooterByte, FooterSize) OBVIOUS
    <3>2. f \in Seq(Byte) /\ f # <<>>
      <4>1. f \in Seq(Byte) /\ Len(f) = FooterSize
        BY <2>5, <3>1, RepeatType
      <4>2. Len(f) # 0 BY <2>5, <4>1
      <4> QED BY <4>1, <4>2
    <3>3. /\ Head(rest) \in Byte /\ Tail(rest) \in Seq(Byte)
          /\ Head(wire) = Head(rest) /\ Tail(wire) = Tail(rest) \o f
      BY <2>6, <3>1, <3>2, FirstByte
    <3>4. PICK t : t = Tail(rest) OBVIOUS
    <3>5. wire' = t \o f /\ t \in Seq(Byte) BY <2>1, <3>3, <3>4
    <3>6. t # <<>> => t[Len(t)] # FooterByte
      <4> SUFFICES ASSUME t # <<>> PROVE t[Len(t)] # FooterByte OBVIOUS
      <4>1. Len(t) \in 1 .. Len(t) BY <3>5, EmptySeq
      <4>2. Len(t) = Len(rest) - 1 /\ t[Len(t)] = rest[Len(t) + 1]
        BY <2>6, <3>4, <4>1, HeadTailProperties
      <4>3. Len(t) + 1 = Len(rest) BY <4>1, <4>2
      <4> QED BY <2>6, <4>2, <4>3
    <3>7. t = <<>> => ~(curr_state = "FOOTER" /\ count > 0)'
      <4> SUFFICES ASSUME t = <<>>
                   PROVE  ~(curr_state = "FOOTER" /\ count > 0)'
        OBVIOUS
      <4>1. Len(rest) = 1 /\ Head(rest) = rest[1]
        <5>1. Len(t) = Len(rest) - 1 BY <2>6, <3>4, HeadTailProperties
        <5> QED BY <5>1, <2>6
      <4>2. Head(rest) # FooterByte BY <2>6, <4>1
      <4> QED BY <2>1, <2>4, <3>3, <4>2, NoFooterByte
    <3>8. FooterToCome' BY <3>1, <3>5, <3>6, <3>7 DEF FooterToCome
    <3>9. wire' # <<>> BY <3>2, <3>5, ConcatLength
    <3> QED BY <3>8, <3>9
  <2>7. ASSUME escaped, NEW k \in 1 .. FooterSize,
               wire = Repeat(FooterByte, k)
        PROVE  /\ Head(wire) = FooterByte
               /\ wire' = Repeat(FooterByte, k - 1)
               /\ k = 1 => wire' = <<>>
               /\ k # 1 => wire' # <<>>
    <3>1. k - 1 \in Nat /\ k - 1 + 1 = k BY <2>5
    <3>2. PICK r : r = Repeat(FooterByte, k - 1) OBVIOUS
    <3>3. r \in Seq(Byte) /\ Len(r) = k - 1
      BY <2>5, <3>1, <3>2, RepeatType
    <3>4. wire = <<FooterByte>> \o r
      BY <2>5, <2>7, <3>1, <3>2, RepeatMore
    <3>5. PICK o : o = <<FooterByte>> OBVIOUS
    <3>6. o \in Seq(Byte) /\ o # <<>> /\ Head(o) = FooterByte /\ Tail(o) = <<>>
      BY <2>5, <3>5
    <3>7. Head(wire) = Head(o) /\ Tail(wire) = Tail(o) \o r
      BY <3>3, <3>4, <3>5, <3>6, FirstByte
    <3>8. <<>> \o r = r BY <3>3, ConcatEmptySeq
    <3>9. Head(wire) = FooterByte /\ wire' = r
      BY <2>1, <3>6, <3>7, <3>8, Zenon
    <3>10. k = 1 => r = <<>>
      <4>1. k = 1 => Len(r) = 0 BY <3>3
      <4> QED BY <3>3, <4>1, EmptySeq
    <3>11. k # 1 => r # <<>>
      <4>1. k # 1 => Len(r) # 0 BY <3>3
      <4> QED BY <4>1
    <3> QED BY <3>2, <3>9, <3>10, <3>11
  <2>8. ASSUME escaped, wire = Repeat(FooterByte, FooterSize),
               ~(curr_state = "FOOTER" /\ count > 0)
        PROVE  FooterToCome' /\ wire' # <<>>
    <3>1. FooterSize \in 1 .. FooterSize /\ FooterSize # 1 BY <2>5
    <3>2. /\ Receive(FooterByte) /\ wire' # <<>>
          /\ wire' = Repeat(FooterByte, FooterSize - 1)
      BY <2>1, <2>7, <2>8, <3>1
    <3>3. InFooter(1)' BY <2>4, <2>8, <3>2, FirstFooterByte
    <3>4. 1 \in 1 .. FooterSize - 1 BY <2>5
    <3> QED BY <3>2, <3>3, <3>4 DEF FooterToCome
  <2>9. ASSUME escaped, NEW m \in 1 .. FooterSize - 1,
               wire = Repeat(FooterByte, FooterSize - m), InFooter(m)
        PROVE  FooterToCome' /\ (wire' = <<>> => AtStart')
    <3>1. PICK k : k = FooterSize - m OBVIOUS
    <3>2. k \in 1 .. FooterSize /\ k - 1 = FooterSize - (m + 1)
          /\ (k = 1 <=> m + 1 = FooterSize)
      BY <2>5, <3>1
    <3>3. /\ Receive(FooterByte) /\ wire' = Repeat(FooterByte, FooterSize - (m + 1))
          /\ m + 1 = FooterSize => wire' = <<>>
          /\ m + 1 # FooterSize => wire' # <<>>
      BY <2>1, <2>7, <2>9, <3>1, <3>2
    <3>4. AtStart' \/ (m + 1 < FooterSize /\ InFooter(m + 1)')
      BY <2>4, <2>9, <3>3, NextFooterByte
    <3>5. CASE m + 1 = FooterSize
      BY <2>5, <3>3, <3>4, <3>5 DEF FooterToCome
    <3>6. CASE m + 1 # FooterSize
      <4>1. m + 1 \in 1 .. FooterSize - 1 BY <2>5, <3>6
      <4>2. InFooter(m + 1)' BY <3>4 DEF InFooter
      <4>3. FooterToCome' BY <3>3, <4>1, <4>2 DEF FooterToCome
      <4> QED BY <3>3, <3>6, <4>3
    <3> QED BY <3>5, <3>6
  <2>10. CASE escaped
    <3>1. FooterToCome' /\ (wire' = <<>> => AtStart')
      <4>1. FooterToCome /\ wire # <<>> BY <2>1 DEF ResyncInv
      <4>2. CASE \E m \in 1 .. FooterSize - 1 :
                    /\ wire = Repeat(FooterByte, FooterSize - m)
                    /\ InFooter(m)
        BY <2>9, <2>10, <4>2
      <4>3. ASSUME NEW rest \in Seq(Byte),
                   wire = rest \o Repeat(FooterByte, FooterSize),
                   rest # <<>> => rest[Len(rest)] # FooterByte,
                   rest = <<>> => ~(curr_state = "FOOTER" /\ count > 0)
            PROVE  FooterToCome' /\ wire' # <<>>
        <5>1. CASE rest # <<>> BY <2>6, <2>10, <4>3, <5>1
        <5>2. CASE rest = <<>>
          <6>1. PICK f : f = Repeat(FooterByte, FooterSize) OBVIOUS
          <6>2. f \in Seq(Byte) BY <2>5, <6>1, RepeatType
          <6>3. <<>> \o f = f BY <6>2, ConcatEmptySeq
          <6>4. wire = Repeat(FooterByte, FooterSize)
            BY <4>3, <5>2, <6>1, <6>3, Zenon
          <6> QED BY <2>8, <2>10, <4>3, <5>2, <6>4
        <5> QED BY <5>1, <5>2
      <4> QED BY <2>10, <4>1, <4>2, <4>3 DEF FooterToCome
    <3> QED BY <2>3, <2>10, <3>1
  <2> QED BY <2>2, <2>10
<1>5. CASE UNCHANGED linkVars
  <2>1. UNCHANGED <<curr_state, count, escape_expected, wire, escaped, follows>>
    BY <1>5 DEF linkVars, packetiserVars, parser
  <2> QED
    BY <1>1, <2>1
    DEF ResyncInv, FooterToCome, InFooter, WholeFrameResynchronizes, AtStart
<1> QED BY <1>2, <1>3, <1>4, <1>5 DEF LinkNext

\* Whatever the noise before it, a whole well-formed frame leaves the parser
\* at the start of a frame, where the footer is two bytes or more and no
\* header or escape byte.
THEOREM FramesResynchronize ==
    ASSUME FooterIsDistinct
    PROVE  LinkSpec => []WholeFrameResynchronizes
<1>1. LinkInit => ResyncInv
  <2> SUFFICES ASSUME LinkInit PROVE ResyncInv OBVIOUS
  <2>1. LinkInv BY LinkInvInit
  <2>2. wire = <<>> /\ follows = FALSE BY DEF LinkInit
  <2> QED BY <2>1, <2>2 DEF ResyncInv, FooterToCome, WholeFrameResynchronizes
<1>2. ResyncInv /\ [LinkNext]_linkVars => ResyncInv' BY ResyncStep
<1>3. ResyncInv => WholeFrameResynchronizes BY DEF ResyncInv
<1> QED BY <1>1, <1>2, <1>3, PTL DEF LinkSpec

-----------------------------------------------------------------------------
(* A frame that begins in sync *)

\* The length of every payload can be written in the length of a frame.
LengthFits == MaxPacketSize < 2 ^ (ByteBits * LengthSize)

Footer == Repeat(FooterByte, FooterSize)

\* How much of the content of the frame has been read.
Taken == IF curr_state = "LENGTH" THEN count ELSE LengthSize + count
LengthTaken == IF curr_state = "HEADER" THEN 0
               ELSE IF curr_state = "LENGTH" THEN count
               ELSE LengthSize

\* What is still to come of the content.
Rest(k) == SubSeq(Content(sent), k + 1, Len(Content(sent)))

\* The parser has followed an escaped frame as far as it has been sent.
EscapedToCome ==
    inSync /\ escaped /\ wire # <<>> =>
      /\ 1 <= Len(sent) /\ Len(sent) <= MaxPacketSize
      /\ curr_state = "HEADER" =>
           wire = Repeat(HeaderByte, HeaderSize - count)
                    \o (Escaped(Content(sent)) \o Footer)
      /\ curr_state \in {"LENGTH", "PAYLOAD"} =>
           wire = Escaping \o (Escaped(Rest(Taken)) \o Footer)
      /\ curr_state = "FOOTER" =>
           wire = Escaping \o Repeat(FooterByte, FooterSize - count)
      /\ expected_length = Announced(Len(sent), LengthTaken)
      /\ curr_state = "PAYLOAD" => /\ count < Len(sent)
                                   /\ buffer = SubSeq(sent, 1, count)
      /\ curr_state = "FOOTER" => buffer = sent

\* A frame the tester built with a special byte in it: the bytes the parser
\* has seen and those to come are that frame, or are fewer.
TesterToCome ==
    inSync /\ ~escaped /\ wire # <<>> =>
      /\ sent # <<>>
      /\ TesterFrameOf(sent) # FrameOf(sent)
      /\ Len(seen) + Len(wire) <= Len(TesterFrameOf(sent))
      /\ Len(seen) + Len(wire) = Len(TesterFrameOf(sent)) =>
           seen \o wire = TesterFrameOf(sent)

InSyncInv == LinkInv /\ EscapedToCome /\ TesterToCome

\* The footer is bytes, one at least.
LEMMA FooterType == Footer \in Seq(Byte) /\ Footer # <<>>
<1>1. Footer \in Seq(Byte) /\ Len(Footer) = FooterSize
  BY SpecialBytes, RepeatType DEF Footer
<1>2. Len(Footer) # 0 BY <1>1, SizeAssumption
<1> QED BY <1>1, <1>2

\* What is still to come of the content is bytes.
LEMMA RestType ==
    ASSUME sent \in Seq(Byte), NEW k \in Nat, k <= Len(Content(sent))
    PROVE  /\ Rest(k) \in Seq(Byte)
           /\ Escaped(Rest(k)) \in Seq(Byte)
           /\ Escaped(Rest(k)) \o Footer \in Seq(Byte)
           /\ Escaped(Rest(k)) \o Footer # <<>>
<1>1. PICK c : c = Content(sent) OBVIOUS
<1>2. c \in Seq(Byte) /\ Len(c) \in Nat BY <1>1, ContentType
<1>3. \A i \in k + 1 .. Len(c) : c[i] \in Byte BY <1>2, ElementOfSeq
<1>4. Rest(k) \in Seq(Byte) BY <1>1, <1>2, <1>3, SubSeqProperties DEF Rest
<1>5. PICK e : e = Escaped(Rest(k)) OBVIOUS
<1>6. e \in Seq(Byte) BY <1>4, <1>5, EscapedType
<1>7. e \o Footer \in Seq(Byte) /\ e \o Footer # <<>>
  BY <1>6, FooterType, Joined, ConcatLength
<1> QED BY <1>4, <1>5, <1>6, <1>7

\* The next byte of the content, and its escape byte, come off the wire.
LEMMA ContentByteSent ==
    ASSUME sent \in Seq(Byte), NEW k \in Nat, k < Len(Content(sent)),
           wire = <<>> \o (Escaped(Rest(k)) \o Footer)
    PROVE  /\ Head(wire) = Content(sent)[k + 1]
           /\ Head(wire) \in Byte
           /\ Tail(wire) = (IF Head(wire) \in Special THEN <<EscapeByte>> ELSE <<>>)
                             \o (Escaped(Rest(k + 1)) \o Footer)
<1>1. PICK c : c = Content(sent) OBVIOUS
<1>2. c \in Seq(Byte) /\ Len(c) \in Nat BY <1>1, ContentType
<1>3. k \in 0 .. Len(c) - 1 /\ k + 1 + 1 = k + 2 /\ k + 1 <= Len(c) /\ k + 1 \in Nat
  BY <1>1, <1>2
<1>4. PICK b : b = c[k + 1] OBVIOUS
<1>5. PICK p : p = EscapedByte(b) OBVIOUS
<1>6. PICK z : z = Escaped(Rest(k + 1)) OBVIOUS
<1>7. /\ b \in Byte
      /\ Escaped(SubSeq(c, k + 1, Len(c)))
           = EscapedByte(c[k + 1]) \o Escaped(SubSeq(c, k + 2, Len(c)))
  BY <1>2, <1>3, <1>4, EscapedRest
<1>8. Escaped(Rest(k)) = p \o z
  <2>1. Rest(k) = SubSeq(c, k + 1, Len(c)) BY <1>1 DEF Rest
  <2>2. Rest(k + 1) = SubSeq(c, k + 2, Len(c)) BY <1>1, <1>3 DEF Rest
  <2> QED BY <1>4, <1>5, <1>6, <1>7, <2>1, <2>2, Zenon
<1>9. p \in Seq(Byte) /\ p # <<>> BY <1>5, <1>7, EscapedByteType
<1>10. z \in Seq(Byte) /\ z \o Footer \in Seq(Byte)
  <2>1. k + 1 \in Nat /\ k + 1 <= Len(Content(sent)) BY <1>1, <1>3
  <2> QED BY <1>6, <2>1, RestType
<1>11. PICK y : y = z \o Footer OBVIOUS
<1>12. (p \o z) \o Footer = p \o y
  <2>1. Regroups(p, z, Footer) BY <1>9, <1>10, FooterType, Regroup
  <2> QED BY <1>11, <2>1, Zenon DEF Regroups
<1>13. wire = p \o y
  <2>1. p \o y \in Seq(Byte) BY <1>9, <1>10, <1>11, Joined
  <2>2. PICK x : x = p \o y OBVIOUS
  <2>3. <<>> \o x = x BY <2>1, <2>2, ConcatEmptySeq
  <2> QED BY <1>8, <1>12, <2>2, <2>3, Zenon
<1>14. Head(wire) = Head(p) /\ Tail(wire) = Tail(p) \o y
  <2>1. y \in Seq(Byte) BY <1>10, <1>11
  <2>2. Head(p \o y) = Head(p) /\ Tail(p \o y) = Tail(p) \o y
    BY <1>9, <2>1, FirstByte
  <2> QED BY <1>13, <2>2, Zenon
<1>15. /\ Head(p) = b
       /\ Tail(p) = IF b \in Special THEN <<EscapeByte>> ELSE <<>>
  <2>1. CASE b \in Special
    <3>1. p = <<b, EscapeByte>> BY <1>5, <2>1 DEF EscapedByte
    <3>2. Head(p) = b BY <3>1
    <3>3. Tail(p) = <<EscapeByte>> BY <3>1, SpecialBytes, <1>7
    <3> QED BY <2>1, <3>2, <3>3
  <2>2. CASE b \notin Special
    <3>1. p = <<b>> BY <1>5, <2>2 DEF EscapedByte
    <3>2. Head(p) = b /\ Tail(p) = <<>> BY <3>1
    <3> QED BY <2>2, <3>2
  <2> QED BY <2>1, <2>2
<1>16. Head(wire) = b BY <1>14, <1>15
<1>17. Tail(wire) = (IF Head(wire) \in Special THEN <<EscapeByte>> ELSE <<>>) \o y
  BY <1>14, <1>15, <1>16, Zenon
<1> QED BY <1>1, <1>4, <1>6, <1>7, <1>11, <1>16, <1>17, Zenon

\* A run of one byte comes off the wire.
LEMMA RunSent ==
    ASSUME NEW b \in Byte, NEW n \in Nat \ {0}, NEW t \in Seq(Byte),
           wire = Repeat(b, n) \o t
    PROVE  /\ Head(wire) = b
           /\ Tail(wire) = Repeat(b, n - 1) \o t
<1>1. n - 1 \in Nat /\ n - 1 + 1 = n OBVIOUS
<1>2. PICK r : r = Repeat(b, n - 1) OBVIOUS
<1>3. r \in Seq(Byte) BY <1>1, <1>2, RepeatType
<1>4. PICK o : o = <<b>> OBVIOUS
<1>5. o \in Seq(Byte) /\ o # <<>> /\ Head(o) = b /\ Tail(o) = <<>>
  BY <1>4
<1>6. Repeat(b, n) = o \o r BY <1>1, <1>2, <1>4, RepeatMore
<1>7. (o \o r) \o t = o \o (r \o t)
  <2>1. Regroups(o, r, t) BY <1>3, <1>5, Regroup
  <2> QED BY <2>1 DEF Regroups
<1>8. PICK y : y = r \o t OBVIOUS
<1>9. y \in Seq(Byte) BY <1>3, <1>8, Joined
<1>10. wire = o \o y BY <1>6, <1>7, <1>8, Zenon
<1>11. Head(wire) = Head(o) /\ Tail(wire) = Tail(o) \o y
  BY <1>5, <1>9, <1>10, FirstByte
<1>12. <<>> \o y = y BY <1>9, ConcatEmptySeq
<1> QED BY <1>2, <1>5, <1>8, <1>11, <1>12, Zenon

\* A byte of an escaped frame takes the parser one byte on in it, and the
\* last one makes it decode the payload.
LEMMA FollowsFrame ==
    ASSUME LengthFits, LinkInv, EscapedToCome, inSync, escaped, wire # <<>>,
           Receive(Head(wire)), wire' = Tail(wire), sent' = sent
    PROVE  /\ wire' # <<>> =>
                /\ curr_state' = "HEADER" =>
                     wire' = Repeat(HeaderByte, HeaderSize - count')
                               \o (Escaped(Content(sent)) \o Footer)
                /\ curr_state' \in {"LENGTH", "PAYLOAD"} =>
                     wire' = Escaping' \o (Escaped(Rest(Taken')) \o Footer)
                /\ curr_state' = "FOOTER" =>
                     wire' = Escaping' \o Repeat(FooterByte, FooterSize - count')
                /\ expected_length' = Announced(Len(sent), LengthTaken')
                /\ curr_state' = "PAYLOAD" =>
                     count' < Len(sent) /\ buffer' = SubSeq(sent, 1, count')
                /\ curr_state' = "FOOTER" => buffer' = sent
           /\ wire' = <<>> => decoded' = sent
<1> USE DEF LinkInv, LinkTypeOK, PacketiserInv, PacketiserTypeOK, PayloadWithinLength
<1> DEFINE b == Head(wire)
<1>1. AddByte(b) BY DEF Receive
<1>2. PICK n : n = Len(sent) OBVIOUS
<1>3. n \in Nat /\ 1 <= n /\ n <= MaxPacketSize /\ n < 2 ^ (ByteBits * LengthSize)
  <2>1. n \in Nat /\ 1 <= n /\ n <= MaxPacketSize
    BY <1>2 DEF EscapedToCome
  <2>2. 2 ^ (ByteBits * LengthSize) \in Nat /\ MaxPacketSize \in Nat
    BY SizeAssumption, WeightRange
  <2>3. PICK w : w = 2 ^ (ByteBits * LengthSize) OBVIOUS
  <2>4. MaxPacketSize < w BY <2>3 DEF LengthFits
  <2>5. w \in Nat BY <2>2, <2>3
  <2>6. n < w BY <2>1, <2>2, <2>4, <2>5
  <2> QED BY <2>1, <2>3, <2>6
<1>4. /\ Announced(n, 0) = 0
      /\ Announced(n, LengthSize) = n
      /\ \A c \in 0 .. LengthSize - 1 :
            Announced(n, c) + LengthBytes(n)[c + 1] * Weight(c + 1)
               = Announced(n, c + 1)
  BY <1>3, AnnouncedSteps
<1>5. /\ Len(Content(sent)) = LengthSize + n /\ LengthSize \in Nat \ {0}
      /\ \A i \in 1 .. LengthSize : Content(sent)[i] = LengthBytes(n)[i]
      /\ \A i \in 1 .. n : Content(sent)[LengthSize + i] = sent[i]
  BY <1>2, ContentType, SizeAssumption
<1>6. expected_length = Announced(n, LengthTaken)
  BY <1>2 DEF EscapedToCome
<1>7. PICK x : x = Escaped(Content(sent)) \o Footer OBVIOUS
<1>8. x \in Seq(Byte) /\ x # <<>>
  <2>1. PICK e : e = Escaped(Content(sent)) OBVIOUS
  <2>2. e \in Seq(Byte) BY <2>1, ContentType, EscapedType
  <2> QED BY <1>7, <2>1, <2>2, FooterType, Joined, ConcatLength
<1>9. Rest(0) = Content(sent)
  <2>1. Content(sent) \in Seq(Byte) BY ContentType
  <2>2. 0 + 1 = 1 OBVIOUS
  <2> QED BY <2>1, <2>2, SubSeqFull DEF Rest
<1>10. CASE curr_state = "HEADER"
  <2>1. ~escape_expected /\ count < HeaderSize /\ expected_length = 0
    BY <1>10 DEF ParserShape
  <2>2. PICK k : k = HeaderSize - count OBVIOUS
  <2>3. k \in Nat \ {0} /\ (count + 1 = HeaderSize <=> k = 1)
        /\ HeaderSize - (count + 1) = k - 1
    BY <2>1, <2>2, SizeAssumption
  <2>4. wire = Repeat(HeaderByte, k) \o x
    BY <1>7, <1>10, <2>2 DEF EscapedToCome
  <2>5. b = HeaderByte /\ wire' = Repeat(HeaderByte, k - 1) \o x
    BY <1>8, <2>3, <2>4, SpecialBytes, RunSent
  <2>6. HeaderByteSeen(b)
    BY <1>1, <1>10, <2>1, <2>5
    DEF AddByte, EscapeByteSeen, EscapeByteMissing, LengthByteSeen,
        LengthComplete, LengthTooLarge, PayloadByteSeen, FooterByteSeen,
        FooterComplete, UnexpectedByte
  <2>7. expected_length' = 0 /\ escape_expected' = FALSE
    BY <1>10, <2>1, <2>6 DEF HeaderByteSeen, EscapeNeeded
  <2>8. wire' # <<>>
    <3>1. PICK r : r = Repeat(HeaderByte, k - 1) OBVIOUS
    <3>2. r \in Seq(Byte)
      <4>1. k - 1 \in Nat BY <2>3
      <4> QED BY <3>1, <4>1, SpecialBytes, RepeatType
    <3> QED BY <1>8, <2>5, <3>1, <3>2, ConcatLength
  <2>9. CASE k = 1
    <3>1. curr_state' = "LENGTH" /\ count' = 0
      BY <2>3, <2>6, <2>9 DEF HeaderByteSeen, SetState
    <3>2. wire' = <<>> \o x
      <4>1. k - 1 = 0 BY <2>9
      <4> QED BY <2>5, <4>1, RepeatNone
    <3>3. Taken' = 0 /\ LengthTaken' = 0 BY <3>1 DEF Taken, LengthTaken
    <3>4. Escaping' = <<>> BY <2>7 DEF Escaping
    <3>5. wire' = Escaping' \o (Escaped(Rest(Taken')) \o Footer)
      BY <1>7, <1>9, <3>2, <3>3, <3>4, Zenon
    <3> QED BY <1>2, <1>4, <2>7, <2>8, <3>1, <3>3, <3>5
  <2>10. CASE k # 1
    <3>1. curr_state' = "HEADER" /\ count' = count + 1
      BY <1>10, <2>3, <2>6, <2>10 DEF HeaderByteSeen
    <3>2. LengthTaken' = 0 BY <3>1 DEF LengthTaken
    <3>3. wire' = Repeat(HeaderByte, HeaderSize - count') \o x
      BY <2>3, <2>5, <3>1
    <3> QED BY <1>2, <1>4, <1>7, <2>7, <2>8, <3>1, <3>2, <3>3
  <2> QED BY <2>9, <2>10
<1>11. CASE escape_expected
  <2>1. curr_state \in {"LENGTH", "PAYLOAD", "FOOTER"}
    BY <1>11 DEF ParserShape
  <2>2. PICK y :
           y = IF curr_state = "FOOTER"
                 THEN Repeat(FooterByte, FooterSize - count)
                 ELSE Escaped(Rest(Taken)) \o Footer
    OBVIOUS
  <2>3. y \in Seq(Byte) /\ y # <<>>
    <3>1. CASE curr_state = "FOOTER"
      <4>1. PICK m : m = FooterSize - count OBVIOUS
      <4>2. m \in Nat \ {0} BY <3>1, <4>1, SizeAssumption
      <4>3. y \in Seq(Byte) /\ Len(y) = m
        BY <2>2, <3>1, <4>1, <4>2, SpecialBytes, RepeatType
      <4>4. Len(y) # 0 BY <4>2, <4>3
      <4> QED BY <4>3, <4>4
    <3>2. CASE curr_state # "FOOTER"
      <4>1. Taken \in Nat /\ Taken <= Len(Content(sent))
        <5>1. CASE curr_state = "LENGTH" BY <1>3, <1>5, <5>1 DEF Taken
        <5>2. CASE curr_state = "PAYLOAD"
          BY <1>2, <1>3, <1>5, <5>2 DEF Taken, EscapedToCome
        <5> QED BY <2>1, <3>2, <5>1, <5>2
      <4> QED BY <2>2, <3>2, <4>1, RestType
    <3> QED BY <3>1, <3>2
  <2>4. wire = <<EscapeByte>> \o y
    <3>1. Escaping = <<EscapeByte>> BY <1>11 DEF Escaping
    <3> QED BY <2>1, <2>2, <3>1 DEF EscapedToCome
  <2>5. b = EscapeByte /\ wire' = y
    <3>1. PICK o : o = <<EscapeByte>> OBVIOUS
    <3>2. o \in Seq(Byte) /\ o # <<>> /\ Head(o) = EscapeByte /\ Tail(o) = <<>>
      BY <3>1, SpecialBytes
    <3>3. Head(wire) = Head(o) /\ Tail(wire) = Tail(o) \o y
      BY <2>3, <2>4, <3>1, <3>2, FirstByte
    <3>4. <<>> \o y = y BY <2>3, ConcatEmptySeq
    <3> QED BY <3>2, <3>3, <3>4, Zenon
  <2>6. EscapeByteSeen(b)
    BY <1>1, <1>11, <2>5
    DEF AddByte, EscapeByteMissing, HeaderByteSeen, LengthByteSeen,
        LengthComplete, LengthTooLarge, PayloadByteSeen, FooterByteSeen,
        FooterComplete, UnexpectedByte
  <2>7. /\ escape_expected' = FALSE
        /\ UNCHANGED <<curr_state, count, expected_length, buffer>>
    BY <2>6 DEF EscapeByteSeen
  <2>8. Escaping' = <<>> /\ Taken' = Taken /\ LengthTaken' = LengthTaken
    BY <2>7 DEF Escaping, Taken, LengthTaken
  <2>9. wire' = Escaping' \o y
    <3>1. <<>> \o y = y BY <2>3, ConcatEmptySeq
    <3> QED BY <2>5, <2>8, <3>1, Zenon
  <2>10. wire' # <<>> BY <2>3, <2>5
  <2>11. CASE curr_state = "FOOTER"
    <3>1. wire' = Escaping' \o Repeat(FooterByte, FooterSize - count')
      BY <2>2, <2>7, <2>9, <2>11
    <3> QED BY <1>2, <1>6, <2>7, <2>8, <2>10, <2>11, <3>1 DEF EscapedToCome
  <2>12. CASE curr_state # "FOOTER"
    <3>1. wire' = Escaping' \o (Escaped(Rest(Taken')) \o Footer)
      BY <2>2, <2>8, <2>9, <2>12
    <3> QED BY <1>2, <1>6, <2>1, <2>7, <2>8, <2>10, <2>12, <3>1 DEF EscapedToCome
  <2> QED BY <2>11, <2>12
\* A byte of the content.
<1>12. ASSUME curr_state \in {"LENGTH", "PAYLOAD"}, ~escape_expected
       PROVE  /\ Taken \in Nat /\ Taken < LengthSize + n
              /\ b = Content(sent)[Taken + 1]
              /\ b \in Byte
              /\ wire' = (IF b \in Special THEN <<EscapeByte>> ELSE <<>>)
                            \o (Escaped(Rest(Taken + 1)) \o Footer)
              /\ wire' # <<>>
  <2>1. Taken \in Nat /\ Taken < LengthSize + n
    <3>1. CASE curr_state = "LENGTH" BY <1>3, <1>5, <3>1 DEF Taken
    <3>2. CASE curr_state = "PAYLOAD"
      BY <1>2, <1>3, <1>5, <3>2 DEF Taken, EscapedToCome
    <3> QED BY <1>12, <3>1, <3>2
  <2>2. wire = <<>> \o (Escaped(Rest(Taken)) \o Footer)
    <3>1. Escaping = <<>> BY <1>12 DEF Escaping
    <3> QED BY <1>12, <3>1 DEF EscapedToCome
  <2>3. PICK t : t = Taken OBVIOUS
  <2>4. t \in Nat /\ t < Len(Content(sent))
        /\ wire = <<>> \o (Escaped(Rest(t)) \o Footer)
    BY <1>5, <2>1, <2>2, <2>3
  <2>5. /\ b = Content(sent)[t + 1] /\ b \in Byte
        /\ wire' = (IF b \in Special THEN <<EscapeByte>> ELSE <<>>)
                      \o (Escaped(Rest(t + 1)) \o Footer)
    BY <2>4, ContentByteSent
  <2>6. wire' # <<>>
    <3>1. PICK y : y = Escaped(Rest(t + 1)) \o Footer OBVIOUS
    <3>2. y \in Seq(Byte) /\ y # <<>>
      <4>1. t + 1 \in Nat /\ t + 1 <= Len(Content(sent))
        BY <1>3, <1>5, <2>1, <2>3
      <4> QED BY <3>1, <4>1, RestType
    <3>3. PICK o : o = IF b \in Special THEN <<EscapeByte>> ELSE <<>> OBVIOUS
    <3>4. o \in Seq(Byte) BY <3>3, SpecialBytes
    <3>5. wire' = o \o y BY <2>5, <3>1, <3>3, Zenon
    <3> QED BY <3>2, <3>4, <3>5, ConcatLength
  <2> QED BY <2>1, <2>3, <2>5, <2>6
<1>13. CASE curr_state = "LENGTH" /\ ~escape_expected
  <2>1. Taken = count /\ LengthTaken = count BY <1>13 DEF Taken, LengthTaken
  <2>2. count < LengthSize /\ count \in 0 .. LengthSize - 1
        /\ count + 1 \in 1 .. LengthSize
    BY <1>5, <1>13
  <2>3. AppendLengthByte(b) = Announced(n, count + 1)
    <3>1. b = LengthBytes(n)[count + 1] /\ b \in Byte
      BY <1>5, <1>12, <1>13, <2>1, <2>2
    <3>2. AppendLengthByte(b) = expected_length + b * Weight(count + 1)
      BY <3>1, AppendLengthByteIs
    <3>3. Announced(n, count) + LengthBytes(n)[count + 1] * Weight(count + 1)
             = Announced(n, count + 1)
      BY <1>4, <2>2
    <3> QED BY <1>6, <2>1, <3>1, <3>2, <3>3
  <2>4. CASE count + 1 < LengthSize
    <3>1. LengthByteSeen(b)
      BY <1>1, <1>13, <2>4
      DEF AddByte, EscapeByteSeen, EscapeByteMissing, HeaderByteSeen,
          LengthComplete, LengthTooLarge, PayloadByteSeen, FooterByteSeen,
          FooterComplete, UnexpectedByte
    <3>2. /\ curr_state' = "LENGTH" /\ count' = count + 1
          /\ expected_length' = Announced(n, count + 1)
          /\ Escaping' = IF b \in Special THEN <<EscapeByte>> ELSE <<>>
      BY <1>13, <2>3, <3>1 DEF LengthByteSeen, EscapeNeeded, Escaping
    <3>3. Taken' = Taken + 1 /\ LengthTaken' = count + 1
      BY <2>1, <3>2 DEF Taken, LengthTaken
    <3>4. wire' = Escaping' \o (Escaped(Rest(Taken')) \o Footer) /\ wire' # <<>>
      BY <1>12, <1>13, <3>2, <3>3, Zenon
    <3> QED BY <1>2, <3>2, <3>3, <3>4
  <2>5. CASE ~(count + 1 < LengthSize)
    <3>1. count + 1 = LengthSize BY <2>2, <2>5, <1>5
    <3>2. AppendLengthByte(b) = n BY <1>4, <2>3, <3>1
    <3>3. ~(AppendLengthByte(b) > MaxPacketSize)
      BY <1>3, <3>2, SizeAssumption
    <3>4. LengthComplete(b)
      BY <1>1, <1>13, <2>5, <3>3
      DEF AddByte, EscapeByteSeen, EscapeByteMissing, HeaderByteSeen,
          LengthByteSeen, LengthTooLarge, PayloadByteSeen, FooterByteSeen,
          FooterComplete, UnexpectedByte
    <3>5. /\ curr_state' = "PAYLOAD" /\ count' = 0
          /\ expected_length' = n /\ buffer' = <<>>
          /\ Escaping' = IF b \in Special THEN <<EscapeByte>> ELSE <<>>
      BY <1>13, <3>2, <3>4
      DEF LengthComplete, SetState, EscapeNeeded, Escaping
    <3>6. Taken' = Taken + 1 /\ LengthTaken' = LengthSize
      BY <1>5, <2>1, <3>1, <3>5 DEF Taken, LengthTaken
    <3>7. wire' = Escaping' \o (Escaped(Rest(Taken')) \o Footer) /\ wire' # <<>>
      BY <1>12, <1>13, <3>5, <3>6, Zenon
    <3>8. buffer' = SubSeq(sent, 1, count') BY <3>5, SubSeqEmpty
    <3>9. count' < Len(sent) BY <1>2, <1>3, <3>5
    <3>10. expected_length' = Announced(Len(sent), LengthTaken')
      BY <1>2, <1>4, <3>5, <3>6
    <3>11. curr_state' = "PAYLOAD" BY <3>5
    <3> QED BY <3>7, <3>8, <3>9, <3>10, <3>11, Zenon
  <2> QED BY <2>4, <2>5
<1>14. CASE curr_state = "PAYLOAD" /\ ~escape_expected
  <2>1. Taken = LengthSize + count /\ LengthTaken = LengthSize
    BY <1>14 DEF Taken, LengthTaken
  <2>2. count < n /\ buffer = SubSeq(sent, 1, count) /\ count \in Nat
    BY <1>2, <1>14 DEF EscapedToCome
  <2>3. expected_length = n BY <1>4, <1>6, <2>1
  <2>4. b = sent[count + 1]
    <3>1. count + 1 \in 1 .. n BY <1>3, <2>2
    <3>2. PICK i : i = count + 1 OBVIOUS
    <3>3. Content(sent)[LengthSize + i] = sent[i] BY <1>5, <3>1, <3>2
    <3>4. Taken + 1 = LengthSize + i BY <1>5, <2>1, <2>2, <3>2
    <3> QED BY <1>12, <1>14, <3>2, <3>3, <3>4
  <2>5. PayloadByteSeen(b)
    BY <1>1, <1>14
    DEF AddByte, EscapeByteSeen, EscapeByteMissing, HeaderByteSeen,
        LengthByteSeen, LengthComplete, LengthTooLarge, FooterByteSeen,
        FooterComplete, UnexpectedByte
  <2>6. /\ buffer' = Append(buffer, b) /\ expected_length' = n
        /\ Escaping' = IF b \in Special THEN <<EscapeByte>> ELSE <<>>
        /\ count + 1 = n => curr_state' = "FOOTER" /\ count' = 0
        /\ count + 1 # n => curr_state' = "PAYLOAD" /\ count' = count + 1
    BY <1>14, <2>3, <2>5 DEF PayloadByteSeen, SetState, EscapeNeeded, Escaping
  <2>7. buffer' = SubSeq(sent, 1, count + 1)
    <3>1. PICK c : c = count + 1 OBVIOUS
    <3>2. 1 \in 1 .. Len(sent) /\ c \in 1 .. Len(sent) /\ c - 1 = count
      BY <1>2, <1>3, <2>2, <3>1
    <3>3. SubSeq(sent, 1, c) = SubSeq(sent, 1, c - 1) \o <<sent[c]>>
      BY <3>2, SubSeqRecursiveSecond
    <3>4. Append(buffer, b) = buffer \o <<b>>
      <4>1. b \in Byte BY <1>12, <1>14
      <4>2. buffer \in Seq(Byte) OBVIOUS
      <4> QED BY <4>1, <4>2, AppendIsConcat, Zenon
    <3> QED BY <2>2, <2>4, <2>6, <3>1, <3>2, <3>3, <3>4
  <2>8. CASE count + 1 = n
    <3>1. curr_state' = "FOOTER" /\ count' = 0 BY <2>6, <2>8
    <3>2. LengthTaken' = LengthSize BY <3>1 DEF LengthTaken
    <3>3. buffer' = sent
      <4>1. SubSeq(sent, 1, Len(sent)) = sent BY SubSeqFull
      <4> QED BY <1>2, <2>7, <2>8, <4>1
    <3>4. Escaped(Rest(Taken + 1)) = <<>>
      <4>1. PICK k : k = Taken + 1 OBVIOUS
      <4>2. k = Len(Content(sent)) /\ k \in Nat
        BY <1>3, <1>5, <2>1, <2>2, <2>8, <4>1
      <4>3. Rest(k) = <<>> BY <4>2, SubSeqEmpty DEF Rest
      <4> QED BY <4>1, <4>3, EscapedEmpty
    <3>5. Footer = Repeat(FooterByte, FooterSize - count')
      <4>1. FooterSize - 0 = FooterSize BY SpecialBytes
      <4> QED BY <3>1, <4>1 DEF Footer
    <3>6. <<>> \o Footer = Footer BY FooterType, ConcatEmptySeq
    <3>7. wire' = Escaping' \o Repeat(FooterByte, FooterSize - count')
          /\ wire' # <<>>
      BY <1>12, <1>14, <2>6, <3>4, <3>5, <3>6, Zenon
    <3> QED BY <1>2, <1>4, <2>6, <3>1, <3>2, <3>3, <3>7
  <2>9. CASE count + 1 # n
    <3>1. curr_state' = "PAYLOAD" /\ count' = count + 1 BY <2>6, <2>9
    <3>2. LengthTaken' = LengthSize /\ Taken' = Taken + 1
      BY <1>5, <2>1, <2>2, <3>1 DEF LengthTaken, Taken
    <3>3. wire' = Escaping' \o (Escaped(Rest(Taken')) \o Footer) /\ wire' # <<>>
      BY <1>12, <1>14, <2>6, <3>2, Zenon
    <3>4. count' < n BY <1>3, <2>2, <2>9, <3>1
    <3> QED BY <1>2, <1>4, <2>6, <2>7, <3>1, <3>2, <3>3, <3>4
  <2> QED BY <2>8, <2>9
<1>15. CASE curr_state = "FOOTER" /\ ~escape_expected
  <2>1. PICK k : k = FooterSize - count OBVIOUS
  <2>2. /\ k \in Nat \ {0} /\ (count + 1 = FooterSize <=> k = 1)
        /\ FooterSize - (count + 1) = k - 1 /\ k - 1 \in Nat
        /\ (k # 1 <=> count + 1 < FooterSize)
    BY <1>15, <2>1, SizeAssumption
  <2>3. wire = Repeat(FooterByte, k) \o <<>>
    <3>1. Escaping = <<>> BY <1>15 DEF Escaping
    <3>2. PICK r : r = Repeat(FooterByte, k) OBVIOUS
    <3>3. r \in Seq(Byte) BY <2>2, <3>2, SpecialBytes, RepeatType
    <3>4. <<>> \o r = r /\ r \o <<>> = r BY <3>3, ConcatEmptySeq
    <3>5. wire = <<>> \o r BY <1>15, <2>1, <3>1, <3>2 DEF EscapedToCome
    <3> QED BY <3>2, <3>4, <3>5
  <2>4. b = FooterByte /\ wire' = Repeat(FooterByte, k - 1) \o <<>>
    <3>1. <<>> \in Seq(Byte) OBVIOUS
    <3> QED BY <2>2, <2>3, <3>1, SpecialBytes, RunSent
  <2>5. PICK r : r = Repeat(FooterByte, k - 1) OBVIOUS
  <2>6. r \in Seq(Byte) /\ Len(r) = k - 1 /\ wire' = r /\ <<>> \o r = r
    <3>1. r \in Seq(Byte) /\ Len(r) = k - 1
      BY <2>2, <2>5, SpecialBytes, RepeatType
    <3>2. r \o <<>> = r /\ <<>> \o r = r BY <3>1, ConcatEmptySeq
    <3> QED BY <2>4, <2>5, <3>1, <3>2
  <2>7. LengthTaken = LengthSize /\ buffer = sent /\ expected_length = n
    BY <1>2, <1>4, <1>6, <1>15 DEF LengthTaken, EscapedToCome
  <2>8. CASE k = 1
    <3>1. wire' = <<>>
      <4>1. Len(r) = 0 BY <2>6, <2>8
      <4> QED BY <2>6, <4>1, EmptySeq
    <3>2. PICK valid \in BOOLEAN : FooterComplete(b, valid)
      BY <1>1, <1>15, <2>2, <2>4, <2>8
      DEF AddByte, EscapeByteSeen, EscapeByteMissing, HeaderByteSeen,
          LengthByteSeen, LengthComplete, LengthTooLarge, PayloadByteSeen,
          FooterByteSeen, UnexpectedByte
    <3>3. decoded' = buffer BY <3>2 DEF FooterComplete
    <3> QED BY <2>7, <3>1, <3>3
  <2>9. CASE k # 1
    <3>1. wire' # <<>>
      <4>1. Len(r) # 0 BY <2>2, <2>6, <2>9
      <4>2. r # <<>> BY <4>1
      <4> QED BY <2>6, <4>2
    <3>2. FooterByteSeen(b)
      BY <1>1, <1>15, <2>2, <2>4, <2>9
      DEF AddByte, EscapeByteSeen, EscapeByteMissing, HeaderByteSeen,
          LengthByteSeen, LengthComplete, LengthTooLarge, PayloadByteSeen,
          FooterComplete, UnexpectedByte
    <3>3. /\ curr_state' = "FOOTER" /\ count' = count + 1
          /\ expected_length' = n /\ buffer' = sent /\ Escaping' = <<>>
      BY <1>15, <2>7, <3>2 DEF FooterByteSeen, EscapeNeeded, Escaping
    <3>4. LengthTaken' = LengthSize BY <3>3 DEF LengthTaken
    <3>5. wire' = Escaping' \o Repeat(FooterByte, FooterSize - count')
      BY <2>2, <2>5, <2>6, <3>3
    <3> QED BY <1>2, <1>4, <3>1, <3>3, <3>4, <3>5
  <2> QED BY <2>8, <2>9
<1> QED BY <1>10, <1>11, <1>13, <1>14, <1>15

\* A payload that fits the buffer fits its length.
LEMMA PayloadFits ==
    ASSUME LengthFits, NEW n \in Nat, n <= MaxPacketSize
    PROVE  n < 2 ^ (ByteBits * LengthSize)
<1>1. PICK w : w = 2 ^ (ByteBits * LengthSize) OBVIOUS
<1>2. w \in Nat /\ MaxPacketSize \in Nat BY <1>1, SizeAssumption, WeightRange
<1>3. MaxPacketSize < w BY <1>1 DEF LengthFits
<1>4. n < w BY <1>2, <1>3
<1> QED BY <1>1, <1>4

\* A sequence is its first byte and the rest.
LEMMA HeadThenTail ==
    ASSUME NEW s \in Seq(Byte), s # <<>>
    PROVE  s = <<Head(s)>> \o Tail(s)
<1>1. PICK o : o = <<Head(s)>> OBVIOUS
<1>2. PICK t : t = Tail(s) OBVIOUS
<1>3. /\ Head(s) \in Byte /\ Head(s) = s[1] /\ t \in Seq(Byte)
      /\ Len(t) = Len(s) - 1 /\ \A i \in 1 .. Len(t) : t[i] = s[i + 1]
  BY <1>2, HeadTailProperties
<1>4. o \in Seq(Byte) /\ Len(o) = 1 /\ o[1] = s[1] BY <1>1, <1>3
<1>5. PICK y : y = o \o t OBVIOUS
<1>6. /\ y \in Seq(Byte) /\ Len(y) = 1 + Len(t)
      /\ \A i \in 1 .. 1 + Len(t) : y[i] = IF i <= 1 THEN o[i] ELSE t[i - 1]
  <2>1. /\ o \o t \in Seq(Byte) /\ Len(o \o t) = Len(o) + Len(t)
        /\ \A i \in 1 .. Len(o) + Len(t) :
             (o \o t)[i] = IF i <= Len(o) THEN o[i] ELSE t[i - Len(o)]
    <3>1. PICK p : p = o OBVIOUS
    <3>2. PICK q : q = t OBVIOUS
    <3>3. p \in Seq(Byte) /\ q \in Seq(Byte) BY <1>3, <1>4, <3>1, <3>2
    <3>4. /\ p \o q \in Seq(Byte) /\ Len(p \o q) = Len(p) + Len(q)
          /\ \A i \in 1 .. Len(p) + Len(q) :
               (p \o q)[i] = IF i <= Len(p) THEN p[i] ELSE q[i - Len(p)]
      BY <3>3, ConcatProperties
    <3> QED BY <3>1, <3>2, <3>4, Zenon
  <2> QED BY <1>4, <1>5, <2>1
<1>7. Len(t) \in Nat /\ Len(y) = Len(s) BY <1>3, <1>6
<1>8. ASSUME NEW i \in 1 .. Len(y) PROVE y[i] = s[i]
  <2>1. CASE i = 1 BY <1>4, <1>6, <1>7, <2>1
  <2>2. CASE i # 1
    <3>1. i - 1 \in 1 .. Len(t) /\ ~(i <= 1) /\ i - 1 + 1 = i
      BY <1>6, <1>7, <2>2
    <3>2. y[i] = t[i - 1] BY <1>6, <3>1
    <3> QED BY <1>3, <3>1, <3>2
  <2> QED BY <2>1, <2>2
<1>9. y = s BY <1>6, <1>7, <1>8, SeqEqual
<1> QED BY <1>1, <1>2, <1>5, <1>9

\* The frame of a payload is sent.
LEMMA FrameBegun ==
    ASSUME LengthFits, LinkInv, StartFrame
    PROVE  EscapedToCome' /\ TesterToCome'
<1>1. PICK p \in Payloads, framing \in Framings :
         /\ sent' = p /\ wire' = Encode(framing, p)
         /\ escaped' = (wire' = FrameOf(p))
  BY DEF StartFrame
<1>2. /\ p \in Seq(Byte) /\ p # <<>>
      /\ Len(p) \in Nat /\ 1 <= Len(p) /\ Len(p) <= MaxPacketSize
  BY PayloadType
<1>3. /\ inSync' = AtStart
      /\ UNCHANGED <<curr_state, count, escape_expected, expected_length, buffer, seen>>
  BY DEF StartFrame, parser
<1>4. inSync' => /\ curr_state' = "HEADER" /\ count' = 0 /\ expected_length' = 0
                 /\ seen' = <<>>
  <2> SUFFICES ASSUME AtStart
               PROVE  /\ curr_state' = "HEADER" /\ count' = 0 /\ expected_length' = 0
                      /\ seen' = <<>>
    BY <1>3
  <2>1. curr_state = "HEADER" /\ count = 0 BY DEF AtStart
  <2>2. expected_length = 0 /\ seen = Repeat(HeaderByte, 0)
    BY <2>1 DEF LinkInv, ParserShape, SeenIsRead
  <2>3. Repeat(HeaderByte, 0) = <<>> BY RepeatNone
  <2> QED BY <1>3, <2>1, <2>2, <2>3
<1>5. EscapedToCome'
  <2> SUFFICES ASSUME inSync', escaped' PROVE EscapedToCome'
    BY DEF EscapedToCome
  <2>1. wire' = Repeat(HeaderByte, HeaderSize) \o (Escaped(Content(sent')) \o Footer)
    BY <1>1, <1>2, FrameType DEF Footer
  <2>2. HeaderSize - count' = HeaderSize BY <1>4, SpecialBytes
  <2>3. Announced(Len(sent'), LengthTaken') = 0
    <3>1. LengthTaken' = 0 BY <1>4 DEF LengthTaken
    <3>2. Announced(Len(p), 0) = 0
      <4>1. PICK n : n = Len(p) OBVIOUS
      <4>2. n \in Nat /\ n <= MaxPacketSize BY <1>2, <4>1
      <4>3. n < 2 ^ (ByteBits * LengthSize) BY <4>2, PayloadFits
      <4>4. Announced(n, 0) = 0 BY <4>2, <4>3, AnnouncedSteps
      <4> QED BY <4>1, <4>4
    <3> QED BY <1>1, <3>1, <3>2
  <2>4. wire' = Repeat(HeaderByte, HeaderSize - count')
                  \o (Escaped(Content(sent')) \o Footer)
    BY <2>1, <2>2
  <2>5. curr_state' = "HEADER" /\ 1 <= Len(sent') /\ Len(sent') <= MaxPacketSize
        /\ expected_length' = Announced(Len(sent'), LengthTaken')
    BY <1>1, <1>2, <1>4, <2>3
  <2> QED BY <2>4, <2>5 DEF EscapedToCome
<1>6. TesterToCome'
  <2> SUFFICES ASSUME inSync', ~escaped' PROVE TesterToCome'
    BY DEF TesterToCome
  <2>1. wire' = TesterFrameOf(p) /\ wire' # FrameOf(p)
    BY <1>1 DEF Encode
  <2>2. PICK w : w = TesterFrameOf(p) OBVIOUS
  <2>3. w \in Seq(Byte) BY <1>2, <2>2, FrameType
  <2>4. seen' \o wire' = w /\ Len(seen') + Len(wire') = Len(w)
    <3>1. <<>> \o w = w BY <2>3, ConcatEmptySeq
    <3>2. Len(<<>>) = 0 /\ Len(w) \in Nat BY <2>3
    <3>3. seen' = <<>> /\ wire' = w BY <1>4, <2>1, <2>2
    <3>4. 0 + Len(w) = Len(w) BY <3>2
    <3> QED BY <3>1, <3>2, <3>3, <3>4, Zenon
  <2>5. Len(w) <= Len(w) BY <2>3
  <2> QED BY <1>1, <1>2, <2>1, <2>2, <2>4, <2>5 DEF TesterToCome
<1> QED BY <1>5, <1>6

\* A byte of a frame of the tester is seen, or the parser starts again.
LEMMA TesterFrameSeen ==
    ASSUME LinkInv, TesterToCome, SendByte
    PROVE  TesterToCome'
<1> SUFFICES ASSUME inSync', ~escaped', wire' # <<>> PROVE TesterToCome'
  BY DEF TesterToCome
<1>1. PICK b : b = Head(wire) OBVIOUS
<1>2. /\ wire # <<>> /\ Receive(b) /\ wire' = Tail(wire)
      /\ sent' = sent /\ inSync /\ ~escaped
  BY <1>1 DEF SendByte
<1>3. /\ wire \in Seq(Byte) /\ seen \in Seq(Byte)
      /\ b \in Byte /\ wire' \in Seq(Byte) /\ Len(wire) = Len(wire') + 1
      /\ Len(wire') \in Nat /\ Len(seen) \in Nat
  BY <1>1, <1>2, HeadTailProperties DEF LinkInv, LinkTypeOK
<1>4. PICK f : f = TesterFrameOf(sent) OBVIOUS
<1>5. /\ sent # <<>> /\ f # FrameOf(sent)
      /\ Len(seen) + Len(wire) <= Len(f)
      /\ Len(seen) + Len(wire) = Len(f) => seen \o wire = f
  BY <1>2, <1>4 DEF TesterToCome
<1>6. Len(f) \in Nat
  <2>1. f \in Seq(Byte) BY <1>4, FrameType DEF LinkInv, LinkTypeOK
  <2> QED BY <2>1
<1>7. seen' = IF AtStart' THEN <<>> ELSE Append(seen, b)
  BY <1>2 DEF Receive
<1>8. CASE AtStart'
  <2>1. seen' = <<>> BY <1>7, <1>8
  <2>2. Len(seen') = 0 BY <2>1
  <2>3. Len(seen') + Len(wire') < Len(f) BY <1>3, <1>5, <1>6, <2>2
  <2>4. Len(seen') + Len(wire') \in Nat BY <1>3, <2>2
  <2>5. Len(seen') + Len(wire') <= Len(f) /\ Len(seen') + Len(wire') # Len(f)
    BY <1>6, <2>3, <2>4
  <2> QED BY <1>2, <1>4, <1>5, <2>5 DEF TesterToCome
<1>9. CASE ~AtStart'
  <2>1. seen' = Append(seen, b) BY <1>7, <1>9
  <2>2. Len(seen') = Len(seen) + 1 BY <1>3, <2>1, AppendProperties
  <2>3. Len(seen') + Len(wire') = Len(seen) + Len(wire) BY <1>3, <2>2
  <2>4. seen' \o wire' = seen \o wire
    <3>1. PICK o : o = <<b>> OBVIOUS
    <3>2. o \in Seq(Byte) BY <1>3, <3>1
    <3>3. Append(seen, b) = seen \o o BY <1>3, <3>1, AppendIsConcat, Zenon
    <3>4. Regroups(seen, o, wire') BY <1>3, <3>2, Regroup
    <3>5. o \o wire' = wire BY <1>1, <1>2, <1>3, <3>1, HeadThenTail, Zenon
    <3> QED BY <2>1, <3>3, <3>4, <3>5, Zenon DEF Regroups
  <2> QED BY <1>2, <1>4, <1>5, <2>3, <2>4 DEF TesterToCome
<1> QED BY <1>8, <1>9

\* Every step keeps the parser and the frame in step.
LEMMA InSyncStep ==
    ASSUME LengthFits, InSyncInv, [LinkNext]_linkVars
    PROVE  InSyncInv'
<1>1. LinkInv' BY LinkInvStep DEF InSyncInv
<1>2. CASE Noise
  <2>1. wire' = <<>> BY <1>2 DEF Noise
  <2> QED BY <1>1, <2>1 DEF InSyncInv, EscapedToCome, TesterToCome
<1>3. CASE StartFrame BY <1>1, <1>3, FrameBegun DEF InSyncInv
<1>4. CASE SendByte
  <2>1. TesterToCome' BY <1>4, TesterFrameSeen DEF InSyncInv
  <2>2. EscapedToCome'
    <3> SUFFICES ASSUME inSync', escaped', wire' # <<>> PROVE EscapedToCome'
      BY DEF EscapedToCome
    <3>1. /\ wire # <<>> /\ Receive(Head(wire)) /\ wire' = Tail(wire)
          /\ sent' = sent /\ inSync /\ escaped
      BY <1>4 DEF SendByte
    <3>2. LinkInv /\ EscapedToCome BY DEF InSyncInv
    <3>3. /\ curr_state' = "HEADER" =>
               wire' = Repeat(HeaderByte, HeaderSize - count')
                         \o (Escaped(Content(sent)) \o Footer)
          /\ curr_state' \in {"LENGTH", "PAYLOAD"} =>
               wire' = Escaping' \o (Escaped(Rest(Taken')) \o Footer)
          /\ curr_state' = "FOOTER" =>
               wire' = Escaping' \o Repeat(FooterByte, FooterSize - count')
          /\ expected_length' = Announced(Len(sent), LengthTaken')
          /\ curr_state' = "PAYLOAD" =>
               count' < Len(sent) /\ buffer' = SubSeq(sent, 1, count')
          /\ curr_state' = "FOOTER" => buffer' = sent
      BY <3>1, <3>2, FollowsFrame
    <3>4. 1 <= Len(sent) /\ Len(sent) <= MaxPacketSize
      BY <3>1, <3>2 DEF EscapedToCome
    <3>5. Content(sent') = Content(sent) BY <3>1
    <3>6. Rest(Taken') = SubSeq(Content(sent), Taken' + 1, Len(Content(sent)))
      BY DEF Rest
    <3> QED BY <3>1, <3>3, <3>4, <3>5, <3>6 DEF EscapedToCome, Rest
  <2> QED BY <1>1, <2>1, <2>2 DEF InSyncInv
<1>5. CASE UNCHANGED linkVars
  <2>1. UNCHANGED <<curr_state, count, escape_expected, expected_length, buffer,
                    wire, sent, escaped, inSync, seen>>
    BY <1>5 DEF linkVars, packetiserVars, parser
  <2>2. EscapedToCome'
    BY <2>1 DEF InSyncInv, EscapedToCome, Escaping, Rest, Taken, LengthTaken
  <2>3. TesterToCome' BY <2>1 DEF InSyncInv, TesterToCome
  <2> QED BY <1>1, <2>2, <2>3 DEF InSyncInv
<1> QED BY <1>2, <1>3, <1>4, <1>5 DEF LinkNext

\* The last byte of a frame of the tester completes no frame of its payload.
LEMMA TesterFrameIsLost ==
    ASSUME LinkInv, TesterToCome, inSync, ~escaped, SendByte, wire' = <<>>
    PROVE  decoded' # sent
<1> SUFFICES ASSUME decoded' = sent PROVE FALSE OBVIOUS
<1>1. PICK b : b = Head(wire) OBVIOUS
<1>2. wire # <<>> /\ Receive(b) /\ wire' = Tail(wire) BY <1>1 DEF SendByte
<1>3. wire \in Seq(Byte) /\ seen \in Seq(Byte) /\ sent \in Seq(Byte) /\ b \in Byte
  BY <1>1, <1>2 DEF LinkInv, LinkTypeOK
<1>4. PICK f : f = TesterFrameOf(sent) OBVIOUS
<1>5. /\ sent # <<>> /\ f # FrameOf(sent)
      /\ Len(seen) + Len(wire) <= Len(f)
      /\ Len(seen) + Len(wire) = Len(f) => seen \o wire = f
  BY <1>2, <1>4 DEF TesterToCome
<1>6. b = FooterByte /\ Append(seen, b) = FrameOf(sent)
  BY <1>2, <1>3, <1>5, DecodedIsFrame
<1>7. wire = <<b>>
  <2>1. wire = <<b>> \o <<>> BY <1>1, <1>2, <1>3, HeadThenTail, Zenon
  <2>2. PICK o : o = <<b>> OBVIOUS
  <2>3. o \in Seq(Byte) BY <1>3, <2>2
  <2>4. o \o <<>> = o BY <2>3, ConcatEmptySeq
  <2> QED BY <2>1, <2>2, <2>4, Zenon
<1>8. seen \o wire = FrameOf(sent)
  <2>1. Append(seen, b) = seen \o <<b>> BY <1>3, AppendIsConcat, Zenon
  <2> QED BY <1>6, <1>7, <2>1, Zenon
<1>9. PICK g : g = FrameOf(sent) OBVIOUS
<1>10. Len(f) \in Nat /\ Len(g) \in Nat /\ Len(f) <= Len(g)
  <2>1. f \in Seq(Byte) /\ g \in Seq(Byte) /\ Len(f) <= Len(g)
    BY <1>3, <1>4, <1>9, FrameType
  <2> QED BY <2>1
<1>11. Len(g) = Len(seen) + Len(wire)
  BY <1>3, <1>8, <1>9, ConcatLength
<1>12. Len(seen) + Len(wire) = Len(f) BY <1>5, <1>10, <1>11
<1> QED BY <1>5, <1>8, <1>12

\* A frame that begins while the parser is at the start of a frame is decoded,
\* with its last byte and its payload intact, if it has the escape bytes the
\* parser expects, and only then.
THEOREM InSyncFramesAreDecoded ==
    ASSUME LengthFits
    PROVE  LinkSpec => InSyncDecodedIffEscaped
<1>1. LinkInit => InSyncInv
  <2> SUFFICES ASSUME LinkInit PROVE InSyncInv OBVIOUS
  <2>1. LinkInv BY LinkInvInit
  <2>2. wire = <<>> BY DEF LinkInit
  <2> QED BY <2>1, <2>2 DEF InSyncInv, EscapedToCome, TesterToCome
<1>2. InSyncInv /\ [LinkNext]_linkVars => InSyncInv' BY InSyncStep
<1>3. InSyncInv /\ [LinkNext]_linkVars =>
        [LastByteSent /\ inSync => (decoded' = sent <=> escaped)]_linkVars
  <2> SUFFICES ASSUME InSyncInv, LinkNext, LastByteSent, inSync
               PROVE  decoded' = sent <=> escaped
    BY Zenon
  <2>1. wire # <<>> /\ wire' = <<>> BY DEF LastByteSent
  <2>2. SendByte BY <2>1 DEF LinkNext, Noise, StartFrame
  <2>3. Receive(Head(wire)) /\ wire' = Tail(wire) /\ sent' = sent
    BY <2>2 DEF SendByte
  <2>4. LinkInv /\ EscapedToCome /\ TesterToCome BY DEF InSyncInv
  <2>5. CASE escaped
    <3>1. decoded' = sent BY <2>1, <2>3, <2>4, <2>5, FollowsFrame
    <3> QED BY <2>5, <3>1
  <2>6. CASE ~escaped
    <3>1. decoded' # sent BY <2>1, <2>2, <2>4, <2>6, TesterFrameIsLost
    <3> QED BY <2>6, <3>1
  <2> QED BY <2>5, <2>6
<1> QED BY <1>1, <1>2, <1>3, PTL DEF LinkSpec, InSyncDecodedIffEscaped
=============================================================================
