----------------------------- MODULE WireProofs -----------------------------
(***************************************************************************)
(* That a connection of the C++ flavour carries what is said over it.      *)
(* Every request and answer comes back from its bytes.  The loops keep     *)
(* within their lengths.  Request and answer are where the two ends take   *)
(* them to be while TCP moves whole messages, and so the connection        *)
(* implements Rounds.                                                      *)
(***************************************************************************)
EXTENDS Wire, Integers, SequenceTheorems, WellFoundedInduction, TLAPS

-----------------------------------------------------------------------------
(***************************************************************************)
(* Numbers.                                                                *)
(***************************************************************************)

\* A set of numbers that is not empty has a least one.
LEMMA LeastNat ==
    ASSUME NEW T \in SUBSET Nat, T # {}
    PROVE  \E x \in T : \A y \in T : x <= y
<1>1. \E x \in T : \A y \in T : ~ (<<y, x>> \in OpToRel(<, Nat))
  BY NatLessThanWellFounded, WFMin, Zenon
<1>2. PICK x \in T : \A y \in T : ~ (<<y, x>> \in OpToRel(<, Nat))
  BY <1>1
<1>3. \A y \in T : x <= y
  <2> SUFFICES ASSUME NEW y \in T, y < x PROVE FALSE OBVIOUS
  <2>1. <<y, x>> \in OpToRel(<, Nat)
    BY DEF OpToRel
  <2> QED BY <2>1, <1>2
<1> QED BY <1>3

\* Induction over the numbers, from the least number that is not in a set.
LEMMA Induction ==
    ASSUME NEW T, 0 \in T, \A n \in Nat : n \in T => n + 1 \in T
    PROVE  \A n \in Nat : n \in T
<1> DEFINE U == {n \in Nat : n \notin T}
<1> SUFFICES ASSUME U # {} PROVE FALSE
  OBVIOUS
<1>1. PICK x \in U : \A y \in U : x <= y
  BY LeastNat
<1>2. x # 0
  OBVIOUS
<1>3. x - 1 \in Nat /\ x - 1 \notin U
  BY <1>1, <1>2
<1>4. x - 1 + 1 = x
  OBVIOUS
<1> QED BY <1>3, <1>4

(***************************************************************************)
(* What stands where in a sequence of bytes.                               *)
(***************************************************************************)

\* The bytes of data behind the first i are those of s, and then perhaps more.
Holds(data, i, s) ==
    /\ i \in Nat /\ i + Len(s) <= Len(data)
    /\ \A k \in 1..Len(s) : data[i + k] = s[k]

\* Bytes behind bytes.
LEMMA Joined ==
    ASSUME NEW s \in Bytes, NEW t \in Bytes
    PROVE  /\ s \o t \in Bytes
           /\ Len(s) \in Nat /\ Len(t) \in Nat
           /\ Len(s \o t) = Len(s) + Len(t)
BY DEF Bytes

\* What stands in the first part of two.
LEMMA Front ==
    ASSUME NEW s \in Bytes, NEW t \in Bytes, NEW k \in 1..Len(s)
    PROVE  (s \o t)[k] = s[k]
BY DEF Bytes

\* What stands in the second part of two.
LEMMA Back ==
    ASSUME NEW s \in Bytes, NEW t \in Bytes, NEW k \in 1..Len(t)
    PROVE  (s \o t)[Len(s) + k] = t[k]
BY DEF Bytes

\* A sequence of bytes has a length, and a byte at every place.
LEMMA BytesLen ==
    ASSUME NEW s \in Bytes
    PROVE  Len(s) \in Nat /\ DOMAIN s = 1..Len(s) /\ \A k \in 1..Len(s) : s[k] \in 0..255
BY LenProperties, ElementOfSeq DEF Bytes

\* Bytes that agree at every place are the same.
LEMMA BytesEqual ==
    ASSUME NEW s \in Bytes, NEW t \in Bytes, Len(s) = Len(t), \A k \in 1..Len(s) : s[k] = t[k]
    PROVE  s = t
BY DEF Bytes

\* A stretch of bytes, and its length.
LEMMA BytesSub ==
    ASSUME NEW s \in Bytes, NEW m \in Nat \ {0}, NEW n \in Nat, n <= Len(s)
    PROVE  /\ SubSeq(s, m, n) \in Bytes
           /\ Len(SubSeq(s, m, n)) = IF m <= n THEN n - m + 1 ELSE 0
<1>1. ASSUME NEW k \in m..n PROVE s[k] \in 0..255
  <2>1. k \in 1..Len(s)
    BY BytesLen
  <2> QED BY <2>1, BytesLen
<1> QED BY <1>1, SubSeqProperties DEF Bytes

\* What stands in a stretch.
LEMMA BytesSubAt ==
    ASSUME NEW s \in Bytes, NEW m \in Nat \ {0}, NEW n \in Nat, n <= Len(s), NEW k \in 1..(n - m + 1)
    PROVE  SubSeq(s, m, n)[k] = s[m + k - 1]
BY DEF Bytes

\* Bytes hold themselves.
LEMMA HoldsItself ==
    ASSUME NEW s \in Bytes
    PROVE  Holds(s, 0, s)
<1>1. Len(s) \in Nat
  BY BytesLen
<1>2. \A k \in 1..Len(s) : 0 + k = k
  BY <1>1
<1> QED BY <1>1, <1>2 DEF Holds

\* More behind them does not move them.
LEMMA HoldsInFront ==
    ASSUME NEW d \in Bytes, NEW t \in Bytes, NEW s \in Bytes, NEW i, Holds(d, i, s)
    PROVE  Holds(d \o t, i, s)
<1>1. Len(s) \in Nat /\ Len(d) \in Nat /\ Len(t) \in Nat /\ Len(d \o t) = Len(d) + Len(t)
  BY Joined, BytesLen
<1>2. i \in Nat /\ i + Len(s) <= Len(d)
  BY DEF Holds
<1>3. ASSUME NEW k \in 1..Len(s) PROVE (d \o t)[i + k] = s[k]
  <2>1. i + k \in 1..Len(d)
    BY <1>1, <1>2
  <2>2. (d \o t)[i + k] = d[i + k]
    BY <2>1, Front
  <2>3. d[i + k] = s[k]
    BY DEF Holds
  <2> QED BY <2>2, <2>3
<1>4. i + Len(s) <= Len(d \o t)
  BY <1>1, <1>2
<1> QED BY <1>2, <1>3, <1>4 DEF Holds

\* Something in front moves them by its length.
LEMMA HoldsBehind ==
    ASSUME NEW d \in Bytes, NEW t \in Bytes, NEW s \in Bytes, NEW i, Holds(t, i, s)
    PROVE  Holds(d \o t, Len(d) + i, s)
<1>1. Len(s) \in Nat /\ Len(d) \in Nat /\ Len(t) \in Nat /\ Len(d \o t) = Len(d) + Len(t)
  BY Joined, BytesLen
<1>2. i \in Nat /\ i + Len(s) <= Len(t)
  BY DEF Holds
<1>3. ASSUME NEW k \in 1..Len(s) PROVE (d \o t)[(Len(d) + i) + k] = s[k]
  <2>1. i + k \in 1..Len(t)
    BY <1>1, <1>2
  <2>2. (d \o t)[Len(d) + (i + k)] = t[i + k]
    BY <2>1, Back
  <2>3. t[i + k] = s[k]
    BY DEF Holds
  <2>4. Len(d) + (i + k) = (Len(d) + i) + k
    BY <1>1, <1>2
  <2> QED BY <2>2, <2>3, <2>4
<1>4. Len(d) + i \in Nat /\ (Len(d) + i) + Len(s) <= Len(d \o t)
  BY <1>1, <1>2
<1> QED BY <1>3, <1>4 DEF Holds

\* What is appended stands behind what there was.
LEMMA HoldsNext ==
    ASSUME NEW d \in Bytes, NEW s \in Bytes
    PROVE  Holds(d \o s, Len(d), s)
<1>1. Holds(d \o s, Len(d) + 0, s)
  BY HoldsItself, HoldsBehind
<1>2. Len(d) + 0 = Len(d)
  BY BytesLen
<1> QED BY <1>1, <1>2

\* What bytes hold can be cut out of them.
LEMMA HoldsCut ==
    ASSUME NEW d \in Bytes, NEW s \in Bytes, NEW i, Holds(d, i, s)
    PROVE  SubSeq(d, i + 1, i + Len(s)) = s
<1>1. Len(s) \in Nat /\ Len(d) \in Nat /\ i \in Nat /\ i + Len(s) <= Len(d)
  BY BytesLen DEF Holds
<1>2. i + 1 \in Nat \ {0} /\ i + Len(s) \in Nat /\ (i + Len(s)) - (i + 1) + 1 = Len(s)
      /\ (i + 1 <= i + Len(s) \/ Len(s) = 0)
  BY <1>1
<1> DEFINE c == SubSeq(d, i + 1, i + Len(s))
<1>3. c \in Bytes /\ Len(c) = Len(s)
  BY <1>1, <1>2, BytesSub
<1>4. ASSUME NEW k \in 1..Len(s) PROVE c[k] = s[k]
  <2>1. k \in 1..((i + Len(s)) - (i + 1) + 1)
    BY <1>2
  <2>2. c[k] = d[(i + 1) + k - 1]
    BY <1>1, <1>2, <2>1, BytesSubAt
  <2>3. (i + 1) + k - 1 = i + k
    BY <1>1
  <2> QED BY <2>2, <2>3 DEF Holds
<1> HIDE DEF c
<1>5. c = s
  BY <1>3, <1>4, BytesEqual
<1> QED BY <1>5 DEF c

(***************************************************************************)
(* Integers.                                                               *)
(***************************************************************************)

\* The digits of a number to the base 256.
LEMMA Digits ==
    \A n \in Nat : /\ n % 256 \in 0..255 /\ (n \div 256) % 256 \in 0..255
                   /\ n \div 256 \in Nat /\ n \div 65536 \in Nat
OBVIOUS

\* The two bytes of a 16-bit integer, the low one first (endianness.h).
LEMMA LE16Bytes ==
    ASSUME NEW n \in Nat
    PROVE  LE16(n) \in Bytes /\ Len(LE16(n)) = 2
           /\ LE16(n)[1] = n % 256 /\ LE16(n)[2] = (n \div 256) % 256
<1>1. n % 256 \in 0..255 /\ (n \div 256) % 256 \in 0..255
  BY Digits
<1> QED BY <1>1 DEF LE16, Bytes

\* The four bytes of a 32-bit integer, the low one first (endianness.h).
LEMMA LE32Bytes ==
    ASSUME NEW n \in Nat
    PROVE  /\ LE32(n) \in Bytes /\ Len(LE32(n)) = 4
           /\ LE32(n)[1] = LE16(n)[1] /\ LE32(n)[2] = LE16(n)[2]
           /\ LE32(n)[3] = LE16(n \div 65536)[1] /\ LE32(n)[4] = LE16(n \div 65536)[2]
<1> DEFINE a == LE16(n)
           b == LE16(n \div 65536)
<1>1. a \in Bytes /\ Len(a) = 2
  BY LE16Bytes
<1>2. b \in Bytes /\ Len(b) = 2
  BY LE16Bytes, Digits
<1>3. LE32(n) = a \o b
  BY DEF LE32
<1> HIDE DEF a, b
<1>4. a \o b \in Bytes /\ Len(a \o b) = Len(a) + Len(b)
  BY <1>1, <1>2, Joined
<1>9. 2 + 2 = 4
  OBVIOUS
<1>5. 1 \in 1..Len(a) /\ 2 \in 1..Len(a) /\ 1 \in 1..Len(b) /\ 2 \in 1..Len(b)
  BY <1>1, <1>2
<1>6. (a \o b)[1] = a[1] /\ (a \o b)[2] = a[2]
  BY <1>1, <1>2, <1>5, Front
<1>7. (a \o b)[2 + 1] = b[1] /\ (a \o b)[2 + 2] = b[2]
  BY <1>1, <1>2, <1>5, Back
<1>8. 2 + 1 = 3 /\ 2 + 2 = 4
  OBVIOUS
<1>10. a \o b \in Bytes /\ Len(a \o b) = 4
  BY <1>1, <1>2, <1>4, <1>9
<1> QED BY <1>3, <1>6, <1>7, <1>8, <1>10 DEF a, b

\* What is read where a number below 2^16 was written is that number.
LEMMA Holds16 ==
    ASSUME NEW d, NEW n \in Nat, n < 65536, NEW i, Holds(d, i, LE16(n)), NEW m, m = i + 1
    PROVE  U16(d, m) = n
<1>0. i \in Nat /\ Len(LE16(n)) = 2
  BY LE16Bytes DEF Holds
<1>1. 1 \in 1..Len(LE16(n)) /\ 2 \in 1..Len(LE16(n))
  BY <1>0
<1>2. d[i + 1] = n % 256 /\ d[i + 2] = (n \div 256) % 256
  BY <1>1, LE16Bytes DEF Holds
<1>3. m + 1 = i + 2
  BY <1>0
<1>4. \A k \in Nat : k < 65536 => (k % 256) + 256 * ((k \div 256) % 256) = k
  OBVIOUS
<1> QED BY <1>2, <1>3, <1>4 DEF U16

\* Four digits to the base 256 make the number, if it fits 32 bits.
LEMMA Digits32 ==
    \A n \in Nat : n \div 65536 < 65536 =>
        ((n % 256) + 256 * ((n \div 256) % 256))
          + 65536 * (((n \div 65536) % 256) + 256 * (((n \div 65536) \div 256) % 256)) = n
OBVIOUS

\* What is read where a number below 2^32 was written is that number.
LEMMA Holds32 ==
    ASSUME NEW d, NEW n \in Nat, Fits(n), NEW i, Holds(d, i, LE32(n)), NEW m, m = i + 1
    PROVE  U32(d, m) = n
<1>0. i \in Nat /\ Len(LE32(n)) = 4
  BY LE32Bytes DEF Holds
<1>1. /\ 1 \in 1..Len(LE32(n)) /\ 2 \in 1..Len(LE32(n))
      /\ 3 \in 1..Len(LE32(n)) /\ 4 \in 1..Len(LE32(n))
  BY <1>0
<1>2. /\ d[i + 1] = LE32(n)[1] /\ d[i + 2] = LE32(n)[2]
      /\ d[i + 3] = LE32(n)[3] /\ d[i + 4] = LE32(n)[4]
  BY <1>1 DEF Holds
<1>3. m + 1 = i + 2 /\ m + 2 = i + 3 /\ m + 2 + 1 = i + 4
  BY <1>0
<1>4. U32(d, m) = (LE16(n)[1] + 256 * LE16(n)[2])
                    + 65536 * (LE16(n \div 65536)[1] + 256 * LE16(n \div 65536)[2])
  BY <1>2, <1>3, LE32Bytes DEF U32, U16
<1>5. LE16(n)[1] = n % 256 /\ LE16(n)[2] = (n \div 256) % 256
  BY LE16Bytes
<1>6. LE16(n \div 65536)[1] = (n \div 65536) % 256
      /\ LE16(n \div 65536)[2] = ((n \div 65536) \div 256) % 256
  <2>1. n \div 65536 \in Nat
    BY Digits
  <2> QED BY <2>1, LE16Bytes
<1>7. n \div 65536 < 65536
  BY DEF Fits
<1> QED BY <1>4, <1>5, <1>6, <1>7, Digits32

\* Any two bytes read as a number, and so do any four.
LEMMA U16Nat ==
    ASSUME NEW d \in Bytes, NEW m \in Nat \ {0}, m + 1 <= Len(d)
    PROVE  U16(d, m) \in Nat
<1>1. m \in 1..Len(d) /\ m + 1 \in 1..Len(d)
  BY BytesLen
<1>2. d[m] \in 0..255 /\ d[m + 1] \in 0..255
  BY <1>1, BytesLen
<1>3. \A a, b \in 0..255 : a + 256 * b \in Nat
  OBVIOUS
<1> QED BY <1>2, <1>3 DEF U16

\* Four bytes read as an integer are a number.
LEMMA U32Nat ==
    ASSUME NEW d \in Bytes, NEW m \in Nat \ {0}, m + 3 <= Len(d)
    PROVE  U32(d, m) \in Nat
<1>1. U16(d, m) \in Nat
  BY BytesLen, U16Nat
<1>2. m + 2 \in Nat \ {0} /\ (m + 2) + 1 <= Len(d)
  BY BytesLen
<1>3. U16(d, m + 2) \in Nat
  BY <1>2, U16Nat
<1> QED BY <1>1, <1>3 DEF U32

-----------------------------------------------------------------------------
(***************************************************************************)
(* Bodies of strings.                                                      *)
(***************************************************************************)

\* What is less than a length that fits fits.
LEMMA FitsLess ==
    ASSUME NEW n \in Nat, Fits(n), NEW k \in Nat, k <= n
    PROVE  Fits(k)
BY DEF Fits

\* Where two strings stand in their concatenation.
LEMMA TwoPieces ==
    ASSUME NEW a \in Bytes, NEW b \in Bytes
    PROVE  /\ a \o b \in Bytes /\ Len(a \o b) = Len(a) + Len(b)
           /\ Holds(a \o b, 0, a) /\ Holds(a \o b, Len(a), b)
BY Joined, HoldsItself, HoldsInFront, HoldsNext

\* Where four strings stand in their concatenation.
LEMMA FourPieces ==
    ASSUME NEW a \in Bytes, NEW b \in Bytes, NEW c \in Bytes, NEW e \in Bytes
    PROVE  /\ a \o b \o c \o e \in Bytes
           /\ Len(a \o b \o c \o e) = ((Len(a) + Len(b)) + Len(c)) + Len(e)
           /\ Holds(a \o b \o c \o e, 0, a)
           /\ Holds(a \o b \o c \o e, Len(a), b)
           /\ Holds(a \o b \o c \o e, Len(a) + Len(b), c)
           /\ Holds(a \o b \o c \o e, (Len(a) + Len(b)) + Len(c), e)
<1>1. PICK ab : ab = a \o b
  OBVIOUS
<1>2. ab \in Bytes /\ Len(ab) = Len(a) + Len(b) /\ Holds(ab, 0, a) /\ Holds(ab, Len(a), b)
  BY <1>1, TwoPieces
<1>3. PICK abc : abc = ab \o c
  OBVIOUS
<1>4. abc \in Bytes /\ Len(abc) = Len(ab) + Len(c) /\ Holds(abc, Len(ab), c)
  BY <1>2, <1>3, TwoPieces
<1>5. Holds(abc, 0, a) /\ Holds(abc, Len(a), b)
  BY <1>2, <1>3, HoldsInFront
<1>6. PICK d : d = abc \o e
  OBVIOUS
<1>7. d \in Bytes /\ Len(d) = Len(abc) + Len(e) /\ Holds(d, Len(abc), e)
  BY <1>4, <1>6, TwoPieces
<1>8. Holds(d, 0, a) /\ Holds(d, Len(a), b) /\ Holds(d, Len(ab), c)
  BY <1>4, <1>5, <1>6, HoldsInFront
<1>9. d = a \o b \o c \o e
  BY <1>1, <1>3, <1>6
<1> QED BY <1>2, <1>4, <1>7, <1>8, <1>9

\* A string comes back.
LEMMA StringReturns ==
    ASSUME NEW s \in Bytes, Fits(4 + Len(s))
    PROVE  String(s) \in Bytes /\ Len(String(s)) = 4 + Len(s) /\ ParseString(String(s)) = Ok(<<s>>)
<1>1. Len(s) \in Nat
  BY BytesLen
<1>2. PICK l : l = LE32(Len(s))
  OBVIOUS
<1>3. PICK d : d = String(s)
  OBVIOUS
<1>4. l \in Bytes /\ Len(l) = 4
  BY <1>1, <1>2, LE32Bytes
<1>5. d = l \o s
  BY <1>2, <1>3 DEF String
<1>6. d \in Bytes /\ Len(d) = 4 + Len(s) /\ Holds(d, 0, l) /\ Holds(d, 4, s)
  <2>1. d \in Bytes /\ Len(d) = Len(l) + Len(s) /\ Holds(d, 0, l) /\ Holds(d, Len(l), s)
    BY <1>4, <1>5, TwoPieces
  <2> QED BY <1>4, <2>1
<1>7. Fits(Len(s))
  <2>1. 4 + Len(s) \in Nat /\ Len(s) <= 4 + Len(s)
    BY <1>1
  <2> QED BY <1>1, <2>1, FitsLess
<1>8. 1 = 0 + 1 /\ 5 = 4 + 1
  OBVIOUS
<1>9. U32(d, 1) = Len(s)
  BY <1>1, <1>2, <1>6, <1>7, <1>8, Holds32
<1>10. SubSeq(d, 5, Len(d)) = s
  <2>1. SubSeq(d, 4 + 1, 4 + Len(s)) = s
    BY <1>6, HoldsCut
  <2> QED BY <1>6, <1>8, <2>1
<1>11. Len(d) >= 4 /\ 4 + U32(d, 1) = Len(d)
  BY <1>1, <1>6, <1>9
<1>12. ParseString(d) = Ok(<<s>>)
  BY <1>10, <1>11 DEF ParseString
<1> QED BY <1>3, <1>6, <1>12

\* Two strings come back, each of them itself.
LEMMA StringsReturn ==
    ASSUME NEW s \in Bytes, NEW t \in Bytes, Fits(8 + Len(s) + Len(t))
    PROVE  /\ Strings(s, t) \in Bytes
           /\ Len(Strings(s, t)) = 8 + Len(s) + Len(t)
           /\ ParseStrings(Strings(s, t)) = Ok(<<s, t>>)
<1>1. Len(s) \in Nat /\ Len(t) \in Nat
  BY BytesLen
<1>2. PICK l, m : l = LE32(Len(s)) /\ m = LE32(Len(t))
  OBVIOUS
<1>3. PICK d : d = Strings(s, t)
  OBVIOUS
<1>4. l \in Bytes /\ Len(l) = 4 /\ m \in Bytes /\ Len(m) = 4
  BY <1>1, <1>2, LE32Bytes
<1>5. d = l \o m \o s \o t
  BY <1>2, <1>3 DEF Strings
<1>6. /\ d \in Bytes /\ Len(d) = 8 + Len(s) + Len(t)
      /\ Holds(d, 0, l) /\ Holds(d, 4, m) /\ Holds(d, 8, s) /\ Holds(d, 8 + Len(s), t)
  <2>1. /\ d \in Bytes /\ Len(d) = ((Len(l) + Len(m)) + Len(s)) + Len(t)
        /\ Holds(d, 0, l) /\ Holds(d, Len(l), m) /\ Holds(d, Len(l) + Len(m), s)
        /\ Holds(d, (Len(l) + Len(m)) + Len(s), t)
    <3>1. l \in Bytes /\ m \in Bytes /\ s \in Bytes /\ t \in Bytes
      BY <1>4
    <3>2. /\ l \o m \o s \o t \in Bytes
          /\ Len(l \o m \o s \o t) = ((Len(l) + Len(m)) + Len(s)) + Len(t)
          /\ Holds(l \o m \o s \o t, 0, l) /\ Holds(l \o m \o s \o t, Len(l), m)
          /\ Holds(l \o m \o s \o t, Len(l) + Len(m), s)
          /\ Holds(l \o m \o s \o t, (Len(l) + Len(m)) + Len(s), t)
      BY <3>1, FourPieces
    <3> QED BY <3>2, <1>5
  <2>2. 4 + 4 = 8
    OBVIOUS
  <2> QED BY <1>4, <2>1, <2>2
<1>7. Fits(Len(s)) /\ Fits(Len(t))
  <2>1. 8 + Len(s) + Len(t) \in Nat /\ Len(s) <= 8 + Len(s) + Len(t) /\ Len(t) <= 8 + Len(s) + Len(t)
    BY <1>1
  <2> QED BY <1>1, <2>1, FitsLess
<1>8. 1 = 0 + 1 /\ 5 = 4 + 1 /\ 9 = 8 + 1
  OBVIOUS
<1>9. U32(d, 1) = Len(s) /\ U32(d, 5) = Len(t)
  BY <1>1, <1>2, <1>6, <1>7, <1>8, Holds32
<1>10. SubSeq(d, 9, 8 + U32(d, 1)) = s
  <2>1. SubSeq(d, 8 + 1, 8 + Len(s)) = s
    BY <1>6, HoldsCut
  <2> QED BY <1>8, <1>9, <2>1
<1>11. SubSeq(d, 9 + U32(d, 1), Len(d)) = t
  <2>1. 9 + Len(s) = (8 + Len(s)) + 1 /\ Len(d) = (8 + Len(s)) + Len(t)
    BY <1>1, <1>6
  <2>2. SubSeq(d, (8 + Len(s)) + 1, (8 + Len(s)) + Len(t)) = t
    BY <1>6, HoldsCut
  <2> QED BY <1>9, <2>1, <2>2
<1>12. Len(d) >= 8 /\ 8 + U32(d, 1) + U32(d, 5) = Len(d)
  BY <1>1, <1>6, <1>9
<1>13. ParseStrings(d) = Ok(<<s, t>>)
  BY <1>10, <1>11, <1>12 DEF ParseStrings
<1> QED BY <1>3, <1>6, <1>13

-----------------------------------------------------------------------------
(***************************************************************************)
(* Whole messages: a header of eight bytes and the body.                   *)
(***************************************************************************)

HeaderPart(b) == SubSeq(b, 1, HeaderSize)
BodyPart(b)   == SubSeq(b, HeaderSize + 1, Len(b))

\* What the header of the message b says.
Fields(b) == [version_ |-> U16(b, 1), type_ |-> U16(b, 3), body_len_ |-> U32(b, 5)]

\* The header tells the length of the body.
Framed(b) ==
    /\ b \in Bytes /\ Len(b) >= HeaderSize
    /\ Fields(b).body_len_ = Len(b) - HeaderSize

\* A message is its header and its body, and the header is read back.
LEMMA Parts ==
    ASSUME NEW b \in Bytes, Len(b) >= 8
    PROVE  /\ HeaderPart(b) \in Bytes /\ Len(HeaderPart(b)) = 8
           /\ BodyPart(b) \in Bytes /\ Len(BodyPart(b)) = Len(b) - 8
           /\ message_header_deserialize(HeaderPart(b)) = Ok(Fields(b))
<1>1. Len(b) \in Nat
  BY BytesLen
<1>2. HeaderPart(b) \in Bytes /\ Len(HeaderPart(b)) = IF 1 <= 8 THEN 8 - 1 + 1 ELSE 0
  BY <1>1, BytesSub DEF HeaderPart, HeaderSize
<1>3. BodyPart(b) \in Bytes /\ Len(BodyPart(b)) = IF 8 + 1 <= Len(b) THEN Len(b) - (8 + 1) + 1 ELSE 0
  BY <1>1, BytesSub DEF BodyPart, HeaderSize
<1>4. Len(BodyPart(b)) = Len(b) - 8
  <2>1. PICK n : n = Len(b)
    OBVIOUS
  <2>2. n \in Nat /\ n >= 8
    BY <1>1, <2>1
  <2>3. (IF 8 + 1 <= n THEN n - (8 + 1) + 1 ELSE 0) = n - 8
    BY <2>2
  <2> QED BY <1>3, <2>1, <2>3
<1>5. ASSUME NEW k \in 1..8 PROVE HeaderPart(b)[k] = b[k]
  <2>1. k \in 1..(8 - 1 + 1) /\ 1 + k - 1 = k
    OBVIOUS
  <2>2. HeaderPart(b)[k] = b[1 + k - 1]
    BY <1>1, <2>1, BytesSubAt DEF HeaderPart, HeaderSize
  <2> QED BY <2>1, <2>2
<1>6. /\ HeaderPart(b)[1] = b[1] /\ HeaderPart(b)[2] = b[2] /\ HeaderPart(b)[3] = b[3] /\ HeaderPart(b)[4] = b[4]
      /\ HeaderPart(b)[5] = b[5] /\ HeaderPart(b)[6] = b[6] /\ HeaderPart(b)[7] = b[7] /\ HeaderPart(b)[8] = b[8]
  <2>1. /\ 1 \in 1..8 /\ 2 \in 1..8 /\ 3 \in 1..8 /\ 4 \in 1..8
        /\ 5 \in 1..8 /\ 6 \in 1..8 /\ 7 \in 1..8 /\ 8 \in 1..8
    OBVIOUS
  <2> QED BY <1>5, <2>1
<1>7. /\ U16(HeaderPart(b), 1) = U16(b, 1) /\ U16(HeaderPart(b), 3) = U16(b, 3)
      /\ U32(HeaderPart(b), 5) = U32(b, 5)
  <2>1. 1 + 1 = 2 /\ 3 + 1 = 4 /\ 5 + 1 = 6 /\ 5 + 2 = 7 /\ 7 + 1 = 8
    OBVIOUS
  <2> QED BY <1>6, <2>1 DEF U16, U32
<1>8. Len(HeaderPart(b)) = 8
  BY <1>2
<1>9. message_header_deserialize(HeaderPart(b)) = Ok(Fields(b))
  BY <1>7, <1>8 DEF message_header_deserialize, Fields, HeaderSize
<1> QED BY <1>2, <1>3, <1>4, <1>8, <1>9

\* What Message makes is framed, and its parts are what it was made of.
LEMMA MessageParts ==
    ASSUME NEW type \in Nat, type < 65536, NEW body \in Bytes, Fits(Len(body))
    PROVE  /\ Framed(Message(type, body))
           /\ Len(Message(type, body)) = 8 + Len(body)
           /\ BodyPart(Message(type, body)) = body
           /\ Fields(Message(type, body)) =
                  [version_ |-> version, type_ |-> type, body_len_ |-> Len(body)]
<1>1. Len(body) \in Nat /\ version \in Nat /\ version < 65536
  BY BytesLen DEF version
<1>2. PICK v, t, l : v = LE16(version) /\ t = LE16(type) /\ l = LE32(Len(body))
  OBVIOUS
<1>3. PICK d : d = Message(type, body)
  OBVIOUS
<1>4. v \in Bytes /\ Len(v) = 2
  BY <1>1, <1>2, LE16Bytes
<1>5. t \in Bytes /\ Len(t) = 2
  BY <1>2, LE16Bytes
<1>6. l \in Bytes /\ Len(l) = 4
  BY <1>1, <1>2, LE32Bytes
<1>7. d = v \o t \o l \o body
  BY <1>2, <1>3 DEF Message
<1>8. /\ d \in Bytes /\ Len(d) = 8 + Len(body)
      /\ Holds(d, 0, v) /\ Holds(d, 2, t) /\ Holds(d, 4, l) /\ Holds(d, 8, body)
  <2>1. /\ d \in Bytes /\ Len(d) = ((Len(v) + Len(t)) + Len(l)) + Len(body)
        /\ Holds(d, 0, v) /\ Holds(d, Len(v), t) /\ Holds(d, Len(v) + Len(t), l)
        /\ Holds(d, (Len(v) + Len(t)) + Len(l), body)
    <3>1. v \in Bytes /\ t \in Bytes /\ l \in Bytes /\ body \in Bytes
      BY <1>4, <1>5, <1>6
    <3>2. /\ v \o t \o l \o body \in Bytes
          /\ Len(v \o t \o l \o body) = ((Len(v) + Len(t)) + Len(l)) + Len(body)
          /\ Holds(v \o t \o l \o body, 0, v) /\ Holds(v \o t \o l \o body, Len(v), t)
          /\ Holds(v \o t \o l \o body, Len(v) + Len(t), l)
          /\ Holds(v \o t \o l \o body, (Len(v) + Len(t)) + Len(l), body)
      BY <3>1, FourPieces
    <3> QED BY <3>2, <1>7
  <2>2. 2 + 2 = 4 /\ 4 + 4 = 8
    OBVIOUS
  <2> QED BY <1>4, <1>5, <1>6, <2>1, <2>2
<1>10. 1 = 0 + 1 /\ 3 = 2 + 1 /\ 5 = 4 + 1 /\ 9 = 8 + 1 /\ 8 + 1 = 9
  OBVIOUS
<1>11. U16(d, 1) = version /\ U16(d, 3) = type
  BY <1>1, <1>2, <1>8, <1>10, Holds16
<1>12. U32(d, 5) = Len(body)
  BY <1>1, <1>2, <1>8, <1>10, Holds32
<1>13. BodyPart(d) = body
  <2>2. SubSeq(d, 8 + 1, 8 + Len(body)) = body
    BY <1>8, HoldsCut
  <2>1. SubSeq(d, 9, Len(d)) = body
    BY <1>8, <1>10, <2>2
  <2> QED BY <2>1, <1>10 DEF BodyPart, HeaderSize
<1>14. Fields(d) = [version_ |-> version, type_ |-> type, body_len_ |-> Len(body)]
  BY <1>11, <1>12 DEF Fields
<1>15. Framed(d)
  <2>1. Len(d) >= 8 /\ Len(body) = Len(d) - 8
    BY <1>1, <1>8
  <2>2. Fields(d).body_len_ = Len(body)
    BY <1>14
  <2> QED BY <1>8, <2>1, <2>2 DEF Framed, HeaderSize
<1> QED BY <1>3, <1>8, <1>13, <1>14, <1>15

-----------------------------------------------------------------------------
(***************************************************************************)
(* Tables: the rows.                                                       *)
(***************************************************************************)

\* What is held by what is held.
LEMMA HoldsInside ==
    ASSUME NEW d \in Bytes, NEW s \in Bytes, NEW t \in Bytes, NEW i, NEW j, Holds(d, i, s), Holds(s, j, t)
    PROVE  Holds(d, i + j, t)
<1>1. Len(s) \in Nat /\ Len(d) \in Nat /\ Len(t) \in Nat
  BY BytesLen
<1>2. i \in Nat /\ i + Len(s) <= Len(d) /\ j \in Nat /\ j + Len(t) <= Len(s)
  BY DEF Holds
<1>3. ASSUME NEW k \in 1..Len(t) PROVE d[(i + j) + k] = t[k]
  <2>1. j + k \in 1..Len(s)
    BY <1>1, <1>2
  <2>2. d[i + (j + k)] = s[j + k]
    BY <2>1 DEF Holds
  <2>3. s[j + k] = t[k]
    BY DEF Holds
  <2>4. i + (j + k) = (i + j) + k
    BY <1>2
  <2> QED BY <2>2, <2>3, <2>4
<1>4. i + j \in Nat /\ (i + j) + Len(t) <= Len(d)
  BY <1>1, <1>2
<1> QED BY <1>3, <1>4 DEF Holds

\* c[n] joins the first n of ss.
Prefixes(c, ss) ==
    /\ c \in [0..Len(ss) -> Bytes] /\ c[0] = <<>>
    /\ \A n \in 1..Len(ss) : c[n] = c[n - 1] \o ss[n]

\* The rows of a table are strings of bytes.
LEMMA RowBytes ==
    ASSUME NEW ss \in Seq(Bytes)
    PROVE  /\ Len(ss) \in Nat /\ DOMAIN ss = 1..Len(ss)
           /\ \A n \in 1..Len(ss) : ss[n] \in Bytes
BY LenProperties, ElementOfSeq

\* There is a sequence of the concatenations of the first rows, by induction over the rows.
LEMMA PrefixesExist ==
    ASSUME NEW ss \in Seq(Bytes)
    PROVE  \E c : Prefixes(c, ss)
<1>1. PICK N : N = Len(ss)
  OBVIOUS
<1>2. N \in Nat /\ \A n \in 1..N : ss[n] \in Bytes
  BY <1>1, RowBytes
<1> DEFINE Good(f, k) == /\ f \in [0..k -> Bytes] /\ f[0] = <<>>
                         /\ \A n \in 1..k : f[n] = f[n - 1] \o ss[n]
           T == {k \in Nat : k <= N => \E f : Good(f, k)}
<1>7. \A k \in Nat : k \in T <=> (k <= N => \E f : Good(f, k))
  <2> HIDE DEF Good
  <2> QED OBVIOUS
<1> HIDE DEF T
<1>3. 0 \in T
  <2>1. Good([n \in 0..0 |-> <<>>], 0)
    BY DEF Bytes
  <2> HIDE DEF Good
  <2> QED BY <1>7, <2>1
<1>4. ASSUME NEW k \in Nat, k \in T PROVE k + 1 \in T
  <2> HIDE DEF Good
  <2> SUFFICES ASSUME k + 1 <= N PROVE \E f : Good(f, k + 1)
    BY <1>7
  <2>7. k <= N
    BY <1>2
  <2>1. PICK f : Good(f, k)
    BY <1>4, <1>7, <2>7
  <2> USE DEF Good
  <2> DEFINE h == [n \in 0..(k + 1) |-> IF n = k + 1 THEN f[k] \o ss[k + 1] ELSE f[n]]
  <2>2. f[k] \in Bytes /\ k + 1 \in 1..N
    BY <1>2, <2>1
  <2>3. f[k] \o ss[k + 1] \in Bytes
    BY <1>2, <2>2, Joined
  <2>4. h \in [0..(k + 1) -> Bytes]
    BY <2>1, <2>3
  <2>5. h[0] = <<>>
    BY <2>1
  <2>6. ASSUME NEW n \in 1..(k + 1) PROVE h[n] = h[n - 1] \o ss[n]
    <3>1. CASE n = k + 1
      <4>1. n - 1 = k /\ k # k + 1 /\ k \in 0..(k + 1) /\ n \in 0..(k + 1)
        BY <3>1
      <4>2. h[n - 1] = f[k] /\ h[n] = f[k] \o ss[k + 1]
        BY <4>1, <3>1
      <4> QED BY <4>2, <3>1
    <3>2. CASE n # k + 1
      <4>1. n \in 1..k /\ n - 1 # k + 1 /\ n - 1 \in 0..(k + 1) /\ n \in 0..(k + 1)
        BY <3>2
      <4>2. h[n - 1] = f[n - 1] /\ h[n] = f[n]
        BY <4>1
      <4> QED BY <2>1, <4>1, <4>2
    <3> QED BY <3>1, <3>2
  <2> HIDE DEF h
  <2> QED BY <2>4, <2>5, <2>6
<1>5. N \in T
  <2> HIDE DEF Good
  <2> QED BY <1>2, <1>3, <1>4, Induction
<1>6. \E f : Good(f, N)
  <2> HIDE DEF Good
  <2>1. N <= N
    BY <1>2
  <2> QED BY <1>2, <1>5, <1>7, <2>1
<1> QED BY <1>1, <1>6 DEF Prefixes

\* The recursive definition of Concatenation defines what it seems to.
LEMMA ConcatenationDefined ==
    ASSUME NEW ss \in Seq(Bytes)
    PROVE  \E c : Prefixes(c, ss) /\ Concatenation(ss) = c[Len(ss)]
<1>1. PICK N : N = Len(ss)
  OBVIOUS
<1>2. N \in Nat /\ \A n \in 1..N : ss[n] \in Bytes
  BY <1>1, RowBytes
<1>3. PICK c : Prefixes(c, ss)
  BY PrefixesExist
<1>5. c \in [0..N -> Bytes] /\ c[0] = <<>>
  BY <1>1, <1>3 DEF Prefixes
<1>6. \A n \in 1..N : c[n] = c[n - 1] \o ss[n]
  BY <1>1, <1>3 DEF Prefixes
<1> DEFINE Step(f) == [n \in 0..N |-> IF n = 0 THEN <<>> ELSE f[n - 1] \o ss[n]]
           u == CHOOSE f : f = Step(f)
<1>7. c = Step(c)
  <2>1. \A n \in 0..N : c[n] = IF n = 0 THEN <<>> ELSE c[n - 1] \o ss[n]
    <3> TAKE n \in 0..N
    <3>1. CASE n = 0
      BY <3>1, <1>5
    <3>2. CASE n # 0
      <4>1. n \in 1..N
        BY <1>2, <3>2
      <4> QED BY <3>2, <4>1, <1>6
    <3> QED BY <3>1, <3>2
  <2> QED BY <2>1, <1>5
<1>8. u = Step(u)
  BY <1>7
<1>9. Concatenation(ss) = u[N]
  BY <1>1 DEF Concatenation
<1> HIDE DEF u
<1> DEFINE T == {n \in Nat : n <= N => u[n] = c[n]}
<1>10. 0 \in T
  <2>1. 0 \in 0..N
    BY <1>2
  <2>2. u[0] = <<>>
    BY <1>8, <2>1
  <2> QED BY <1>5, <2>2
<1>11. ASSUME NEW n \in Nat, n \in T PROVE n + 1 \in T
  <2> SUFFICES ASSUME n + 1 <= N PROVE u[n + 1] = c[n + 1]
    OBVIOUS
  <2>1. n + 1 \in 0..N /\ n + 1 \in 1..N /\ n + 1 # 0 /\ (n + 1) - 1 = n /\ n <= N
    BY <1>2
  <2>2. u[n] = c[n]
    BY <1>11, <2>1
  <2>3. u[n + 1] = u[(n + 1) - 1] \o ss[n + 1]
    BY <1>8, <2>1
  <2>4. c[n + 1] = c[(n + 1) - 1] \o ss[n + 1]
    BY <1>6, <2>1
  <2> QED BY <2>1, <2>2, <2>3, <2>4
<1> HIDE DEF T
<1>12. N \in T
  BY <1>2, <1>10, <1>11, Induction
<1>13. u[N] = c[N]
  BY <1>2, <1>12 DEF T
<1> QED BY <1>1, <1>3, <1>9, <1>13

\* Every one of the strings stands where the strings before it end.
LEMMA PrefixesHold ==
    ASSUME NEW ss \in Seq(Bytes), NEW c, Prefixes(c, ss)
    PROVE  /\ Len(c[0]) = 0
           /\ \A i \in 1..Len(ss) : /\ Len(c[i]) = Len(c[i - 1]) + Len(ss[i])
                                    /\ Holds(c[Len(ss)], Len(c[i - 1]), ss[i])
<1>1. PICK N : N = Len(ss)
  OBVIOUS
<1>2. N \in Nat /\ \A n \in 1..N : ss[n] \in Bytes
  BY <1>1, RowBytes
<1>3. /\ c[0] = <<>> /\ \A n \in 0..N : c[n] \in Bytes
      /\ \A n \in 1..N : c[n] = c[n - 1] \o ss[n]
  BY <1>1 DEF Prefixes
<1>4. Len(c[0]) = 0
  BY <1>3
<1>5. ASSUME NEW i \in 1..N
      PROVE  Len(c[i]) = Len(c[i - 1]) + Len(ss[i]) /\ Holds(c[i], Len(c[i - 1]), ss[i])
  <2>1. i - 1 \in 0..N
    BY <1>2
  <2>2. c[i - 1] \in Bytes /\ ss[i] \in Bytes /\ c[i] = c[i - 1] \o ss[i]
    BY <1>2, <1>3, <2>1
  <2> QED BY <2>2, TwoPieces
<1>6. ASSUME NEW i \in 1..N PROVE Holds(c[N], Len(c[i - 1]), ss[i])
  <2> DEFINE T == {n \in Nat : i + n <= N => Holds(c[i + n], Len(c[i - 1]), ss[i])}
  <2>1. 0 \in T
    <3>1. i + 0 = i
      BY <1>2
    <3> QED BY <3>1, <1>5
  <2>2. ASSUME NEW n \in Nat, n \in T PROVE n + 1 \in T
    <3> SUFFICES ASSUME i + (n + 1) <= N PROVE Holds(c[i + (n + 1)], Len(c[i - 1]), ss[i])
      OBVIOUS
    <3>1. i + n <= N /\ i + n \in 0..N /\ i + (n + 1) \in 1..N /\ (i + (n + 1)) - 1 = i + n
      BY <1>2
    <3>2. Holds(c[i + n], Len(c[i - 1]), ss[i])
      BY <2>2, <3>1
    <3>3. c[i + (n + 1)] = c[i + n] \o ss[i + (n + 1)]
      BY <1>3, <3>1
    <3>4. c[i + n] \in Bytes /\ ss[i + (n + 1)] \in Bytes /\ ss[i] \in Bytes
      BY <1>2, <1>3, <3>1
    <3> QED BY <3>2, <3>3, <3>4, HoldsInFront
  <2> HIDE DEF T
  <2>3. N - i \in T
    <3>1. N - i \in Nat
      BY <1>2
    <3> QED BY <3>1, <2>1, <2>2, Induction
  <2>4. N - i \in Nat /\ i + (N - i) = N /\ N <= N
    BY <1>2
  <2> QED BY <2>3, <2>4 DEF T
<1> QED BY <1>1, <1>4, <1>5, <1>6

\* Strings of four bytes each.
LEMMA PrefixesOfFour ==
    ASSUME NEW ss \in Seq(Bytes), NEW c, Prefixes(c, ss), \A i \in 1..Len(ss) : Len(ss[i]) = 4
    PROVE  \A n \in 0..Len(ss) : Len(c[n]) = 4 * n
<1>1. PICK N : N = Len(ss)
  OBVIOUS
<1>2. N \in Nat
  BY <1>1, RowBytes
<1>3. Len(c[0]) = 0 /\ \A i \in 1..N : Len(c[i]) = Len(c[i - 1]) + 4
  BY <1>1, PrefixesHold
<1> DEFINE T == {n \in Nat : n <= N => Len(c[n]) = 4 * n}
<1>4. 0 \in T
  BY <1>3
<1>5. ASSUME NEW n \in Nat, n \in T PROVE n + 1 \in T
  <2> SUFFICES ASSUME n + 1 <= N PROVE Len(c[n + 1]) = 4 * (n + 1)
    OBVIOUS
  <2>1. n <= N /\ n + 1 \in 1..N /\ (n + 1) - 1 = n
    BY <1>2
  <2>2. Len(c[n + 1]) = Len(c[(n + 1) - 1]) + 4
    BY <1>3, <2>1
  <2>3. Len(c[n]) = 4 * n
    BY <1>5, <2>1
  <2> QED BY <2>1, <2>2, <2>3
<1> HIDE DEF T
<1>6. \A n \in Nat : n \in T
  BY <1>4, <1>5, Induction
<1>7. ASSUME NEW n \in 0..N PROVE Len(c[n]) = 4 * n
  BY <1>2, <1>6 DEF T
<1> QED BY <1>1, <1>7

-----------------------------------------------------------------------------
(***************************************************************************)
(* Tables: what the reader finds.                                          *)
(***************************************************************************)

\* The lengths of strings, each in its four bytes.
Lengths(ss) == [i \in DOMAIN ss |-> LE32(Len(ss[i]))]

\* The lengths in front of the rows.
LEMMA LengthsType ==
    ASSUME NEW ss \in Seq(Bytes)
    PROVE  /\ Lengths(ss) \in Seq(Bytes) /\ Len(Lengths(ss)) = Len(ss)
           /\ \A i \in 1..Len(ss) : Lengths(ss)[i] = LE32(Len(ss[i])) /\ Len(Lengths(ss)[i]) = 4
<1>1. Len(ss) \in Nat /\ DOMAIN ss = 1..Len(ss) /\ \A n \in 1..Len(ss) : ss[n] \in Bytes
  BY RowBytes
<1>2. ASSUME NEW i \in 1..Len(ss) PROVE LE32(Len(ss[i])) \in Bytes /\ Len(LE32(Len(ss[i]))) = 4
  <2>1. Len(ss[i]) \in Nat
    BY <1>1, BytesLen
  <2> QED BY <2>1, LE32Bytes
<1>3. Lengths(ss) = [i \in 1..Len(ss) |-> LE32(Len(ss[i]))]
  BY <1>1 DEF Lengths
<1>4. Lengths(ss) \in [1..Len(ss) -> Bytes]
  BY <1>2, <1>3
<1>5. Lengths(ss) \in Seq(Bytes) /\ Len(Lengths(ss)) = Len(ss)
  BY <1>1, <1>4
<1> QED BY <1>2, <1>3, <1>5

\* How a table is laid out: where the number of rows, the marks, the lengths and
\* the strings are.
Laid(d, marks, m, ss, N, c) ==
    /\ m \in Nat /\ N \in Nat
    /\ d \in Bytes /\ Len(d) = 8 + m + 4 * N + Len(c[N])
    /\ Holds(d, 0, LE32(0)) /\ Holds(d, 4, LE32(N)) /\ Holds(d, 8, marks)
    /\ \A i \in 1..N : /\ Holds(d, 8 + m + 4 * (i - 1), LE32(Len(ss[i])))
                       /\ Holds(d, 8 + m + 4 * N + Len(c[i - 1]), ss[i])

\* Where count, marks, lengths and rows of a table stand.
LEMMA TableLayout ==
    ASSUME NEW marks \in Bytes, NEW ss \in Seq(Bytes),
           NEW c, Prefixes(c, ss), Concatenation(ss) = c[Len(ss)]
    PROVE  Laid(Table(0, marks, ss), marks, Len(marks), ss, Len(ss), c)
<1>0. PICK d, m, N : d = Table(0, marks, ss) /\ m = Len(marks) /\ N = Len(ss)
  OBVIOUS
<1>1. m \in Nat /\ N \in Nat /\ \A n \in 1..N : ss[n] \in Bytes
  BY <1>0, BytesLen, RowBytes
<1>2. PICK ls : ls = Lengths(ss)
  OBVIOUS
<1>3. /\ ls \in Seq(Bytes) /\ Len(ls) = N
      /\ \A i \in 1..N : ls[i] = LE32(Len(ss[i])) /\ Len(ls[i]) = 4
  BY <1>0, <1>2, LengthsType
<1>4. PICK b : Prefixes(b, ls) /\ Concatenation(ls) = b[Len(ls)]
  BY <1>3, ConcatenationDefined
<1>5. PICK L, C, z, r : L = Concatenation(ls) /\ C = Concatenation(ss) /\ z = LE32(0) /\ r = LE32(N)
  OBVIOUS
<1>6. L = b[N] /\ C = c[N]
  BY <1>0, <1>3, <1>4, <1>5
<1>7. N \in 0..N
  BY <1>1
<1>8. L \in Bytes /\ C \in Bytes
  BY <1>0, <1>3, <1>4, <1>6, <1>7 DEF Prefixes
<1>9. z \in Bytes /\ Len(z) = 4 /\ r \in Bytes /\ Len(r) = 4
  <2>1. 0 \in Nat
    OBVIOUS
  <2> QED BY <1>1, <1>5, <2>1, LE32Bytes
<1>24. \A n \in 0..N : Len(b[n]) = 4 * n
  <2>1. \A i \in 1..Len(ls) : Len(ls[i]) = 4
    BY <1>3
  <2>2. \A n \in 0..Len(ls) : Len(b[n]) = 4 * n
    BY <1>3, <1>4, <2>1, PrefixesOfFour
  <2> QED BY <1>3, <2>2
<1>10. Len(L) = 4 * N
  BY <1>6, <1>7, <1>24
<1>11. ASSUME NEW i \in 1..N PROVE Holds(L, 4 * (i - 1), ls[i])
  <2>1. Holds(L, Len(b[i - 1]), ls[i])
    BY <1>3, <1>4, <1>6, PrefixesHold
  <2>2. i - 1 \in 0..N
    BY <1>1
  <2>3. Len(b[i - 1]) = 4 * (i - 1)
    BY <1>24, <2>2
  <2> QED BY <2>1, <2>3
<1>12. ASSUME NEW i \in 1..N PROVE Holds(C, Len(c[i - 1]), ss[i])
  BY <1>0, <1>6, PrefixesHold
<1>13. PICK x : x = r \o marks \o L \o C
  OBVIOUS
<1>14. /\ x \in Bytes /\ Len(x) = ((Len(r) + Len(marks)) + Len(L)) + Len(C)
       /\ Holds(x, 0, r) /\ Holds(x, Len(r), marks) /\ Holds(x, Len(r) + Len(marks), L)
       /\ Holds(x, (Len(r) + Len(marks)) + Len(L), C)
  <2>1. r \in Bytes /\ marks \in Bytes /\ L \in Bytes /\ C \in Bytes
    BY <1>8, <1>9
  <2>2. /\ r \o marks \o L \o C \in Bytes
        /\ Len(r \o marks \o L \o C) = ((Len(r) + Len(marks)) + Len(L)) + Len(C)
        /\ Holds(r \o marks \o L \o C, 0, r) /\ Holds(r \o marks \o L \o C, Len(r), marks)
        /\ Holds(r \o marks \o L \o C, Len(r) + Len(marks), L)
        /\ Holds(r \o marks \o L \o C, (Len(r) + Len(marks)) + Len(L), C)
    BY <2>1, FourPieces
  <2> QED BY <1>13, <2>2
<1>15. d = z \o x
  <2>1. Lengths(ss) = [i \in DOMAIN ss |-> LE32(Len(ss[i]))]
    BY DEF Lengths
  <2>2. 0 = status_code_ok
    BY DEF status_code_ok
  <2> QED BY <1>0, <1>2, <1>5, <1>13, <2>1, <2>2 DEF Table
<1>16. d \in Bytes /\ Len(d) = Len(z) + Len(x) /\ Holds(d, 0, z) /\ Holds(d, Len(z), x)
  BY <1>9, <1>14, <1>15, TwoPieces
<1>17. Holds(d, 4, x)
  BY <1>9, <1>16
<1>18. /\ Holds(d, 4 + 0, r) /\ Holds(d, 4 + Len(r), marks) /\ Holds(d, 4 + (Len(r) + Len(marks)), L)
       /\ Holds(d, 4 + ((Len(r) + Len(marks)) + Len(L)), C)
  <2>1. d \in Bytes /\ x \in Bytes /\ r \in Bytes /\ marks \in Bytes /\ L \in Bytes /\ C \in Bytes
    BY <1>8, <1>9, <1>14, <1>16
  <2>2. Holds(d, 4 + 0, r)
    BY <1>14, <1>17, <2>1, HoldsInside
  <2>3. Holds(d, 4 + Len(r), marks)
    BY <1>14, <1>17, <2>1, HoldsInside
  <2>4. Holds(d, 4 + (Len(r) + Len(marks)), L)
    BY <1>14, <1>17, <2>1, HoldsInside
  <2>5. Holds(d, 4 + ((Len(r) + Len(marks)) + Len(L)), C)
    BY <1>14, <1>17, <2>1, HoldsInside
  <2> QED BY <2>2, <2>3, <2>4, <2>5
<1>19. /\ 4 + 0 = 4 /\ 4 + Len(r) = 8 /\ 4 + (Len(r) + Len(marks)) = 8 + m
       /\ 4 + ((Len(r) + Len(marks)) + Len(L)) = 8 + m + 4 * N
  BY <1>0, <1>1, <1>9, <1>10
<1>20. Holds(d, 4, r) /\ Holds(d, 8, marks) /\ Holds(d, 8 + m, L) /\ Holds(d, 8 + m + 4 * N, C)
  BY <1>18, <1>19
<1>21. ASSUME NEW i \in 1..N PROVE Holds(d, 8 + m + 4 * (i - 1), LE32(Len(ss[i])))
  <2>1. Holds(L, 4 * (i - 1), ls[i]) /\ ls[i] = LE32(Len(ss[i]))
    BY <1>3, <1>11
  <2>2. Len(ss[i]) \in Nat
    BY <1>1, BytesLen
  <2>3. ls[i] \in Bytes
    BY <2>1, <2>2, LE32Bytes
  <2>4. Holds(d, (8 + m) + 4 * (i - 1), ls[i])
    BY <1>8, <1>16, <1>20, <2>1, <2>3, HoldsInside
  <2> QED BY <2>1, <2>4
<1>22. ASSUME NEW i \in 1..N PROVE Holds(d, 8 + m + 4 * N + Len(c[i - 1]), ss[i])
  <2>1. Holds(C, Len(c[i - 1]), ss[i]) /\ ss[i] \in Bytes
    BY <1>1, <1>12
  <2> QED BY <1>8, <1>16, <1>20, <2>1, HoldsInside
<1>23. Len(d) = 8 + m + 4 * N + Len(c[N])
  <2>1. PICK e : e = Len(C)
    OBVIOUS
  <2>2. e \in Nat
    BY <1>8, <2>1, BytesLen
  <2>3. Len(d) = 4 + (((4 + m) + 4 * N) + e)
    BY <1>0, <1>9, <1>10, <1>14, <1>16, <2>1
  <2>4. 4 + (((4 + m) + 4 * N) + e) = 8 + m + 4 * N + e
    BY <1>1, <2>2
  <2> QED BY <1>6, <2>1, <2>3, <2>4
<1>25. Laid(d, marks, m, ss, N, c)
  BY <1>1, <1>5, <1>16, <1>20, <1>21, <1>22, <1>23 DEF Laid
<1> QED BY <1>0, <1>25

\* The parts of a length that fits fit.
LEMMA FitsInside ==
    ASSUME NEW a \in Nat, NEW b \in Nat, NEW c \in Nat, NEW l \in Nat, a + b + c <= l, Fits(l)
    PROVE  Fits(a) /\ Fits(b) /\ Fits(c)
<1>1. a <= l /\ b <= l /\ c <= l
  OBVIOUS
<1> QED BY <1>1, FitsLess

\* A number that fits is what its uint32_t holds.
LEMMA InUint32Fits ==
    ASSUME NEW n \in Nat, Fits(n)
    PROVE  InUint32(n) = n
<1>1. LE32(n) \in Bytes
  BY LE32Bytes
<1>2. Holds(LE32(n), 0, LE32(n))
  BY <1>1, HoldsItself
<1>3. 1 = 0 + 1
  OBVIOUS
<1> QED BY <1>2, <1>3, Holds32 DEF InUint32

\* Where the strings of a table end, counted from the front of the table: each of
\* them a length after the one before, and the last of them with the table.
EndsAre(h, d, m, z, ss, N) ==
    /\ h = [i \in 0..N |-> h[i]] /\ h[0] = z /\ h[N] = Len(d)
    /\ \A i \in 1..N : /\ h[i] = h[i - 1] + U32(d, 9 + m + 4 * (i - 1))
                       /\ SubSeq(d, h[i - 1] + 1, h[i]) = ss[i]

TableSays(d, marks, m, z, N) ==
    /\ d \in Bytes /\ Holds(d, 8, marks)
    /\ m \in Nat /\ N \in Nat /\ z \in Nat /\ Len(d) \in Nat /\ z <= Len(d)
    /\ U32(d, 1) = 0 /\ U32(d, 5) = N

\* A sum is no less than its first part.
LEMMA SumIsMore == \A a, b \in Nat : a <= a + b
OBVIOUS

\* Where the reader finds the rows of a table: the sums of the lengths it reads are
\* the places the writer put them at.
LEMMA TableEnds ==
    ASSUME NEW marks \in Bytes, NEW ss \in Seq(Bytes), Fits(Len(Table(0, marks, ss)))
    PROVE  /\ TableSays(Table(0, marks, ss), marks, Len(marks), 8 + Len(marks) + 4 * Len(ss), Len(ss))
           /\ \E h : EndsAre(h, Table(0, marks, ss), Len(marks), 8 + Len(marks) + 4 * Len(ss), ss, Len(ss))
<1>0. PICK d, m, N : d = Table(0, marks, ss) /\ m = Len(marks) /\ N = Len(ss)
  OBVIOUS
<1>17. PICK z : z = 8 + m + 4 * N
  OBVIOUS
<1>1. PICK c : Prefixes(c, ss) /\ Concatenation(ss) = c[Len(ss)]
  BY ConcatenationDefined
<1>2. /\ m \in Nat /\ N \in Nat
      /\ d \in Bytes /\ Len(d) = 8 + m + 4 * N + Len(c[N])
      /\ Holds(d, 0, LE32(0)) /\ Holds(d, 4, LE32(N)) /\ Holds(d, 8, marks)
      /\ \A i \in 1..N : /\ Holds(d, 8 + m + 4 * (i - 1), LE32(Len(ss[i])))
                         /\ Holds(d, 8 + m + 4 * N + Len(c[i - 1]), ss[i])
  <2>1. Laid(d, marks, m, ss, N, c)
    BY <1>0, <1>1, TableLayout
  <2> QED BY <2>1 DEF Laid
<1>16. Fits(Len(d))
  BY <1>0
<1>3. z \in Nat
  BY <1>2, <1>17
<1>4. \A i \in 1..N : ss[i] \in Bytes /\ Len(ss[i]) \in Nat
  BY <1>0, RowBytes, BytesLen
<1>5. Len(c[0]) = 0 /\ \A i \in 1..N : Len(c[i]) = Len(c[i - 1]) + Len(ss[i])
  BY <1>0, <1>1, PrefixesHold
<1>6. \A i \in 0..N : c[i] \in Bytes /\ Len(c[i]) \in Nat
  BY <1>0, <1>1, BytesLen DEF Prefixes
<1>7. Len(d) \in Nat /\ Len(c[N]) \in Nat /\ Len(d) = z + Len(c[N])
  <2>1. N \in 0..N
    BY <1>2
  <2> QED BY <1>2, <1>6, <1>17, <2>1, BytesLen
<1>8. z <= Len(d)
  BY <1>3, <1>7, SumIsMore
<1>9. U32(d, 1) = 0
  <2>1. Fits(0) /\ 0 \in Nat /\ 1 = 0 + 1
    BY DEF Fits
  <2> QED BY <1>2, <2>1, Holds32
<1>10. U32(d, 5) = N
  <2>1. 5 = 4 + 1
    OBVIOUS
  <2>3. N <= z
    BY <1>2, <1>17
  <2>4. PICK l : l = Len(d)
    OBVIOUS
  <2>5. N <= l
    BY <1>2, <1>3, <1>7, <1>8, <2>3, <2>4
  <2>2. Fits(N)
    BY <1>2, <1>7, <1>16, <2>4, <2>5, FitsLess
  <2> QED BY <1>2, <2>1, <2>2, Holds32
<1>11. ASSUME NEW i \in 1..N PROVE U32(d, 9 + m + 4 * (i - 1)) = Len(ss[i])
  <2>1. i - 1 \in 0..N
    BY <1>2
  <2>2. z + Len(c[i - 1]) + Len(ss[i]) <= Len(d) /\ Len(c[i - 1]) \in Nat /\ Len(ss[i]) \in Nat
    BY <1>2, <1>4, <1>6, <1>17, <2>1 DEF Holds
  <2>3. Fits(Len(ss[i]))
    BY <1>3, <1>7, <1>16, <2>2, FitsInside
  <2>4. 9 + m + 4 * (i - 1) = (8 + m + 4 * (i - 1)) + 1
    BY <1>2
  <2>5. Holds(d, 8 + m + 4 * (i - 1), LE32(Len(ss[i])))
    BY <1>2
  <2> QED BY <2>2, <2>3, <2>4, <2>5, Holds32
<1>12. PICK h : h = [i \in 0..N |-> z + Len(c[i])]
  OBVIOUS
<1>13. h[0] = z /\ h[N] = Len(d)
  <2>1. 0 \in 0..N /\ N \in 0..N
    BY <1>2
  <2>2. h[0] = z + Len(c[0]) /\ h[N] = z + Len(c[N])
    BY <1>12, <2>1
  <2>3. z + 0 = z
    BY <1>3
  <2> QED BY <1>5, <1>7, <2>2, <2>3
<1>14. ASSUME NEW i \in 1..N
       PROVE  h[i] = h[i - 1] + U32(d, 9 + m + 4 * (i - 1)) /\ SubSeq(d, h[i - 1] + 1, h[i]) = ss[i]
  <2>1. i \in 0..N /\ i - 1 \in 0..N
    BY <1>2
  <2>2. h[i - 1] = z + Len(c[i - 1]) /\ h[i] = z + Len(c[i])
    BY <1>12, <2>1
  <2>3. Len(c[i]) = Len(c[i - 1]) + Len(ss[i]) /\ Len(c[i - 1]) \in Nat /\ Len(ss[i]) \in Nat
    BY <1>4, <1>5, <1>6, <2>1
  <2>4. \A a, b \in Nat : z + (a + b) = (z + a) + b
    BY <1>3
  <2>5. h[i] = h[i - 1] + Len(ss[i])
    BY <2>2, <2>3, <2>4
  <2>6. Holds(d, h[i - 1], ss[i])
    BY <1>2, <1>17, <2>2
  <2>7. SubSeq(d, h[i - 1] + 1, h[i - 1] + Len(ss[i])) = ss[i]
    BY <1>2, <1>4, <2>6, HoldsCut
  <2> QED BY <1>11, <2>5, <2>7
<1>15. h = [i \in 0..N |-> h[i]]
  BY <1>12
<1>18. TableSays(d, marks, m, z, N)
  BY <1>2, <1>3, <1>7, <1>8, <1>9, <1>10 DEF TableSays
<1>19. EndsAre(h, d, m, z, ss, N)
  BY <1>13, <1>14, <1>15 DEF EndsAre
<1> QED BY <1>0, <1>17, <1>18, <1>19

\* A table comes back: row by row, the string and the place of the mark.
LEMMA TableReturns ==
    ASSUME NEW marks \in Bytes, NEW ss \in Seq(Bytes), NEW w, Len(marks) = Len(ss) * w,
           NEW d, d = Table(0, marks, ss), Fits(Len(d))
    PROVE  ParseTable(d, w) =
             Ok(<<0, [i \in 1..Len(ss) |-> [mark   |-> SubSeq(d, 9 + (i - 1) * w, 8 + i * w),
                                            string |-> ss[i]]]>>)
<1>1. PICK N, m : N = Len(ss) /\ m = Len(marks)
  OBVIOUS
<1>2. PICK k : k = N * w
  OBVIOUS
<1>3. k = m
  BY <1>1, <1>2
<1>4. PICK z : z = 8 + m + 4 * N
  OBVIOUS
<1>5. /\ m \in Nat /\ N \in Nat /\ z \in Nat /\ Len(d) \in Nat /\ z <= Len(d)
      /\ U32(d, 1) = 0 /\ U32(d, 5) = N
  <2>1. TableSays(d, marks, m, z, N)
    BY <1>1, <1>4, TableEnds
  <2> QED BY <2>1 DEF TableSays
<1>6. PICK h : /\ h = [i \in 0..N |-> h[i]] /\ h[0] = z /\ h[N] = Len(d)
               /\ \A i \in 1..N : /\ h[i] = h[i - 1] + U32(d, 9 + m + 4 * (i - 1))
                                  /\ SubSeq(d, h[i - 1] + 1, h[i]) = ss[i]
  <2>1. \E h : EndsAre(h, d, m, z, ss, N)
    BY <1>1, <1>4, TableEnds
  <2> QED BY <2>1 DEF EndsAre
<1> DEFINE rows      == U32(d, 5)
           strings   == 8 + rows * w + rows * 4
           length(i) == U32(d, 9 + rows * w + 4 * (i - 1))
           Step(f)   == [i \in 0..rows |-> IF i = 0 THEN strings ELSE f[i - 1] + length(i)]
           end       == CHOOSE f : f = Step(f)
           row(i)    == [mark |-> SubSeq(d, 9 + (i - 1) * w, 8 + i * w),
                         string |-> SubSeq(d, end[i - 1] + 1, end[i])]
           sum       == InUint32(end[rows] - strings)
<1>7. ParseTable(d, w) =
          IF Len(d) < 4 THEN BodyError
          ELSE IF U32(d, 1) # status_code_ok THEN Ok(<<U32(d, 1)>>)
          ELSE IF Len(d) < 8 \/ Len(d) < strings \/ Len(d) # strings + sum THEN BodyError
          ELSE IF end[rows] > Len(d) THEN OutOfBounds
          ELSE Ok(<<U32(d, 1), [i \in 1..rows |-> row(i)]>>)
  BY DEF ParseTable
<1>8. rows = N
  BY <1>5
<1>9. rows * w = m
  BY <1>2, <1>3, <1>8
<1>10. strings = z
  <2>1. strings = 8 + m + rows * 4
    BY <1>9
  <2> HIDE DEF strings, rows
  <2> QED BY <1>4, <1>5, <1>8, <2>1
<1>11. \A i \in 1..N : length(i) = U32(d, 9 + m + 4 * (i - 1))
  BY <1>9
<1> HIDE DEF rows, strings, length, sum
<1>12. h = Step(h)
  <2>1. \A i \in 0..N : h[i] = IF i = 0 THEN strings ELSE h[i - 1] + length(i)
    <3> TAKE i \in 0..N
    <3>1. CASE i = 0
      BY <1>6, <1>10, <3>1
    <3>2. CASE i # 0
      <4>1. i \in 1..N
        BY <1>5, <3>2
      <4> QED BY <1>6, <1>11, <3>2, <4>1
    <3> QED BY <3>1, <3>2
  <2>2. h = [i \in 0..N |-> h[i]]
    BY <1>6
  <2> QED BY <1>8, <2>1, <2>2
<1>13. end = Step(end)
  BY <1>12
<1> HIDE DEF end
<1>14. \A i \in 0..N : end[i] = h[i]
  <2> DEFINE T == {i \in Nat : i <= N => end[i] = h[i]}
  <2>1. 0 \in T
    <3>1. 0 \in 0..N
      BY <1>5
    <3> QED BY <1>6, <1>8, <1>10, <1>13, <3>1
  <2>2. ASSUME NEW i \in Nat, i \in T PROVE i + 1 \in T
    <3> SUFFICES ASSUME i + 1 <= N PROVE end[i + 1] = h[i + 1]
      OBVIOUS
    <3>1. i <= N /\ i + 1 \in 0..N /\ i + 1 \in 1..N /\ (i + 1) - 1 = i /\ i + 1 # 0
      BY <1>5
    <3>2. end[i + 1] = end[(i + 1) - 1] + length(i + 1)
      BY <1>8, <1>13, <3>1
    <3>3. h[i + 1] = h[(i + 1) - 1] + length(i + 1)
      BY <1>6, <1>11, <3>1
    <3>4. end[i] = h[i]
      BY <2>2, <3>1
    <3> QED BY <3>1, <3>2, <3>3, <3>4
  <2> HIDE DEF T
  <2>3. \A i \in Nat : i \in T
    BY <2>1, <2>2, Induction
  <2>4. ASSUME NEW i \in 0..N PROVE end[i] = h[i]
    BY <1>5, <2>3 DEF T
  <2> QED BY <2>4
<1>15. [i \in 1..rows |-> row(i)] =
         [i \in 1..N |-> [mark |-> SubSeq(d, 9 + (i - 1) * w, 8 + i * w), string |-> ss[i]]]
  <2>1. ASSUME NEW i \in 1..N PROVE SubSeq(d, end[i - 1] + 1, end[i]) = ss[i]
    <3>1. i \in 0..N /\ i - 1 \in 0..N
      BY <1>5
    <3>2. end[i - 1] = h[i - 1] /\ end[i] = h[i]
      BY <1>14, <3>1
    <3> QED BY <1>6, <3>2
  <2> QED BY <1>8, <2>1
<1>16. /\ ~(Len(d) < 4) /\ ~(Len(d) < 8) /\ ~(Len(d) < strings)
       /\ Len(d) = strings + sum /\ ~(end[rows] > Len(d))
  <2>1. N \in 0..N /\ z >= 8
    BY <1>4, <1>5
  <2>2. Len(d) = end[rows]
    BY <1>6, <1>8, <1>14, <2>1
  <2>3. PICK l : l = Len(d)
    OBVIOUS
  <2>4. ~(l < 4) /\ ~(l < 8) /\ ~(l < z) /\ ~(l > l)
    BY <1>5, <2>1, <2>3
  <2>5. l \in Nat /\ l - z \in Nat /\ l - z <= l /\ l = z + (l - z)
    BY <1>5, <2>3
  <2>6. InUint32(l - z) = l - z
    BY <2>3, <2>5, FitsLess, InUint32Fits
  <2>7. sum = l - z
    BY <1>10, <2>2, <2>3, <2>6 DEF sum
  <2> QED BY <1>10, <2>2, <2>3, <2>4, <2>5, <2>7
<1>17. U32(d, 1) = 0 /\ status_code_ok = 0
  BY <1>5 DEF status_code_ok
<1> HIDE DEF row
<1> QED BY <1>1, <1>7, <1>15, <1>16, <1>17

-----------------------------------------------------------------------------
(***************************************************************************)
(* Messages.                                                               *)
(***************************************************************************)

\* m is a message of this type with this body.
Whole(m, type, body) ==
    /\ Framed(m) /\ BodyPart(m) = body
    /\ Fields(m).version_ = version /\ Fields(m).type_ = type

\* The length of a message.
LEMMA MessageLength ==
    ASSUME NEW type \in Nat, NEW body \in Bytes
    PROVE  Message(type, body) \in Bytes /\ Len(Message(type, body)) = 8 + Len(body)
<1>1. Len(body) \in Nat /\ version \in Nat
  BY BytesLen DEF version
<1>2. PICK v, t, l : v = LE16(version) /\ t = LE16(type) /\ l = LE32(Len(body))
  OBVIOUS
<1>3. v \in Bytes /\ Len(v) = 2
  BY <1>1, <1>2, LE16Bytes
<1>4. t \in Bytes /\ Len(t) = 2
  BY <1>2, LE16Bytes
<1>5. l \in Bytes /\ Len(l) = 4
  BY <1>1, <1>2, LE32Bytes
<1>6. v \o t \o l \o body \in Bytes
      /\ Len(v \o t \o l \o body) = ((Len(v) + Len(t)) + Len(l)) + Len(body)
  <2>1. v \in Bytes /\ t \in Bytes /\ l \in Bytes
    BY <1>3, <1>4, <1>5
  <2> QED BY <2>1, FourPieces
<1>7. Message(type, body) = v \o t \o l \o body
  BY <1>2 DEF Message
<1>8. ((Len(v) + Len(t)) + Len(l)) + Len(body) = 8 + Len(body)
  BY <1>1, <1>3, <1>4, <1>5
<1> QED BY <1>6, <1>7, <1>8

\* A message whose length fits is read back as its type and its body.
LEMMA MessageWhole ==
    ASSUME NEW type \in Nat, type < 65536, NEW body \in Bytes, Fits(Len(Message(type, body)))
    PROVE  Whole(Message(type, body), type, body) /\ Fits(Len(body))
<1>1. PICK n : n = Len(body)
  OBVIOUS
<1>2. n \in Nat /\ Len(Message(type, body)) = 8 + n
  BY <1>1, BytesLen, MessageLength
<1>3. 8 + n \in Nat /\ n <= 8 + n
  BY <1>2
<1>4. Fits(n)
  BY <1>2, <1>3, FitsLess
<1>5. PICK m : m = Message(type, body)
  OBVIOUS
<1>6. Framed(m) /\ BodyPart(m) = body
      /\ Fields(m) = [version_ |-> version, type_ |-> type, body_len_ |-> Len(body)]
  BY <1>1, <1>4, <1>5, MessageParts
<1> QED BY <1>1, <1>4, <1>5, <1>6 DEF Whole

\* The length of the body of one string.
LEMMA StringLength ==
    ASSUME NEW s \in Bytes
    PROVE  String(s) \in Bytes /\ Len(String(s)) = 4 + Len(s)
<1>1. Len(s) \in Nat
  BY BytesLen
<1>2. PICK l : l = LE32(Len(s))
  OBVIOUS
<1>3. l \in Bytes /\ Len(l) = 4
  BY <1>1, <1>2, LE32Bytes
<1>4. l \o s \in Bytes /\ Len(l \o s) = Len(l) + Len(s)
  BY <1>3, TwoPieces
<1> QED BY <1>2, <1>3, <1>4 DEF String

\* The length of the body of two strings.
LEMMA StringsLength ==
    ASSUME NEW s \in Bytes, NEW t \in Bytes
    PROVE  Strings(s, t) \in Bytes /\ Len(Strings(s, t)) = 8 + Len(s) + Len(t)
<1>1. Len(s) \in Nat /\ Len(t) \in Nat
  BY BytesLen
<1>2. PICK l, m : l = LE32(Len(s)) /\ m = LE32(Len(t))
  OBVIOUS
<1>3. l \in Bytes /\ Len(l) = 4 /\ m \in Bytes /\ Len(m) = 4
  BY <1>1, <1>2, LE32Bytes
<1>4. l \o m \o s \o t \in Bytes
      /\ Len(l \o m \o s \o t) = ((Len(l) + Len(m)) + Len(s)) + Len(t)
  <2>1. l \in Bytes /\ m \in Bytes
    BY <1>3
  <2> QED BY <2>1, FourPieces
<1>5. Strings(s, t) = l \o m \o s \o t
  BY <1>2 DEF Strings
<1>6. ((Len(l) + Len(m)) + Len(s)) + Len(t) = 8 + Len(s) + Len(t)
  BY <1>1, <1>3
<1> QED BY <1>4, <1>5, <1>6

\* A message with two strings comes back (registration, login, send_txt).
LEMMA StringsMessage ==
    ASSUME NEW type \in Nat, type < 65536, NEW s \in Bytes, NEW t \in Bytes,
           Fits(Len(Message(type, Strings(s, t))))
    PROVE  /\ Whole(Message(type, Strings(s, t)), type, Strings(s, t))
           /\ ParseStrings(Strings(s, t)) = Ok(<<s, t>>)
<1>1. Strings(s, t) \in Bytes /\ Len(Strings(s, t)) = 8 + Len(s) + Len(t)
  BY StringsLength
<1>2. Whole(Message(type, Strings(s, t)), type, Strings(s, t)) /\ Fits(Len(Strings(s, t)))
  BY <1>1, MessageWhole
<1> QED BY <1>1, <1>2, StringsReturn

\* A message with one string comes back (accounts, recv_txt).
LEMMA StringMessage ==
    ASSUME NEW type \in Nat, type < 65536, NEW s \in Bytes,
           Fits(Len(Message(type, String(s))))
    PROVE  /\ Whole(Message(type, String(s)), type, String(s))
           /\ ParseString(String(s)) = Ok(<<s>>)
<1>1. String(s) \in Bytes /\ Len(String(s)) = 4 + Len(s)
  BY StringLength
<1>2. Whole(Message(type, String(s)), type, String(s)) /\ Fits(Len(String(s)))
  BY <1>1, MessageWhole
<1> QED BY <1>1, <1>2, StringReturns

\* The lengths of short messages fit.
LEMMA SmallFits == \A n \in 0..4 : Fits(8 + n)
BY DEF Fits

\* A short message is read back.
LEMMA ShortMessage ==
    ASSUME NEW type \in Nat, type < 65536, NEW body \in Bytes, Fits(8 + Len(body))
    PROVE  Whole(Message(type, body), type, body)
<1>1. Len(Message(type, body)) = 8 + Len(body)
  BY MessageLength
<1> QED BY <1>1, MessageWhole

\* A message without a body is read back (logout, correspondents, delete).
LEMMA EmptyMessage ==
    ASSUME NEW type \in Nat, type < 65536
    PROVE  /\ Whole(Message(type, <<>>), type, <<>>)
           /\ ParseNothing(<<>>) = Ok(<<>>)
<1>1. PICK b : b = <<>>
  OBVIOUS
<1>2. b \in Bytes /\ Len(b) = 0
  BY <1>1 DEF Bytes
<1>3. Fits(8 + Len(b))
  BY <1>2, SmallFits
<1>4. Whole(Message(type, b), type, b)
  <2>1. b \in Bytes
    BY <1>2
  <2> QED BY <1>3, <2>1, ShortMessage
<1> QED BY <1>1, <1>2, <1>4 DEF ParseNothing

\* A message with a status code is read back, as a table without rows as well when the
\* code is an error.
LEMMA CodeMessage ==
    ASSUME NEW type \in Nat, type < 65536, NEW c \in 0..6
    PROVE  /\ Whole(Message(type, LE32(c)), type, LE32(c))
           /\ ParseCode(LE32(c)) = Ok(<<c>>)
           /\ \A w : c # 0 => ParseTable(LE32(c), w) = Ok(<<c>>)
<1>1. PICK b : b = LE32(c)
  OBVIOUS
<1>2. b \in Bytes /\ Len(b) = 4
  <2>1. c \in Nat
    OBVIOUS
  <2> QED BY <1>1, <2>1, LE32Bytes
<1>3. Fits(8 + Len(b))
  BY <1>2, SmallFits
<1>4. Whole(Message(type, b), type, b)
  <2>1. b \in Bytes
    BY <1>2
  <2> QED BY <1>3, <2>1, ShortMessage
<1>5. U32(b, 1) = c
  <2>1. 1 = 0 + 1
    OBVIOUS
  <2>2. c \in Nat /\ Fits(c)
    BY DEF Fits
  <2> QED BY <1>1, <1>2, <2>1, <2>2, HoldsItself, Holds32
<1>6. ASSUME NEW w, c # 0 PROVE ParseTable(b, w) = Ok(<<c>>)
  <2>1. ~(Len(b) < 4)
    BY <1>2
  <2>2. U32(b, 1) # status_code_ok
    BY <1>5, <1>6 DEF status_code_ok
  <2> QED BY <1>5, <2>1, <2>2 DEF ParseTable
<1>7. ParseCode(b) = Ok(<<c>>)
  BY <1>2, <1>5 DEF ParseCode
<1> QED BY <1>1, <1>4, <1>6, <1>7

-----------------------------------------------------------------------------
(***************************************************************************)
(* Requests.                                                               *)
(***************************************************************************)

\* The requests a client may send, by the strings in them.
LEMMA CallCases ==
    ASSUME NEW c \in Calls
    PROVE  /\ c.version = version /\ Fits(Len(request_serialize(c.type, c.values)))
           /\ \/ /\ c.type \in {101, 102, 105}
                 /\ \E s, t \in Bytes : c.values = <<s, t>>
              \/ c.type \in {104, 106} /\ \E s \in Bytes : c.values = <<s>>
              \/ c.type \in {103, 107, 108} /\ c.values = <<>>
<1>1. \/ c \in [version : {version}, type : {101, 102, 105}, values : Bytes \X Bytes]
      \/ c \in [version : {version}, type : {104, 106}, values : [1..1 -> Bytes]]
      \/ c \in [version : {version}, type : {103, 107, 108}, values : {<<>>}]
  BY CallsAssumption DEF msgtype_registration_request, msgtype_login_request,
     msgtype_send_txt_request, msgtype_accounts_request, msgtype_recv_txt_request,
     msgtype_logout_request, msgtype_correspondents_request, msgtype_delete_request
<1>2. Fits(Len(request_serialize(c.type, c.values)))
  BY CallsAssumption
<1>3. CASE c \in [version : {version}, type : {101, 102, 105}, values : Bytes \X Bytes]
  <2>1. c.version = version /\ c.type \in {101, 102, 105} /\ c.values \in Bytes \X Bytes
    BY <1>3
  <2>2. \E s, t \in Bytes : c.values = <<s, t>>
    BY <2>1
  <2> QED BY <1>2, <2>1, <2>2
<1>4. CASE c \in [version : {version}, type : {104, 106}, values : [1..1 -> Bytes]]
  <2>1. c.version = version /\ c.type \in {104, 106} /\ c.values \in [1..1 -> Bytes]
    BY <1>4
  <2>2. PICK s : s = c.values[1]
    OBVIOUS
  <2>3. s \in Bytes /\ c.values = [i \in 1..1 |-> s]
    BY <2>1, <2>2
  <2>4. [i \in 1..1 |-> s] = <<s>>
    OBVIOUS
  <2> QED BY <1>2, <2>1, <2>3, <2>4
<1>5. CASE c \in [version : {version}, type : {103, 107, 108}, values : {<<>>}]
  BY <1>2, <1>5
<1> QED BY <1>1, <1>3, <1>4, <1>5

\* What the request r carries to a server that reads it whole.
Carries(r) ==
    /\ Framed(r.bytes)
    /\ Fields(r.bytes).version_ = r.call.version /\ Fields(r.bytes).type_ = r.call.type
    /\ \/ /\ r.call \in Calls /\ r.call.version = version /\ r.call.type \in RequestTypes
          /\ request_deserialize(r.call.type, BodyPart(r.bytes)) = Ok(r.call.values)
       \/ /\ r.call \notin Calls /\ r.call.values = <<>>
          /\ \/ r.call.version # version
             \/ r.call.type \notin RequestTypes
             \/ request_deserialize(r.call.type, BodyPart(r.bytes)) = BodyError

\* The eight requests, by the shape of their bodies.
USE DEF msgtype_registration_request, msgtype_login_request, msgtype_logout_request,
        msgtype_accounts_request, msgtype_send_txt_request, msgtype_recv_txt_request,
        msgtype_correspondents_request, msgtype_delete_request

\* The requests with two strings.
LEMMA RequestsOfStrings ==
    ASSUME NEW type \in {101, 102, 105}, NEW s, NEW t
    PROVE  /\ request_serialize(type, <<s, t>>) = Message(type, Strings(s, t))
           /\ \A b : request_deserialize(type, b) = ParseStrings(b)
<1>1. CASE type = 101
  BY <1>1 DEF request_serialize, request_deserialize, registration_request_serialize,
     registration_request_deserialize
<1>2. CASE type = 102
  BY <1>2 DEF request_serialize, request_deserialize, login_request_serialize,
     login_request_deserialize
<1>3. CASE type = 105
  BY <1>3 DEF request_serialize, request_deserialize, send_txt_request_serialize,
     send_txt_request_deserialize
<1> QED BY <1>1, <1>2, <1>3

\* The requests with one string.
LEMMA RequestsOfAString ==
    ASSUME NEW type \in {104, 106}, NEW s
    PROVE  /\ request_serialize(type, <<s>>) = Message(type, String(s))
           /\ \A b : request_deserialize(type, b) = ParseString(b)
<1>1. CASE type = 104
  BY <1>1 DEF request_serialize, request_deserialize, accounts_request_serialize,
     accounts_request_deserialize
<1>2. CASE type = 106
  BY <1>2 DEF request_serialize, request_deserialize, recv_txt_request_serialize,
     recv_txt_request_deserialize
<1> QED BY <1>1, <1>2

\* The requests without a body.
LEMMA RequestsOfNothing ==
    ASSUME NEW type \in {103, 107, 108}
    PROVE  /\ \A v : request_serialize(type, v) = Message(type, <<>>)
           /\ \A b : request_deserialize(type, b) = ParseNothing(b)
<1>1. CASE type = 103
  BY <1>1 DEF request_serialize, request_deserialize, logout_request_serialize,
     logout_request_deserialize
<1>2. CASE type = 107
  BY <1>2 DEF request_serialize, request_deserialize, correspondents_request_serialize,
     correspondents_request_deserialize
<1>3. CASE type = 108
  BY <1>3 DEF request_serialize, request_deserialize, delete_request_serialize,
     delete_request_deserialize
<1> QED BY <1>1, <1>2, <1>3

HIDE DEF msgtype_registration_request, msgtype_login_request, msgtype_logout_request,
        msgtype_accounts_request, msgtype_send_txt_request, msgtype_recv_txt_request,
        msgtype_correspondents_request, msgtype_delete_request

\* A well-formed request means to the server what it meant to the client.
LEMMA CallCarries ==
    ASSUME NEW c \in Calls
    PROVE  Carries(WellFormed(c))
<1>1. PICK type, v, m : type = c.type /\ v = c.values /\ m = request_serialize(type, v)
  OBVIOUS
<1>2. c.version = version /\ Fits(Len(m))
  BY <1>1, CallCases
<1>3. WellFormed(c).call = c /\ WellFormed(c).bytes = m
  BY <1>1 DEF WellFormed
<1> SUFFICES \E body : Whole(m, type, body) /\ request_deserialize(type, body) = Ok(v)
                       /\ type \in RequestTypes
  BY <1>1, <1>2, <1>3 DEF Whole, Carries
<1>4. CASE type \in {101, 102, 105}
  <2>1. PICK s, t \in Bytes : v = <<s, t>>
    BY <1>1, <1>4, CallCases
  <2>2. m = Message(type, Strings(s, t))
    BY <1>1, <1>4, <2>1, RequestsOfStrings
  <2>3. type \in Nat /\ type < 65536 /\ type \in RequestTypes
    BY <1>4 DEF RequestTypes
  <2>4. Whole(m, type, Strings(s, t)) /\ ParseStrings(Strings(s, t)) = Ok(<<s, t>>)
    BY <1>2, <2>2, <2>3, StringsMessage
  <2> QED BY <1>4, <2>1, <2>3, <2>4, RequestsOfStrings
<1>5. CASE type \in {104, 106}
  <2>1. PICK s \in Bytes : v = <<s>>
    BY <1>1, <1>5, CallCases
  <2>2. m = Message(type, String(s))
    BY <1>1, <1>5, <2>1, RequestsOfAString
  <2>3. type \in Nat /\ type < 65536 /\ type \in RequestTypes
    BY <1>5 DEF RequestTypes
  <2>4. Whole(m, type, String(s)) /\ ParseString(String(s)) = Ok(<<s>>)
    BY <1>2, <2>2, <2>3, StringMessage
  <2> QED BY <1>5, <2>1, <2>3, <2>4, RequestsOfAString
<1>6. CASE type \in {103, 107, 108}
  <2>1. v = <<>>
    BY <1>1, <1>6, CallCases
  <2>2. m = Message(type, <<>>)
    BY <1>1, <1>6, RequestsOfNothing
  <2>3. type \in Nat /\ type < 65536 /\ type \in RequestTypes
    BY <1>6 DEF RequestTypes
  <2>4. Whole(m, type, <<>>) /\ ParseNothing(<<>>) = Ok(<<>>)
    BY <2>2, <2>3, EmptyMessage
  <2> QED BY <1>6, <2>1, <2>3, <2>4, RequestsOfNothing
<1> QED BY <1>1, <1>4, <1>5, <1>6, CallCases

-----------------------------------------------------------------------------
(***************************************************************************)
(* Requests that are garbled.                                              *)
(***************************************************************************)

\* a in the place of as many bytes at the front of m.
LEMMA Patched ==
    ASSUME NEW a \in Bytes, NEW m \in Bytes, Len(a) <= Len(m),
           NEW x, x = a \o SubSeq(m, Len(a) + 1, Len(m))
    PROVE  /\ x \in Bytes /\ Len(x) = Len(m)
           /\ \A k \in 1..Len(a) : x[k] = a[k]
           /\ \A k \in (Len(a) + 1)..Len(m) : x[k] = m[k]
<1>1. Len(a) \in Nat /\ Len(m) \in Nat
  BY BytesLen
<1>2. PICK p, q : p = Len(a) /\ q = Len(m)
  OBVIOUS
<1>3. PICK b : b = SubSeq(m, p + 1, q)
  OBVIOUS
<1>4. p + 1 \in Nat \ {0} /\ q \in Nat /\ p <= q
  BY <1>1, <1>2
<1>5. b \in Bytes /\ Len(b) = IF p + 1 <= q THEN q - (p + 1) + 1 ELSE 0
  <2>1. p + 1 \in Nat \ {0} /\ q \in Nat /\ q <= Len(m)
    BY <1>2, <1>4
  <2> QED BY <1>3, <2>1, BytesSub
<1>6. Len(b) = q - p
  BY <1>1, <1>2, <1>4, <1>5
<1>7. x = a \o b
  BY <1>2, <1>3
<1>8. x \in Bytes /\ Len(x) = Len(a) + Len(b)
  BY <1>5, <1>7, Joined
<1>9. Len(x) = Len(m)
  BY <1>1, <1>2, <1>6, <1>8
<1>10. \A k \in 1..Len(a) : x[k] = a[k]
  BY <1>5, <1>7, Front
<1>11. ASSUME NEW k \in (p + 1)..q PROVE x[k] = m[k]
  <2>1. PICK j : j = k - p
    OBVIOUS
  <2>2. j \in 1..Len(b) /\ Len(a) + j = k /\ (p + 1) + j - 1 = k /\ j \in 1..(q - (p + 1) + 1)
    BY <1>1, <1>2, <1>6, <2>1
  <2>3. x[Len(a) + j] = b[j]
    BY <1>5, <1>7, <2>2, Back
  <2>4. b[j] = m[(p + 1) + j - 1]
    <3>1. q <= Len(m)
      BY <1>1, <1>2
    <3> QED BY <1>3, <1>4, <2>2, <3>1, BytesSubAt
  <2> QED BY <2>2, <2>3, <2>4
<1> QED BY <1>2, <1>8, <1>9, <1>10, <1>11

\* Other bytes in place of the version or the type leave a message framed.
LEMMA FramedAgain ==
    ASSUME NEW m, Framed(m), NEW x \in Bytes, Len(x) = Len(m), \A k \in 5..Len(m) : x[k] = m[k]
    PROVE  Framed(x)
<1>1. Len(m) \in Nat /\ Len(m) >= 8 /\ m \in Bytes
  BY BytesLen DEF Framed, HeaderSize
<1>2. 5 \in 5..Len(m) /\ 6 \in 5..Len(m) /\ 7 \in 5..Len(m) /\ 8 \in 5..Len(m)
  BY <1>1
<1>3. 5 + 1 = 6 /\ 5 + 2 = 7 /\ 7 + 1 = 8
  OBVIOUS
<1>4. U32(x, 5) = U32(m, 5)
  BY <1>2, <1>3 DEF U32, U16
<1>5. Fields(x).body_len_ = Fields(m).body_len_
  BY <1>4 DEF Fields
<1> QED BY <1>1, <1>5 DEF Framed, HeaderSize

\* The lengths at the front of a body of two strings.
LEMMA StringsHold ==
    ASSUME NEW s \in Bytes, NEW t \in Bytes
    PROVE  Holds(Strings(s, t), 0, LE32(Len(s))) /\ Holds(Strings(s, t), 4, LE32(Len(t)))
<1>1. Len(s) \in Nat /\ Len(t) \in Nat
  BY BytesLen
<1>2. PICK l, m : l = LE32(Len(s)) /\ m = LE32(Len(t))
  OBVIOUS
<1>3. l \in Bytes /\ Len(l) = 4 /\ m \in Bytes
  BY <1>1, <1>2, LE32Bytes
<1>4. Holds(l \o m \o s \o t, 0, l) /\ Holds(l \o m \o s \o t, Len(l), m)
  <2>1. l \in Bytes /\ m \in Bytes
    BY <1>3
  <2> QED BY <2>1, FourPieces
<1>5. Strings(s, t) = l \o m \o s \o t
  BY <1>2 DEF Strings
<1> QED BY <1>2, <1>3, <1>4, <1>5

\* The registration of test_wrong_message.
LEMMA TestMessage ==
    ASSUME NEW s, s = << 1 >>, NEW t, t = << 2 >>, NEW m, m = registration_request_serialize(s, t)
    PROVE  /\ Whole(m, 101, Strings(s, t)) /\ Len(m) = 18
           /\ s \in Bytes /\ Len(s) = 1 /\ t \in Bytes /\ Len(t) = 1
           /\ Strings(s, t) \in Bytes /\ Len(Strings(s, t)) = 10
<1>1. s \in Bytes /\ Len(s) = 1 /\ t \in Bytes /\ Len(t) = 1
  BY DEF Bytes
<1>2. Strings(s, t) \in Bytes /\ Len(Strings(s, t)) = 8 + Len(s) + Len(t)
  <2>1. s \in Bytes /\ t \in Bytes
    BY <1>1
  <2> QED BY <2>1, StringsLength
<1>3. PICK b : b = Strings(s, t)
  OBVIOUS
<1>4. b \in Bytes /\ Len(b) = 10
  BY <1>1, <1>2, <1>3
<1>5. m = Message(101, b)
  BY <1>3 DEF registration_request_serialize, msgtype_registration_request
<1>6. Len(m) = 8 + Len(b)
  <2>1. 101 \in Nat /\ b \in Bytes
    BY <1>4
  <2> QED BY <1>5, <2>1, MessageLength
<1>7. Fits(8 + Len(b))
  BY <1>4 DEF Fits
<1>8. Whole(m, 101, b)
  <2>1. 101 \in Nat /\ 101 < 65536 /\ b \in Bytes
    BY <1>4
  <2> QED BY <1>5, <1>7, <2>1, ShortMessage
<1>9. Len(m) = 18
  BY <1>4, <1>6
<1>10. b \in Bytes /\ Len(b) = 10
  BY <1>4
<1> QED BY <1>1, <1>3, <1>8, <1>9, <1>10

\* The three messages of tests/test_wrong_message are found out.
LEMMA GarbledCarries ==
    ASSUME NEW r \in Garbled
    PROVE  Carries(r)
<1>1. PICK s, t, m : s = <<1>> /\ t = <<2>> /\ m = registration_request_serialize(s, t)
  OBVIOUS
<1>2. PICK S : S = Strings(s, t)
  OBVIOUS
<1>3. /\ Whole(m, 101, S) /\ Len(m) = 18
      /\ s \in Bytes /\ Len(s) = 1 /\ t \in Bytes /\ Len(t) = 1
      /\ S \in Bytes /\ Len(S) = 10
  BY <1>1, <1>2, TestMessage
<1>4. m \in Bytes /\ Framed(m) /\ BodyPart(m) = S /\ U16(m, 3) = 101
  BY <1>3 DEF Whole, Framed, Fields
<1>5. PICK v : v = <<>>
  OBVIOUS
<1>6. \A x, y : [version |-> x, type |-> y, values |-> v] \in Calls
                  => x = version /\ y \in RequestTypes /\ y # 101
  <2> SUFFICES ASSUME NEW x, NEW y, NEW c \in Calls, c = [version |-> x, type |-> y, values |-> v]
               PROVE  x = version /\ y \in RequestTypes /\ y # 101
    OBVIOUS
  <2>1. \A p, q : v # <<p, q>>
    BY <1>5
  <2>2. c.values = v /\ c.version = x /\ c.type = y
    OBVIOUS
  <2>3. c.version = version /\ (c.type \in {104, 106} \/ c.type \in {103, 107, 108})
    <3>1. \/ /\ c.type \in {101, 102, 105}
             /\ \E p, q \in Bytes : c.values = <<p, q>>
          \/ c.type \in {104, 106} \/ c.type \in {103, 107, 108}
      BY CallCases
    <3>2. c.version = version
      BY CallCases
    <3> QED BY <2>1, <2>2, <3>1, <3>2
  <2> QED BY <2>2, <2>3 DEF RequestTypes
<1>7. CASE r = [call  |-> [version |-> 2, type |-> 101, values |-> v],
                bytes |-> LE16(2) \o SubSeq(m, 3, Len(m)),
                expects |-> msgtype_wrong_version_response]
  <2>1. PICK a : a = LE16(2)
    OBVIOUS
  <2>2. a \in Bytes /\ Len(a) = 2
    BY <2>1, LE16Bytes
  <2>3. PICK x : x = a \o SubSeq(m, 3, Len(m))
    OBVIOUS
  <2>4. x = a \o SubSeq(m, Len(a) + 1, Len(m)) /\ Len(a) <= Len(m)
    BY <1>3, <2>2, <2>3
  <2>5. /\ x \in Bytes /\ Len(x) = Len(m)
        /\ \A k \in 1..Len(a) : x[k] = a[k]
        /\ \A k \in (Len(a) + 1)..Len(m) : x[k] = m[k]
    <3>1. a \in Bytes /\ m \in Bytes
      BY <1>4, <2>2
    <3> QED BY <2>4, <3>1, Patched
  <2>6. /\ \A k \in 1..2 : x[k] = a[k]
        /\ \A k \in 3..18 : x[k] = m[k]
    BY <1>3, <2>2, <2>5
  <2>7. Framed(x)
    <3>1. \A k \in 5..Len(m) : x[k] = m[k]
      BY <1>3, <2>6
    <3> QED BY <1>4, <2>5, <3>1, FramedAgain
  <2>8. U16(x, 1) = 2
    <3>1. a[1] = 2 % 256 /\ a[2] = (2 \div 256) % 256
      BY <2>1, LE16Bytes
    <3>2. x[1] = a[1] /\ x[1 + 1] = a[2]
      BY <2>6
    <3>3. 2 % 256 = 2 /\ (2 \div 256) % 256 = 0
      OBVIOUS
    <3> QED BY <3>1, <3>2, <3>3 DEF U16
  <2>9. U16(x, 3) = 101
    <3>1. x[3] = m[3] /\ x[3 + 1] = m[3 + 1]
      BY <2>6
    <3> QED BY <1>4, <3>1 DEF U16
  <2>10. r.bytes = x /\ r.call = [version |-> 2, type |-> 101, values |-> v]
    BY <1>7, <2>1, <2>3
  <2>11. r.call \notin Calls /\ r.call.values = <<>> /\ r.call.version # version
         /\ r.call.version = 2 /\ r.call.type = 101
    BY <1>5, <1>6, <2>10 DEF version
  <2> QED BY <2>7, <2>8, <2>9, <2>10, <2>11 DEF Carries, Fields
<1>8. CASE r = [call  |-> [version |-> 1, type |-> 262, values |-> v],
                bytes |-> LE16(1) \o LE16(262) \o SubSeq(m, 5, Len(m)),
                expects |-> msgtype_invalid_type_response]
  <2>1. PICK a, b : a = LE16(1) /\ b = LE16(262)
    OBVIOUS
  <2>2. a \in Bytes /\ Len(a) = 2 /\ b \in Bytes /\ Len(b) = 2
    BY <2>1, LE16Bytes
  <2>3. PICK e : e = a \o b
    OBVIOUS
  <2>4. e \in Bytes /\ Len(e) = 4 /\ Holds(e, 0, a) /\ Holds(e, 2, b)
    <3>1. e \in Bytes /\ Len(e) = Len(a) + Len(b) /\ Holds(e, 0, a) /\ Holds(e, Len(a), b)
      BY <2>2, <2>3, TwoPieces
    <3> QED BY <2>2, <3>1
  <2>5. PICK x : x = e \o SubSeq(m, 5, Len(m))
    OBVIOUS
  <2>6. x = e \o SubSeq(m, Len(e) + 1, Len(m)) /\ Len(e) <= Len(m)
    BY <1>3, <2>4, <2>5
  <2>7. /\ x \in Bytes /\ Len(x) = Len(m)
        /\ \A k \in 1..Len(e) : x[k] = e[k]
        /\ \A k \in (Len(e) + 1)..Len(m) : x[k] = m[k]
    <3>1. e \in Bytes /\ m \in Bytes
      BY <1>4, <2>4
    <3> QED BY <2>6, <3>1, Patched
  <2>8. /\ \A k \in 1..4 : x[k] = e[k]
        /\ \A k \in 5..18 : x[k] = m[k]
    BY <1>3, <2>4, <2>7
  <2>9. Framed(x)
    <3>1. \A k \in 5..Len(m) : x[k] = m[k]
      BY <1>3, <2>8
    <3> QED BY <1>4, <2>7, <3>1, FramedAgain
  <2>10. U16(e, 1) = 1 /\ U16(e, 3) = 262
    <3>1. 1 = 0 + 1 /\ 3 = 2 + 1 /\ 1 < 65536 /\ 262 < 65536 /\ 1 \in Nat /\ 262 \in Nat
      OBVIOUS
    <3> QED BY <2>1, <2>4, <3>1, Holds16
  <2>11. U16(x, 1) = 1 /\ U16(x, 3) = 262
    <3>1. x[1] = e[1] /\ x[1 + 1] = e[1 + 1] /\ x[3] = e[3] /\ x[3 + 1] = e[3 + 1]
      BY <2>8
    <3> QED BY <2>10, <3>1 DEF U16
  <2>12. r.bytes = x /\ r.call = [version |-> 1, type |-> 262, values |-> v]
    BY <1>8, <2>1, <2>3, <2>5
  <2>13. r.call \notin Calls /\ r.call.values = <<>> /\ r.call.type \notin RequestTypes
         /\ r.call.version = 1 /\ r.call.type = 262
    BY <1>5, <1>6, <2>12 DEF RequestTypes
  <2> QED BY <2>9, <2>11, <2>12, <2>13 DEF Carries, Fields
<1>9. CASE r = [call  |-> [version |-> 1, type |-> 101, values |-> v],
                bytes |-> Message(101, SubSeq(m, 9, Len(m) - 1)),
                expects |-> msgtype_invalid_body_response]
  <2>1. PICK b : b = SubSeq(m, 9, 17)
    OBVIOUS
  <2>2. b \in Bytes /\ Len(b) = 9
    <3>1. 9 \in Nat \ {0} /\ 17 \in Nat /\ 17 <= Len(m)
      BY <1>3
    <3>2. b \in Bytes /\ Len(b) = IF 9 <= 17 THEN 17 - 9 + 1 ELSE 0
      BY <1>4, <2>1, <3>1, BytesSub
    <3> QED BY <3>2
  <2>3. ASSUME NEW k \in 1..9 PROVE b[k] = S[k]
    <3>1. 9 \in Nat \ {0} /\ 17 \in Nat /\ 17 <= Len(m) /\ 18 \in Nat /\ 18 <= Len(m)
          /\ k \in 1..(17 - 9 + 1) /\ k \in 1..(18 - 9 + 1)
      BY <1>3
    <3>2. b[k] = m[9 + k - 1]
      BY <1>4, <2>1, <3>1, BytesSubAt
    <3>3. S = SubSeq(m, 9, 18)
      <4>1. HeaderSize + 1 = 9
        BY DEF HeaderSize
      <4> QED BY <1>3, <1>4, <4>1 DEF BodyPart
    <3>4. SubSeq(m, 9, 18)[k] = m[9 + k - 1]
      BY <1>4, <3>1, BytesSubAt
    <3> QED BY <3>2, <3>3, <3>4
  <2>4. U32(S, 1) = 1 /\ U32(S, 5) = 1
    <3>1. Holds(S, 0, LE32(1)) /\ Holds(S, 4, LE32(1))
      BY <1>2, <1>3, StringsHold
    <3>2. 1 = 0 + 1 /\ 5 = 4 + 1 /\ 1 \in Nat
      OBVIOUS
    <3>3. Fits(1)
      BY DEF Fits
    <3> QED BY <3>1, <3>2, <3>3, Holds32
  <2>5. U32(b, 1) = 1 /\ U32(b, 5) = 1
    <3>1. /\ b[1] = S[1] /\ b[2] = S[2] /\ b[3] = S[3] /\ b[4] = S[4]
          /\ b[5] = S[5] /\ b[6] = S[6] /\ b[7] = S[7] /\ b[8] = S[8]
      BY <2>3
    <3>2. 1 + 1 = 2 /\ 1 + 2 = 3 /\ 3 + 1 = 4 /\ 5 + 1 = 6 /\ 5 + 2 = 7 /\ 7 + 1 = 8
      OBVIOUS
    <3>3. U32(b, 1) = U32(S, 1) /\ U32(b, 5) = U32(S, 5)
      BY <3>1, <3>2 DEF U32, U16
    <3> QED BY <2>4, <3>3
  <2>6. ParseStrings(b) = BodyError
    BY <2>2, <2>5 DEF ParseStrings
  <2>7. request_deserialize(101, b) = BodyError
    <3>1. 101 \in {101, 102, 105}
      OBVIOUS
    <3> QED BY <2>6, <3>1, RequestsOfStrings
  <2>8. Whole(Message(101, b), 101, b)
    <3>1. 101 \in Nat /\ 101 < 65536 /\ b \in Bytes
      BY <2>2
    <3>2. Fits(8 + Len(b))
      BY <2>2 DEF Fits
    <3> QED BY <3>1, <3>2, ShortMessage
  <2>9. Len(m) - 1 = 17
    BY <1>3
  <2>10. r.bytes = Message(101, b) /\ r.call = [version |-> 1, type |-> 101, values |-> v]
    BY <1>9, <2>1, <2>9
  <2>11. r.call \notin Calls /\ r.call.values = <<>> /\ r.call.version = 1 /\ r.call.type = 101
    BY <1>5, <1>6, <2>10
  <2>12. version = 1
    BY DEF version
  <2> QED BY <2>7, <2>8, <2>10, <2>11, <2>12 DEF Carries, Whole
<1> QED BY <1>1, <1>5, <1>7, <1>8, <1>9 DEF Garbled

\* Whatever the client sends, the server that reads it whole gets what was meant or finds
\* out that it is garbled (message_header, *_request::serialize and ::deserialize of
\* chat262_protocol.cc).
THEOREM RequestsCarry ==
    \A r \in AllRequests : Carries(r)
<1> SUFFICES ASSUME NEW r \in AllRequests PROVE Carries(r)
  OBVIOUS
<1>1. CASE r \in Garbled
  BY <1>1, GarbledCarries
<1>2. CASE r \notin Garbled
  <2>1. PICK c \in Calls : r = WellFormed(c)
    BY <1>2 DEF AllRequests
  <2> QED BY <2>1, CallCarries
<1> QED BY <1>1, <1>2

-----------------------------------------------------------------------------
(***************************************************************************)
(* Answers.                                                                *)
(***************************************************************************)

\* A table is bytes, with its marks behind status and count.
LEMMA TableBytes ==
    ASSUME NEW marks \in Bytes, NEW ss \in Seq(Bytes)
    PROVE  Table(0, marks, ss) \in Bytes /\ Holds(Table(0, marks, ss), 8, marks)
<1>1. PICK c : Prefixes(c, ss) /\ Concatenation(ss) = c[Len(ss)]
  BY ConcatenationDefined
<1>2. Laid(Table(0, marks, ss), marks, Len(marks), ss, Len(ss), c)
  BY <1>1, TableLayout
<1> QED BY <1>2 DEF Laid

\* With an error code there is no table.
LEMMA BareTable ==
    ASSUME NEW c \in 1..6, NEW marks, NEW ss
    PROVE  Table(c, marks, ss) = LE32(c)
<1>1. LE32(c) \in Bytes
  BY LE32Bytes
<1>2. LE32(c) \o <<>> = LE32(c)
  <2>1. PICK b : b = LE32(c)
    OBVIOUS
  <2>2. b \in Bytes
    BY <1>1, <2>1
  <2>3. b \o <<>> = b
    BY <2>2 DEF Bytes
  <2> QED BY <2>1, <2>3
<1>3. c # status_code_ok
  BY DEF status_code_ok
<1> QED BY <1>2, <1>3 DEF Table

\* A table of usernames comes back.
LEMMA UsernamesReturn ==
    ASSUME NEW l \in Seq(Bytes), Fits(Len(Table(0, <<>>, l)))
    PROVE  Usernames(ParseTable(Table(0, <<>>, l), 0)) = Ok(<<0, l>>)
<1>1. PICK e, d : e = <<>> /\ d = Table(0, e, l)
  OBVIOUS
<1>2. e \in Bytes /\ Len(e) = 0
  BY <1>1 DEF Bytes
<1>3. Len(l) \in Nat /\ DOMAIN l = 1..Len(l)
  BY RowBytes
<1>4. Len(e) = Len(l) * 0
  BY <1>2, <1>3
<1>5. PICK T : T = [i \in 1..Len(l) |-> [mark   |-> SubSeq(d, 9 + (i - 1) * 0, 8 + i * 0),
                                         string |-> l[i]]]
  OBVIOUS
<1>6. ParseTable(d, 0) = Ok(<<0, T>>)
  <2>1. e \in Bytes /\ Fits(Len(d))
    BY <1>1, <1>2
  <2> QED BY <1>1, <1>4, <1>5, <2>1, TableReturns
<1>7. DOMAIN T = 1..Len(l) /\ \A i \in 1..Len(l) : T[i].string = l[i]
  BY <1>5
<1>8. [i \in DOMAIN T |-> T[i].string] = l
  <2>1. l = [i \in 1..Len(l) |-> l[i]]
    BY <1>3
  <2> QED BY <1>7, <2>1
<1>9. PICK p : p = ParseTable(d, 0)
  OBVIOUS
<1>10. p.values = <<0, T>>
  BY <1>6, <1>9 DEF Ok
<1>11. ~(Len(p.values) < 2) /\ p.values[1] = 0 /\ p.values[2] = T
  BY <1>10
<1>12. Usernames(p) = Ok(<<0, [i \in DOMAIN T |-> T[i].string]>>)
  BY <1>11 DEF Usernames
<1> QED BY <1>1, <1>8, <1>9, <1>12

\* The columns of a chat.
Columns(h, marks, ss) ==
    /\ Len(h) \in Nat /\ DOMAIN h = 1..Len(h)
    /\ h = [i \in 1..Len(h) |-> [sender_ |-> marks[i], content_ |-> ss[i]]]
    /\ marks \in Bytes /\ Len(marks) = Len(h)
    /\ ss \in Seq(Bytes) /\ Len(ss) = Len(h)

\* The two columns of a chat: who sent the text, and the text.
LEMMA ChatColumns ==
    ASSUME NEW h \in Seq([sender_ : 0..255, content_ : Bytes]),
           NEW marks, marks = [i \in DOMAIN h |-> h[i].sender_],
           NEW ss, ss = [i \in DOMAIN h |-> h[i].content_]
    PROVE  Columns(h, marks, ss)
<1>1. PICK N : N = Len(h)
  OBVIOUS
<1>2. N \in Nat /\ DOMAIN h = 1..N
  BY <1>1, LenProperties
<1>3. ASSUME NEW i \in 1..N
      PROVE  /\ h[i].sender_ \in 0..255 /\ h[i].content_ \in Bytes
             /\ h[i] = [sender_ |-> h[i].sender_, content_ |-> h[i].content_]
  <2>1. h[i] \in [sender_ : 0..255, content_ : Bytes]
    BY <1>1, ElementOfSeq
  <2> QED BY <2>1
<1>4. marks \in [1..N -> 0..255] /\ \A i \in 1..N : marks[i] = h[i].sender_
  BY <1>2, <1>3
<1>5. marks \in Seq(0..255) /\ Len(marks) = N
  BY <1>2, <1>4
<1>6. ss \in [1..N -> Bytes] /\ \A i \in 1..N : ss[i] = h[i].content_
  BY <1>2, <1>3
<1>7. ss \in Seq(Bytes) /\ Len(ss) = N
  BY <1>2, <1>6
<1>8. marks \in Bytes
  BY <1>5 DEF Bytes
<1>9. \A i \in 1..N : h[i] = [sender_ |-> marks[i], content_ |-> ss[i]]
  BY <1>3, <1>4, <1>6
<1>10. h = [i \in 1..N |-> h[i]]
  BY <1>2
<1>11. h = [i \in 1..N |-> [sender_ |-> marks[i], content_ |-> ss[i]]]
  BY <1>9, <1>10
<1> QED BY <1>1, <1>2, <1>5, <1>7, <1>8, <1>11 DEF Columns

\* The table a chat is sent as.
LEMMA MarkedTableReturns ==
    ASSUME NEW marks \in Bytes, NEW ss \in Seq(Bytes), Len(marks) = Len(ss),
           NEW d, d = Table(0, marks, ss), Fits(Len(d)), NEW w, w = 1
    PROVE  ParseTable(d, w) =
             Ok(<<0, [i \in 1..Len(ss) |-> [mark   |-> SubSeq(d, 9 + (i - 1) * w, 8 + i * w),
                                            string |-> ss[i]]]>>)
<1>1. Len(ss) \in Nat
  BY RowBytes
<1>2. Len(marks) = Len(ss) * w
  BY <1>1
<1> QED BY <1>2, TableReturns

\* So does a chat.
LEMMA TextsReturn ==
    ASSUME NEW h, NEW marks, NEW ss, Columns(h, marks, ss),
           NEW d, d = Table(0, marks, ss), Fits(Len(d))
    PROVE  d \in Bytes /\ Texts(ParseTable(d, 1)) = Ok(<<0, h>>)
<1>1. PICK N : N = Len(h)
  OBVIOUS
<1>2. N \in Nat /\ h = [i \in 1..N |-> [sender_ |-> marks[i], content_ |-> ss[i]]]
  BY <1>1 DEF Columns
<1>3. marks \in Bytes /\ Len(marks) = N
  BY <1>1 DEF Columns
<1>4. ss \in Seq(Bytes) /\ Len(ss) = N
  BY <1>1 DEF Columns
<1>5. d \in Bytes /\ Holds(d, 8, marks)
  <2>1. marks \in Bytes /\ ss \in Seq(Bytes)
    BY <1>3, <1>4
  <2> QED BY <2>1, TableBytes
<1>6. PICK w : w = 1
  OBVIOUS
<1>14. Len(marks) = Len(ss) * w
  BY <1>2, <1>3, <1>4, <1>6
<1>7. PICK T : T = [i \in 1..Len(ss) |-> [mark   |-> SubSeq(d, 9 + (i - 1) * w, 8 + i * w),
                                          string |-> ss[i]]]
  OBVIOUS
<1>8. ParseTable(d, 1) = Ok(<<0, T>>)
  <2>1. marks \in Bytes /\ ss \in Seq(Bytes)
    BY <1>3, <1>4
  <2>4. Len(marks) = Len(ss)
    BY <1>3, <1>4
  <2>2. ParseTable(d, w) =
          Ok(<<0, [i \in 1..Len(ss) |-> [mark   |-> SubSeq(d, 9 + (i - 1) * w, 8 + i * w),
                                         string |-> ss[i]]]>>)
    BY <1>6, <2>1, <2>4, MarkedTableReturns
  <2>3. ParseTable(d, w) = Ok(<<0, T>>)
    BY <1>7, <2>2
  <2> QED BY <1>6, <2>3
<1>9. ASSUME NEW i \in 1..N PROVE T[i].mark[1] = marks[i] /\ T[i].string = ss[i]
  <2>1. PICK j, k : j = 9 + (i - 1) * w /\ k = 8 + i * w
    OBVIOUS
  <2>2. j = 8 + i /\ k = 8 + i /\ j \in Nat \ {0} /\ k \in Nat
    BY <1>2, <1>6, <2>1
  <2>3. Len(d) \in Nat /\ 8 + N <= Len(d) /\ d[8 + i] = marks[i]
    BY <1>3, <1>5, BytesLen DEF Holds
  <2>4. k <= Len(d) /\ 1 \in 1..(k - j + 1) /\ j + 1 - 1 = 8 + i
    BY <1>2, <2>2, <2>3
  <2>5. SubSeq(d, j, k)[1] = d[j + 1 - 1]
    BY <1>5, <2>2, <2>4, BytesSubAt
  <2>9. PICK z : z = SubSeq(d, j, k)
    OBVIOUS
  <2>6. T[i] = [mark |-> z, string |-> ss[i]]
    BY <1>4, <1>7, <2>1, <2>9
  <2>7. T[i].mark = z /\ T[i].string = ss[i]
    BY <2>6
  <2>8. z[1] = marks[i]
    BY <2>3, <2>4, <2>5, <2>9
  <2> QED BY <2>7, <2>8
<1>10. DOMAIN T = 1..N
  BY <1>4, <1>7
<1>11. [i \in DOMAIN T |-> [sender_ |-> T[i].mark[1], content_ |-> T[i].string]] = h
  BY <1>2, <1>9, <1>10
<1>12. PICK p : p = ParseTable(d, 1)
  OBVIOUS
<1>13. p.values = <<0, T>>
  <2>1. p = Ok(<<0, T>>)
    BY <1>8, <1>12
  <2> QED BY <2>1 DEF Ok
<1>16. ~(Len(p.values) < 2) /\ p.values[1] = 0 /\ p.values[2] = T
  BY <1>13
<1>15. Texts(p) = Ok(<<0, [i \in DOMAIN T |-> [sender_ |-> T[i].mark[1], content_ |-> T[i].string]]>>)
  BY <1>16 DEF Texts
<1> QED BY <1>5, <1>11, <1>12, <1>15

-----------------------------------------------------------------------------

\* What a client that reads x whole gets: a message of this type, with these values.
Returns(x, type, v) ==
    \E body : Whole(x, type, body) /\ response_deserialize(type, body) = Ok(v)

USE DEF msgtype_registration_request, msgtype_login_request, msgtype_logout_request,
        msgtype_accounts_request, msgtype_send_txt_request, msgtype_recv_txt_request,
        msgtype_correspondents_request, msgtype_delete_request,
        msgtype_registration_response, msgtype_login_response, msgtype_logout_response,
        msgtype_accounts_response, msgtype_send_txt_response, msgtype_recv_txt_response,
        msgtype_correspondents_response, msgtype_delete_response,
        msgtype_wrong_version_response, msgtype_invalid_type_response,
        msgtype_invalid_body_response

\* The answers a handler may give.
LEMMA AnswersCases ==
    ASSUME NEW type \in RequestTypes, NEW v \in Answers(type)
    PROVE  \/ type \in {101, 102, 103, 105, 108} /\ \E c \in 0..6 : v = <<c>>
           \/ /\ type \in {104, 107}
              /\ (\E c \in 1..6 : v = <<c>>) \/ \E l \in Lists : v = <<0, l>>
           \/ /\ type = 106
              /\ (\E c \in 1..6 : v = <<c>>) \/ \E h \in Chats : v = <<0, h>>
<1>1. Lists # {} /\ Chats # {}
  BY AnswersAssumption
<1>2. Codes(type) \subseteq 0..6
  BY DEF Codes, RequestTypes, status_code_ok, status_code_invalid_credentials,
     status_code_user_exists, status_code_user_noexist, status_code_username_invalid,
     status_code_password_invalid, status_code_unauthorized
<1>3. status_code_ok = 0
  BY DEF status_code_ok
<1>4. CASE type \in {101, 102, 103, 105, 108}
  <2>1. \E c \in Codes(type) : v = <<c>>
    BY <1>4 DEF Answers
  <2> QED BY <1>2, <1>4, <2>1
<1>5. CASE type \in {104, 107}
  <2>1. (\E c \in Codes(type) \ {0} : v = <<c>>) \/ \E l \in Lists : v = <<0, l>>
    BY <1>1, <1>3, <1>5 DEF Answers
  <2> QED BY <1>2, <1>5, <2>1
<1>6. CASE type = 106
  <2>1. (\E c \in Codes(type) \ {0} : v = <<c>>) \/ \E l \in Chats : v = <<0, l>>
    BY <1>1, <1>3, <1>6 DEF Answers
  <2> QED BY <1>2, <1>6, <2>1
<1>7. type \in {101, 102, 103, 105, 108} \/ type \in {104, 107} \/ type = 106
  BY DEF RequestTypes
<1> QED BY <1>4, <1>5, <1>6, <1>7

\* The responses with a status code alone.
LEMMA ResponsesOfCodes ==
    ASSUME NEW type \in {101, 102, 103, 105, 108}, NEW c
    PROVE  /\ response_serialize(type + 100, <<c>>) = Message(type + 100, LE32(c))
           /\ \A b : response_deserialize(type + 100, b) = ParseCode(b)
<1>1. CASE type = 101
  BY <1>1 DEF response_serialize, response_deserialize, registration_response_serialize,
     registration_response_deserialize
<1>2. CASE type = 102
  BY <1>2 DEF response_serialize, response_deserialize, login_response_serialize,
     login_response_deserialize
<1>3. CASE type = 103
  BY <1>3 DEF response_serialize, response_deserialize, logout_response_serialize,
     logout_response_deserialize
<1>4. CASE type = 105
  BY <1>4 DEF response_serialize, response_deserialize, send_txt_response_serialize,
     send_txt_response_deserialize
<1>5. CASE type = 108
  BY <1>5 DEF response_serialize, response_deserialize, delete_response_serialize,
     delete_response_deserialize
<1> QED BY <1>1, <1>2, <1>3, <1>4, <1>5

\* The responses with usernames.
LEMMA ResponsesOfUsernames ==
    ASSUME NEW type \in {104, 107}, NEW v
    PROVE  /\ response_serialize(type + 100, v) = Message(type + 100, Table(v[1], <<>>, Rows(v)))
           /\ \A b : response_deserialize(type + 100, b) = Usernames(ParseTable(b, 0))
<1>1. CASE type = 104
  BY <1>1 DEF response_serialize, response_deserialize, accounts_response_serialize,
     accounts_response_deserialize
<1>2. CASE type = 107
  BY <1>2 DEF response_serialize, response_deserialize, correspondents_response_serialize,
     correspondents_response_deserialize
<1> QED BY <1>1, <1>2

\* The response with texts.
LEMMA ResponsesOfTexts ==
    /\ \A v : response_serialize(206, v) = recv_txt_response_serialize(v[1], Rows(v))
    /\ \A b : response_deserialize(206, b) = Texts(ParseTable(b, 1))
BY DEF response_serialize, response_deserialize, recv_txt_response_deserialize

\* The three refusals come back (wrong version, invalid type, invalid body).
LEMMA Refusals ==
    /\ Returns(response_serialize(301, <<version>>), 301, <<version>>)
    /\ Returns(response_serialize(302, <<>>), 302, <<>>)
    /\ Returns(response_serialize(303, <<>>), 303, <<>>)
<1>1. Returns(response_serialize(301, <<version>>), 301, <<version>>)
  <2>1. response_serialize(301, <<version>>) = Message(301, LE16(version))
    BY DEF response_serialize, wrong_version_response_serialize
  <2>2. PICK b : b = LE16(version)
    OBVIOUS
  <2>3. b \in Bytes /\ Len(b) = 2 /\ version \in Nat /\ version < 65536
    <3>1. version \in Nat /\ version < 65536
      BY DEF version
    <3> QED BY <2>2, <3>1, LE16Bytes
  <2>4. Fits(8 + Len(b))
    BY <2>3 DEF Fits
  <2>5. Whole(Message(301, b), 301, b)
    <3>1. 301 \in Nat /\ 301 < 65536 /\ b \in Bytes
      BY <2>3
    <3> QED BY <2>4, <3>1, ShortMessage
  <2>6. U16(b, 1) = version
    <3>1. Holds(b, 0, LE16(version)) /\ 1 = 0 + 1
      <4>1. b \in Bytes
        BY <2>3
      <4> QED BY <2>2, <4>1, HoldsItself
    <3> QED BY <2>3, <3>1, Holds16
  <2>7. response_deserialize(301, b) = Ok(<<version>>)
    BY <2>3, <2>6 DEF response_deserialize, wrong_version_response_deserialize
  <2> QED BY <2>1, <2>2, <2>5, <2>7 DEF Returns
<1>2. ASSUME NEW type \in {302, 303} PROVE Returns(response_serialize(type, <<>>), type, <<>>)
  <2>1. response_serialize(type, <<>>) = Message(type, <<>>)
    BY DEF response_serialize, invalid_type_response_serialize, invalid_body_response_serialize
  <2>2. type \in Nat /\ type < 65536
    OBVIOUS
  <2>3. Whole(Message(type, <<>>), type, <<>>) /\ ParseNothing(<<>>) = Ok(<<>>)
    BY <2>2, EmptyMessage
  <2>4. \A b : response_deserialize(type, b) = ParseNothing(b)
    BY DEF response_deserialize, invalid_type_response_deserialize,
       invalid_body_response_deserialize
  <2> QED BY <2>1, <2>3, <2>4 DEF Returns
<1> QED BY <1>1, <1>2

\* A message with a code alone, of whatever response.
LEMMA CodeReturns ==
    ASSUME NEW type \in {101, 102, 103, 105, 108}, NEW c \in 0..6
    PROVE  Returns(response_serialize(type + 100, <<c>>), type + 100, <<c>>)
<1>1. type + 100 \in Nat /\ type + 100 < 65536
  OBVIOUS
<1>2. Whole(Message(type + 100, LE32(c)), type + 100, LE32(c)) /\ ParseCode(LE32(c)) = Ok(<<c>>)
  BY <1>1, CodeMessage
<1> QED BY <1>2, ResponsesOfCodes DEF Returns

\* An error code comes back where rows were asked for.
LEMMA BareReturns ==
    ASSUME NEW type \in {104, 106, 107}, NEW c \in 1..6
    PROVE  Returns(response_serialize(type + 100, <<c>>), type + 100, <<c>>)
<1>1. PICK v, t : v = <<c>> /\ t = type + 100
  OBVIOUS
<1>2. t \in Nat /\ t < 65536 /\ c \in 0..6 /\ v[1] = c /\ Len(v) = 1 /\ c # 0
  BY <1>1
<1>3. Whole(Message(t, LE32(c)), t, LE32(c)) /\ \A w : ParseTable(LE32(c), w) = Ok(v)
  BY <1>1, <1>2, CodeMessage
<1>4. response_serialize(t, v) = Message(t, LE32(c))
  <2>1. CASE type \in {104, 107}
    BY <1>1, <1>2, <2>1, ResponsesOfUsernames, BareTable
  <2>2. CASE type = 106
    <3>1. t = 206
      BY <1>1, <2>2
    <3>2. response_serialize(t, v) = recv_txt_response_serialize(c, Rows(v))
      BY <1>2, <3>1, ResponsesOfTexts
    <3>3. PICK r : r = Rows(v)
      OBVIOUS
    <3>4. PICK p, q : p = [i \in DOMAIN r |-> r[i].sender_] /\ q = [i \in DOMAIN r |-> r[i].content_]
      OBVIOUS
    <3>5. recv_txt_response_serialize(c, r) = Message(206, Table(c, p, q))
      BY <3>4 DEF recv_txt_response_serialize
    <3>6. Table(c, p, q) = LE32(c)
      BY BareTable
    <3> QED BY <3>1, <3>2, <3>3, <3>5, <3>6
  <2> QED BY <2>1, <2>2
<1>5. PICK b : b = LE32(c)
  OBVIOUS
<1>6. response_deserialize(t, b) = Ok(v)
  <2>0. Ok(v).values = v /\ Len(v) < 2
    BY <1>2 DEF Ok
  <2>1. CASE type \in {104, 107}
    <3>1. response_deserialize(t, b) = Usernames(ParseTable(b, 0))
      BY <1>1, <2>1, ResponsesOfUsernames
    <3> QED BY <1>3, <1>5, <2>0, <3>1 DEF Usernames
  <2>2. CASE type = 106
    <3>0. t = 206
      BY <1>1, <2>2
    <3>1. response_deserialize(t, b) = Texts(ParseTable(b, 1))
      BY <3>0, ResponsesOfTexts
    <3> QED BY <1>3, <1>5, <2>0, <3>1 DEF Texts
  <2> QED BY <2>1, <2>2
<1> QED BY <1>1, <1>3, <1>4, <1>5, <1>6 DEF Returns

\* Usernames come back.
LEMMA ListReturns ==
    ASSUME NEW type \in {104, 107}, NEW l \in Lists
    PROVE  Returns(response_serialize(type + 100, <<0, l>>), type + 100, <<0, l>>)
<1>1. PICK v, t, d : v = <<0, l>> /\ t = type + 100 /\ d = Table(0, <<>>, l)
  OBVIOUS
<1>2. t \in Nat /\ t < 65536 /\ v[1] = 0 /\ Len(v) = 2 /\ v[2] = l
  BY <1>1
<1>3. Rows(v) = l
  BY <1>2 DEF Rows
<1>4. l \in Seq(Bytes)
  BY AnswersAssumption
<1>5. d \in Bytes
  <2>1. <<>> \in Bytes
    BY DEF Bytes
  <2> QED BY <1>1, <1>4, <2>1, TableBytes
<1>6. Len(Message(204, d)) = 8 + Len(d) /\ Len(Message(t, d)) = 8 + Len(d)
  BY <1>2, <1>5, MessageLength
<1>7. Fits(Len(Message(204, d)))
  <2>1. Fits(Len(accounts_response_serialize(status_code_ok, l)))
    BY AnswersAssumption
  <2>2. accounts_response_serialize(status_code_ok, l) = Message(204, d)
    BY <1>1 DEF accounts_response_serialize, status_code_ok
  <2> QED BY <2>1, <2>2
<1>8. Whole(Message(t, d), t, d) /\ Fits(Len(d))
  <2>1. t \in Nat /\ t < 65536
    BY <1>2
  <2>2. Fits(Len(Message(t, d)))
    BY <1>6, <1>7
  <2> QED BY <1>5, <2>1, <2>2, MessageWhole
<1>9. response_serialize(t, v) = Message(t, d)
  BY <1>1, <1>2, <1>3, ResponsesOfUsernames
<1>10. Usernames(ParseTable(d, 0)) = Ok(v)
  BY <1>1, <1>4, <1>8, UsernamesReturn
<1> QED BY <1>1, <1>8, <1>9, <1>10, ResponsesOfUsernames DEF Returns

\* A chat comes back.
LEMMA ChatReturns ==
    ASSUME NEW h \in Chats
    PROVE  Returns(response_serialize(206, <<0, h>>), 206, <<0, h>>)
<1>1. PICK v, marks, ss, d : /\ v = <<0, h>>
                             /\ marks = [i \in DOMAIN h |-> h[i].sender_]
                             /\ ss = [i \in DOMAIN h |-> h[i].content_]
                             /\ d = Table(0, marks, ss)
  OBVIOUS
<1>2. v[1] = 0 /\ Len(v) = 2 /\ v[2] = h
  BY <1>1
<1>3. Rows(v) = h
  BY <1>2 DEF Rows
<1>4. h \in Seq([sender_ : 0..255, content_ : Bytes])
  BY AnswersAssumption
<1>5. d \in Bytes
  <2>1. marks \in Bytes /\ ss \in Seq(Bytes)
    BY <1>1, <1>4, ChatColumns DEF Columns
  <2> QED BY <1>1, <2>1, TableBytes
<1>6. Len(Message(206, d)) = 8 + Len(d)
  BY <1>5, MessageLength
<1>7. recv_txt_response_serialize(0, h) = Message(206, d)
  BY <1>1 DEF recv_txt_response_serialize
<1>8. Fits(Len(Message(206, d)))
  <2>1. Fits(Len(recv_txt_response_serialize(status_code_ok, h)))
    BY AnswersAssumption
  <2> QED BY <1>7, <2>1 DEF status_code_ok
<1>9. Whole(Message(206, d), 206, d) /\ Fits(Len(d))
  <2>1. 206 \in Nat /\ 206 < 65536
    OBVIOUS
  <2> QED BY <1>5, <1>8, <2>1, MessageWhole
<1>10. response_serialize(206, v) = Message(206, d)
  BY <1>2, <1>3, <1>7, ResponsesOfTexts
<1>11. Texts(ParseTable(d, 1)) = Ok(v)
  <2>1. Columns(h, marks, ss)
    BY <1>1, <1>4, ChatColumns
  <2>2. d = Table(0, marks, ss) /\ v = <<0, h>>
    BY <1>1
  <2> QED BY <1>9, <2>1, <2>2, TextsReturn
<1> QED BY <1>1, <1>9, <1>10, <1>11, ResponsesOfTexts DEF Returns

\* Every answer a handler gives comes back to the client as it was given, tables and
\* empty lists included (*_response::serialize and ::deserialize of chat262_protocol.cc).
THEOREM AnswersReturn ==
    \A type \in RequestTypes : \A v \in Answers(type) :
        Returns(response_serialize(type + 100, v), type + 100, v)
<1> SUFFICES ASSUME NEW type \in RequestTypes, NEW v \in Answers(type)
             PROVE  Returns(response_serialize(type + 100, v), type + 100, v)
  OBVIOUS
<1>1. CASE type \in {101, 102, 103, 105, 108} /\ \E c \in 0..6 : v = <<c>>
  BY <1>1, CodeReturns
<1>2. CASE type \in {104, 106, 107} /\ \E c \in 1..6 : v = <<c>>
  BY <1>2, BareReturns
<1>3. CASE type \in {104, 107} /\ \E l \in Lists : v = <<0, l>>
  BY <1>3, ListReturns
<1>4. CASE type = 106 /\ \E h \in Chats : v = <<0, h>>
  <2>1. type + 100 = 206
    BY <1>4
  <2> QED BY <1>4, <2>1, ChatReturns
<1> QED BY <1>1, <1>2, <1>3, <1>4, AnswersCases

HIDE DEF msgtype_registration_request, msgtype_login_request, msgtype_logout_request,
        msgtype_accounts_request, msgtype_send_txt_request, msgtype_recv_txt_request,
        msgtype_correspondents_request, msgtype_delete_request,
        msgtype_registration_response, msgtype_login_response, msgtype_logout_response,
        msgtype_accounts_response, msgtype_send_txt_response, msgtype_recv_txt_response,
        msgtype_correspondents_response, msgtype_delete_response,
        msgtype_wrong_version_response, msgtype_invalid_type_response,
        msgtype_invalid_body_response

-----------------------------------------------------------------------------
(***************************************************************************)
(* Types.                                                                  *)
(***************************************************************************)

\* The variables are functions of the two ends.
Shapes ==
    /\ pc \in [Ends -> {"idle", "send", "hdr", "body", "closed"}] /\ pc["server"] # "idle"
    /\ out \in [Ends -> Bytes] /\ net \in [Ends -> Bytes] /\ buf \in [Ends -> Bytes]
    /\ total \in [Ends -> Nat] /\ reset \in [Ends -> BOOLEAN]
    /\ hdr = [e \in Ends |-> hdr[e]]
    /\ cuts \in 0..MaxCuts

\* The loop of e: what it waits for is a length, and it has not gone further than
\* one past it.
LoopOK(e) ==
    /\ pc[e] = "body" => hdr[e].body_len_ \in Nat
    /\ IF pc[e] \in {"send", "hdr", "body"}
       THEN total[e] \in 0..(Want(e) + 1) /\ Len(buf[e]) <= total[e]
       ELSE total[e] = 0 /\ buf[e] = <<>>

Types == Shapes /\ \A e \in Ends : LoopOK(e)

\* No bytes are bytes.
LEMMA EmptyBytes == <<>> \in Bytes /\ Len(<<>>) = 0
BY DEF Bytes

\* There are two ends, and each is the other's peer.
LEMMA TheEnds ==
    /\ "client" \in Ends /\ "server" \in Ends /\ \A e \in Ends : e = "client" \/ e = "server"
    /\ Peer("client") = "server" /\ Peer("server") = "client"
    /\ \A e \in Ends : Peer(e) \in Ends /\ Peer(e) # e /\ \A f \in Ends : f = e \/ f = Peer(e)
BY DEF Ends, Peer

\* The types of the proofs are those that are checked.
LEMMA TypesImply == Types => WTypeOK
<1> SUFFICES ASSUME Types PROVE WTypeOK
  OBVIOUS
<1>1. "client" \in Ends /\ "server" \in Ends
  BY TheEnds
<1>2. pc["client"] \in {"idle", "send", "hdr", "body", "closed"}
      /\ pc["server"] \in {"send", "hdr", "body", "closed"}
  BY <1>1 DEF Types, Shapes
<1>3. cuts \in 0..MaxCuts
  BY DEF Types, Shapes
<1>4. ASSUME NEW e \in Ends
      PROVE  /\ out[e] \in Bytes /\ net[e] \in Bytes /\ buf[e] \in Bytes
             /\ reset[e] \in BOOLEAN
             /\ IF pc[e] \in {"send", "hdr", "body"}
                THEN total[e] \in 0..(Want(e) + 1) /\ Len(buf[e]) <= total[e]
                ELSE total[e] = 0 /\ buf[e] = <<>>
  BY DEF Types, Shapes, LoopOK
<1> QED BY <1>2, <1>3, <1>4 DEF WTypeOK

\* What a loop waits for is a length.
LEMMA WantNat ==
    ASSUME Types, NEW e \in Ends, pc[e] \in {"send", "hdr", "body"}
    PROVE  /\ Want(e) \in Nat
           /\ pc[e] = "send" => Want(e) = Len(out[e])
           /\ pc[e] = "hdr" => Want(e) = 8
           /\ pc[e] = "body" => Want(e) = hdr[e].body_len_
<1>1. CASE pc[e] = "send"
  <2>1. Want(e) = Len(out[e])
    BY <1>1 DEF Want
  <2>2. out[e] \in Bytes
    BY DEF Types, Shapes
  <2> QED BY <1>1, <2>1, <2>2, BytesLen
<1>2. CASE pc[e] = "hdr"
  BY <1>2 DEF Want, HeaderSize
<1>3. CASE pc[e] = "body"
  <2>1. Want(e) = hdr[e].body_len_
    BY <1>3 DEF Want
  <2> QED BY <1>3, <2>1 DEF Types, LoopOK
<1> QED BY <1>1, <1>2, <1>3

\* What a loop has read.
LEMMA DataType ==
    ASSUME Types, NEW e \in Ends, pc[e] \in {"send", "hdr", "body"}
    PROVE  Data(e) \in Bytes /\ Len(Data(e)) = Want(e)
<1>1. PICK n, b : n = Want(e) /\ b = buf[e]
  OBVIOUS
<1>2. n \in Nat
  BY <1>1, WantNat
<1>3. b \in Bytes
  BY <1>1 DEF Types, Shapes
<1>4. PICK d : d = [i \in 1..n |-> IF i <= Len(b) THEN b[i] ELSE 0]
  OBVIOUS
<1>5. ASSUME NEW i \in 1..n PROVE (IF i <= Len(b) THEN b[i] ELSE 0) \in 0..255
  <2>1. CASE i <= Len(b)
    <3>1. i \in 1..Len(b)
      BY <1>2, <1>3, <2>1, BytesLen
    <3> QED BY <1>3, <2>1, <3>1, BytesLen
  <2>2. CASE ~(i <= Len(b))
    BY <2>2
  <2> QED BY <2>1, <2>2
<1>6. d \in [1..n -> 0..255]
  BY <1>4, <1>5
<1>7. d \in Seq(0..255) /\ Len(d) = n
  BY <1>2, <1>6
<1>8. Data(e) = d
  BY <1>1, <1>4 DEF Data
<1> QED BY <1>1, <1>7, <1>8 DEF Bytes

\* The body length in a header is a number.
LEMMA HeaderType ==
    ASSUME NEW d \in Bytes, Len(d) = 8
    PROVE  message_header_deserialize(d).values.body_len_ \in Nat
<1>1. U32(d, 5) \in Nat
  <2>1. 5 \in Nat \ {0} /\ 5 + 3 <= Len(d)
    OBVIOUS
  <2> QED BY <2>1, U32Nat
<1>2. message_header_deserialize(d).values.body_len_ = U32(d, 5)
  BY DEF message_header_deserialize, HeaderSize, Ok
<1> QED BY <1>1, <1>2

\* An answer that comes back has bytes, with a header at least.
LEMMA ReturnsBytes ==
    ASSUME NEW x, NEW type, NEW v, Returns(x, type, v)
    PROVE  x \in Bytes /\ Len(x) >= 8
BY DEF Returns, Whole, Framed, HeaderSize

\* A request has bytes, with a header at least.
LEMMA CarriesBytes ==
    ASSUME NEW r \in AllRequests
    PROVE  r.bytes \in Bytes /\ Len(r.bytes) >= 8
BY RequestsCarry DEF Carries, Framed, HeaderSize

-----------------------------------------------------------------------------

\* An end that enters a loop or leaves the conversation.
LEMMA EnterTypes ==
    ASSUME Types, NEW e \in Ends, NEW p \in {"idle", "send", "hdr", "body", "closed"}, Enter(e, p),
           p = "idle" => e # "server",
           out' \in [Ends -> Bytes], hdr' = [f \in Ends |-> hdr'[f]],
           net' \in [Ends -> Bytes], reset' \in [Ends -> BOOLEAN], UNCHANGED cuts,
           \A f \in Ends : f # e => out'[f] = out[f] /\ hdr'[f] = hdr[f],
           p = "body" => hdr'[e].body_len_ \in Nat
    PROVE  Types'
<1>1. /\ pc' \in [Ends -> {"idle", "send", "hdr", "body", "closed"}] /\ total' \in [Ends -> Nat]
      /\ buf' \in [Ends -> Bytes]
      /\ pc'[e] = p /\ total'[e] = 0 /\ buf'[e] = <<>>
      /\ \A f \in Ends : f # e => pc'[f] = pc[f] /\ total'[f] = total[f] /\ buf'[f] = buf[f]
  BY EmptyBytes DEF Enter, Types, Shapes
<1>2. pc'["server"] # "idle"
  BY <1>1, TheEnds DEF Types, Shapes
<1>3. Shapes'
  BY <1>1, <1>2 DEF Types, Shapes
<1>4. ASSUME NEW f \in Ends PROVE LoopOK(f)'
  <2>1. CASE f # e
    <3>1. /\ pc'[f] = pc[f] /\ total'[f] = total[f] /\ buf'[f] = buf[f]
          /\ out'[f] = out[f] /\ hdr'[f] = hdr[f]
      BY <1>1, <2>1
    <3>2. Want(f)' = Want(f)
      BY <3>1 DEF Want
    <3> QED BY <3>1, <3>2 DEF Types, LoopOK
  <2>2. CASE f = e /\ p \in {"send", "hdr", "body"}
    <3>1. Want(e)' \in Nat
      <4>1. CASE p = "send"
        <5>1. Want(e)' = Len(out'[e])
          BY <1>1, <4>1 DEF Want
        <5>2. out'[e] \in Bytes
          OBVIOUS
        <5> QED BY <5>1, <5>2, BytesLen
      <4>2. CASE p = "hdr"
        BY <1>1, <4>2 DEF Want, HeaderSize
      <4>3. CASE p = "body"
        BY <1>1, <4>3 DEF Want
      <4> QED BY <2>2, <4>1, <4>2, <4>3
    <3>2. 0 \in 0..(Want(e)' + 1)
      BY <3>1
    <3>3. Len(buf'[e]) <= 0
      BY <1>1, EmptyBytes
    <3> QED BY <1>1, <2>2, <3>2, <3>3 DEF LoopOK
  <2>3. CASE f = e /\ p \notin {"send", "hdr", "body"}
    BY <1>1, <2>3 DEF LoopOK
  <2> QED BY <2>1, <2>2, <2>3
<1> QED BY <1>3, <1>4 DEF Types

\* Closing keeps the types.
LEMMA CloseTypes ==
    ASSUME Types, NEW e \in Ends, CloseSocket(e)
    PROVE  Types'
<1>1. Enter(e, "closed") /\ UNCHANGED cuts
  BY DEF CloseSocket
<1>2. out' \in [Ends -> Bytes] /\ net' \in [Ends -> Bytes]
      /\ \A f \in Ends : f # e => out'[f] = out[f]
  BY EmptyBytes DEF CloseSocket, Types, Shapes
<1>3. hdr' = [f \in Ends |-> hdr'[f]] /\ \A f \in Ends : f # e => hdr'[f] = hdr[f]
  BY DEF CloseSocket, Types, Shapes
<1>4. reset' \in [Ends -> BOOLEAN]
  <2>1. reset' = [reset EXCEPT ![e] = FALSE, ![Peer(e)] = @ \/ net[e] # <<>>]
    BY DEF CloseSocket
  <2>2. reset \in [Ends -> BOOLEAN]
    BY DEF Types, Shapes
  <2>3. Peer(e) \in Ends
    BY TheEnds
  <2> QED BY <2>1, <2>2, <2>3
<1> QED BY <1>1, <1>2, <1>3, <1>4, EnterTypes

\* The least of two numbers.
LEMMA LeastNat2 ==
    \A a, b \in Nat : Least(a, b) \in Nat /\ Least(a, b) <= a /\ Least(a, b) <= b
BY DEF Least

\* The bound on partial calls is kept.
LEMMA CutsType ==
    ASSUME cuts \in 0..MaxCuts, UNCHANGED cuts \/ Cut
    PROVE  cuts' \in 0..MaxCuts
BY TransportAssumption DEF Cut

\* send_msg keeps the types: its counter stops one past the length.
LEMMA SendTypes ==
    ASSUME Types, NEW e \in Ends, Send(e)
    PROVE  Types'
<1>1. PICK n \in {Len(out[e])} \cup {k \in Pieces : k < Len(out[e])} :
         /\ UNCHANGED cuts \/ Cut
         /\ Count(e, n)
         /\ IF Gone(Peer(e))
            THEN reset' = [reset EXCEPT ![e] = TRUE] /\ UNCHANGED net
            ELSE net' = [net EXCEPT ![Peer(e)] = @ \o SubSeq(out[e], 1, n)] /\ UNCHANGED reset
  BY DEF Send
<1>2. out[e] \in Bytes /\ net[Peer(e)] \in Bytes /\ Peer(e) \in Ends
  BY TheEnds DEF Types, Shapes
<1>3. Len(out[e]) \in Nat
  BY <1>2, BytesLen
<1>4. n \in Nat /\ n <= Len(out[e])
  <2>1. n \in {Len(out[e])} \cup {k \in Pieces : k < Len(out[e])}
    BY <1>1
  <2>2. n = Len(out[e]) \/ (n \in Pieces /\ n < Len(out[e]))
    BY <2>1
  <2>3. PICK z : z = Len(out[e])
    OBVIOUS
  <2>4. z \in Nat /\ (n = z \/ (n \in Nat /\ n < z))
    BY <1>3, <2>2, <2>3, TransportAssumption
  <2> QED BY <2>3, <2>4
<1>5. /\ UNCHANGED <<pc, out, buf, hdr>> /\ pc[e] = "send"
  BY DEF Send
<1>6. \A f \in Ends : Want(f)' = Want(f)
  BY <1>5 DEF Want
<1>7. Want(e) \in Nat
  BY <1>5, WantNat
<1>8. total[e] \in Nat
  BY DEF Types, Shapes
<1>9. PICK t : t = Least(total[e] + n, Want(e) + 1)
  OBVIOUS
<1>10. t \in 0..(Want(e) + 1) /\ (total[e] <= t)
  <2>1. total[e] <= Want(e) + 1
    BY <1>5 DEF Types, LoopOK
  <2> QED BY <1>4, <1>7, <1>8, <1>9, <2>1 DEF Least
<1>11. total' = [total EXCEPT ![e] = t]
  BY <1>1, <1>9 DEF Count
<1>12. net' \in [Ends -> Bytes] /\ reset' \in [Ends -> BOOLEAN]
  <2>0. net \in [Ends -> Bytes] /\ reset \in [Ends -> BOOLEAN]
    BY DEF Types, Shapes
  <2>1. PICK b, a : b = SubSeq(out[e], 1, n) /\ a = net[Peer(e)] \o b
    OBVIOUS
  <2>2. b \in Bytes
    <3>1. 1 \in Nat \ {0}
      OBVIOUS
    <3> QED BY <1>2, <1>4, <2>1, <3>1, BytesSub
  <2>3. a \in Bytes
    BY <1>2, <2>1, <2>2, Joined
  <2>4. CASE Gone(Peer(e))
    <3>1. reset' = [reset EXCEPT ![e] = TRUE] /\ net' = net
      BY <1>1, <2>4
    <3> QED BY <2>0, <3>1
  <2>5. CASE ~Gone(Peer(e))
    <3>1. net' = [net EXCEPT ![Peer(e)] = a] /\ reset' = reset
      BY <1>1, <2>1, <2>5
    <3> QED BY <1>2, <2>0, <2>3, <3>1
  <2> QED BY <2>4, <2>5
<1>13. cuts' \in 0..MaxCuts
  BY <1>1, CutsType DEF Types, Shapes
<1>14. total' \in [Ends -> Nat]
  <2>1. t \in Nat
    BY <1>7, <1>10
  <2>2. total \in [Ends -> Nat]
    BY DEF Types, Shapes
  <2> QED BY <1>11, <2>1, <2>2
<1>15. Shapes'
  BY <1>5, <1>12, <1>13, <1>14 DEF Types, Shapes
<1>16. ASSUME NEW f \in Ends PROVE LoopOK(f)'
  <2>1. LoopOK(f)
    BY DEF Types
  <2>2. CASE f # e
    <3>1. total'[f] = total[f]
      BY <1>11, <2>2 DEF Types, Shapes
    <3> QED BY <1>5, <1>6, <2>1, <3>1 DEF LoopOK
  <2>3. CASE f = e
    <3>1. total'[e] = t
      BY <1>11 DEF Types, Shapes
    <3>2. t \in 0..(Want(e)' + 1)
      BY <1>6, <1>10
    <3>3. Len(buf[e]) <= total[e] /\ Len(buf[e]) \in Nat
      <4>1. buf[e] \in Bytes
        BY DEF Types, Shapes
      <4> QED BY <1>5, <2>1, <2>3, <4>1, BytesLen DEF LoopOK
    <3>4. t \in Nat
      BY <1>7, <1>10
    <3>5. Len(buf'[e]) <= t
      BY <1>5, <1>8, <1>10, <3>3, <3>4
    <3> QED BY <1>5, <2>3, <3>1, <3>2, <3>5 DEF LoopOK
  <2> QED BY <2>2, <2>3
<1> QED BY <1>15, <1>16 DEF Types

\* recv_hdr and recv_body keep the types: the counter stops one past the length, and the
\* buffer is no longer than the counter says.
LEMMA RecvTypes ==
    ASSUME Types, NEW e \in Ends, Recv(e)
    PROVE  Types'
<1>1. PICK m, w, a, b : m = Least(Len(net[e]), Want(e)) /\ w = Want(e) /\ a = net[e] /\ b = buf[e]
  OBVIOUS
<1>2. PICK n \in {m} \cup {k \in Pieces : k < m} :
         /\ UNCHANGED cuts \/ Cut
         /\ Count(e, n)
         /\ buf' = [buf EXCEPT ![e] = SubSeq(a, 1, n) \o SubSeq(b, n + 1, Len(b))]
         /\ net' = [net EXCEPT ![e] = SubSeq(a, n + 1, Len(a))]
  BY <1>1 DEF Recv
<1>3. a \in Bytes /\ b \in Bytes
  BY <1>1 DEF Types, Shapes
<1>4. Len(a) \in Nat /\ Len(b) \in Nat
  BY <1>3, BytesLen
<1>5. UNCHANGED <<pc, out, hdr, reset>> /\ pc[e] \in {"send", "hdr", "body"}
  BY DEF Recv, InLoop
<1>6. \A f \in Ends : Want(f)' = Want(f)
  BY <1>5 DEF Want
<1>7. w \in Nat
  BY <1>1, <1>5, WantNat
<1>8. n \in Nat /\ n <= Len(a) /\ n <= w
  <2>1. m \in Nat /\ m <= Len(a) /\ m <= w
    BY <1>1, <1>4, <1>7, LeastNat2
  <2> QED BY <1>2, <1>4, <1>7, <2>1, TransportAssumption
<1>9. total[e] \in Nat /\ total[e] <= w + 1 /\ Len(b) <= total[e]
  BY <1>1, <1>5 DEF Types, Shapes, LoopOK
<1>10. PICK t : t = Least(total[e] + n, w + 1)
  OBVIOUS
<1>11. t \in 0..(w + 1) /\ t \in Nat /\ n <= t /\ Len(b) <= t
  BY <1>4, <1>7, <1>8, <1>9, <1>10 DEF Least
<1>12. total' = [total EXCEPT ![e] = t]
  BY <1>1, <1>2, <1>10 DEF Count
<1>13. PICK c, d, g : c = SubSeq(a, 1, n) /\ d = SubSeq(b, n + 1, Len(b)) /\ g = c \o d
  OBVIOUS
<1>14. c \in Bytes /\ Len(c) = n
  <2>1. 1 \in Nat \ {0}
    OBVIOUS
  <2>2. c \in Bytes /\ Len(c) = IF 1 <= n THEN n - 1 + 1 ELSE 0
    BY <1>3, <1>8, <1>13, <2>1, BytesSub
  <2> QED BY <1>8, <2>2
<1>15. d \in Bytes /\ Len(d) = IF n + 1 <= Len(b) THEN Len(b) - (n + 1) + 1 ELSE 0
  <2>1. n + 1 \in Nat \ {0} /\ Len(b) <= Len(b)
    BY <1>4, <1>8
  <2> QED BY <1>3, <1>4, <1>13, <2>1, BytesSub
<1>16. g \in Bytes /\ Len(g) = Len(c) + Len(d)
  BY <1>13, <1>14, <1>15, Joined
<1>17. Len(g) <= t
  <2>1. PICK x, y, z : x = Len(b) /\ y = Len(d) /\ z = Len(c)
    OBVIOUS
  <2>2. x \in Nat /\ y = (IF n + 1 <= x THEN x - (n + 1) + 1 ELSE 0) /\ z = n /\ Len(g) = z + y
    BY <1>4, <1>14, <1>15, <1>16, <2>1
  <2>3. n \in Nat /\ n <= t /\ x <= t /\ t \in Nat
    BY <1>8, <1>11, <2>1
  <2> QED BY <2>2, <2>3
<1>18. PICK h : h = SubSeq(a, n + 1, Len(a))
  OBVIOUS
<1>19. h \in Bytes
  <2>1. n + 1 \in Nat \ {0} /\ Len(a) <= Len(a)
    BY <1>4, <1>8
  <2> QED BY <1>3, <1>4, <1>18, <2>1, BytesSub
<1>20. buf' = [buf EXCEPT ![e] = g] /\ net' = [net EXCEPT ![e] = h]
  BY <1>2, <1>13, <1>18
<1>21. cuts' \in 0..MaxCuts
  BY <1>2, CutsType DEF Types, Shapes
<1>22. Shapes'
  <2>1. /\ buf \in [Ends -> Bytes] /\ net \in [Ends -> Bytes] /\ total \in [Ends -> Nat]
    BY DEF Types, Shapes
  <2>2. /\ buf' \in [Ends -> Bytes] /\ net' \in [Ends -> Bytes] /\ total' \in [Ends -> Nat]
    BY <1>11, <1>12, <1>16, <1>19, <1>20, <2>1
  <2> QED BY <1>5, <1>21, <2>2 DEF Types, Shapes
<1>23. ASSUME NEW f \in Ends PROVE LoopOK(f)'
  <2>1. LoopOK(f)
    BY DEF Types
  <2>2. CASE f # e
    <3>1. total'[f] = total[f] /\ buf'[f] = buf[f]
      BY <1>12, <1>20, <2>2 DEF Types, Shapes
    <3> QED BY <1>5, <1>6, <2>1, <3>1 DEF LoopOK
  <2>3. CASE f = e
    <3>1. total'[e] = t /\ buf'[e] = g
      BY <1>12, <1>20 DEF Types, Shapes
    <3>2. t \in 0..(Want(e)' + 1)
      BY <1>1, <1>6, <1>11
    <3> QED BY <1>5, <1>17, <2>1, <2>3, <3>1, <3>2 DEF LoopOK
  <2> QED BY <2>2, <2>3
<1> QED BY <1>22, <1>23 DEF Types

-----------------------------------------------------------------------------

\* An end that starts to send.
LEMMA StartTypes ==
    ASSUME Types, NEW e \in Ends, NEW b \in Bytes, StartSending(e, b), UNCHANGED <<net, reset, cuts>>,
           hdr' = [f \in Ends |-> hdr'[f]], \A f \in Ends : f # e => hdr'[f] = hdr[f]
    PROVE  Types'
<1>1. Enter(e, "send") /\ out' = [out EXCEPT ![e] = b]
  BY DEF StartSending
<1>2. out' \in [Ends -> Bytes] /\ \A f \in Ends : f # e => out'[f] = out[f]
  BY <1>1 DEF Types, Shapes
<1>3. net' \in [Ends -> Bytes] /\ reset' \in [Ends -> BOOLEAN] /\ UNCHANGED cuts
  BY DEF Types, Shapes
<1> QED BY <1>1, <1>2, <1>3, EnterTypes

\* What every answer is.
LEMMA RespondTypes ==
    ASSUME Types, NEW type, NEW v, Respond(type, v), Returns(response_serialize(type, v), type, v),
           UNCHANGED <<net, reset, cuts>>,
           hdr' = [f \in Ends |-> hdr'[f]], hdr'["client"] = hdr["client"]
    PROVE  Types'
<1>1. PICK b : b = response_serialize(type, v)
  OBVIOUS
<1>2. b \in Bytes
  BY <1>1, ReturnsBytes
<1>3. StartSending("server", b)
  BY <1>1 DEF Respond
<1> QED BY <1>2, <1>3, TheEnds, StartTypes

\* What the end makes of a header.
LEMMA ReadHeaderType ==
    ASSUME Types, NEW e \in Ends, Through(e, "hdr")
    PROVE  message_header_deserialize(Data(e)).values.body_len_ \in Nat
<1>1. pc[e] = "hdr"
  BY DEF Through
<1>2. PICK d : d = Data(e)
  OBVIOUS
<1>3. d \in Bytes /\ Len(d) = 8
  BY <1>1, <1>2, DataType, WantNat
<1>4. d \in Bytes
  BY <1>3
<1> QED BY <1>2, <1>3, <1>4, HeaderType

\* A call of the client keeps the types.
LEMMA CallTypes ==
    ASSUME Types, Call
    PROVE  Types'
<1>1. PICK r \in AllRequests : StartSending("client", r.bytes)
  BY DEF Call
<1>2. r.bytes \in Bytes
  BY CarriesBytes
<1>3. UNCHANGED <<hdr, net, reset, cuts>>
  BY DEF Call
<1>4. hdr' = [f \in Ends |-> hdr'[f]]
  BY <1>3 DEF Types, Shapes
<1> QED BY <1>1, <1>2, <1>3, <1>4, TheEnds, StartTypes

\* So does the end of send_msg,
LEMMA RequestSentTypes ==
    ASSUME Types, RequestSent
    PROVE  Types'
<1>1. /\ Enter("client", "hdr") /\ UNCHANGED <<hdr, net, reset, cuts>>
      /\ out' = [out EXCEPT !["client"] = <<>>]
  BY DEF RequestSent
<1>2. out' \in [Ends -> Bytes] /\ \A f \in Ends : f # "client" => out'[f] = out[f]
  BY <1>1, EmptyBytes DEF Types, Shapes
<1>3. /\ hdr' = [f \in Ends |-> hdr'[f]] /\ net' \in [Ends -> Bytes] /\ reset' \in [Ends -> BOOLEAN]
  BY <1>1 DEF Types, Shapes
<1> QED BY <1>1, <1>2, <1>3, TheEnds, EnterTypes

\* the end of the client's recv_hdr,
LEMMA ResponseHeaderTypes ==
    ASSUME Types, ResponseHeader
    PROVE  Types'
<1>1. PICK h : h = message_header_deserialize(Data("client")).values
  OBVIOUS
<1>2. h.body_len_ \in Nat
  BY <1>1, TheEnds, ReadHeaderType DEF ResponseHeader
<1>3. CASE CloseSocket("client")
  BY <1>3, TheEnds, CloseTypes
<1>4. CASE /\ Enter("client", "body") /\ hdr' = [hdr EXCEPT !["client"] = h]
           /\ UNCHANGED <<out, net, reset, callvars, cuts>>
  <2>1. /\ out' \in [Ends -> Bytes] /\ net' \in [Ends -> Bytes] /\ reset' \in [Ends -> BOOLEAN]
        /\ \A f \in Ends : f # "client" => out'[f] = out[f]
    BY <1>4 DEF Types, Shapes
  <2>2. hdr' = [f \in Ends |-> hdr'[f]] /\ \A f \in Ends : f # "client" => hdr'[f] = hdr[f]
    BY <1>4 DEF Types, Shapes
  <2>3. hdr'["client"].body_len_ \in Nat
    BY <1>2, <1>4, TheEnds DEF Types, Shapes
  <2> QED BY <1>4, <2>1, <2>2, <2>3, TheEnds, EnterTypes
<1> QED BY <1>1, <1>3, <1>4 DEF ResponseHeader

\* the end of its recv_body,
LEMMA ResponseBodyTypes ==
    ASSUME Types, ResponseBody
    PROVE  Types'
<1>1. CASE CloseSocket("client")
  BY <1>1, TheEnds, CloseTypes
<1>2. CASE /\ Enter("client", "idle") /\ hdr' = [hdr EXCEPT !["client"] = None]
           /\ UNCHANGED <<out, net, reset, cuts>>
  <2>1. /\ out' \in [Ends -> Bytes] /\ net' \in [Ends -> Bytes] /\ reset' \in [Ends -> BOOLEAN]
        /\ \A f \in Ends : f # "client" => out'[f] = out[f]
    BY <1>2 DEF Types, Shapes
  <2>2. hdr' = [f \in Ends |-> hdr'[f]] /\ \A f \in Ends : f # "client" => hdr'[f] = hdr[f]
    BY <1>2 DEF Types, Shapes
  <2> QED BY <1>2, <2>1, <2>2, TheEnds, EnterTypes
<1> QED BY <1>1, <1>2 DEF ResponseBody

\* the end of the server's recv_hdr,
LEMMA RequestHeaderTypes ==
    ASSUME Types, RequestHeader
    PROVE  Types'
<1>1. PICK h : h = message_header_deserialize(Data("server")).values
  OBVIOUS
<1>2. h.body_len_ \in Nat
  BY <1>1, TheEnds, ReadHeaderType DEF RequestHeader
<1>3. hdr' = [hdr EXCEPT !["server"] = h] /\ UNCHANGED <<net, reset, cuts>>
  BY <1>1 DEF RequestHeader
<1>4. hdr' = [f \in Ends |-> hdr'[f]] /\ \A f \in Ends : f # "server" => hdr'[f] = hdr[f]
  BY <1>3 DEF Types, Shapes
<1>5. CASE Enter("server", "body") /\ UNCHANGED <<out, answer>>
  <2>1. /\ out' \in [Ends -> Bytes] /\ net' \in [Ends -> Bytes] /\ reset' \in [Ends -> BOOLEAN]
        /\ \A f \in Ends : f # "server" => out'[f] = out[f]
    BY <1>3, <1>5 DEF Types, Shapes
  <2>2. hdr'["server"].body_len_ \in Nat
    BY <1>2, <1>3, TheEnds DEF Types, Shapes
  <2> QED BY <1>3, <1>4, <1>5, <2>1, <2>2, TheEnds, EnterTypes
<1>6. CASE Respond(301, <<version>>)
  <2>1. Returns(response_serialize(301, <<version>>), 301, <<version>>)
    BY Refusals
  <2>2. hdr'["client"] = hdr["client"]
    BY <1>4, TheEnds
  <2> QED BY <1>3, <1>4, <1>6, <2>1, <2>2, RespondTypes
<1> QED BY <1>1, <1>5, <1>6 DEF RequestHeader, msgtype_wrong_version_response

\* of its recv_body, with the handler's answer,
LEMMA RequestBodyTypes ==
    ASSUME Types, RequestBody
    PROVE  Types'
<1>1. UNCHANGED <<hdr, net, reset, cuts>>
  BY DEF RequestBody
<1>2. hdr' = [f \in Ends |-> hdr'[f]] /\ hdr'["client"] = hdr["client"]
  BY <1>1 DEF Types, Shapes
<1>3. PICK type : type = hdr["server"].type_
  OBVIOUS
<1>4. CASE Respond(302, <<>>)
  BY <1>1, <1>2, <1>4, Refusals, RespondTypes
<1>5. CASE Respond(303, <<>>)
  BY <1>1, <1>2, <1>5, Refusals, RespondTypes
<1>6. CASE type \in RequestTypes /\ \E v \in Answers(type) : Respond(type + 100, v)
  <2>1. PICK v \in Answers(type) : Respond(type + 100, v)
    BY <1>6
  <2>2. Returns(response_serialize(type + 100, v), type + 100, v)
    BY <1>6, AnswersReturn
  <2>3. PICK t : t = type + 100
    OBVIOUS
  <2> QED BY <1>1, <1>2, <2>1, <2>2, <2>3, RespondTypes
<1> QED
  BY <1>3, <1>4, <1>5, <1>6
  DEF RequestBody, msgtype_invalid_type_response, msgtype_invalid_body_response

\* and of its send_msg.
LEMMA ResponseSentTypes ==
    ASSUME Types, ResponseSent
    PROVE  Types'
<1>1. CASE CloseSocket("server")
  BY <1>1, TheEnds, CloseTypes
<1>2. CASE /\ Enter("server", "hdr") /\ out' = [out EXCEPT !["server"] = <<>>]
           /\ hdr' = [hdr EXCEPT !["server"] = None] /\ UNCHANGED <<net, reset, callvars, cuts>>
  <2>1. /\ out' \in [Ends -> Bytes] /\ \A f \in Ends : f # "server" => out'[f] = out[f]
    BY <1>2, EmptyBytes DEF Types, Shapes
  <2>2. /\ net' \in [Ends -> Bytes] /\ reset' \in [Ends -> BOOLEAN]
    BY <1>2 DEF Types, Shapes
  <2>3. hdr' = [f \in Ends |-> hdr'[f]] /\ \A f \in Ends : f # "server" => hdr'[f] = hdr[f]
    BY <1>2 DEF Types, Shapes
  <2> QED BY <1>2, <2>1, <2>2, <2>3, TheEnds, EnterTypes
<1> QED BY <1>1, <1>2 DEF ResponseSent

\* The types hold when the connection is accepted,
LEMMA InitTypes == WInit => Types
<1> SUFFICES ASSUME WInit PROVE Types
  OBVIOUS
<1>1. Shapes
  BY EmptyBytes, TransportAssumption DEF WInit, Shapes, Ends
<1>2. ASSUME NEW e \in Ends PROVE LoopOK(e)
  <2>1. pc[e] \in {"idle", "hdr"} /\ total[e] = 0 /\ buf[e] = <<>>
    BY DEF WInit
  <2>2. pc[e] = "hdr" => Want(e) = 8
    BY DEF Want, HeaderSize
  <2> QED BY <2>1, <2>2, EmptyBytes DEF LoopOK
<1> QED BY <1>1, <1>2 DEF Types

\* and every step keeps them.
LEMMA NextTypes ==
    ASSUME Types, [WNext]_vars
    PROVE  Types'
<1>1. CASE Call
  BY <1>1, CallTypes
<1>2. ASSUME NEW e \in Ends, Send(e) PROVE Types'
  BY <1>2, SendTypes
<1>3. ASSUME NEW e \in Ends, Recv(e) PROVE Types'
  BY <1>3, RecvTypes
<1>4. CASE RequestSent
  BY <1>4, RequestSentTypes
<1>5. CASE ResponseHeader
  BY <1>5, ResponseHeaderTypes
<1>6. CASE ResponseBody
  BY <1>6, ResponseBodyTypes
<1>7. CASE RequestHeader
  BY <1>7, RequestHeaderTypes
<1>8. CASE RequestBody
  BY <1>8, RequestBodyTypes
<1>9. CASE ResponseSent
  BY <1>9, ResponseSentTypes
<1>10. ASSUME NEW e \in Ends, CloseSocket(e) PROVE Types'
  BY <1>10, CloseTypes
<1>11. CASE UNCHANGED vars
  BY <1>11 DEF vars, Types, Shapes, LoopOK, Want
<1> QED
  BY <1>1, <1>2, <1>3, <1>4, <1>5, <1>6, <1>7, <1>8, <1>9, <1>10, <1>11, TheEnds
  DEF WNext, ClientStep, ServerStep, Fail, Break

\* The loops of both ends never count further than one past the length they wait for, for
\* any requests, answers, sizes of pieces and number of them (send_msg, recv_hdr and
\* recv_body of server.cc and client.cc).
THEOREM WTypesHold == WSpec => []Types
BY InitTypes, NextTypes, PTL DEF WSpec

\* The type invariant of the connection (send_msg, recv_hdr and recv_body of server.cc
\* and client.cc).
THEOREM WTyping == WSpec => []WTypeOK
BY WTypesHold, TypesImply, PTL

-----------------------------------------------------------------------------
(***************************************************************************)
(* While whole messages move: where a request and its answer are.          *)
(***************************************************************************)

\* The bytes of the last request and of its answer.
Request == asked.bytes
Reply   == response_serialize(answer.type, answer.values)

\* The server has nothing to read: it waits, has sent its answer, is about to
\* close because of a wrong version, or has closed.
Waits == pc["server"] = "hdr" /\ total["server"] = 0 /\ net["server"] = <<>>
Sent  == /\ pc["server"] = "send" /\ hdr["server"].version_ = version /\ net["server"] = <<>>
         /\ total["server"] = Len(out["server"]) \/ Gone("client")
Last  == /\ pc["server"] = "send" /\ hdr["server"].version_ # version
         /\ total["server"] = Len(out["server"]) \/ Gone("client")
Quiet == Waits \/ Sent \/ Last \/ Gone("server")

\* The request is before the server, behind its header, or read; or the answer
\* is about to be sent.
Ahead ==
    /\ \/ pc["server"] = "hdr" /\ total["server"] = 0
       \/ /\ pc["server"] = "send" /\ hdr["server"].version_ = version
          /\ total["server"] = Len(out["server"])
    /\ net["server"] = Request
HeaderHere ==
    /\ pc["server"] = "hdr" /\ total["server"] = HeaderSize
    /\ buf["server"] = HeaderPart(Request) /\ net["server"] = BodyPart(Request)
BodyAhead ==
    /\ pc["server"] = "body" /\ total["server"] = 0
    /\ hdr["server"] = Fields(Request) /\ hdr["server"].version_ = version
    /\ net["server"] = BodyPart(Request)
BodyHere ==
    /\ pc["server"] = "body" /\ total["server"] = Len(BodyPart(Request))
    /\ hdr["server"] = Fields(Request) /\ hdr["server"].version_ = version
    /\ buf["server"] = BodyPart(Request) /\ net["server"] = <<>>
Unread == Ahead \/ HeaderHere \/ BodyAhead \/ BodyHere

\* The answer belongs to the request, and comes back from its bytes.
Fitting ==
    /\ answer = Response(answer.type, answer.values)
    /\ answer \in ResponsesTo(asked.call)
    /\ Returns(Reply, answer.type, answer.values)
Ready ==
    /\ pc["server"] = "send" /\ total["server"] = 0 /\ out["server"] = Reply
    /\ hdr["server"].version_ = version => net["server"] = <<>>
    /\ Fitting
\* The client has asked and not been told, and nothing has come of it so far.
Opened == asked \in AllRequests /\ got = None
Fresh  == heard = None /\ answer = None
Pending == Opened /\ ((Unread /\ Fresh) \/ Ready)

\* The same of the client.
Idle == pc["client"] = "idle" /\ net["client"] = <<>>
Asks == /\ pc["client"] = "send" /\ out["client"] = Request /\ net["client"] = <<>>
        /\ total["client"] = 0 \/ Gone("server")
Listens == \/ pc["client"] = "hdr" /\ total["client"] = 0
           \/ pc["client"] = "send" /\ total["client"] = Len(out["client"])
Expects == Listens /\ net["client"] = <<>>
ReplyAhead == Listens /\ net["client"] = Reply
ReplyHeaderHere ==
    /\ pc["client"] = "hdr" /\ total["client"] = HeaderSize
    /\ buf["client"] = HeaderPart(Reply) /\ net["client"] = BodyPart(Reply)
ReplyBodyAhead ==
    /\ pc["client"] = "body" /\ total["client"] = 0
    /\ hdr["client"] = Fields(Reply) /\ answer.type = asked.expects
    /\ net["client"] = BodyPart(Reply)
ReplyBodyHere ==
    /\ pc["client"] = "body" /\ total["client"] = Len(BodyPart(Reply))
    /\ hdr["client"] = Fields(Reply) /\ answer.type = asked.expects
    /\ buf["client"] = BodyPart(Reply) /\ net["client"] = <<>>
Replied == ReplyAhead \/ ReplyHeaderHere \/ ReplyBodyAhead \/ ReplyBodyHere

\* Where the round is.
Round ==
    \/ Idle /\ Quiet
    \/ Asks /\ Opened /\ Fresh /\ Quiet
    \/ Expects /\ Opened /\ (Pending \/ Last \/ Gone("server"))
    \/ Replied /\ Opened /\ Fitting /\ Quiet
    \/ Gone("client") /\ (Pending \/ Quiet)

HeardRight == heard # None => heard.version = asked.call.version /\ Same(heard, asked.call)
GotRight   == got # None => Same(got, answer)

WInv == cuts = 0 => Round /\ HeardRight /\ GotRight
-----------------------------------------------------------------------------
(***************************************************************************)
(* What the steps do to the two ends.                                      *)
(***************************************************************************)

ClientSame ==
    /\ pc'["client"] = pc["client"] /\ out'["client"] = out["client"]
    /\ total'["client"] = total["client"] /\ buf'["client"] = buf["client"]
    /\ hdr'["client"] = hdr["client"] /\ net'["client"] = net["client"]
ServerSame ==
    /\ pc'["server"] = pc["server"] /\ out'["server"] = out["server"]
    /\ total'["server"] = total["server"] /\ buf'["server"] = buf["server"]
    /\ hdr'["server"] = hdr["server"] /\ net'["server"] = net["server"]

\* A server that has nothing to read is not disturbed by the client's steps.
LEMMA QuietStays ==
    ASSUME Quiet, ServerSame, Gone("client") => Gone("client")'
    PROVE  Quiet'
BY DEF Quiet, Waits, Sent, Last, Gone, ServerSame

\* Nor is one that has a request before it.
LEMMA PendingStays ==
    ASSUME Pending, ServerSame, UNCHANGED callvars
    PROVE  Pending'
<1>1. UNCHANGED <<asked, heard, answer, got>>
  BY DEF callvars
<1>2. Request' = Request /\ Reply' = Reply
  BY <1>1 DEF Request, Reply
<1>3. Opened' /\ (Fresh => Fresh')
  BY <1>1 DEF Pending, Opened, Fresh
<1>4. Fitting => Fitting'
  BY <1>1, <1>2 DEF Fitting
<1>5. Unread => Unread'
  BY <1>2 DEF Unread, Ahead, HeaderHere, BodyAhead, BodyHere, ServerSame
<1>6. Ready => Ready'
  BY <1>2, <1>4 DEF Ready, ServerSame
<1> QED BY <1>3, <1>5, <1>6 DEF Pending

\* The lengths at the two ends.
LEMMA OpenedBytes ==
    ASSUME Opened
    PROVE  /\ Request \in Bytes /\ Len(Request) >= 8 /\ Carries(asked)
           /\ Fields(Request).body_len_ = Len(BodyPart(Request))
           /\ HeaderPart(Request) \in Bytes /\ Len(HeaderPart(Request)) = 8
           /\ BodyPart(Request) \in Bytes
<1>1. asked \in AllRequests
  BY DEF Opened
<1>2. Carries(asked)
  BY <1>1, RequestsCarry
<1>3. Request \in Bytes /\ Len(Request) >= 8 /\ Fields(Request).body_len_ = Len(Request) - 8
  BY <1>2 DEF Carries, Request, Framed, HeaderSize
<1>4. PICK b : b = Request
  OBVIOUS
<1>5. b \in Bytes /\ Len(b) >= 8
  BY <1>3, <1>4
<1>6. /\ HeaderPart(b) \in Bytes /\ Len(HeaderPart(b)) = 8
      /\ BodyPart(b) \in Bytes /\ Len(BodyPart(b)) = Len(b) - 8
  BY <1>5, Parts
<1> QED BY <1>2, <1>3, <1>4, <1>6

\* The bytes of an answer, in its header and its body.
LEMMA FittingBytes ==
    ASSUME Fitting
    PROVE  /\ Reply \in Bytes /\ Len(Reply) >= 8
           /\ Fields(Reply).body_len_ = Len(BodyPart(Reply))
           /\ Fields(Reply).version_ = version /\ Fields(Reply).type_ = answer.type
           /\ HeaderPart(Reply) \in Bytes /\ Len(HeaderPart(Reply)) = 8
           /\ BodyPart(Reply) \in Bytes
           /\ response_deserialize(answer.type, BodyPart(Reply)) = Ok(answer.values)
<1>1. PICK b, t, v : b = Reply /\ t = answer.type /\ v = answer.values
  OBVIOUS
<1>2. Returns(b, t, v)
  BY <1>1 DEF Fitting
<1>3. PICK body : Whole(b, t, body) /\ response_deserialize(t, body) = Ok(v)
  BY <1>2 DEF Returns
<1>4. /\ b \in Bytes /\ Len(b) >= 8 /\ Fields(b).body_len_ = Len(b) - 8
      /\ BodyPart(b) = body /\ Fields(b).version_ = version /\ Fields(b).type_ = t
  BY <1>3 DEF Whole, Framed, HeaderSize
<1>5. b \in Bytes /\ Len(b) >= 8
  BY <1>4
<1>6. /\ HeaderPart(b) \in Bytes /\ Len(HeaderPart(b)) = 8
      /\ BodyPart(b) \in Bytes /\ Len(BodyPart(b)) = Len(b) - 8
  BY <1>5, Parts
<1> QED BY <1>1, <1>3, <1>4, <1>6

\* Stretches from end to end, and what is appended to nothing.
LEMMA WholeSub ==
    ASSUME NEW b \in Bytes
    PROVE  /\ SubSeq(b, 1, Len(b)) = b /\ SubSeq(b, Len(b) + 1, Len(b)) = <<>>
           /\ <<>> \o b = b /\ b \o <<>> = b
           /\ Len(b) = 0 => b = <<>>
<1>1. Holds(b, 0, b) /\ Len(b) \in Nat
  BY HoldsItself, BytesLen
<1>2. SubSeq(b, 0 + 1, 0 + Len(b)) = b
  BY <1>1, HoldsCut
<1>3. 0 + 1 = 1 /\ 0 + Len(b) = Len(b)
  BY <1>1
<1>4. \A c \in Bytes : Len(c) = 0 => c = <<>>
  BY DEF Bytes
<1>5. SubSeq(b, Len(b) + 1, Len(b)) \in Bytes /\ Len(SubSeq(b, Len(b) + 1, Len(b))) = 0
  <2>1. PICK n : n = Len(b)
    OBVIOUS
  <2>2. n + 1 \in Nat \ {0} /\ n \in Nat /\ n <= Len(b) /\ ~(n + 1 <= n)
    BY <1>1, <2>1
  <2>3. SubSeq(b, n + 1, n) \in Bytes
        /\ Len(SubSeq(b, n + 1, n)) = IF n + 1 <= n THEN n - (n + 1) + 1 ELSE 0
    BY <2>2, BytesSub
  <2> QED BY <2>1, <2>2, <2>3
<1>6. <<>> \o b = b /\ b \o <<>> = b
  BY DEF Bytes
<1> QED BY <1>2, <1>3, <1>4, <1>5, <1>6

\* What going on to a new loop changes.
LEMMA EnterEffect ==
    ASSUME Types, NEW e \in Ends, NEW p, Enter(e, p), NEW f \in Ends, f # e
    PROVE  /\ pc'[e] = p /\ total'[e] = 0 /\ buf'[e] = <<>>
           /\ pc'[f] = pc[f] /\ total'[f] = total[f] /\ buf'[f] = buf[f]
BY DEF Types, Shapes, Enter

\* What closing changes.
LEMMA CloseEffect ==
    ASSUME Types, NEW e \in Ends, CloseSocket(e), NEW f \in Ends, f # e
    PROVE  /\ pc'[e] = "closed" /\ net'[e] = <<>>
           /\ pc'[f] = pc[f] /\ total'[f] = total[f] /\ buf'[f] = buf[f]
           /\ out'[f] = out[f] /\ hdr'[f] = hdr[f] /\ net'[f] = net[f]
           /\ UNCHANGED callvars /\ UNCHANGED cuts
<1>1. Enter(e, "closed")
  BY DEF CloseSocket
<1>2. /\ pc'[e] = "closed"
      /\ pc'[f] = pc[f] /\ total'[f] = total[f] /\ buf'[f] = buf[f]
  BY <1>1, EnterEffect
<1> QED BY <1>2 DEF CloseSocket, Types, Shapes

\* A send that moves the whole message, or goes nowhere.
LEMMA SendEffect ==
    ASSUME Types, NEW e \in Ends, Send(e), cuts = 0, cuts' = 0, NEW f \in Ends, f # e
    PROVE  /\ pc[e] = "send" /\ total[e] # Len(out[e])
           /\ UNCHANGED <<pc, out, buf, hdr, callvars>>
           /\ total'[f] = total[f] /\ net'[e] = net[e]
           /\ Gone(f) => net'[f] = net[f]
           /\ ~Gone(f) => /\ total[e] = 0 /\ total'[e] = Len(out[e])
                          /\ net'[f] = net[f] \o out[e]
<1>1. pc[e] = "send" /\ total[e] # Len(out[e]) /\ UNCHANGED <<pc, out, buf, hdr, callvars>>
  <2>1. pc[e] = "send" /\ total[e] # Want(e) /\ UNCHANGED <<pc, out, buf, hdr, callvars>>
    BY DEF Send, InLoop
  <2> QED BY <2>1, WantNat
<1>2. f = Peer(e)
  BY TheEnds
<1>3. PICK n \in {Len(out[e])} \cup {k \in Pieces : k < Len(out[e])} :
         /\ IF (n = Len(out[e]) /\ total[e] = 0) \/ Gone(Peer(e)) THEN UNCHANGED cuts ELSE Cut
         /\ Count(e, n)
         /\ IF Gone(Peer(e))
            THEN reset' = [reset EXCEPT ![e] = TRUE] /\ UNCHANGED net
            ELSE net' = [net EXCEPT ![Peer(e)] = @ \o SubSeq(out[e], 1, n)] /\ UNCHANGED reset
  BY DEF Send
<1>4. total'[f] = total[f]
  BY <1>3 DEF Count, Types, Shapes
<1>5. net'[e] = net[e] /\ (Gone(f) => net'[f] = net[f])
  <2>1. net \in [Ends -> Bytes]
    BY DEF Types, Shapes
  <2> QED BY <1>2, <1>3, <2>1
<1>6. ASSUME ~Gone(f)
      PROVE  total[e] = 0 /\ total'[e] = Len(out[e]) /\ net'[f] = net[f] \o out[e]
  <2>1. ~Cut
    BY DEF Cut
  <2>2. n = Len(out[e]) /\ total[e] = 0
    BY <1>2, <1>3, <1>6, <2>1
  <2>3. out[e] \in Bytes
    BY DEF Types, Shapes
  <2>4. PICK z : z = Len(out[e])
    OBVIOUS
  <2>5. z \in Nat /\ Want(e) = z
    BY <1>1, <2>3, <2>4, BytesLen, WantNat
  <2>6. total' = [total EXCEPT ![e] = Least(0 + z, z + 1)]
    BY <1>3, <2>2, <2>4, <2>5 DEF Count
  <2>7. Least(0 + z, z + 1) = z
    BY <2>5 DEF Least
  <2>8. total'[e] = z
    BY <2>6, <2>7 DEF Types, Shapes
  <2>9. SubSeq(out[e], 1, Len(out[e])) = out[e]
    BY <2>3, WholeSub
  <2>10. net' = [net EXCEPT ![f] = net[f] \o out[e]]
    BY <1>2, <1>3, <1>6, <2>2, <2>9
  <2>11. net'[f] = net[f] \o out[e]
    BY <2>10 DEF Types, Shapes
  <2> QED BY <2>2, <2>4, <2>8, <2>11
<1> QED BY <1>1, <1>4, <1>5, <1>6

\* A recv that takes what there is.
LEMMA RecvEffect ==
    ASSUME Types, NEW e \in Ends, Recv(e), cuts = 0, cuts' = 0, NEW f \in Ends, f # e
    PROVE  /\ pc[e] \in {"hdr", "body"} /\ total[e] # Want(e) /\ net[e] # <<>>
           /\ UNCHANGED <<pc, out, hdr, callvars>>
           /\ total'[f] = total[f] /\ buf'[f] = buf[f] /\ net'[f] = net[f]
           /\ \A m : m = Least(Len(net[e]), Want(e)) =>
                 /\ total'[e] = Least(total[e] + m, Want(e) + 1)
                 /\ buf'[e] = SubSeq(net[e], 1, m) \o SubSeq(buf[e], m + 1, Len(buf[e]))
                 /\ net'[e] = SubSeq(net[e], m + 1, Len(net[e]))
<1>1. /\ pc[e] \in {"hdr", "body"} /\ total[e] # Want(e) /\ net[e] # <<>>
      /\ UNCHANGED <<pc, out, hdr, callvars>>
  BY DEF Recv, InLoop
<1>2. PICK m : m = Least(Len(net[e]), Want(e))
  OBVIOUS
<1>3. /\ Count(e, m)
      /\ buf' = [buf EXCEPT ![e] = SubSeq(net[e], 1, m) \o SubSeq(@, m + 1, Len(@))]
      /\ net' = [net EXCEPT ![e] = SubSeq(@, m + 1, Len(@))]
  <2>1. ~Cut
    BY DEF Cut
  <2> QED BY <1>2, <2>1 DEF Recv
<1>4. total' = [total EXCEPT ![e] = Least(total[e] + m, Want(e) + 1)]
  BY <1>3 DEF Count
<1>5. /\ total'[f] = total[f] /\ buf'[f] = buf[f] /\ net'[f] = net[f]
      /\ total'[e] = Least(total[e] + m, Want(e) + 1)
      /\ buf'[e] = SubSeq(net[e], 1, m) \o SubSeq(buf[e], m + 1, Len(buf[e]))
      /\ net'[e] = SubSeq(net[e], m + 1, Len(net[e]))
  BY <1>3, <1>4 DEF Types, Shapes
<1> QED BY <1>1, <1>2, <1>5

\* A loop that has counted nothing has read nothing.
LEMMA NothingYet ==
    ASSUME Types, NEW e \in Ends, total[e] = 0
    PROVE  buf[e] = <<>>
<1>1. buf[e] \in Bytes
  BY DEF Types, Shapes
<1>2. Len(buf[e]) \in Nat
  BY <1>1, BytesLen
<1>3. buf[e] = <<>> \/ Len(buf[e]) <= 0
  BY DEF Types, LoopOK
<1>4. buf[e] = <<>> \/ Len(buf[e]) = 0
  BY <1>2, <1>3
<1> QED BY <1>1, <1>4, WholeSub

\* The first turn of a loop.
LEMMA FirstTurn ==
    ASSUME Types, NEW e \in Ends, Recv(e), cuts = 0, cuts' = 0, total[e] = 0,
           NEW m \in Nat, m = Least(Len(net[e]), Want(e))
    PROVE  /\ total'[e] = m /\ buf'[e] = SubSeq(net[e], 1, m)
           /\ net'[e] = SubSeq(net[e], m + 1, Len(net[e]))
<1>1. PICK f \in Ends : f # e
  BY TheEnds
<1>2. /\ pc[e] \in {"hdr", "body"}
      /\ total'[e] = Least(total[e] + m, Want(e) + 1)
      /\ buf'[e] = SubSeq(net[e], 1, m) \o SubSeq(buf[e], m + 1, Len(buf[e]))
      /\ net'[e] = SubSeq(net[e], m + 1, Len(net[e]))
  BY <1>1, RecvEffect
<1>3. net[e] \in Bytes /\ Len(net[e]) \in Nat
  <2>1. net[e] \in Bytes
    BY DEF Types, Shapes
  <2> QED BY <2>1, BytesLen
<1>4. Want(e) \in Nat
  BY <1>2, WantNat
<1>5. m <= Len(net[e]) /\ m <= Want(e)
  BY <1>3, <1>4, LeastNat2
<1>6. total'[e] = m
  BY <1>2, <1>4, <1>5 DEF Least
<1>7. SubSeq(<<>>, m + 1, Len(<<>>)) = <<>>
  <2>1. PICK b : b = <<>>
    OBVIOUS
  <2>2. b \in Bytes /\ Len(b) = 0
    BY <2>1, EmptyBytes
  <2>3. m + 1 \in Nat \ {0} /\ 0 \in Nat /\ 0 <= Len(b) /\ ~(m + 1 <= 0)
    BY <2>2
  <2>4. SubSeq(b, m + 1, 0) \in Bytes
        /\ Len(SubSeq(b, m + 1, 0)) = IF m + 1 <= 0 THEN 0 - (m + 1) + 1 ELSE 0
    BY <2>2, <2>3, BytesSub
  <2>5. SubSeq(b, m + 1, 0) = <<>>
    BY <2>3, <2>4, WholeSub
  <2> QED BY <2>1, <2>2, <2>5
<1>8. buf[e] = <<>>
  BY NothingYet
<1>9. SubSeq(net[e], 1, m) \in Bytes
  <2>1. 1 \in Nat \ {0}
    OBVIOUS
  <2> QED BY <1>3, <1>5, <2>1, BytesSub
<1>10. buf'[e] = SubSeq(net[e], 1, m)
  BY <1>2, <1>7, <1>8, <1>9, WholeSub
<1> QED BY <1>2, <1>6, <1>10

\* recv_hdr takes the header of what there is,
LEMMA RecvHeader ==
    ASSUME Types, NEW e \in Ends, Recv(e), cuts = 0, cuts' = 0, total[e] = 0, pc[e] = "hdr",
           NEW x \in Bytes, Len(x) >= 8, net[e] = x
    PROVE  total'[e] = 8 /\ buf'[e] = HeaderPart(x) /\ net'[e] = BodyPart(x)
<1>1. Want(e) = 8
  BY WantNat
<1>2. Len(x) \in Nat
  BY BytesLen
<1>3. 8 \in Nat /\ 8 = Least(Len(net[e]), Want(e))
  BY <1>1, <1>2 DEF Least
<1>4. total'[e] = 8 /\ buf'[e] = SubSeq(net[e], 1, 8) /\ net'[e] = SubSeq(net[e], 8 + 1, Len(net[e]))
  BY <1>3, FirstTurn
<1> QED BY <1>4 DEF HeaderPart, BodyPart, HeaderSize

\* and recv_body the rest.
LEMMA RecvBody ==
    ASSUME Types, NEW e \in Ends, Recv(e), cuts = 0, cuts' = 0, total[e] = 0, pc[e] = "body",
           NEW x \in Bytes, hdr[e].body_len_ = Len(x), net[e] = x
    PROVE  total'[e] = Len(x) /\ buf'[e] = x /\ net'[e] = <<>>
<1>1. Want(e) = Len(x)
  BY WantNat
<1>2. PICK m : m = Len(x)
  OBVIOUS
<1>3. m \in Nat /\ m = Least(Len(net[e]), Want(e))
  BY <1>1, <1>2, BytesLen DEF Least
<1>4. total'[e] = m /\ buf'[e] = SubSeq(net[e], 1, m) /\ net'[e] = SubSeq(net[e], m + 1, Len(net[e]))
  BY <1>3, FirstTurn
<1> QED BY <1>2, <1>4, WholeSub

\* What is read is what is in the buffer, when all of it is there.
LEMMA DataHere ==
    ASSUME Types, NEW e \in Ends, pc[e] \in {"hdr", "body"}, NEW x \in Bytes, buf[e] = x,
           Len(x) = Want(e)
    PROVE  Data(e) = x
<1>1. PICK d : d = Data(e)
  OBVIOUS
<1>2. d \in Bytes /\ Len(d) = Len(x)
  BY <1>1, DataType
<1>3. Len(x) \in Nat
  BY BytesLen
<1>4. \A k \in 1..Len(x) : d[k] = x[k]
  BY <1>1, <1>3 DEF Data
<1>5. d = x
  BY <1>2, <1>4, BytesEqual
<1> QED BY <1>1, <1>5

\* What recv_hdr has read is the header,
LEMMA HeaderRead ==
    ASSUME Types, NEW e \in Ends, pc[e] = "hdr", NEW x \in Bytes, Len(x) >= 8, buf[e] = HeaderPart(x)
    PROVE  message_header_deserialize(Data(e)).values = Fields(x)
<1>1. PICK h : h = HeaderPart(x)
  OBVIOUS
<1>2. h \in Bytes /\ Len(h) = 8 /\ message_header_deserialize(h) = Ok(Fields(x))
  BY <1>1, Parts
<1>3. Want(e) = 8
  BY WantNat
<1>4. Data(e) = h
  BY <1>1, <1>2, <1>3, DataHere
<1> QED BY <1>2, <1>4 DEF Ok

\* and what recv_body has read is the body.
LEMMA BodyRead ==
    ASSUME Types, NEW e \in Ends, pc[e] = "body", NEW x \in Bytes, hdr[e].body_len_ = Len(x),
           buf[e] = x
    PROVE  Data(e) = x
BY WantNat, DataHere

\* The state before a step, and the counter of pieces after it.
Before == Types /\ cuts = 0 /\ Round /\ cuts' = 0

-----------------------------------------------------------------------------
(***************************************************************************)
(* Where a round can be, seen from each end.                               *)
(***************************************************************************)

\* What an end may conclude about the other.
LEMMA RoundSides ==
    ASSUME Round
    PROVE  /\ Pending \/ Quiet
           /\ Quiet \/ (Pending /\ ((Expects /\ Opened) \/ Gone("client")))
           /\ ~Gone("client") =>
                \/ Idle /\ Quiet
                \/ Asks /\ Opened /\ Fresh /\ Quiet
                \/ Expects /\ Opened /\ (Pending \/ Last \/ Gone("server"))
                \/ Replied /\ Opened /\ Fitting /\ Quiet
BY DEF Round, Quiet

\* The round when the client is between calls,
LEMMA RoundIdle ==
    ASSUME Round, pc["client"] = "idle"
    PROVE  Idle /\ Quiet
BY DEF Round, Idle, Asks, Expects, Replied, Listens, ReplyAhead, ReplyHeaderHere, ReplyBodyAhead,
       ReplyBodyHere, Gone

\* in send_msg,
LEMMA RoundSend ==
    ASSUME Round, pc["client"] = "send"
    PROVE  \/ Asks /\ Opened /\ Fresh /\ Quiet
           \/ /\ total["client"] = Len(out["client"])
              /\ \/ Expects /\ Opened /\ (Pending \/ Last \/ Gone("server"))
                 \/ ReplyAhead /\ Opened /\ Fitting /\ Quiet
BY DEF Round, Idle, Asks, Expects, Replied, Listens, ReplyAhead, ReplyHeaderHere, ReplyBodyAhead,
       ReplyBodyHere, Gone

\* in recv_hdr,
LEMMA RoundHeader ==
    ASSUME Round, pc["client"] = "hdr"
    PROVE  \/ total["client"] = 0 /\ Expects /\ Opened /\ (Pending \/ Last \/ Gone("server"))
           \/ /\ Opened /\ Fitting /\ Quiet
              /\ (total["client"] = 0 /\ ReplyAhead) \/ ReplyHeaderHere
BY DEF Round, Idle, Asks, Expects, Replied, Listens, ReplyAhead, ReplyHeaderHere, ReplyBodyAhead,
       ReplyBodyHere, Gone

\* and in recv_body.
LEMMA RoundBody ==
    ASSUME Round, pc["client"] = "body"
    PROVE  Opened /\ Fitting /\ Quiet /\ (ReplyBodyAhead \/ ReplyBodyHere)
BY DEF Round, Idle, Asks, Expects, Replied, Listens, ReplyAhead, ReplyHeaderHere, ReplyBodyAhead,
       ReplyBodyHere, Gone

\* When the server's recv_body is through, the body is there: an empty one at once.
LEMMA BodyIsHere ==
    ASSUME Types, Opened, BodyAhead \/ BodyHere, Through("server", "body")
    PROVE  BodyHere /\ Data("server") = BodyPart(Request)
<1>1. BodyPart(Request) \in Bytes /\ Fields(Request).body_len_ = Len(BodyPart(Request))
  BY OpenedBytes
<1>2. /\ pc["server"] = "body" /\ hdr["server"] = Fields(Request)
      /\ total["server"] = hdr["server"].body_len_
  BY TheEnds, WantNat DEF BodyAhead, BodyHere, Through
<1>3. BodyHere
  <2>1. CASE BodyAhead
    <3>1. Len(BodyPart(Request)) = 0 /\ total["server"] = 0
      BY <1>1, <1>2, <2>1 DEF BodyAhead
    <3>2. BodyPart(Request) = <<>>
      BY <1>1, <3>1, WholeSub
    <3>3. buf["server"] = <<>>
      BY <3>1, TheEnds, NothingYet
    <3> QED BY <2>1, <3>1, <3>2, <3>3 DEF BodyAhead, BodyHere
  <2> QED BY <2>1
<1>4. Data("server") = BodyPart(Request)
  BY <1>1, <1>2, <1>3, TheEnds, BodyRead DEF BodyHere
<1> QED BY <1>3, <1>4

\* The same of the client.
LEMMA ReplyIsHere ==
    ASSUME Types, Fitting, ReplyBodyAhead \/ ReplyBodyHere, Through("client", "body")
    PROVE  ReplyBodyHere /\ Data("client") = BodyPart(Reply)
<1>1. BodyPart(Reply) \in Bytes /\ Fields(Reply).body_len_ = Len(BodyPart(Reply))
  BY FittingBytes
<1>2. /\ pc["client"] = "body" /\ hdr["client"] = Fields(Reply)
      /\ total["client"] = hdr["client"].body_len_
  BY TheEnds, WantNat DEF ReplyBodyAhead, ReplyBodyHere, Through
<1>3. ReplyBodyHere
  <2>1. CASE ReplyBodyAhead
    <3>1. Len(BodyPart(Reply)) = 0 /\ total["client"] = 0
      BY <1>1, <1>2, <2>1 DEF ReplyBodyAhead
    <3>2. BodyPart(Reply) = <<>>
      BY <1>1, <3>1, WholeSub
    <3>3. buf["client"] = <<>>
      BY <3>1, TheEnds, NothingYet
    <3> QED BY <2>1, <3>1, <3>2, <3>3 DEF ReplyBodyAhead, ReplyBodyHere
  <2> QED BY <2>1
<1>4. Data("client") = BodyPart(Reply)
  BY <1>1, <1>2, <1>3, TheEnds, BodyRead DEF ReplyBodyHere
<1> QED BY <1>3, <1>4

-----------------------------------------------------------------------------
(***************************************************************************)
(* The steps of the client.                                                *)
(***************************************************************************)

\* The client may leave at any time.
LEMMA CloseClientRound ==
    ASSUME Before, CloseSocket("client")
    PROVE  Round'
<1>1. Types /\ "client" \in Ends /\ "server" \in Ends /\ "server" # "client"
  BY TheEnds DEF Before
<1>2. pc'["client"] = "closed" /\ ServerSame /\ UNCHANGED callvars
  BY <1>1, CloseEffect DEF ServerSame
<1>3. Gone("client")'
  BY <1>2 DEF Gone
<1>4. Pending \/ Quiet
  BY RoundSides DEF Before
<1>5. Pending' \/ Quiet'
  BY <1>2, <1>3, <1>4, PendingStays, QuietStays
<1> QED BY <1>3, <1>5 DEF Round

\* A call starts a round with a server that has nothing to read.
LEMMA CallRound ==
    ASSUME Before, Call
    PROVE  Round'
<1>1. Types /\ Round /\ "client" \in Ends /\ "server" \in Ends /\ "server" # "client"
  BY TheEnds DEF Before
<1>2. PICK r \in AllRequests : asked' = r /\ StartSending("client", r.bytes)
  BY DEF Call
<1>3. /\ pc["client"] = "idle" /\ heard' = None /\ answer' = None /\ got' = None
      /\ UNCHANGED <<hdr, net, reset, cuts>>
  BY DEF Call
<1>4. Enter("client", "send") /\ out' = [out EXCEPT !["client"] = r.bytes]
  BY <1>2 DEF StartSending
<1>5. /\ pc'["client"] = "send" /\ total'["client"] = 0
      /\ pc'["server"] = pc["server"] /\ total'["server"] = total["server"]
      /\ buf'["server"] = buf["server"]
  BY <1>1, <1>4, EnterEffect
<1>6. out'["client"] = r.bytes /\ out'["server"] = out["server"]
  BY <1>1, <1>4 DEF Types, Shapes
<1>7. ServerSame
  BY <1>3, <1>5, <1>6 DEF ServerSame
<1>8. Idle /\ Quiet
  BY <1>1, <1>3, RoundIdle
<1>9. Quiet'
  BY <1>3, <1>7, <1>8, QuietStays DEF Gone
<1>10. Opened' /\ Fresh'
  BY <1>2, <1>3 DEF Opened, Fresh
<1>11. Asks'
  BY <1>2, <1>3, <1>5, <1>6, <1>8 DEF Asks, Idle, Request
<1> QED BY <1>9, <1>10, <1>11 DEF Round

\* send_msg puts the request before the server, or nowhere when the server is gone.
LEMMA SendClientRound ==
    ASSUME Before, Send("client")
    PROVE  Round'
<1>1. Types /\ Round /\ cuts = 0 /\ cuts' = 0
      /\ "client" \in Ends /\ "server" \in Ends /\ "server" # "client"
  BY TheEnds DEF Before
<1>2. /\ pc["client"] = "send" /\ total["client"] # Len(out["client"])
      /\ UNCHANGED <<pc, out, buf, hdr, callvars>>
      /\ total'["server"] = total["server"] /\ net'["client"] = net["client"]
      /\ Gone("server") => net'["server"] = net["server"]
      /\ ~Gone("server") => /\ total["client"] = 0 /\ total'["client"] = Len(out["client"])
                            /\ net'["server"] = net["server"] \o out["client"]
  BY <1>1, SendEffect
<1>3. Asks /\ Opened /\ Fresh /\ Quiet
  BY <1>1, <1>2, RoundSend
<1>4. UNCHANGED <<asked, heard, answer, got>>
  BY <1>2 DEF callvars
<1>5. Opened' /\ Fresh' /\ Request' = Request /\ (Gone("server")' <=> Gone("server"))
  BY <1>2, <1>3, <1>4 DEF Opened, Fresh, Request, Gone
<1>6. CASE Gone("server")
  <2>1. Quiet'
    BY <1>5, <1>6 DEF Quiet
  <2>2. Asks'
    BY <1>2, <1>3, <1>5, <1>6 DEF Asks
  <2> QED BY <1>5, <2>1, <2>2 DEF Round
<1>7. CASE ~Gone("server")
  <2>1. out["client"] = Request /\ Len(out'["client"]) = Len(out["client"])
    BY <1>2, <1>3 DEF Asks
  <2>2. Expects'
    BY <1>2, <1>3, <1>7 DEF Asks, Expects, Listens
  <2>3. ~Gone("client")
    BY <1>2 DEF Gone
  <2>4. CASE net["server"] = <<>>
    <3>1. net'["server"] = Request'
      <4>1. Request \in Bytes
        BY <1>3, OpenedBytes
      <4>2. <<>> \o Request = Request
        BY <4>1, WholeSub
      <4> QED BY <1>2, <1>5, <1>7, <2>1, <2>4, <4>2
    <3>2. CASE Waits \/ Sent
      <4>1. Ahead'
        BY <1>2, <2>3, <3>1, <3>2 DEF Waits, Sent, Ahead
      <4>2. Pending'
        BY <1>5, <4>1 DEF Pending, Unread
      <4> QED BY <1>5, <2>2, <4>2 DEF Round
    <3>3. CASE Last
      <4>1. Last'
        BY <1>2, <3>3 DEF Last, Gone
      <4> QED BY <1>5, <2>2, <4>1 DEF Round
    <3> QED BY <1>3, <1>7, <3>2, <3>3 DEF Quiet
  <2>5. CASE net["server"] # <<>>
    <3>1. Last
      BY <1>3, <1>7, <2>5 DEF Quiet, Waits, Sent
    <3>2. Last'
      BY <1>2, <3>1 DEF Last, Gone
    <3> QED BY <1>5, <2>2, <3>2 DEF Round
  <2> QED BY <2>4, <2>5
<1> QED BY <1>6, <1>7

\* The client receives nothing but the answer to its request.
LEMMA RecvClientRound ==
    ASSUME Before, Recv("client")
    PROVE  Round'
<1>1. Types /\ Round /\ cuts = 0 /\ cuts' = 0
      /\ "client" \in Ends /\ "server" \in Ends /\ "server" # "client"
  BY TheEnds DEF Before
<1>2. /\ pc["client"] \in {"hdr", "body"} /\ total["client"] # Want("client")
      /\ net["client"] # <<>> /\ UNCHANGED <<pc, out, hdr, callvars>>
      /\ total'["server"] = total["server"] /\ buf'["server"] = buf["server"]
      /\ net'["server"] = net["server"]
  BY <1>1, RecvEffect
<1>3. ServerSame /\ (Gone("client") => Gone("client")')
  BY <1>2 DEF ServerSame, Gone
<1>4. UNCHANGED <<asked, heard, answer, got>>
  BY <1>2 DEF callvars
<1>5. Reply' = Reply /\ (Opened => Opened') /\ (Fitting => Fitting')
  BY <1>4 DEF Reply, Opened, Fitting
<1>6. CASE pc["client"] = "hdr"
  <2>1. Want("client") = 8
    BY <1>1, <1>6, WantNat
  <2>2. total["client"] = 0 /\ ReplyAhead /\ Opened /\ Fitting /\ Quiet
    BY <1>1, <1>2, <1>6, <2>1, RoundHeader DEF Expects, ReplyHeaderHere, HeaderSize
  <2>3. PICK x : x = Reply
    OBVIOUS
  <2>4. x \in Bytes /\ Len(x) >= 8
    BY <2>2, <2>3, FittingBytes
  <2>5. net["client"] = x
    BY <2>2, <2>3 DEF ReplyAhead
  <2>6. total'["client"] = 8 /\ buf'["client"] = HeaderPart(x) /\ net'["client"] = BodyPart(x)
    BY <1>1, <1>6, <2>2, <2>4, <2>5, RecvHeader
  <2>7. ReplyHeaderHere'
    BY <1>2, <1>5, <1>6, <2>3, <2>6 DEF ReplyHeaderHere, HeaderSize
  <2>8. Quiet'
    BY <1>3, <2>2, QuietStays
  <2> QED BY <1>5, <2>2, <2>7, <2>8 DEF Round, Replied
<1>7. CASE pc["client"] = "body"
  <2>1. Opened /\ Fitting /\ Quiet /\ ReplyBodyAhead
    BY <1>1, <1>2, <1>7, RoundBody DEF ReplyBodyHere
  <2>2. PICK x : x = BodyPart(Reply)
    OBVIOUS
  <2>3. x \in Bytes /\ Fields(Reply).body_len_ = Len(x)
    BY <2>1, <2>2, FittingBytes
  <2>4. net["client"] = x /\ hdr["client"].body_len_ = Len(x) /\ total["client"] = 0
    BY <2>1, <2>2, <2>3 DEF ReplyBodyAhead
  <2>5. total'["client"] = Len(x) /\ buf'["client"] = x /\ net'["client"] = <<>>
    BY <1>1, <1>7, <2>3, <2>4, RecvBody
  <2>6. ReplyBodyHere'
    BY <1>2, <1>4, <1>5, <1>7, <2>1, <2>2, <2>5 DEF ReplyBodyHere, ReplyBodyAhead
  <2>7. Quiet'
    BY <1>3, <2>1, QuietStays
  <2> QED BY <1>5, <2>1, <2>6, <2>7 DEF Round, Replied
<1> QED BY <1>2, <1>6, <1>7

\* After send_msg the client waits for the answer, which may already be there.
LEMMA RequestSentRound ==
    ASSUME Before, RequestSent
    PROVE  Round'
<1>1. Types /\ Round /\ "client" \in Ends /\ "server" \in Ends /\ "server" # "client"
  BY TheEnds DEF Before
<1>2. /\ Through("client", "send") /\ Enter("client", "hdr")
      /\ out' = [out EXCEPT !["client"] = <<>>]
      /\ UNCHANGED <<hdr, net, reset, callvars, cuts>>
  BY DEF RequestSent
<1>3. /\ pc'["client"] = "hdr" /\ total'["client"] = 0
      /\ pc'["server"] = pc["server"] /\ total'["server"] = total["server"]
      /\ buf'["server"] = buf["server"]
  BY <1>1, <1>2, EnterEffect
<1>4. out'["server"] = out["server"]
  BY <1>1, <1>2 DEF Types, Shapes
<1>5. ServerSame
  BY <1>2, <1>3, <1>4 DEF ServerSame
<1>6. pc["client"] = "send" /\ total["client"] = Len(out["client"])
  BY <1>1, <1>2, WantNat DEF Through
<1>7. ~Gone("client") /\ (Gone("client") => Gone("client")')
  BY <1>6 DEF Gone
<1>8. UNCHANGED <<asked, heard, answer, got>>
  BY <1>2 DEF callvars
<1>9. Reply' = Reply /\ (Opened => Opened') /\ (Fitting => Fitting') /\ (Fresh => Fresh')
  BY <1>8 DEF Reply, Opened, Fitting, Fresh
<1>10. Listens'
  BY <1>3 DEF Listens
<1>11. CASE Asks /\ Opened /\ Fresh /\ Quiet
  <2>1. Gone("server")
    <3>1. Len(Request) >= 8
      BY <1>11, OpenedBytes
    <3>2. Len(Request) # 0
      BY <3>1
    <3> QED BY <1>6, <1>11, <3>2 DEF Asks
  <2>2. Gone("server")' /\ net'["client"] = <<>>
    BY <1>2, <1>5, <1>11, <2>1 DEF Gone, ServerSame, Asks
  <2> QED BY <1>9, <1>10, <1>11, <2>2 DEF Round, Expects
<1>12. CASE Expects /\ Opened /\ (Pending \/ Last \/ Gone("server"))
  <2>1. Expects'
    BY <1>2, <1>10, <1>12 DEF Expects
  <2>2. Pending' \/ Last' \/ Gone("server")'
    <3>1. Pending => Pending'
      BY <1>2, <1>5, PendingStays
    <3>2. Last => Last'
      BY <1>5, <1>7 DEF Last, ServerSame
    <3>3. Gone("server") => Gone("server")'
      BY <1>5 DEF Gone, ServerSame
    <3> QED BY <1>12, <3>1, <3>2, <3>3
  <2> QED BY <1>9, <1>12, <2>1, <2>2 DEF Round
<1>13. CASE ReplyAhead /\ Opened /\ Fitting /\ Quiet
  <2>1. ReplyAhead'
    BY <1>2, <1>9, <1>10, <1>13 DEF ReplyAhead
  <2>2. Quiet'
    BY <1>5, <1>7, <1>13, QuietStays
  <2> QED BY <1>9, <1>13, <2>1, <2>2 DEF Round, Replied
<1> QED BY <1>1, <1>6, <1>11, <1>12, <1>13, RoundSend

\* The header of the answer is the one validate_hdr expects, or the client closes.
LEMMA ResponseHeaderRound ==
    ASSUME Before, ResponseHeader
    PROVE  Round'
<1>1. Types /\ Round /\ "client" \in Ends /\ "server" \in Ends /\ "server" # "client"
  BY TheEnds DEF Before
<1>2. CASE CloseSocket("client")
  BY <1>2, CloseClientRound
<1>3. ASSUME NEW h, h = message_header_deserialize(Data("client")).values, validate_hdr(h),
             Enter("client", "body"), hdr' = [hdr EXCEPT !["client"] = h],
             UNCHANGED <<out, net, reset, callvars, cuts>>
      PROVE  Round'
  <2>1. pc["client"] = "hdr" /\ total["client"] = 8
    BY <1>1, WantNat DEF ResponseHeader, Through
  <2>2. Opened /\ Fitting /\ Quiet /\ ReplyHeaderHere
    <3>1. total["client"] # 0
      BY <2>1
    <3> QED BY <1>1, <2>1, <3>1, RoundHeader
  <2>3. PICK x : x = Reply
    OBVIOUS
  <2>4. x \in Bytes /\ Len(x) >= 8 /\ Fields(x).type_ = answer.type
    BY <2>2, <2>3, FittingBytes
  <2>5. buf["client"] = HeaderPart(x)
    BY <2>2, <2>3 DEF ReplyHeaderHere
  <2>6. h = Fields(x)
    BY <1>1, <1>3, <2>1, <2>4, <2>5, HeaderRead
  <2>7. answer.type = asked.expects
    BY <1>3, <2>4, <2>6 DEF validate_hdr
  <2>8. /\ pc'["client"] = "body" /\ total'["client"] = 0
        /\ pc'["server"] = pc["server"] /\ total'["server"] = total["server"]
        /\ buf'["server"] = buf["server"]
    BY <1>1, <1>3, EnterEffect
  <2>9. hdr'["client"] = h /\ hdr'["server"] = hdr["server"]
    BY <1>1, <1>3 DEF Types, Shapes
  <2>10. ServerSame
    BY <1>3, <2>8, <2>9 DEF ServerSame
  <2>11. UNCHANGED <<asked, heard, answer, got>>
    BY <1>3 DEF callvars
  <2>12. Reply' = Reply /\ Opened' /\ Fitting'
    BY <2>2, <2>11 DEF Reply, Opened, Fitting
  <2>13. ReplyBodyAhead'
    BY <1>3, <2>2, <2>3, <2>6, <2>7, <2>8, <2>9, <2>11, <2>12 DEF ReplyBodyAhead, ReplyHeaderHere
  <2>14. Quiet'
    BY <2>1, <2>2, <2>10, QuietStays DEF Gone
  <2> QED BY <2>12, <2>13, <2>14 DEF Round, Replied
<1> QED BY <1>2, <1>3 DEF ResponseHeader

\* The call returns what the server answered, and the next may start.
LEMMA ResponseBodyRound ==
    ASSUME Before, ResponseBody
    PROVE  Round' /\ got' = answer /\ UNCHANGED <<asked, heard, answer>> /\ pc'["client"] = "idle"
<1>1. Types /\ Round /\ "client" \in Ends /\ "server" \in Ends /\ "server" # "client"
  BY TheEnds DEF Before
<1>2. pc["client"] = "body" /\ Through("client", "body")
  BY DEF ResponseBody, Through
<1>3. Opened /\ Fitting /\ Quiet /\ (ReplyBodyAhead \/ ReplyBodyHere)
  BY <1>1, <1>2, RoundBody
<1>4. ReplyBodyHere /\ Data("client") = BodyPart(Reply)
  BY <1>1, <1>2, <1>3, ReplyIsHere
<1>5. PICK d : d = response_deserialize(asked.expects, Data("client"))
  OBVIOUS
<1>6. d = Ok(answer.values)
  <2>1. response_deserialize(answer.type, BodyPart(Reply)) = Ok(answer.values)
    BY <1>3, FittingBytes
  <2>2. answer.type = asked.expects
    BY <1>4 DEF ReplyBodyHere
  <2> QED BY <1>4, <1>5, <2>1, <2>2
<1>7. d.status = "ok" /\ d.values = answer.values
  BY <1>6 DEF Ok
<1>8. /\ Enter("client", "idle") /\ hdr' = [hdr EXCEPT !["client"] = None]
      /\ got' = Response(asked.expects, d.values)
      /\ UNCHANGED <<out, net, reset, asked, heard, answer, cuts>>
  BY <1>5, <1>7 DEF ResponseBody
<1>9. /\ pc'["client"] = "idle"
      /\ pc'["server"] = pc["server"] /\ total'["server"] = total["server"]
      /\ buf'["server"] = buf["server"]
  BY <1>1, <1>8, EnterEffect
<1>10. hdr'["server"] = hdr["server"]
  BY <1>1, <1>8 DEF Types, Shapes
<1>11. ServerSame
  BY <1>8, <1>9, <1>10 DEF ServerSame
<1>12. Quiet'
  BY <1>2, <1>3, <1>11, QuietStays DEF Gone
<1>13. Idle'
  BY <1>4, <1>8, <1>9 DEF Idle, ReplyBodyHere
<1>14. got' = answer
  <2>1. answer = Response(answer.type, answer.values) /\ asked.expects = answer.type
    BY <1>3, <1>4 DEF Fitting, ReplyBodyHere
  <2> QED BY <1>7, <1>8, <2>1
<1> QED BY <1>8, <1>9, <1>12, <1>13, <1>14 DEF Round

(***************************************************************************)
(* The steps of the server.                                                *)
(***************************************************************************)

\* The server may go at any time.
LEMMA CloseServerRound ==
    ASSUME Before, CloseSocket("server")
    PROVE  Round'
<1>1. Types /\ Round /\ "client" \in Ends /\ "server" \in Ends /\ "server" # "client"
  BY TheEnds DEF Before
<1>2. pc'["server"] = "closed" /\ ClientSame /\ UNCHANGED callvars
  BY <1>1, CloseEffect DEF ClientSame
<1>3. UNCHANGED <<asked, heard, answer, got>>
  BY <1>2 DEF callvars
<1>4. Gone("server")' /\ Quiet'
  BY <1>2 DEF Gone, Quiet
<1>5. Request' = Request /\ Reply' = Reply
      /\ (Opened => Opened') /\ (Fitting => Fitting') /\ (Fresh => Fresh')
  BY <1>3 DEF Request, Reply, Opened, Fitting, Fresh
<1>6. Gone("client") => Gone("client")'
  BY <1>2 DEF Gone, ClientSame
<1>7. Idle => Idle'
  BY <1>2 DEF Idle, ClientSame
<1>8. Asks => Asks'
  BY <1>2, <1>4, <1>5 DEF Asks, ClientSame
<1>9. Expects => Expects'
  BY <1>2 DEF Expects, Listens, ClientSame
<1>10. Replied => Replied'
  BY <1>2, <1>3, <1>5 DEF Replied, ReplyAhead, Listens, ReplyHeaderHere, ReplyBodyAhead, ReplyBodyHere,
     ClientSame
<1> QED BY <1>1, <1>4, <1>5, <1>6, <1>7, <1>8, <1>9, <1>10 DEF Round

\* A step of the server with a request before it.
LEMMA ServerStepRound ==
    ASSUME Round, ~Quiet, ClientSame, UNCHANGED <<asked, got>>, Pending'
    PROVE  Round'
<1>1. (Expects /\ Opened) \/ Gone("client")
  BY RoundSides
<1>2. Expects => Expects'
  BY DEF Expects, Listens, ClientSame
<1>3. Opened => Opened'
  BY DEF Opened
<1>4. Gone("client") => Gone("client")'
  BY DEF Gone, ClientSame
<1> QED BY <1>1, <1>2, <1>3, <1>4 DEF Round

\* The server sends its answer to a client that expects it.
LEMMA SendServerRound ==
    ASSUME Before, Send("server")
    PROVE  Round'
<1>1. Types /\ Round /\ cuts = 0 /\ cuts' = 0
      /\ "client" \in Ends /\ "server" \in Ends /\ "server" # "client"
  BY TheEnds DEF Before
<1>2. /\ pc["server"] = "send" /\ total["server"] # Len(out["server"])
      /\ UNCHANGED <<pc, out, buf, hdr, callvars>>
      /\ total'["client"] = total["client"] /\ net'["server"] = net["server"]
      /\ Gone("client") => net'["client"] = net["client"]
      /\ ~Gone("client") => /\ total["server"] = 0 /\ total'["server"] = Len(out["server"])
                            /\ net'["client"] = net["client"] \o out["server"]
  BY <1>1, SendEffect
<1>3. UNCHANGED <<asked, heard, answer, got>> /\ (Gone("client")' <=> Gone("client"))
  BY <1>2 DEF callvars, Gone
<1>4. Pending => Ready
  BY <1>2 DEF Pending, Unread, Ahead, HeaderHere, BodyAhead, BodyHere
<1>5. CASE Gone("client")
  <2>1. Ready \/ Sent \/ Last
    BY <1>1, <1>2, <1>4, RoundSides DEF Quiet, Waits, Gone
  <2>2. hdr["server"].version_ = version => net["server"] = <<>>
    BY <2>1 DEF Ready, Sent, Last
  <2>3. Sent' \/ Last'
    BY <1>2, <1>3, <1>5, <2>2 DEF Sent, Last
  <2> QED BY <1>3, <1>5, <2>3 DEF Round, Quiet
<1>6. CASE ~Gone("client")
  <2>1. ~Quiet
    BY <1>2, <1>6 DEF Quiet, Waits, Sent, Last, Gone
  <2>2. Ready /\ Expects /\ Opened
    BY <1>1, <1>4, <1>6, <2>1, RoundSides
  <2>3. Reply' = Reply /\ Opened' /\ Fitting'
    BY <1>3, <2>2 DEF Reply, Opened, Fitting, Ready
  <2>4. Reply \in Bytes
    BY <2>2, FittingBytes DEF Ready
  <2>5. net'["client"] = Reply
    <3>1. <<>> \o Reply = Reply
      BY <2>4, WholeSub
    <3> QED BY <1>2, <1>6, <2>2, <3>1 DEF Expects, Ready
  <2>6. ReplyAhead'
    BY <1>2, <2>2, <2>3, <2>5 DEF ReplyAhead, Listens, Expects
  <2>7. Sent' \/ Last'
    BY <1>2, <1>6, <2>2 DEF Sent, Last, Ready
  <2> QED BY <2>3, <2>6, <2>7 DEF Round, Replied, Quiet
<1> QED BY <1>5, <1>6

\* The server receives nothing but the request.
LEMMA RecvServerRound ==
    ASSUME Before, Recv("server")
    PROVE  Round'
<1>1. Types /\ Round /\ cuts = 0 /\ cuts' = 0
      /\ "client" \in Ends /\ "server" \in Ends /\ "server" # "client"
  BY TheEnds DEF Before
<1>2. /\ pc["server"] \in {"hdr", "body"} /\ total["server"] # Want("server")
      /\ net["server"] # <<>> /\ UNCHANGED <<pc, out, hdr, callvars>>
      /\ total'["client"] = total["client"] /\ buf'["client"] = buf["client"]
      /\ net'["client"] = net["client"]
  BY <1>1, RecvEffect
<1>3. ClientSame
  BY <1>2 DEF ClientSame
<1>4. ~Quiet
  BY <1>2 DEF Quiet, Waits, Sent, Last, Gone
<1>5. UNCHANGED <<asked, heard, answer, got>>
  BY <1>2 DEF callvars
<1>6. Pending
  BY <1>1, <1>4, RoundSides
<1>7. Opened /\ Unread /\ Fresh
  BY <1>2, <1>6 DEF Pending, Ready
<1>8. Request' = Request /\ Opened' /\ Fresh'
  BY <1>5, <1>7 DEF Request, Opened, Fresh
<1>9. CASE pc["server"] = "hdr"
  <2>1. Want("server") = 8
    BY <1>1, <1>9, WantNat
  <2>2. Ahead /\ total["server"] = 0
    BY <1>2, <1>7, <1>9, <2>1 DEF Unread, Ahead, HeaderHere, BodyAhead, BodyHere, HeaderSize
  <2>3. PICK x : x = Request
    OBVIOUS
  <2>4. x \in Bytes /\ Len(x) >= 8
    BY <1>7, <2>3, OpenedBytes
  <2>5. net["server"] = x
    BY <2>2, <2>3 DEF Ahead
  <2>6. total'["server"] = 8 /\ buf'["server"] = HeaderPart(x) /\ net'["server"] = BodyPart(x)
    BY <1>1, <1>9, <2>2, <2>4, <2>5, RecvHeader
  <2>7. HeaderHere'
    BY <1>2, <1>8, <1>9, <2>3, <2>6 DEF HeaderHere, HeaderSize
  <2>8. Pending'
    BY <1>8, <2>7 DEF Pending, Unread
  <2> QED BY <1>1, <1>3, <1>4, <1>5, <2>8, ServerStepRound
<1>10. CASE pc["server"] = "body"
  <2>1. BodyAhead
    <3>1. hdr["server"].body_len_ = Want("server")
      BY <1>1, <1>10, WantNat
    <3>2. Fields(Request).body_len_ = Len(BodyPart(Request))
      BY <1>7, OpenedBytes
    <3> QED BY <1>2, <1>7, <1>10, <3>1, <3>2 DEF Unread, Ahead, HeaderHere, BodyHere
  <2>2. PICK x : x = BodyPart(Request)
    OBVIOUS
  <2>3. x \in Bytes /\ Fields(Request).body_len_ = Len(x)
    BY <1>7, <2>2, OpenedBytes
  <2>4. net["server"] = x /\ hdr["server"].body_len_ = Len(x) /\ total["server"] = 0
    BY <2>1, <2>2, <2>3 DEF BodyAhead
  <2>5. total'["server"] = Len(x) /\ buf'["server"] = x /\ net'["server"] = <<>>
    BY <1>1, <1>10, <2>3, <2>4, RecvBody
  <2>6. BodyHere'
    BY <1>2, <1>8, <1>10, <2>1, <2>2, <2>5 DEF BodyHere, BodyAhead
  <2>7. Pending'
    BY <1>8, <2>6 DEF Pending, Unread
  <2> QED BY <1>1, <1>3, <1>4, <1>5, <2>7, ServerStepRound
<1> QED BY <1>2, <1>9, <1>10

\* An answer is ready to be sent.
LEMMA RespondReady ==
    ASSUME Types, NEW t, NEW v, Respond(t, v), Returns(response_serialize(t, v), t, v),
           Response(t, v) \in ResponsesTo(asked.call), asked' = asked,
           hdr'["server"].version_ = version => net'["server"] = <<>>
    PROVE  /\ Ready' /\ answer' = Response(t, v)
           /\ pc'["client"] = pc["client"] /\ total'["client"] = total["client"]
           /\ buf'["client"] = buf["client"] /\ out'["client"] = out["client"]
<1>1. PICK b : b = response_serialize(t, v)
  OBVIOUS
<1>2. /\ Enter("server", "send") /\ out' = [out EXCEPT !["server"] = b]
      /\ answer' = Response(t, v)
  BY <1>1 DEF Respond, StartSending
<1>3. /\ pc'["server"] = "send" /\ total'["server"] = 0
      /\ pc'["client"] = pc["client"] /\ total'["client"] = total["client"]
      /\ buf'["client"] = buf["client"]
  BY <1>2, TheEnds, EnterEffect
<1>4. out'["server"] = b /\ out'["client"] = out["client"]
  BY <1>2, TheEnds DEF Types, Shapes
<1>5. answer'.type = t /\ answer'.values = v
  BY <1>2 DEF Response
<1>6. Reply' = b
  BY <1>1, <1>5 DEF Reply
<1>7. Fitting'
  BY <1>1, <1>2, <1>5, <1>6 DEF Fitting
<1> QED BY <1>2, <1>3, <1>4, <1>6, <1>7 DEF Ready

\* The header tells the version, and a wrong one is answered without the body.
LEMMA RequestHeaderRound ==
    ASSUME Before, RequestHeader
    PROVE  /\ Round' /\ ~Quiet /\ Pending /\ ClientSame /\ UNCHANGED <<asked, heard, got>>
           /\ pc["server"] = "hdr" /\ ((pc'["server"] = "body" /\ answer' = answer) \/ Ready')
<1>1. Types /\ Round /\ "client" \in Ends /\ "server" \in Ends /\ "server" # "client"
  BY TheEnds DEF Before
<1>2. PICK h : h = message_header_deserialize(Data("server")).values
  OBVIOUS
<1>3. /\ hdr' = [hdr EXCEPT !["server"] = h]
      /\ IF h.version_ = version
         THEN Enter("server", "body") /\ UNCHANGED <<out, answer>>
         ELSE Respond(301, <<version>>)
      /\ UNCHANGED <<net, reset, asked, heard, got, cuts>>
  BY <1>2 DEF RequestHeader, msgtype_wrong_version_response
<1>4. pc["server"] = "hdr" /\ total["server"] = 8
  BY <1>1, WantNat DEF RequestHeader, Through
<1>5. total["server"] # 0
  BY <1>4
<1>6. ~Quiet
  BY <1>4, <1>5 DEF Quiet, Waits, Sent, Last, Gone
<1>7. Pending
  BY <1>1, <1>6, RoundSides
<1>8. Opened /\ Fresh /\ HeaderHere
  BY <1>4, <1>5, <1>7 DEF Pending, Ready, Unread, Ahead, BodyAhead, BodyHere
<1>9. PICK x : x = Request
  OBVIOUS
<1>10. x \in Bytes /\ Len(x) >= 8 /\ Carries(asked)
  BY <1>8, <1>9, OpenedBytes
<1>11. buf["server"] = HeaderPart(x) /\ net["server"] = BodyPart(x)
  BY <1>8, <1>9 DEF HeaderHere
<1>12. h = Fields(x)
  BY <1>1, <1>2, <1>4, <1>10, <1>11, HeaderRead
<1>13. hdr'["server"] = h /\ hdr'["client"] = hdr["client"]
  BY <1>1, <1>3 DEF Types, Shapes
<1>14. Request' = Request /\ Opened'
  BY <1>3, <1>8 DEF Request, Opened
<1>15. CASE h.version_ = version
  <2>1. Enter("server", "body") /\ UNCHANGED <<out, answer>>
    BY <1>3, <1>15
  <2>2. /\ pc'["server"] = "body" /\ total'["server"] = 0
        /\ pc'["client"] = pc["client"] /\ total'["client"] = total["client"]
        /\ buf'["client"] = buf["client"]
    BY <1>1, <2>1, EnterEffect
  <2>3. ClientSame
    BY <1>3, <1>13, <2>1, <2>2 DEF ClientSame
  <2>4. BodyAhead'
    BY <1>3, <1>9, <1>11, <1>12, <1>13, <1>14, <1>15, <2>2 DEF BodyAhead
  <2>5. Pending'
    BY <1>3, <1>8, <1>14, <2>1, <2>4 DEF Pending, Unread, Fresh
  <2>6. Round'
    BY <1>1, <1>3, <1>6, <2>3, <2>5, ServerStepRound
  <2> QED BY <1>3, <1>4, <1>6, <1>7, <2>1, <2>2, <2>3, <2>6
<1>16. CASE h.version_ # version
  <2>1. Respond(301, <<version>>)
    BY <1>3, <1>16
  <2>2. asked.call.version # version
    BY <1>9, <1>10, <1>12, <1>16 DEF Carries, Request
  <2>3. Response(301, <<version>>) \in ResponsesTo(asked.call)
    BY <2>2 DEF ResponsesTo, msgtype_wrong_version_response
  <2>4. Returns(response_serialize(301, <<version>>), 301, <<version>>)
    BY Refusals
  <2>5. hdr'["server"].version_ # version
    BY <1>13, <1>16
  <2>6. /\ Ready'
        /\ pc'["client"] = pc["client"] /\ total'["client"] = total["client"]
        /\ buf'["client"] = buf["client"] /\ out'["client"] = out["client"]
    BY <1>1, <1>3, <2>1, <2>3, <2>4, <2>5, RespondReady
  <2>7. ClientSame
    BY <1>3, <1>13, <2>6 DEF ClientSame
  <2>8. Pending'
    BY <1>14, <2>6 DEF Pending
  <2>9. Round'
    BY <1>1, <1>3, <1>6, <2>7, <2>8, ServerStepRound
  <2> QED BY <1>3, <1>4, <1>6, <1>7, <2>6, <2>7, <2>9
<1> QED BY <1>15, <1>16

\* The handler gets what was asked, and its answer belongs to it.
LEMMA RequestBodyRound ==
    ASSUME Before, RequestBody
    PROVE  /\ Round' /\ ~Quiet /\ Pending /\ HeardRight' /\ ClientSame /\ UNCHANGED <<asked, got>>
           /\ pc["server"] = "body" /\ Ready'
<1>1. Types /\ Round /\ "client" \in Ends /\ "server" \in Ends /\ "server" # "client"
  BY TheEnds DEF Before
<1>2. pc["server"] = "body" /\ Through("server", "body")
  BY DEF RequestBody, Through
<1>3. UNCHANGED <<hdr, net, reset, asked, got, cuts>>
  BY DEF RequestBody
<1>4. ~Quiet
  BY <1>2 DEF Quiet, Waits, Sent, Last, Gone
<1>5. Pending
  BY <1>1, <1>4, RoundSides
<1>6. Opened /\ Fresh /\ (BodyAhead \/ BodyHere)
  BY <1>2, <1>5 DEF Pending, Ready, Unread, Ahead, HeaderHere
<1>7. BodyHere /\ Data("server") = BodyPart(Request)
  BY <1>1, <1>2, <1>6, BodyIsHere
<1>8. PICK c, b, type : c = asked.call /\ b = BodyPart(Request) /\ type = hdr["server"].type_
  OBVIOUS
<1>9. /\ hdr["server"].version_ = c.version /\ type = c.type /\ c.version = version
      /\ \/ /\ c \in Calls /\ c.type \in RequestTypes
            /\ request_deserialize(c.type, b) = Ok(c.values)
         \/ /\ c \notin Calls /\ c.values = <<>>
            /\ \/ c.type \notin RequestTypes
               \/ request_deserialize(c.type, b) = BodyError
  <2>1. Carries(asked)
    BY <1>6, OpenedBytes
  <2>2. hdr["server"] = Fields(Request) /\ hdr["server"].version_ = version
    BY <1>7 DEF BodyHere
  <2> QED BY <1>8, <2>1, <2>2 DEF Carries, Request
<1>10. net'["server"] = <<>>
  BY <1>3, <1>7 DEF BodyHere
<1>11. hdr'["client"] = hdr["client"] /\ net'["client"] = net["client"] /\ asked' = asked
       /\ (hdr'["server"].version_ = version => net'["server"] = <<>>)
  BY <1>3, <1>10
<1>12. Opened'
  BY <1>3, <1>6 DEF Opened
<1>13. ASSUME NEW t, NEW v, Respond(t, v), Returns(response_serialize(t, v), t, v),
              Response(t, v) \in ResponsesTo(c)
       PROVE  Round' /\ ClientSame /\ Ready'
  <2>1. Response(t, v) \in ResponsesTo(asked.call)
    BY <1>8, <1>13
  <2>2. /\ Ready'
        /\ pc'["client"] = pc["client"] /\ total'["client"] = total["client"]
        /\ buf'["client"] = buf["client"] /\ out'["client"] = out["client"]
    BY <1>1, <1>11, <1>13, <2>1, RespondReady
  <2>3. ClientSame
    BY <1>11, <2>2 DEF ClientSame
  <2>4. Pending'
    BY <1>12, <2>2 DEF Pending
  <2> QED BY <1>1, <1>3, <1>4, <2>2, <2>3, <2>4, ServerStepRound
<1>14. ASSUME Hear(c.values) PROVE HeardRight'
  <2>1. heard' = [version |-> c.version, type |-> c.type, values |-> c.values]
    BY <1>8, <1>9, <1>14 DEF Hear
  <2>2. asked'.call = c
    BY <1>3, <1>8
  <2> QED BY <2>1, <2>2 DEF HeardRight, Same
<1>15. CASE type \notin RequestTypes
  <2>1. Respond(302, <<>>) /\ Hear(<<>>)
    BY <1>8, <1>15 DEF RequestBody, msgtype_invalid_type_response
  <2>2. c.values = <<>>
    BY <1>9, <1>15
  <2>3. Response(302, <<>>) \in ResponsesTo(c)
    BY <1>9, <1>15 DEF ResponsesTo, msgtype_invalid_type_response
  <2>4. Returns(response_serialize(302, <<>>), 302, <<>>)
    BY Refusals
  <2> QED BY <1>2, <1>3, <1>4, <1>5, <1>13, <1>14, <2>1, <2>2, <2>3, <2>4
<1>16. CASE type \in RequestTypes /\ c \in Calls
  <2>1. request_deserialize(type, b) = Ok(c.values)
    BY <1>9, <1>16
  <2>2. Ok(c.values).status = "ok" /\ Ok(c.values).values = c.values
    BY DEF Ok
  <2>3. Hear(c.values) /\ \E v \in Answers(type) : Respond(type + 100, v)
    BY <1>7, <1>8, <1>16, <2>1, <2>2 DEF RequestBody
  <2>4. PICK v \in Answers(type) : Respond(type + 100, v)
    BY <2>3
  <2>5. Returns(response_serialize(type + 100, v), type + 100, v)
    BY <1>16, AnswersReturn
  <2>6. Response(type + 100, v) \in ResponsesTo(c)
    BY <1>9, <1>16 DEF ResponsesTo
  <2>7. PICK t : t = type + 100
    OBVIOUS
  <2>8. Round' /\ ClientSame /\ Ready'
    BY <1>13, <2>4, <2>5, <2>6, <2>7
  <2> QED BY <1>2, <1>3, <1>4, <1>5, <1>14, <2>3, <2>8
<1>17. CASE type \in RequestTypes /\ c \notin Calls
  <2>1. request_deserialize(type, b) = BodyError /\ c.values = <<>>
    BY <1>9, <1>17
  <2>2. BodyError.status # "ok"
    BY DEF BodyError
  <2>3. Hear(<<>>) /\ Respond(303, <<>>)
    BY <1>7, <1>8, <1>17, <2>1, <2>2 DEF RequestBody, msgtype_invalid_body_response
  <2>4. Response(303, <<>>) \in ResponsesTo(c)
    BY <1>9, <1>17 DEF ResponsesTo, msgtype_invalid_body_response
  <2>5. Returns(response_serialize(303, <<>>), 303, <<>>)
    BY Refusals
  <2> QED BY <1>2, <1>3, <1>4, <1>5, <1>13, <1>14, <2>1, <2>3, <2>4, <2>5
<1> QED BY <1>15, <1>16, <1>17

\* When the answer is sent the server waits for the next request, or closes because of a
\* wrong version.
LEMMA ResponseSentRound ==
    ASSUME Before, ResponseSent
    PROVE  Round'
<1>1. Types /\ Round /\ "client" \in Ends /\ "server" \in Ends /\ "server" # "client"
  BY TheEnds DEF Before
<1>2. CASE CloseSocket("server")
  BY <1>2, CloseServerRound
<1>3. CASE /\ hdr["server"].version_ = version
           /\ Enter("server", "hdr") /\ out' = [out EXCEPT !["server"] = <<>>]
           /\ hdr' = [hdr EXCEPT !["server"] = None] /\ UNCHANGED <<net, reset, callvars, cuts>>
  <2>1. pc["server"] = "send" /\ total["server"] = Len(out["server"])
    BY <1>1, WantNat DEF ResponseSent, Through
  <2>2. /\ pc'["server"] = "hdr" /\ total'["server"] = 0
        /\ pc'["client"] = pc["client"] /\ total'["client"] = total["client"]
        /\ buf'["client"] = buf["client"]
    BY <1>1, <1>3, EnterEffect
  <2>3. out'["client"] = out["client"] /\ hdr'["client"] = hdr["client"]
    BY <1>1, <1>3 DEF Types, Shapes
  <2>4. ClientSame
    BY <1>3, <2>2, <2>3 DEF ClientSame
  <2>5. UNCHANGED <<asked, heard, answer, got>>
    BY <1>3 DEF callvars
  <2>6. ~Ready
    <3>1. SUFFICES ASSUME Ready PROVE FALSE
      OBVIOUS
    <3>2. Len(Reply) >= 8
      BY <3>1, FittingBytes DEF Ready
    <3>3. Len(Reply) # 0
      BY <3>2
    <3> QED BY <2>1, <3>1, <3>3 DEF Ready
  <2>7. Quiet => Waits'
    BY <1>3, <2>1, <2>2 DEF Quiet, Waits, Sent, Last, Gone
  <2>8. Waits' => Quiet'
    BY DEF Quiet
  <2>9. Pending => Pending'
    <3>1. SUFFICES ASSUME Pending PROVE Pending'
      OBVIOUS
    <3>2. Opened /\ Fresh /\ Ahead
      BY <2>1, <2>6, <3>1 DEF Pending, Unread, HeaderHere, BodyAhead, BodyHere
    <3>3. Opened' /\ Fresh' /\ Request' = Request
      BY <2>5, <3>2 DEF Opened, Fresh, Request
    <3>4. Ahead'
      BY <1>3, <2>2, <3>2, <3>3 DEF Ahead
    <3> QED BY <3>3, <3>4 DEF Pending, Unread
  <2>10. CASE ~Quiet
    <3>1. Pending'
      BY <1>1, <2>9, <2>10, RoundSides
    <3> QED BY <1>1, <2>4, <2>5, <2>10, <3>1, ServerStepRound
  <2>11. CASE Quiet
    <3>1. Quiet' /\ ~Last /\ ~Gone("server")
      BY <1>3, <2>1, <2>7, <2>8, <2>11 DEF Last, Gone
    <3>2. Request' = Request /\ Reply' = Reply
          /\ (Opened => Opened') /\ (Fitting => Fitting') /\ (Fresh => Fresh')
      BY <2>5 DEF Request, Reply, Opened, Fitting, Fresh
    <3>3. Gone("client") => Gone("client")'
      BY <2>4 DEF Gone, ClientSame
    <3>4. Idle => Idle'
      BY <2>4 DEF Idle, ClientSame
    <3>5. Asks => Asks'
      BY <2>4, <3>1, <3>2 DEF Asks, ClientSame
    <3>6. Expects => Expects'
      BY <2>4 DEF Expects, Listens, ClientSame
    <3>7. Replied => Replied'
      BY <2>4, <2>5, <3>2 DEF Replied, ReplyAhead, Listens, ReplyHeaderHere, ReplyBodyAhead,
         ReplyBodyHere, ClientSame
    <3> QED BY <1>1, <2>9, <3>1, <3>2, <3>3, <3>4, <3>5, <3>6, <3>7 DEF Round
  <2> QED BY <2>10, <2>11
<1> QED BY <1>2, <1>3 DEF ResponseSent

(***************************************************************************)
(* The invariant holds.                                                    *)
(***************************************************************************)

\* The counter of partial calls never goes down.
LEMMA CutsGrow ==
    ASSUME Types, [WNext]_vars
    PROVE  cuts' = cuts \/ (cuts' = cuts + 1 /\ cuts' # 0)
<1>0. cuts \in Nat
  BY TransportAssumption DEF Types, Shapes
<1>1. CASE UNCHANGED vars
  BY <1>1 DEF vars
<1>2. CASE Call \/ RequestSent \/ RequestHeader \/ RequestBody
  BY <1>2 DEF Call, RequestSent, RequestHeader, RequestBody
<1>3. ASSUME NEW e \in Ends, CloseSocket(e) PROVE cuts' = cuts
  BY <1>3 DEF CloseSocket
<1>4. CASE ResponseHeader
  BY <1>3, <1>4, TheEnds DEF ResponseHeader
<1>5. CASE ResponseBody
  BY <1>3, <1>5, TheEnds DEF ResponseBody
<1>6. CASE ResponseSent
  BY <1>3, <1>6, TheEnds DEF ResponseSent
<1>7. ASSUME NEW e \in Ends, Send(e) \/ Recv(e) PROVE cuts' = cuts \/ Cut
  BY <1>7 DEF Send, Recv
<1>8. Cut => cuts' = cuts + 1 /\ cuts' # 0
  BY <1>0 DEF Cut
<1> QED
  BY <1>1, <1>2, <1>3, <1>4, <1>5, <1>6, <1>7, <1>8, TheEnds
  DEF WNext, ClientStep, ServerStep, Fail, Break

\* The invariant holds when the connection is accepted.
LEMMA InitInv == WInit => WInv
<1> SUFFICES ASSUME WInit PROVE Round /\ HeardRight /\ GotRight
  BY DEF WInv
<1>1. Idle
  BY TheEnds DEF WInit, Idle
<1>2. Quiet
  BY TheEnds DEF WInit, Quiet, Waits
<1> QED BY <1>1, <1>2 DEF WInit, Round, HeardRight, GotRight

\* A step that leaves what was asked and heard, answered and got.
LEMMA RightStays ==
    ASSUME HeardRight, GotRight, UNCHANGED callvars
    PROVE  HeardRight' /\ GotRight'
BY DEF HeardRight, GotRight, callvars

\* Every step of whole messages keeps it.
LEMMA StepInv ==
    ASSUME Before, HeardRight, GotRight, WNext
    PROVE  Round' /\ HeardRight' /\ GotRight'
<1>1. CASE Call
  <2>1. heard' = None /\ got' = None
    BY <1>1 DEF Call
  <2> QED BY <1>1, <2>1, CallRound DEF HeardRight, GotRight
<1>2. ASSUME NEW e \in Ends, Send(e) PROVE Round' /\ HeardRight' /\ GotRight'
  <2>1. UNCHANGED callvars
    BY <1>2 DEF Send
  <2>2. Round'
    BY <1>2, TheEnds, SendClientRound, SendServerRound
  <2> QED BY <2>1, <2>2, RightStays
<1>3. ASSUME NEW e \in Ends, Recv(e) PROVE Round' /\ HeardRight' /\ GotRight'
  <2>1. UNCHANGED callvars
    BY <1>3 DEF Recv
  <2>2. Round'
    BY <1>3, TheEnds, RecvClientRound, RecvServerRound
  <2> QED BY <2>1, <2>2, RightStays
<1>4. ASSUME NEW e \in Ends, CloseSocket(e) PROVE Round' /\ HeardRight' /\ GotRight'
  <2>1. UNCHANGED callvars
    BY <1>4 DEF CloseSocket
  <2>2. Round'
    BY <1>4, TheEnds, CloseClientRound, CloseServerRound
  <2> QED BY <2>1, <2>2, RightStays
<1>5. CASE RequestSent
  <2>1. UNCHANGED callvars
    BY <1>5 DEF RequestSent
  <2> QED BY <1>5, <2>1, RequestSentRound, RightStays
<1>6. CASE ResponseHeader
  <2>1. UNCHANGED callvars
    BY <1>6 DEF ResponseHeader, CloseSocket
  <2> QED BY <1>6, <2>1, ResponseHeaderRound, RightStays
<1>7. CASE ResponseBody
  <2>1. Round' /\ got' = answer /\ UNCHANGED <<asked, heard, answer>>
    BY <1>7, ResponseBodyRound
  <2> QED BY <2>1 DEF HeardRight, GotRight, Same
<1>8. CASE RequestHeader
  <2>1. Round' /\ Pending /\ UNCHANGED <<asked, heard, got>>
    BY <1>8, RequestHeaderRound
  <2>2. got = None
    BY <2>1 DEF Pending, Opened
  <2> QED BY <2>1, <2>2 DEF HeardRight, GotRight
<1>9. CASE RequestBody
  <2>1. Round' /\ Pending /\ HeardRight' /\ got' = got
    BY <1>9, RequestBodyRound
  <2>2. got = None
    BY <2>1 DEF Pending, Opened
  <2> QED BY <2>1, <2>2 DEF GotRight
<1>10. CASE ResponseSent
  <2>1. UNCHANGED callvars
    BY <1>10 DEF ResponseSent, CloseSocket
  <2> QED BY <1>10, <2>1, ResponseSentRound, RightStays
<1> QED
  BY <1>1, <1>2, <1>3, <1>4, <1>5, <1>6, <1>7, <1>8, <1>9, <1>10, TheEnds
  DEF WNext, ClientStep, ServerStep, Fail, Break

\* A step of something else keeps it.
LEMMA RoundUnchanged ==
    ASSUME Round, UNCHANGED vars
    PROVE  Round'
<1>1. ClientSame /\ ServerSame /\ UNCHANGED callvars /\ UNCHANGED <<asked, heard, answer, got>>
  BY DEF vars, ClientSame, ServerSame, callvars
<1>2. /\ Request' = Request /\ Reply' = Reply
      /\ (Opened => Opened') /\ (Fitting => Fitting') /\ (Fresh => Fresh')
  BY <1>1 DEF Request, Reply, Opened, Fitting, Fresh
<1>3. (Gone("client") => Gone("client")') /\ (Gone("server") => Gone("server")') /\ (Last => Last')
  BY <1>1 DEF Gone, ClientSame, ServerSame, Last
<1>4. (Quiet => Quiet') /\ (Pending => Pending')
  BY <1>1, <1>3, QuietStays, PendingStays
<1>5. (Idle => Idle') /\ (Asks => Asks') /\ (Expects => Expects')
  BY <1>1, <1>2, <1>3 DEF Idle, Asks, Expects, Listens, ClientSame
<1>6. Replied => Replied'
  BY <1>1, <1>2 DEF Replied, ReplyAhead, Listens, ReplyHeaderHere, ReplyBodyAhead, ReplyBodyHere,
     ClientSame
<1> QED BY <1>2, <1>3, <1>4, <1>5, <1>6 DEF Round

\* Once a message has come in pieces nothing is claimed.
LEMMA NextInv ==
    ASSUME Types, WInv, [WNext]_vars
    PROVE  WInv'
<1> SUFFICES ASSUME cuts' = 0 PROVE Round' /\ HeardRight' /\ GotRight'
  BY DEF WInv
<1>1. cuts = 0
  BY CutsGrow
<1>2. Round /\ HeardRight /\ GotRight
  BY <1>1 DEF WInv
<1>3. CASE WNext
  BY <1>1, <1>2, <1>3, StepInv DEF Before
<1>4. CASE UNCHANGED vars
  BY <1>2, <1>4, RoundUnchanged, RightStays DEF vars, callvars
<1> QED BY <1>3, <1>4

\* While TCP moves whole messages, request and answer are where Round says they are, for
\* any number of calls (handle_client of server.cc and the calls of client.cc).
THEOREM WInvHolds == WSpec => []WInv
BY InitInv, NextInv, WTypesHold, PTL DEF WSpec

\* What the server hands to a handler is what the client asked, and what it refuses as
\* garbled was garbled: for all strings and any number of calls (recv_hdr, recv_body and
\* deserialize against serialize and send_msg).
THEOREM WhatIsAskedArrives == WSpec => []RequestsArrive
<1>1. WInv => RequestsArrive
  BY DEF WInv, HeardRight, RequestsArrive
<1> QED BY <1>1, WInvHolds, PTL

\* What a call of the client returns is what the server answered to it, for all strings,
\* lists and chats and any number of calls (client.cc against the handlers of server.cc).
THEOREM WhatIsAnsweredArrives == WSpec => []AnswersArrive
<1>1. WInv => AnswersArrive
  BY DEF WInv, GotRight, AnswersArrive
<1> QED BY <1>1, WInvHolds, PTL

(***************************************************************************)
(* The rounds.                                                             *)
(***************************************************************************)

Open == \A e \in Ends : ~Gone(e)

\* The client's part of Answered.
Coming == net["client"] # <<>> \/ pc["client"] = "body"
          \/ (pc["client"] = "hdr" /\ total["client"] # 0)

\* What the phases mean.
LEMMA PhaseNames ==
    /\ Phase = "closed" <=> ~Open
    /\ Phase = "lost" <=> Open /\ cuts > 0
    /\ Phase = "idle" <=> Open /\ ~(cuts > 0) /\ pc["client"] = "idle"
    /\ Phase = "answered" <=> Open /\ ~(cuts > 0) /\ pc["client"] # "idle" /\ Answered
    /\ Phase = "asked" <=> Open /\ ~(cuts > 0) /\ pc["client"] # "idle" /\ ~Answered
    /\ Phase \in {"closed", "lost", "idle", "answered", "asked"}
BY DEF Phase, Open

\* The server is in send_msg until all of its answer is sent.
LEMMA ServerSends ==
    ASSUME Types, pc["server"] = "send"
    PROVE  InLoop("server") <=> total["server"] # Len(out["server"])
<1>1. "server" \in Ends
  BY TheEnds
<1> QED BY <1>1, WantNat DEF InLoop

\* With its answer ready the server has answered.
LEMMA ReadyAnswers ==
    Types /\ Ready => Answered
<1> SUFFICES ASSUME Types, Ready PROVE Answered
  OBVIOUS
<1>1. Len(Reply) >= 8
  BY FittingBytes DEF Ready
<1>2. Len(Reply) # 0
  BY <1>1
<1>3. pc["server"] = "send" /\ total["server"] = 0 /\ out["server"] = Reply
  BY DEF Ready
<1> QED BY <1>2, <1>3, ServerSends DEF Answered

\* With a server that has nothing to read, it is the client's side that tells.
LEMMA QuietAnswers ==
    ASSUME Types, Open, Quiet
    PROVE  Answered <=> Coming
<1>1. ~Gone("client") /\ ~Gone("server")
  BY TheEnds DEF Open
<1>2. ~(pc["server"] = "send" /\ InLoop("server"))
  BY <1>1, ServerSends DEF Quiet, Waits, Sent, Last
<1> QED BY <1>2 DEF Answered, Coming

\* Where a round is says what phase it is in.
LEMMA Phases ==
    ASSUME Types, Open, cuts = 0, Round
    PROVE  \/ Phase = "idle" /\ Idle /\ Quiet
           \/ /\ Phase = "asked" /\ Opened
              /\ (Asks /\ Fresh /\ Quiet) \/ (Expects /\ ((Unread /\ Fresh) \/ Last))
           \/ Phase = "answered" /\ Opened /\ Fitting /\ ((Expects /\ Ready) \/ (Replied /\ Quiet))
<1>1. ~Gone("client") /\ ~Gone("server") /\ ~(cuts > 0)
  BY TheEnds DEF Open
<1>2. CASE Idle /\ Quiet
  <2>1. Phase = "idle"
    BY <1>1, <1>2, PhaseNames DEF Idle
  <2> QED BY <1>2, <2>1
<1>3. CASE Asks /\ Opened /\ Fresh /\ Quiet
  <2>1. ~Coming /\ pc["client"] # "idle"
    BY <1>3 DEF Coming, Asks
  <2>2. Phase = "asked"
    BY <1>1, <1>3, <2>1, QuietAnswers, PhaseNames
  <2> QED BY <1>3, <2>2
<1>4. CASE Expects /\ Opened /\ Ready
  <2>1. pc["client"] # "idle" /\ Answered
    BY <1>4, ReadyAnswers DEF Expects, Listens
  <2>2. Phase = "answered"
    BY <1>1, <2>1, PhaseNames
  <2> QED BY <1>4, <2>2 DEF Ready
<1>5. CASE Expects /\ Opened /\ ((Unread /\ Fresh) \/ Last)
  <2>1. ~(pc["server"] = "send" /\ InLoop("server"))
    BY <1>1, <1>5, ServerSends DEF Unread, Ahead, HeaderHere, BodyAhead, BodyHere, Last
  <2>2. ~Coming /\ pc["client"] # "idle"
    BY <1>5 DEF Coming, Expects, Listens
  <2>3. ~Answered
    BY <2>1, <2>2 DEF Answered, Coming
  <2>4. Phase = "asked"
    BY <1>1, <2>2, <2>3, PhaseNames
  <2> QED BY <1>5, <2>4
<1>6. CASE Replied /\ Opened /\ Fitting /\ Quiet
  <2>1. Reply # <<>>
    <3>1. Len(Reply) >= 8
      BY <1>6, FittingBytes
    <3> QED BY <3>1, EmptyBytes
  <2>2. Coming /\ pc["client"] # "idle"
    BY <1>6, <2>1 DEF Coming, Replied, ReplyAhead, ReplyHeaderHere, ReplyBodyAhead, ReplyBodyHere,
       Listens, HeaderSize
  <2>3. Phase = "answered"
    BY <1>1, <1>6, <2>2, QuietAnswers, PhaseNames
  <2> QED BY <1>6, <2>3
<1> QED BY <1>1, <1>2, <1>3, <1>4, <1>5, <1>6, RoundSides DEF Pending

-----------------------------------------------------------------------------
(***************************************************************************)
(* The steps of Rounds.                                                    *)
(***************************************************************************)

\* A step that keeps the phase and what was said is no step of the round.
LEMMA StaysInRound ==
    ASSUME Phase' = Phase, UNCHANGED <<asked, answer, got>>
    PROVE  UNCHANGED TheRounds!rvars
BY DEF TheRounds!rvars, InRound

\* An end that closes ends the round,
LEMMA CloseIsClose ==
    ASSUME Open, ~Open'
    PROVE  TheRounds!Close
<1>1. Phase # "closed" /\ Phase' = "closed"
  BY PhaseNames DEF Phase, Open
<1> QED BY <1>1 DEF TheRounds!Close, TheRounds!End, InRound

\* and so does a message in pieces.
LEMMA CutIsLose ==
    ASSUME Open, ~(cuts > 0), Open', cuts' > 0
    PROVE  TheRounds!Lose
<1>1. Phase \in {"idle", "answered", "asked"}
  BY PhaseNames
<1>2. Phase' = "lost"
  BY DEF Phase, Open
<1> QED BY <1>1, <1>2 DEF TheRounds!Lose, TheRounds!End, InRound

\* An end that has closed stays closed.
LEMMA GoneStays ==
    ASSUME Types, [WNext]_vars, NEW e \in Ends, Gone(e)
    PROVE  Gone(e)'
<1>1. CASE UNCHANGED vars
  BY <1>1 DEF vars, Gone
<1>2. ASSUME NEW f \in Ends, Send(f) \/ Recv(f) PROVE Gone(e)'
  BY <1>2 DEF Send, Recv, Gone
<1>3. ASSUME NEW f \in Ends, NEW p, Enter(f, p), pc[f] # "closed" PROVE Gone(e)'
  <2>1. f # e
    BY <1>3 DEF Gone
  <2>2. pc'[e] = pc[e]
    BY <1>3, <2>1, EnterEffect
  <2> QED BY <2>2 DEF Gone
<1>4. ASSUME NEW f \in Ends, CloseSocket(f) PROVE Gone(e)'
  <2>1. Enter(f, "closed")
    BY <1>4 DEF CloseSocket
  <2>2. CASE f = e
    BY <1>4, <2>2, CloseEffect, TheEnds DEF Gone
  <2>3. CASE f # e
    BY <2>1, <2>3, EnterEffect DEF Gone
  <2> QED BY <2>2, <2>3
<1>5. CASE Call
  BY <1>3, <1>5, TheEnds DEF Call, StartSending
<1>6. CASE RequestSent
  BY <1>3, <1>6, TheEnds DEF RequestSent, Through
<1>7. CASE ResponseHeader
  BY <1>3, <1>4, <1>7, TheEnds DEF ResponseHeader, Through
<1>8. CASE ResponseBody
  BY <1>3, <1>4, <1>8, TheEnds DEF ResponseBody, Through
<1>9. CASE RequestHeader
  BY <1>3, <1>9, TheEnds DEF RequestHeader, Through, Respond, StartSending
<1>10. CASE RequestBody
  BY <1>3, <1>10, TheEnds DEF RequestBody, Through, Respond, StartSending
<1>11. CASE ResponseSent
  BY <1>3, <1>4, <1>11, TheEnds DEF ResponseSent, Through
<1> QED
  BY <1>1, <1>2, <1>4, <1>5, <1>6, <1>7, <1>8, <1>9, <1>10, <1>11, TheEnds
  DEF WNext, ClientStep, ServerStep, Fail, Break

-----------------------------------------------------------------------------

\* The state before and after a step of a connection that is open and whole.
InStep == Before /\ Types' /\ Open /\ Open'

\* A step that leaves whether the request is answered.
LEMMA SamePhase ==
    ASSUME InStep, UNCHANGED <<asked, answer, got>>,
           pc["client"] # "idle", pc'["client"] # "idle", Answered' <=> Answered
    PROVE  UNCHANGED TheRounds!rvars
<1>1. cuts = 0 /\ cuts' = 0 /\ Open /\ Open'
  BY DEF InStep, Before
<1>2. Phase' = Phase
  BY <1>1 DEF Phase, Open
<1> QED BY <1>2, StaysInRound

\* A step that leaves the phase because it leaves what the phase depends on.
LEMMA SameAnswered ==
    ASSUME InStep, UNCHANGED <<asked, answer, got>>, Coming' <=> Coming,
           pc'["client"] = "idle" <=> pc["client"] = "idle",
           (pc["server"] = "send" /\ InLoop("server"))' <=> (pc["server"] = "send" /\ InLoop("server"))
    PROVE  UNCHANGED TheRounds!rvars
<1>1. cuts = 0 /\ cuts' = 0 /\ Open /\ Open'
  BY DEF InStep, Before
<1>2. Answered' <=> Answered
  BY DEF Answered, Coming
<1>3. Phase' = Phase
  BY <1>1, <1>2 DEF Phase, Open
<1> QED BY <1>3, StaysInRound

\* What is known in such a step.
LEMMA InStepFacts ==
    ASSUME InStep
    PROVE  /\ Types /\ Round /\ Open /\ cuts = 0 /\ cuts' = 0 /\ Open' /\ ~(cuts > 0) /\ ~(cuts' > 0)
           /\ ~Gone("client") /\ ~Gone("server")
           /\ "client" \in Ends /\ "server" \in Ends /\ "server" # "client"
BY TheEnds DEF InStep, Before, Open

\* A call of the client asks.
LEMMA CallAsks ==
    ASSUME InStep, Call
    PROVE  TheRounds!Ask
<1>1. PICK r \in AllRequests : asked' = r /\ StartSending("client", r.bytes)
  BY DEF Call
<1>2. pc["client"] = "idle" /\ UNCHANGED <<net, hdr, cuts>> /\ heard' = None /\ answer' = None
      /\ got' = None
  BY DEF Call
<1>3. Enter("client", "send") /\ out' = [out EXCEPT !["client"] = r.bytes]
  BY <1>1 DEF StartSending
<1>4. /\ pc'["client"] = "send" /\ pc'["server"] = pc["server"] /\ total'["server"] = total["server"]
  BY <1>3, InStepFacts, EnterEffect
<1>5. out'["server"] = out["server"]
  BY <1>3, InStepFacts DEF Types, Shapes
<1>6. Idle /\ Quiet
  BY <1>2, InStepFacts, RoundIdle
<1>7. ~(pc["server"] = "send" /\ InLoop("server"))
  BY <1>6, InStepFacts, QuietAnswers, ServerSends DEF Quiet, Waits, Sent, Last
<1>8. ~(pc["server"] = "send" /\ InLoop("server"))'
  BY <1>2, <1>4, <1>5, <1>7 DEF InLoop, Want
<1>9. ~Coming'
  BY <1>2, <1>4, <1>6 DEF Coming, Idle
<1>10. ~Answered'
  BY <1>8, <1>9 DEF Answered, Coming
<1>11. Phase' = "asked"
  BY <1>4, <1>10, InStepFacts DEF Phase, Open
<1>12. Phase = "idle"
  BY <1>2, InStepFacts, PhaseNames
<1>13. asked'.call \in {q.call : q \in AllRequests}
  BY <1>1
<1> QED BY <1>11, <1>12, <1>13 DEF TheRounds!Ask, InRound

\* send_msg of the client is part of asking,
LEMMA SendClientStays ==
    ASSUME InStep, Send("client")
    PROVE  UNCHANGED TheRounds!rvars
<1>1. /\ pc["client"] = "send" /\ UNCHANGED <<pc, out, buf, hdr, callvars>>
      /\ total'["server"] = total["server"] /\ net'["client"] = net["client"]
  BY InStepFacts, SendEffect
<1>2. Coming' <=> Coming
  BY <1>1 DEF Coming
<1>3. (pc["server"] = "send" /\ InLoop("server"))' <=> (pc["server"] = "send" /\ InLoop("server"))
  BY <1>1 DEF InLoop, Want
<1> QED BY <1>1, <1>2, <1>3, SameAnswered DEF callvars

\* its end as well,
LEMMA RequestSentStays ==
    ASSUME InStep, RequestSent
    PROVE  UNCHANGED TheRounds!rvars
<1>1. /\ pc["client"] = "send" /\ Enter("client", "hdr") /\ out' = [out EXCEPT !["client"] = <<>>]
      /\ UNCHANGED <<hdr, net, reset, callvars, cuts>>
  BY DEF RequestSent, Through
<1>2. /\ pc'["client"] = "hdr" /\ total'["client"] = 0
      /\ pc'["server"] = pc["server"] /\ total'["server"] = total["server"]
  BY <1>1, InStepFacts, EnterEffect
<1>3. out'["server"] = out["server"]
  BY <1>1, InStepFacts DEF Types, Shapes
<1>4. Coming' <=> Coming
  BY <1>1, <1>2 DEF Coming
<1>5. (pc["server"] = "send" /\ InLoop("server"))' <=> (pc["server"] = "send" /\ InLoop("server"))
  BY <1>1, <1>2, <1>3 DEF InLoop, Want
<1> QED BY <1>1, <1>2, <1>4, <1>5, SameAnswered DEF callvars

\* receiving the answer is part of answering,
LEMMA RecvClientStays ==
    ASSUME InStep, Recv("client")
    PROVE  UNCHANGED TheRounds!rvars
<1>1. /\ pc["client"] \in {"hdr", "body"} /\ total["client"] # Want("client") /\ net["client"] # <<>>
      /\ UNCHANGED <<pc, out, hdr, callvars>>
      /\ \A m : m = Least(Len(net["client"]), Want("client")) =>
            total'["client"] = Least(total["client"] + m, Want("client") + 1)
  BY InStepFacts, RecvEffect
<1>2. Answered
  BY <1>1 DEF Answered
<1>3. CASE pc["client"] = "body"
  <2>1. Answered'
    BY <1>1, <1>3 DEF Answered
  <2> QED BY <1>1, <1>2, <1>3, <2>1, SamePhase DEF callvars
<1>4. CASE pc["client"] = "hdr"
  <2>1. Want("client") = 8
    BY <1>4, InStepFacts, WantNat
  <2>2. PICK x, m : x = net["client"] /\ m = Least(Len(x), 8)
    OBVIOUS
  <2>3. x \in Bytes /\ x # <<>>
    BY <1>1, <2>2, InStepFacts DEF Types, Shapes
  <2>4. Len(x) \in Nat
    BY <2>3, BytesLen
  <2>5. Len(x) # 0
    BY <2>3, WholeSub
  <2>6. m \in Nat /\ m # 0
    BY <2>2, <2>4, <2>5 DEF Least
  <2>7. total["client"] \in Nat
    BY InStepFacts DEF Types, Shapes
  <2>8. total'["client"] = Least(total["client"] + m, 8 + 1)
    BY <1>1, <2>1, <2>2
  <2>9. total'["client"] # 0
    BY <2>6, <2>7, <2>8 DEF Least
  <2>10. Answered'
    BY <1>1, <1>4, <2>9 DEF Answered
  <2> QED BY <1>1, <1>2, <1>4, <2>10, SamePhase DEF callvars
<1> QED BY <1>1, <1>3, <1>4

\* and so is reading its header.
LEMMA ResponseHeaderStays ==
    ASSUME InStep, ResponseHeader
    PROVE  UNCHANGED TheRounds!rvars
<1>1. pc["client"] = "hdr" /\ total["client"] = 8
  BY InStepFacts, WantNat DEF ResponseHeader, Through
<1>2. Answered
  BY <1>1 DEF Answered
<1>3. ~CloseSocket("client")
  <2>1. CloseSocket("client") => Gone("client")'
    BY InStepFacts, CloseEffect DEF Gone
  <2>2. ~Gone("client")'
    BY InStepFacts DEF Open
  <2> QED BY <2>1, <2>2
<1>4. Enter("client", "body") /\ UNCHANGED <<out, net, reset, callvars, cuts>>
  BY <1>3 DEF ResponseHeader
<1>5. pc'["client"] = "body"
  BY <1>4, InStepFacts, EnterEffect
<1>6. Answered'
  BY <1>5 DEF Answered
<1> QED BY <1>1, <1>2, <1>4, <1>5, <1>6, SamePhase DEF callvars

\* The end of the client's recv_body takes the answer.
LEMMA ResponseBodyTakes ==
    ASSUME InStep, ResponseBody
    PROVE  TheRounds!Take
<1>1. got' = answer /\ pc'["client"] = "idle"
  BY ResponseBodyRound DEF InStep
<1>2. pc["client"] = "body"
  BY DEF ResponseBody, Through
<1>3. Answered
  BY <1>2 DEF Answered
<1>4. Phase = "answered"
  BY <1>2, <1>3, InStepFacts, PhaseNames
<1>5. Phase' = "idle"
  BY <1>1, InStepFacts DEF Phase, Open
<1> QED BY <1>1, <1>4, <1>5 DEF TheRounds!Take, InRound

-----------------------------------------------------------------------------

\* Sending the answer is part of answering,
LEMMA SendServerStays ==
    ASSUME InStep, Send("server")
    PROVE  UNCHANGED TheRounds!rvars
<1>1. /\ pc["server"] = "send" /\ total["server"] # Len(out["server"])
      /\ UNCHANGED <<pc, out, buf, hdr, callvars>> /\ total'["client"] = total["client"]
      /\ net'["client"] = net["client"] \o out["server"]
  BY InStepFacts, SendEffect
<1>2. ~Quiet
  BY <1>1, InStepFacts DEF Quiet, Waits, Sent, Last
<1>3. Expects /\ Ready
  BY <1>1, <1>2, InStepFacts, RoundSides
  DEF Pending, Unread, Ahead, HeaderHere, BodyAhead, BodyHere
<1>4. pc["client"] # "idle" /\ Answered
  BY <1>3, InStepFacts, ReadyAnswers DEF Expects, Listens
<1>5. net'["client"] = Reply /\ Len(Reply) >= 8
  <2>1. Reply \in Bytes /\ Len(Reply) >= 8
    BY <1>3, FittingBytes DEF Ready
  <2>2. <<>> \o Reply = Reply
    BY <2>1, WholeSub
  <2> QED BY <1>1, <1>3, <2>1, <2>2 DEF Expects, Ready
<1>6. net'["client"] # <<>>
  BY <1>5, EmptyBytes
<1>7. Answered'
  BY <1>6 DEF Answered
<1> QED BY <1>1, <1>4, <1>7, SamePhase DEF callvars

\* receiving the request is part of asking,
LEMMA RecvServerStays ==
    ASSUME InStep, Recv("server")
    PROVE  UNCHANGED TheRounds!rvars
<1>1. /\ pc["server"] \in {"hdr", "body"} /\ UNCHANGED <<pc, out, hdr, callvars>>
      /\ total'["client"] = total["client"] /\ net'["client"] = net["client"]
  BY InStepFacts, RecvEffect
<1>2. Coming' <=> Coming
  BY <1>1 DEF Coming
<1>3. ~(pc["server"] = "send") /\ ~(pc'["server"] = "send")
  BY <1>1
<1> QED BY <1>1, <1>2, <1>3, SameAnswered DEF callvars

\* and after the answer is sent the server only turns to the next request.
LEMMA ResponseSentStays ==
    ASSUME InStep, ResponseSent
    PROVE  UNCHANGED TheRounds!rvars
<1>1. ~CloseSocket("server")
  <2>1. CloseSocket("server") => Gone("server")'
    BY InStepFacts, CloseEffect DEF Gone
  <2>2. ~Gone("server")'
    BY InStepFacts DEF Open
  <2> QED BY <2>1, <2>2
<1>2. Enter("server", "hdr") /\ UNCHANGED <<net, reset, callvars, cuts>> /\ pc["server"] = "send"
      /\ total["server"] = Want("server")
  BY <1>1 DEF ResponseSent, Through
<1>3. /\ pc'["server"] = "hdr"
      /\ pc'["client"] = pc["client"] /\ total'["client"] = total["client"]
  BY <1>2, InStepFacts, EnterEffect
<1>4. Coming' <=> Coming
  BY <1>2, <1>3 DEF Coming
<1>5. ~InLoop("server") /\ ~(pc'["server"] = "send")
  BY <1>2, <1>3 DEF InLoop
<1> QED BY <1>2, <1>3, <1>4, <1>5, SameAnswered DEF callvars

\* A server with a request before it is in a round that has not been answered.
LEMMA AskedSoFar ==
    ASSUME InStep, ~Quiet, ~(pc["server"] = "send")
    PROVE  Phase = "asked" /\ pc["client"] # "idle" /\ ~Answered
<1>1. ~Ready
  BY DEF Ready
<1>2. Phase = "asked"
  BY <1>1, InStepFacts, Phases
<1> QED BY <1>2, PhaseNames

\* The server answers when it has made its answer ready,
LEMMA RespondAnswers ==
    ASSUME InStep, Phase = "asked", ClientSame, UNCHANGED <<asked, got>>, Ready', pc["client"] # "idle"
    PROVE  TheRounds!Answer
<1>1. Types'
  BY DEF InStep
<1>2. (Types /\ Ready => Answered)'
  BY ReadyAnswers, PTL
<1>3. Phase' = "answered"
  BY <1>1, <1>2, InStepFacts DEF Phase, Open, ClientSame
<1>4. answer' \in ResponsesTo(asked.call)
  BY DEF Ready, Fitting
<1> QED BY <1>3, <1>4 DEF TheRounds!Answer, InRound

\* behind the header when the version is wrong,
LEMMA RequestHeaderAnswers ==
    ASSUME InStep, RequestHeader
    PROVE  [TheRounds!RNext]_(TheRounds!rvars)
<1>1. /\ ~Quiet /\ Pending /\ ClientSame /\ UNCHANGED <<asked, heard, got>>
      /\ pc["server"] = "hdr" /\ ((pc'["server"] = "body" /\ answer' = answer) \/ Ready')
  BY RequestHeaderRound DEF InStep
<1>2. Phase = "asked" /\ pc["client"] # "idle" /\ ~Answered
  BY <1>1, AskedSoFar
<1>3. CASE Ready'
  <2>1. TheRounds!Answer
    BY <1>1, <1>2, <1>3, RespondAnswers
  <2> QED BY <2>1 DEF TheRounds!RNext
<1>4. CASE pc'["server"] = "body" /\ answer' = answer
  <2>1. Coming' <=> Coming
    BY <1>1 DEF Coming, ClientSame
  <2>2. ~(pc["server"] = "send") /\ ~(pc'["server"] = "send")
    BY <1>1, <1>4
  <2>3. pc'["client"] = pc["client"]
    BY <1>1 DEF ClientSame
  <2> QED BY <1>1, <1>4, <2>1, <2>2, <2>3, SameAnswered
<1> QED BY <1>1, <1>3, <1>4

\* or behind the body.
LEMMA RequestBodyAnswers ==
    ASSUME InStep, RequestBody
    PROVE  TheRounds!Answer
<1>1. /\ ~Quiet /\ ClientSame /\ UNCHANGED <<asked, got>> /\ pc["server"] = "body" /\ Ready'
  BY RequestBodyRound DEF InStep
<1>2. Phase = "asked" /\ pc["client"] # "idle"
  BY <1>1, AskedSoFar
<1> QED BY <1>1, <1>2, RespondAnswers

-----------------------------------------------------------------------------

\* Every step of an open connection of whole messages is one of Rounds or none.
LEMMA InStepPromised ==
    ASSUME InStep, WNext
    PROVE  [TheRounds!RNext]_(TheRounds!rvars)
<1>1. CASE Call
  BY <1>1, CallAsks DEF TheRounds!RNext
<1>2. ASSUME NEW e \in Ends, Send(e) PROVE UNCHANGED TheRounds!rvars
  BY <1>2, TheEnds, SendClientStays, SendServerStays
<1>3. ASSUME NEW e \in Ends, Recv(e) PROVE UNCHANGED TheRounds!rvars
  BY <1>3, TheEnds, RecvClientStays, RecvServerStays
<1>4. ASSUME NEW e \in Ends, CloseSocket(e) PROVE FALSE
  <2>1. Types /\ Open'
    BY DEF InStep, Before
  <2>2. Gone(e)'
    BY <1>4, <2>1, CloseEffect, TheEnds DEF Gone
  <2> QED BY <2>1, <2>2 DEF Open
<1>5. CASE RequestSent
  BY <1>5, RequestSentStays
<1>6. CASE ResponseHeader
  BY <1>6, ResponseHeaderStays
<1>7. CASE ResponseBody
  BY <1>7, ResponseBodyTakes DEF TheRounds!RNext
<1>8. CASE RequestHeader
  BY <1>8, RequestHeaderAnswers
<1>9. CASE RequestBody
  BY <1>9, RequestBodyAnswers DEF TheRounds!RNext
<1>10. CASE ResponseSent
  BY <1>10, ResponseSentStays
<1> QED
  BY <1>1, <1>2, <1>3, <1>4, <1>5, <1>6, <1>7, <1>8, <1>9, <1>10, TheEnds
  DEF WNext, ClientStep, ServerStep, Fail, Break

\* Every step is one of Rounds or none.
LEMMA NextRounds ==
    ASSUME Types, Types', WInv, WInv', [WNext]_vars
    PROVE  [TheRounds!RNext]_(TheRounds!rvars)
<1>1. cuts' = cuts \/ (cuts' = cuts + 1 /\ cuts' # 0)
  BY CutsGrow
<1>2. cuts \in Nat /\ cuts' \in Nat
  BY TransportAssumption DEF Types, Shapes
<1>3. CASE UNCHANGED vars
  <2>1. UNCHANGED <<asked, answer, got, pc, cuts, net, total, out, hdr>>
    BY <1>3 DEF vars
  <2>2. Phase' = Phase
    BY <2>1 DEF Phase, Gone, Answered, InLoop, Want
  <2> QED BY <2>1, <2>2, StaysInRound
<1>4. CASE ~Open
  <2>1. ~Open'
    BY <1>4, GoneStays DEF Open
  <2>2. Phase = "closed" /\ Phase' = "closed"
    BY <1>4, <2>1 DEF Phase, Open
  <2> QED BY <2>2 DEF TheRounds!rvars, InRound
<1>5. CASE Open /\ ~Open'
  BY <1>5, CloseIsClose DEF TheRounds!RNext
<1>6. CASE Open /\ Open' /\ cuts > 0
  <2>1. cuts' > 0
    BY <1>1, <1>2, <1>6
  <2>2. Phase = "lost" /\ Phase' = "lost"
    BY <1>6, <2>1 DEF Phase, Open
  <2> QED BY <2>2 DEF TheRounds!rvars, InRound
<1>7. CASE Open /\ Open' /\ ~(cuts > 0) /\ cuts' > 0
  BY <1>7, CutIsLose DEF TheRounds!RNext
<1>8. CASE Open /\ Open' /\ ~(cuts > 0) /\ ~(cuts' > 0) /\ WNext
  <2>1. cuts = 0 /\ cuts' = 0
    BY <1>2, <1>8
  <2>2. Round
    BY <2>1 DEF WInv
  <2>3. InStep
    BY <1>8, <2>1, <2>2 DEF InStep, Before
  <2> QED BY <1>8, <2>3, InStepPromised
<1> QED BY <1>3, <1>4, <1>5, <1>6, <1>7, <1>8

\* A new connection is idle.
LEMMA InitRounds == WInit => TheRounds!RInit
<1> SUFFICES ASSUME WInit PROVE TheRounds!RInit
  OBVIOUS
<1>1. pc["client"] = "idle" /\ cuts = 0 /\ got = None /\ Open
  BY TheEnds DEF WInit, Open, Gone
<1>2. Phase = "idle"
  BY <1>1 DEF Phase, Open
<1> QED BY <1>1, <1>2 DEF TheRounds!RInit, InRound

\* A connection implements Rounds: requests and responses alternate and each response
\* belongs to its request, for any number of calls, while messages come whole and until an
\* end closes (handle_client of server.cc, the calls of client.cc and
\* docs/chat262_protocol.md, "Communication rounds").
THEOREM ConnectionsImplementRounds == WSpec => ImplementsRounds
<1>1. WInit => TheRounds!RInit
  BY InitRounds
<1>2. ASSUME Types, Types', WInv, WInv', [WNext]_vars PROVE [TheRounds!RNext]_(TheRounds!rvars)
  BY <1>2, NextRounds
<1> QED BY <1>1, <1>2, WTypesHold, WInvHolds, PTL DEF WSpec, ImplementsRounds, TheRounds!RSpec
=============================================================================
