---------------------------- MODULE RotateProofs ----------------------------
(***************************************************************************)
(* The rotate circuit and the header decoder over the bytes of a header,   *)
(* for every length of hashes, keys and logs, every number of logs and     *)
(* authorities, and every block number of 32 bits.                         *)
(*                                                                         *)
(* At(bytes, from, part) says that part is found in bytes after the first  *)
(* `from` of them.  The proof follows the encoder to learn where each part *)
(* of a header is, and then the decoder, which finds the same places       *)
(* because the mode of a compact integer gives its length.                 *)
(***************************************************************************)
EXTENDS Rotate, WellFoundedInduction, FiniteSetTheorems, TLAPS

\* Every non-empty set of natural numbers has a least element.
LEMMA LeastNumber ==
    ASSUME NEW S, S \subseteq Nat, S # {}
    PROVE  \E m \in S : \A x \in S : m <= x
PROOF
<1> DEFINE less == OpToRel(<, Nat)
<1>1. IsWellFoundedOn(less, Nat)
  BY NatLessThanWellFounded
<1>2. PICK m \in S : \A y \in Nat : <<y, m>> \in less => ~ (y \in S)
  BY <1>1, WFMin
<1>3. ASSUME NEW x \in S, x < m PROVE FALSE
  <2>1. <<x, m>> \in less
    BY <1>3 DEF OpToRel
  <2> QED BY <1>2, <2>1
<1> QED BY <1>3

\* A set of natural numbers that has 0 and the successors of its elements up
\* to n has all numbers up to n.
LEMMA UpTo ==
    ASSUME NEW n \in Nat, NEW S, 0 \in S,
           \A k \in 0 .. n - 1 : k \in S => k + 1 \in S
    PROVE  \A k \in 0 .. n : k \in S
PROOF
<1> DEFINE T == {k \in 0 .. n : k \notin S}
<1> SUFFICES ASSUME T # {} PROVE FALSE
  OBVIOUS
<1>1. PICK m \in T : \A x \in T : m <= x
  <2>1. T \subseteq Nat
    OBVIOUS
  <2> HIDE DEF T
  <2> QED BY <2>1, LeastNumber
<1>2. m \in 1 .. n /\ m - 1 \in 0 .. n - 1 /\ m - 1 \notin T /\ (m - 1) + 1 = m
  BY <1>1
<1> QED BY <1>1, <1>2

-----------------------------------------------------------------------------
(* Parts of byte sequences.                                                *)

\* The bytes of part follow the first `from` bytes of bytes.
At(bytes, from, part) ==
    /\ from + Len(part) <= Len(bytes)
    /\ \A j \in 1 .. Len(part) : bytes[from + j] = part[j]

\* Types, length and elements of a concatenation.
LEMMA Concat ==
    ASSUME NEW s \in Seq(Byte), NEW t \in Seq(Byte)
    PROVE  /\ s \o t \in Seq(Byte)
           /\ Len(s \o t) = Len(s) + Len(t)
           /\ Len(s) \in Nat /\ Len(t) \in Nat
           /\ \A j \in 1 .. Len(s) : (s \o t)[j] = s[j]
           /\ \A j \in 1 .. Len(t) : (s \o t)[Len(s) + j] = t[j]
PROOF
<1>1. s \o t \in Seq(Byte) /\ Len(s \o t) = Len(s) + Len(t) /\ Len(s) \in Nat /\ Len(t) \in Nat
  OBVIOUS
<1>2. ASSUME NEW j \in 1 .. Len(s) PROVE (s \o t)[j] = s[j]
  OBVIOUS
<1>3. ASSUME NEW j \in 1 .. Len(t) PROVE (s \o t)[Len(s) + j] = t[j]
  OBVIOUS
<1> QED BY <1>1, <1>2, <1>3

\* A sequence is a part of itself.
LEMMA AtSelf ==
    ASSUME NEW s \in Seq(Byte)
    PROVE  At(s, 0, s)
BY DEF At

\* A part of the left half of a concatenation.
LEMMA AtLeft ==
    ASSUME NEW s \in Seq(Byte), NEW t \in Seq(Byte), NEW p \in Seq(Byte),
           NEW from \in Nat, At(s, from, p)
    PROVE  At(s \o t, from, p)
PROOF
<1>1. from + Len(p) <= Len(s) /\ Len(p) \in Nat
  BY DEF At
<1>2. ASSUME NEW j \in 1 .. Len(p) PROVE (s \o t)[from + j] = p[j]
  <2>1. from + j \in 1 .. Len(s) /\ s[from + j] = p[j]
    BY <1>1 DEF At
  <2> QED BY <2>1, Concat
<1> QED BY <1>1, <1>2, Concat DEF At

\* A part of the right half of a concatenation.
LEMMA AtRight ==
    ASSUME NEW s \in Seq(Byte), NEW t \in Seq(Byte), NEW p \in Seq(Byte),
           NEW from \in Nat, At(t, from, p)
    PROVE  At(s \o t, Len(s) + from, p)
PROOF
<1>1. from + Len(p) <= Len(t) /\ Len(p) \in Nat /\ Len(s) \in Nat /\ Len(t) \in Nat
  BY DEF At
<1>2. ASSUME NEW j \in 1 .. Len(p) PROVE (s \o t)[(Len(s) + from) + j] = p[j]
  <2>1. from + j \in 1 .. Len(t) /\ t[from + j] = p[j]
    BY <1>1 DEF At
  <2>2. (s \o t)[Len(s) + (from + j)] = p[j]
    BY <2>1, Concat
  <2> QED BY <1>1, <2>2
<1> QED BY <1>1, <1>2, Concat DEF At

\* The second half of a concatenation.
LEMMA AtEnd ==
    ASSUME NEW s \in Seq(Byte), NEW t \in Seq(Byte)
    PROVE  At(s \o t, Len(s), t)
PROOF
<1>1. At(s \o t, Len(s) + 0, t)
  BY AtSelf, AtRight
<1> QED BY <1>1

\* A part of a part.
LEMMA AtAt ==
    ASSUME NEW s \in Seq(Byte), NEW q \in Seq(Byte), NEW p \in Seq(Byte),
           NEW m \in Nat, NEW n \in Nat, At(s, m, q), At(q, n, p)
    PROVE  At(s, m + n, p)
PROOF
<1>1. /\ n + Len(p) <= Len(q) /\ m + Len(q) <= Len(s)
      /\ Len(p) \in Nat /\ Len(q) \in Nat /\ Len(s) \in Nat
  BY DEF At
<1>2. ASSUME NEW j \in 1 .. Len(p) PROVE s[(m + n) + j] = p[j]
  <2>1. n + j \in 1 .. Len(q) /\ q[n + j] = p[j] /\ m + (n + j) = (m + n) + j
    BY <1>1 DEF At
  <2>2. s[m + (n + j)] = q[n + j]
    BY <2>1 DEF At
  <2> QED BY <2>1, <2>2
<1> QED BY <1>1, <1>2 DEF At

\* What Subarray reads.
LEMMA Reads ==
    ASSUME NEW s \in Seq(Byte), NEW from \in Nat, NEW n \in Nat, from + n <= Len(s)
    PROVE  /\ Subarray(s, from, n) \in Seq(Byte)
           /\ Len(Subarray(s, from, n)) = n
           /\ \A j \in 1 .. n : Subarray(s, from, n)[j] = s[from + j]
PROOF
<1>1. \A j \in from + 1 .. from + n : s[j] \in Byte
  OBVIOUS
<1>2. Subarray(s, from, n) \in Seq(Byte) /\ Len(Subarray(s, from, n)) = n
  BY <1>1 DEF Subarray
<1>3. ASSUME NEW j \in 1 .. n PROVE Subarray(s, from, n)[j] = s[from + j]
  BY DEF Subarray
<1> QED BY <1>2, <1>3

\* Equal lengths and equal elements make equal sequences.
LEMMA SameBytes ==
    ASSUME NEW s \in Seq(Byte), NEW t \in Seq(Byte), Len(s) = Len(t),
           \A j \in 1 .. Len(t) : s[j] = t[j]
    PROVE  s = t
OBVIOUS

\* Subarray reads the part that is there.
LEMMA ReadsPart ==
    ASSUME NEW s \in Seq(Byte), NEW p \in Seq(Byte), NEW from \in Nat, At(s, from, p)
    PROVE  Subarray(s, from, Len(p)) = p
PROOF
<1>1. from + Len(p) <= Len(s) /\ Len(p) \in Nat
  BY DEF At
<1>2. ASSUME NEW j \in 1 .. Len(p) PROVE Subarray(s, from, Len(p))[j] = p[j]
  <2>1. Subarray(s, from, Len(p))[j] = s[from + j]
    BY <1>1, Reads
  <2> QED BY <2>1 DEF At
<1>3. Subarray(s, from, Len(p)) \in Seq(Byte) /\ Len(Subarray(s, from, Len(p))) = Len(p)
  BY <1>1, Reads
<1> QED BY <1>2, <1>3, SameBytes

\* A part of what is read.
LEMMA AtRead ==
    ASSUME NEW s \in Seq(Byte), NEW p \in Seq(Byte), NEW from \in Nat, NEW n \in Nat,
           NEW m \in Nat, from + n <= Len(s), m + Len(p) <= n, At(s, from + m, p)
    PROVE  At(Subarray(s, from, n), m, p)
PROOF
<1>1. Len(p) \in Nat
  OBVIOUS
<1>2. ASSUME NEW j \in 1 .. Len(p) PROVE Subarray(s, from, n)[m + j] = p[j]
  <2>1. m + j \in 1 .. n /\ from + (m + j) = (from + m) + j
    BY <1>1
  <2>2. Subarray(s, from, n)[m + j] = s[from + (m + j)]
    BY <2>1, Reads
  <2> QED BY <2>1, <2>2 DEF At
<1>3. Len(Subarray(s, from, n)) = n
  BY Reads
<1> QED BY <1>2, <1>3 DEF At

\* Bytes of a fixed length are a sequence.
LEMMA ArrayIsSeq ==
    ASSUME NEW n \in Nat, NEW s \in ByteArray(n)
    PROVE  s \in Seq(Byte) /\ Len(s) = n
BY DEF ByteArray, Byte

\* Bytes that are all zero.
LEMMA ZerosFacts ==
    ASSUME NEW n \in Int
    PROVE  /\ Zeros(n) \in Seq(Byte)
           /\ n \in Nat => Len(Zeros(n)) = n
           /\ n \notin Nat => Zeros(n) = <<>>
           /\ \A j \in 1 .. n : Zeros(n)[j] = 0
PROOF
<1>1. CASE n \in Nat
  <2>1. Zeros(n) \in ByteArray(n)
    BY DEF Zeros, ByteArray, Byte
  <2> QED BY <1>1, <2>1, ArrayIsSeq DEF Zeros
<1>2. CASE n \notin Nat
  <2>1. 1 .. n = {}
    BY <1>2
  <2>2. Zeros(n) = <<>>
    BY <2>1 DEF Zeros
  <2> QED BY <1>2, <2>1, <2>2
<1> QED BY <1>1, <1>2

-----------------------------------------------------------------------------
(* Numbers.                                                                *)

LEMMA Powers ==
    /\ 2 ^ 6 = 64 /\ 2 ^ 14 = 16384 /\ 2 ^ 16 = 65536 /\ 2 ^ 30 = 1073741824
    /\ 256 ^ 0 = 1 /\ 256 ^ 1 = 256 /\ 256 ^ 2 = 65536 /\ 256 ^ 3 = 16777216
OBVIOUS

\* s has the digits of n in base 256, as many as there is room for.
DigitsOf(s, n, size) ==
    /\ size >= 1 => s[1] = n % 256
    /\ size >= 2 => s[2] = (n \div 256) % 256
    /\ size >= 3 => s[3] = (n \div 65536) % 256
    /\ size >= 4 => s[4] = (n \div 16777216) % 256

\* The bytes of a little endian number.
LEMMA LittleEndianBytes ==
    ASSUME NEW n \in Nat, NEW size \in Nat
    PROVE  /\ LittleEndian(n, size) \in ByteArray(size)
           /\ DigitsOf(LittleEndian(n, size), n, size)
PROOF
<1> DEFINE d == [i \in 1 .. size |-> IF i <= 4 THEN (n \div 256 ^ (i - 1)) % 256 ELSE 0]
<1>1. \A i \in 1 .. 4 : (n \div 256 ^ (i - 1)) % 256 \in Byte
  <2> SUFFICES ASSUME NEW i \in 1 .. 4 PROVE (n \div 256 ^ (i - 1)) % 256 \in Byte
    OBVIOUS
  <2>1. n % 256 \in Byte /\ (n \div 256) % 256 \in Byte /\ (n \div 65536) % 256 \in Byte
        /\ (n \div 16777216) % 256 \in Byte
    BY DEF Byte
  <2>2. i = 1 \/ i = 2 \/ i = 3 \/ i = 4
    OBVIOUS
  <2>3. CASE i = 1
    BY <2>1, <2>3, Powers
  <2>4. CASE i = 2
    BY <2>1, <2>4, Powers
  <2>5. CASE i = 3
    BY <2>1, <2>5, Powers
  <2>6. CASE i = 4
    BY <2>1, <2>6, Powers
  <2> QED BY <2>2, <2>3, <2>4, <2>5, <2>6
<1>2. ASSUME NEW i \in 1 .. size
      PROVE  (IF i <= 4 THEN (n \div 256 ^ (i - 1)) % 256 ELSE 0) \in Byte
  <2>1. CASE i <= 4
    <3>1. i \in 1 .. 4
      BY <2>1
    <3> QED BY <1>1, <2>1, <3>1
  <2>2. CASE ~ (i <= 4)
    BY <2>2 DEF Byte
  <2> QED BY <2>1, <2>2
<1>3. d \in ByteArray(size)
  BY <1>2 DEF ByteArray
<1>4. LittleEndian(n, size) = d
  BY DEF LittleEndian
<1>5. size >= 1 => d[1] = n % 256
  BY Powers
<1>6. size >= 2 => d[2] = (n \div 256) % 256
  BY Powers
<1>7. size >= 3 => d[3] = (n \div 65536) % 256
  BY Powers
<1>8. size >= 4 => d[4] = (n \div 16777216) % 256
  BY Powers
<1> QED BY <1>3, <1>4, <1>5, <1>6, <1>7, <1>8 DEF DigitsOf

\* They are a sequence.
LEMMA LittleEndianSeq ==
    ASSUME NEW n \in Nat, NEW size \in Nat
    PROVE  LittleEndian(n, size) \in Seq(Byte) /\ Len(LittleEndian(n, size)) = size
PROOF
<1>1. LittleEndian(n, size) \in ByteArray(size)
  BY LittleEndianBytes
<1> QED BY <1>1, ArrayIsSeq

\* A byte of a sequence.
LEMMA ByteOf ==
    ASSUME NEW s \in Seq(Byte), NEW j \in 1 .. Len(s)
    PROVE  s[j] \in Nat /\ s[j] <= 255
PROOF
<1>1. s[j] \in Byte
  OBVIOUS
<1>2. \A x \in Byte : x \in Nat /\ x <= 255
  BY DEF Byte
<1> QED BY <1>1, <1>2

\* Byte i of n, or 0 past the end.
ByteOrZero(s, n, i) == IF i <= n THEN s[i] ELSE 0

\* The number that the first n of up to four bytes stand for.
ValueOf(s, n) ==
    ByteOrZero(s, n, 1) + 256 * (ByteOrZero(s, n, 2)
        + 256 * (ByteOrZero(s, n, 3) + 256 * ByteOrZero(s, n, 4)))

\* The number that up to four bytes stand for: the recursive sum has a
\* solution, and its first value is this.
LEMMA FromBytes ==
    ASSUME NEW s \in Seq(Byte), NEW n \in 0 .. 4, Len(s) = n
    PROVE  FromLittleEndian(s) = ValueOf(s, n)
PROOF
<1> DEFINE B(j) == ByteOrZero(s, n, j)
           Sums(f) == f = [i \in 1 .. n + 1 |->
                              IF i > n THEN 0 ELSE s[i] + 256 * f[i + 1]]
           f == CHOOSE f : Sums(f)
           h4 == B(4)
           h3 == B(3) + 256 * h4
           h2 == B(2) + 256 * h3
           h1 == B(1) + 256 * h2
           v == <<h1, h2, h3, h4, 0>>
           h == [i \in 1 .. n + 1 |-> v[i]]
<1>1. ASSUME NEW j \in 1 .. 4
      PROVE  B(j) \in Nat /\ (j <= n => B(j) = s[j]) /\ (j > n => B(j) = 0)
  <2>1. CASE j <= n
    <3>1. j \in 1 .. Len(s)
      BY <2>1
    <3>2. s[j] \in Nat
      BY <3>1, ByteOf
    <3>3. B(j) = s[j] /\ ~ (j > n)
      BY <2>1 DEF ByteOrZero
    <3> HIDE DEF B
    <3> QED BY <3>2, <3>3
  <2>2. CASE ~ (j <= n)
    BY <2>2 DEF ByteOrZero
  <2> QED BY <2>1, <2>2
<1> HIDE DEF B, h1, h2, h3, h4
<1>2. h4 \in Nat /\ (n <= 3 => h4 = 0) /\ (n > 3 => h4 = s[4])
  BY <1>1 DEF h4
<1>3. h3 \in Nat /\ (n <= 2 => h3 = 0) /\ (n > 2 => h3 = s[3] + 256 * h4)
  BY <1>1, <1>2 DEF h3
<1>4. h2 \in Nat /\ (n <= 1 => h2 = 0) /\ (n > 1 => h2 = s[2] + 256 * h3)
  BY <1>1, <1>3 DEF h2
<1>5. h1 \in Nat /\ (n <= 0 => h1 = 0) /\ (n > 0 => h1 = s[1] + 256 * h2)
  BY <1>1, <1>4 DEF h1
<1>6. Sums(h)
  <2>1. v[1] = h1 /\ v[2] = h2 /\ v[3] = h3 /\ v[4] = h4 /\ v[5] = 0
    OBVIOUS
  <2> HIDE DEF v
  <2>2. ASSUME NEW i \in 1 .. n + 1
        PROVE  v[i] = (IF i > n THEN 0 ELSE s[i] + 256 * v[i + 1])
    <3>1. CASE i = 1
      BY <1>5, <2>1, <3>1
    <3>2. CASE i = 2
      BY <1>4, <2>1, <3>2
    <3>3. CASE i = 3
      BY <1>3, <2>1, <3>3
    <3>4. CASE i = 4
      BY <1>1, <1>2, <2>1, <3>4
    <3>5. CASE i = 5
      BY <2>1, <3>5
    <3> QED BY <3>1, <3>2, <3>3, <3>4, <3>5
  <2>3. ASSUME NEW i \in 1 .. n + 1
        PROVE  h[i] = (IF i > n THEN 0 ELSE s[i] + 256 * h[i + 1])
    <3>1. i <= n => i + 1 \in 1 .. n + 1
      OBVIOUS
    <3> QED BY <2>2, <3>1
  <2> QED BY <2>3
<1>7. Sums(f)
  BY <1>6
<1>8. FromLittleEndian(s) = f[1]
  BY DEF FromLittleEndian
<1> HIDE DEF f
<1>9. \A i \in 1 .. n + 1 : f[i] = (IF i > n THEN 0 ELSE s[i] + 256 * f[i + 1])
  BY <1>7
<1>10. n > 3 => f[4] = h4
  <2>1. n > 3 => f[5] = 0 /\ f[4] = s[4] + 256 * f[5]
    BY <1>9
  <2> QED BY <1>2, <2>1
<1>11. n > 2 => f[3] = h3
  <2>1. n > 2 => f[3] = s[3] + 256 * f[4]
    BY <1>9
  <2>2. n = 3 => f[4] = 0
    BY <1>9
  <2> QED BY <1>2, <1>3, <1>10, <2>1, <2>2
<1>12. n > 1 => f[2] = h2
  <2>1. n > 1 => f[2] = s[2] + 256 * f[3]
    BY <1>9
  <2>2. n = 2 => f[3] = 0
    BY <1>9
  <2> QED BY <1>3, <1>4, <1>11, <2>1, <2>2
<1>13. f[1] = h1
  <2>1. n > 0 => f[1] = s[1] + 256 * f[2]
    BY <1>9
  <2>2. (n = 1 => f[2] = 0) /\ (n = 0 => f[1] = 0)
    BY <1>9
  <2> QED BY <1>4, <1>5, <1>12, <2>1, <2>2
<1> QED BY <1>8, <1>13 DEF h1, h2, h3, h4, B, ValueOf

-----------------------------------------------------------------------------
(* Compact integers.                                                       *)

\* The encoding is one of four, told apart by the mode.
LEMMA CompactIs ==
    ASSUME NEW n \in Nat
    PROVE  /\ n < 64 => Compact(n) = WithMode(n, 0, 1)
           /\ n >= 64 /\ n < 16384 => Compact(n) = WithMode(n, 1, 2)
           /\ n >= 16384 /\ n < 1073741824 => Compact(n) = WithMode(n, 2, 4)
           /\ n >= 1073741824 => Compact(n) = <<3>> \o LittleEndian(n, 4)
PROOF
<1> DEFINE c == CASE n < 64 -> WithMode(n, 0, 1)
                  [] n >= 64 /\ n < 16384 -> WithMode(n, 1, 2)
                  [] n >= 16384 /\ n < 1073741824 -> WithMode(n, 2, 4)
                  [] OTHER -> <<3>> \o LittleEndian(n, 4)
<1>1. Compact(n) = c
  BY Powers DEF Compact
<1>2. n < 64 => c = WithMode(n, 0, 1)
  OBVIOUS
<1>3. n >= 64 /\ n < 16384 => c = WithMode(n, 1, 2)
  OBVIOUS
<1>4. n >= 16384 /\ n < 1073741824 => c = WithMode(n, 2, 4)
  OBVIOUS
<1>5. n >= 1073741824 => c = <<3>> \o LittleEndian(n, 4)
  OBVIOUS
<1> QED BY <1>1, <1>2, <1>3, <1>4, <1>5

\* The bytes of an encoding with a first byte.
LEMMA FirstAndRest ==
    ASSUME NEW first \in Byte, NEW n \in Nat, NEW size \in Nat
    PROVE  /\ <<first>> \o LittleEndian(n, size) \in Seq(Byte)
           /\ Len(<<first>> \o LittleEndian(n, size)) = size + 1
           /\ (<<first>> \o LittleEndian(n, size))[1] = first
           /\ \A j \in 1 .. size :
                  (<<first>> \o LittleEndian(n, size))[1 + j] = LittleEndian(n, size)[j]
PROOF
<1> DEFINE s == <<first>>
           rest == LittleEndian(n, size)
<1>1. s \in Seq(Byte) /\ Len(s) = 1 /\ s[1] = first
  OBVIOUS
<1>2. rest \in Seq(Byte) /\ Len(rest) = size
  BY LittleEndianSeq
<1> HIDE DEF s, rest
<1>3. /\ s \o rest \in Seq(Byte) /\ Len(s \o rest) = Len(s) + Len(rest)
      /\ \A j \in 1 .. Len(s) : (s \o rest)[j] = s[j]
      /\ \A j \in 1 .. Len(rest) : (s \o rest)[Len(s) + j] = rest[j]
  BY <1>1, <1>2, Concat
<1>4. s \o rest \in Seq(Byte) /\ Len(s \o rest) = size + 1
  BY <1>1, <1>2, <1>3
<1>5. (s \o rest)[1] = first
  BY <1>1, <1>3
<1>6. \A j \in 1 .. size : (s \o rest)[1 + j] = rest[j]
  BY <1>1, <1>2, <1>3
<1> QED BY <1>4, <1>5, <1>6 DEF s, rest

\* The first byte of modes 0 to 2.
LEMMA FirstByte ==
    ASSUME NEW n \in Nat, NEW mode \in 0 .. 2
    PROVE  /\ 4 * (n % 64) + mode \in Byte
           /\ (4 * (n % 64) + mode) % 4 = mode
           /\ (4 * (n % 64) + mode) \div 4 = n % 64
PROOF
<1>1. n % 64 \in 0 .. 63
  OBVIOUS
<1>2. ASSUME NEW m \in 0 .. 63
      PROVE  4 * m + mode \in Byte /\ (4 * m + mode) % 4 = mode /\ (4 * m + mode) \div 4 = m
  BY DEF Byte
<1> QED BY <1>1, <1>2

\* What the length and the mode of encoded bytes have to do with each other.
\* For mode 3 the rest of the first byte is 0.
GoodMode(c) ==
    /\ c \in Seq(Byte)
    /\ c[1] % 4 \in 0 .. 3
    /\ Len(c) \in {1, 2, 4, 5} /\ Len(c) = <<1, 2, 4, 5>>[(c[1] % 4) + 1]
    /\ c[1] % 4 = 3 => c[1] \div 4 = 0

\* An encoding with mode 0, 1 or 2.
LEMMA GoodWithMode ==
    ASSUME NEW n \in Nat, NEW mode \in 0 .. 2, NEW size \in {1, 2, 4},
           size = <<1, 2, 4, 5>>[mode + 1]
    PROVE  GoodMode(WithMode(n, mode, size))
PROOF
<1> DEFINE c == WithMode(n, mode, size)
<1>1. PICK first \in Byte :
          first = 4 * (n % 64) + mode /\ first % 4 = mode
  BY FirstByte
<1>2. PICK k \in Nat : k = n \div 64
  OBVIOUS
<1>3. PICK m \in Nat : m = size - 1 /\ m + 1 = size
  OBVIOUS
<1>4. c = <<first>> \o LittleEndian(k, m)
  BY <1>1, <1>2, <1>3 DEF WithMode
<1> HIDE DEF c
<1>5. c \in Seq(Byte) /\ Len(c) = m + 1 /\ c[1] = first
  BY <1>4, FirstAndRest
<1>6. Len(c) = size /\ c[1] % 4 = mode
  BY <1>1, <1>3, <1>5
<1>7. mode \in 0 .. 3 /\ mode # 3 /\ size \in {1, 2, 4, 5}
  OBVIOUS
<1>8. GoodMode(c)
  BY <1>5, <1>6, <1>7 DEF GoodMode
<1> QED BY <1>8 DEF c

\* The length of a compact integer is the one that its mode says.
LEMMA CompactMode ==
    ASSUME NEW n \in Nat
    PROVE  GoodMode(Compact(n))
PROOF
<1>1. <<1, 2, 4, 5>>[0 + 1] = 1 /\ <<1, 2, 4, 5>>[1 + 1] = 2 /\ <<1, 2, 4, 5>>[2 + 1] = 4
      /\ <<1, 2, 4, 5>>[3 + 1] = 5
  OBVIOUS
<1>2. CASE n < 64
  <2>1. GoodMode(WithMode(n, 0, 1))
    BY <1>1, GoodWithMode
  <2> QED BY <1>2, <2>1, CompactIs
<1>3. CASE n >= 64 /\ n < 16384
  <2>1. GoodMode(WithMode(n, 1, 2))
    BY <1>1, GoodWithMode
  <2> QED BY <1>3, <2>1, CompactIs
<1>4. CASE n >= 16384 /\ n < 1073741824
  <2>1. GoodMode(WithMode(n, 2, 4))
    BY <1>1, GoodWithMode
  <2> QED BY <1>4, <2>1, CompactIs
<1>5. CASE n >= 1073741824
  <2> DEFINE c == <<3>> \o LittleEndian(n, 4)
  <2>1. PICK first \in Byte : first = 3
    BY DEF Byte
  <2>2. PICK k \in Nat : k = 4
    OBVIOUS
  <2>3. /\ <<first>> \o LittleEndian(n, k) \in Seq(Byte)
        /\ Len(<<first>> \o LittleEndian(n, k)) = k + 1
        /\ (<<first>> \o LittleEndian(n, k))[1] = first
    BY FirstAndRest
  <2>5. c = <<first>> \o LittleEndian(n, k)
    BY <2>1, <2>2
  <2> HIDE DEF c
  <2>6. c \in Seq(Byte) /\ Len(c) = 5 /\ c[1] = 3
    BY <2>1, <2>2, <2>3, <2>5
  <2>7. 3 % 4 = 3 /\ 3 \div 4 = 0 /\ 3 \in 0 .. 3 /\ 5 \in {1, 2, 4, 5}
    OBVIOUS
  <2>4. GoodMode(c)
    BY <1>1, <2>6, <2>7 DEF GoodMode
  <2>8. Compact(n) = c
    BY <1>5, CompactIs DEF c
  <2> QED BY <2>4, <2>8
<1> QED BY <1>2, <1>3, <1>4, <1>5

\* n has no more digits than m, in base 256.
Room(n, m) ==
    /\ m = 1 => n < 256
    /\ m = 3 => n \div 65536 < 256
    /\ m = 4 => IsU32(n)

\* Little endian bytes are read back.
LEMMA ReadsBack ==
    ASSUME NEW n \in Nat, NEW m \in 1 .. 4, m # 2, Room(n, m)
    PROVE  FromLittleEndian(LittleEndian(n, m)) = n
PROOF
<1> DEFINE s == LittleEndian(n, m)
           B(j) == ByteOrZero(s, m, j)
<1>1. m \in Nat
  OBVIOUS
<1>10. m \in 0 .. 4
  OBVIOUS
<1>2. s \in Seq(Byte) /\ Len(s) = m
  BY <1>1, LittleEndianSeq, Zenon
<1>3. FromLittleEndian(s) = B(1) + 256 * (B(2) + 256 * (B(3) + 256 * B(4)))
  <2>1. FromLittleEndian(s) = ValueOf(s, m)
    <3> HIDE DEF s
    <3> QED BY <1>2, <1>10, FromBytes, Zenon
  <2> QED BY <2>1 DEF ValueOf
<1>4. /\ s[1] = n % 256
      /\ m >= 2 => s[2] = (n \div 256) % 256
      /\ m >= 3 => s[3] = (n \div 65536) % 256
      /\ m >= 4 => s[4] = (n \div 16777216) % 256
  <2>1. DigitsOf(s, n, m)
    BY <1>1, LittleEndianBytes
  <2>2. m >= 1
    OBVIOUS
  <2> HIDE DEF s
  <2> QED BY <2>1, <2>2 DEF DigitsOf
<1> HIDE DEF s
<1>5. /\ B(1) = n % 256
      /\ B(2) = IF m >= 2 THEN (n \div 256) % 256 ELSE 0
      /\ B(3) = IF m >= 3 THEN (n \div 65536) % 256 ELSE 0
      /\ B(4) = IF m >= 4 THEN (n \div 16777216) % 256 ELSE 0
  BY <1>4 DEF ByteOrZero
<1> HIDE DEF B
<1>6. CASE m = 1
  <2>1. B(1) = n % 256 /\ B(2) = 0 /\ B(3) = 0 /\ B(4) = 0
    BY <1>5, <1>6
  <2>2. n < 256
    BY <1>6 DEF Room
  <2> QED BY <1>3, <2>1, <2>2 DEF s
<1>7. CASE m = 3
  <2>1. /\ B(1) = n % 256 /\ B(2) = (n \div 256) % 256
        /\ B(3) = (n \div 65536) % 256 /\ B(4) = 0
    BY <1>5, <1>7
  <2>2. n \div 65536 < 256
    BY <1>7 DEF Room
  <2>3. (n % 256) + 256 * (((n \div 256) % 256) + 256 * (((n \div 65536) % 256) + 256 * 0)) = n
    BY <2>2
  <2> QED BY <1>3, <2>1, <2>3 DEF s
<1>8. CASE m = 4
  <2>1. /\ B(1) = n % 256 /\ B(2) = (n \div 256) % 256
        /\ B(3) = (n \div 65536) % 256 /\ B(4) = (n \div 16777216) % 256
    BY <1>5, <1>8
  <2>2. n \div 65536 < 65536
    BY <1>8, Powers DEF Room, IsU32
  <2>3. (n % 256) + 256 * (((n \div 256) % 256) + 256 * (((n \div 65536) % 256)
            + 256 * ((n \div 16777216) % 256))) = n
    BY <2>2
  <2> QED BY <1>3, <2>1, <2>3 DEF s
<1>9. m = 1 \/ m = 3 \/ m = 4
  OBVIOUS
<1> QED BY <1>6, <1>7, <1>8, <1>9

\* What follows the first byte.
LEMMA AfterFirst ==
    ASSUME NEW w \in Seq(Byte), NEW first \in Byte, NEW n \in Nat, NEW m \in Nat,
           At(w, 0, <<first>> \o LittleEndian(n, m))
    PROVE  w[1] = first /\ Subarray(w, 1, m) = LittleEndian(n, m)
PROOF
<1> DEFINE s == <<first>>
           rest == LittleEndian(n, m)
           all == s \o rest
<1>1. s \in Seq(Byte) /\ Len(s) = 1
  OBVIOUS
<1>2. rest \in Seq(Byte) /\ Len(rest) = m
  BY LittleEndianSeq
<1>3. all[1] = first /\ Len(all) = m + 1 /\ all \in Seq(Byte)
  BY FirstAndRest
<1>4. At(w, 0, all)
  OBVIOUS
<1>5. w[0 + 1] = all[1]
  <2> HIDE DEF all
  <2>1. 1 \in 1 .. Len(all)
    BY <1>3
  <2> QED BY <1>4, <2>1 DEF At
<1> HIDE DEF s, rest
<1>6. At(all, 1, rest)
  BY <1>1, <1>2, AtEnd
<1> HIDE DEF all
<1>7. At(w, 0 + 1, rest)
  BY <1>2, <1>3, <1>4, <1>6, AtAt
<1>8. Subarray(w, 1, Len(rest)) = rest
  BY <1>2, <1>7, ReadsPart
<1> QED BY <1>2, <1>3, <1>5, <1>8 DEF rest

\* decode_compact_int reads an integer of 32 bits back.
LEMMA CompactValue ==
    ASSUME NEW w \in Seq(Byte), NEW n \in Nat, IsU32(n), At(w, 0, Compact(n))
    PROVE  decode_compact_int(w) = n
PROOF
<1> DEFINE upper == w[1] \div 4
           with(k) == upper + 64 * FromLittleEndian(Subarray(w, 1, k))
           value == CASE compress_mode(w) = 0 -> upper
                      [] compress_mode(w) = 1 -> with(1)
                      [] compress_mode(w) = 2 -> with(3)
                      [] OTHER -> FromLittleEndian(Subarray(w, 1, 4))
<1>1. decode_compact_int(w) = value
  BY DEF decode_compact_int
<1>3. PICK k \in Nat : k = n \div 64
  OBVIOUS
<1>4. (n % 64) + 64 * k = n /\ n % 64 \in 0 .. 63
  BY <1>3
<1>5. ASSUME NEW mode \in 0 .. 2, NEW size \in Nat, NEW m \in Nat, m = size - 1,
             Compact(n) = WithMode(n, mode, size)
      PROVE  compress_mode(w) = mode /\ upper = n % 64 /\ Subarray(w, 1, m) = LittleEndian(k, m)
  <2>1. PICK first \in Byte :
            first = 4 * (n % 64) + mode /\ first % 4 = mode /\ first \div 4 = n % 64
    BY FirstByte
  <2>2. Compact(n) = <<first>> \o LittleEndian(k, m)
    BY <1>3, <1>5, <2>1 DEF WithMode
  <2>3. w[1] = first /\ Subarray(w, 1, m) = LittleEndian(k, m)
    BY <2>2, AfterFirst
  <2> QED BY <2>1, <2>3 DEF compress_mode
<1>6. CASE n < 64
  <2>1. compress_mode(w) = 0 /\ upper = n % 64
    <3>1. PICK m \in Nat : m = 1 - 1
      OBVIOUS
    <3>2. Compact(n) = WithMode(n, 0, 1)
      BY <1>6, CompactIs
    <3> QED BY <1>5, <3>1, <3>2
  <2>2. n % 64 = n
    BY <1>6
  <2> HIDE DEF upper, with
  <2>3. value = upper
    BY <2>1
  <2> QED BY <1>1, <2>1, <2>2, <2>3
<1>7. CASE n >= 64 /\ n < 16384
  <2>1. compress_mode(w) = 1 /\ upper = n % 64 /\ Subarray(w, 1, 1) = LittleEndian(k, 1)
    <3>1. 1 = 2 - 1
      OBVIOUS
    <3>2. Compact(n) = WithMode(n, 1, 2)
      BY <1>7, CompactIs
    <3> QED BY <1>5, <3>1, <3>2
  <2>2. k < 256
    BY <1>3, <1>7
  <2>3. FromLittleEndian(LittleEndian(k, 1)) = k
    BY <2>2, ReadsBack DEF Room
  <2>4. with(1) = (n % 64) + 64 * k
    BY <2>1, <2>3
  <2> HIDE DEF upper, with
  <2>5. value = with(1)
    BY <2>1
  <2> QED BY <1>1, <1>4, <2>4, <2>5
<1>8. CASE n >= 16384 /\ n < 1073741824
  <2>1. compress_mode(w) = 2 /\ upper = n % 64 /\ Subarray(w, 1, 3) = LittleEndian(k, 3)
    <3>1. 3 = 4 - 1
      OBVIOUS
    <3>2. Compact(n) = WithMode(n, 2, 4)
      BY <1>8, CompactIs
    <3> QED BY <1>5, <3>1, <3>2
  <2>2. k \div 65536 < 256
    BY <1>3, <1>8
  <2>3. FromLittleEndian(LittleEndian(k, 3)) = k
    BY <2>2, ReadsBack DEF Room
  <2>4. with(3) = (n % 64) + 64 * k
    BY <2>1, <2>3
  <2> HIDE DEF upper, with
  <2>5. value = with(3)
    BY <2>1
  <2> QED BY <1>1, <1>4, <2>4, <2>5
<1>9. CASE n >= 1073741824
  <2>1. PICK first \in Byte : first = 3 /\ first % 4 = 3
    BY DEF Byte
  <2>2. Compact(n) = <<first>> \o LittleEndian(n, 4)
    BY <1>9, <2>1, CompactIs
  <2>3. w[1] = first /\ Subarray(w, 1, 4) = LittleEndian(n, 4)
    BY <2>2, AfterFirst
  <2>4. compress_mode(w) = 3
    BY <2>1, <2>3 DEF compress_mode
  <2>5. FromLittleEndian(LittleEndian(n, 4)) = n
    BY ReadsBack DEF Room
  <2> HIDE DEF upper, with
  <2>6. value = FromLittleEndian(Subarray(w, 1, 4))
    BY <2>4
  <2> QED BY <1>1, <2>3, <2>5, <2>6
<1> QED BY <1>6, <1>7, <1>8, <1>9

\* The decoder's assertion holds for a compact integer, and its mode gives
\* its length.
LEMMA CompactLength ==
    ASSUME NEW w \in Seq(Byte), NEW n \in Nat, At(w, 0, Compact(n))
    PROVE  /\ ValidCompactInt(w)
           /\ get_compact_int_byte_length(compress_mode(w)) = Len(Compact(n))
           /\ <<1, 2, 4, 5>>[compress_mode(w) + 1] = Len(Compact(n))
           /\ Len(Compact(n)) \in {1, 2, 4, 5}
           /\ Compact(n) \in Seq(Byte)
PROOF
<1> DEFINE c == Compact(n)
<1>1. GoodMode(c)
  BY CompactMode
<1>2. At(w, 0, c)
  OBVIOUS
<1> HIDE DEF c
<1>3. 1 \in 1 .. Len(c)
  BY <1>1 DEF GoodMode
<1>4. w[0 + 1] = c[1]
  BY <1>2, <1>3 DEF At
<1>5. w[1] = c[1]
  BY <1>4
<1>6. ValidCompactInt(w) /\ <<1, 2, 4, 5>>[compress_mode(w) + 1] = Len(c)
      /\ get_compact_int_byte_length(compress_mode(w)) = Len(c)
  BY <1>1, <1>5 DEF GoodMode, ValidCompactInt, compress_mode, get_compact_int_byte_length
<1> QED BY <1>1, <1>6 DEF c, GoodMode

-----------------------------------------------------------------------------
(* FlattenSeq.                                                             *)

\* f[j] is the concatenation of the first j of the sequences seqs.
Joins(f, seqs, n) ==
    /\ f \in [0 .. n -> Seq(Byte)] /\ f[0] = <<>>
    /\ \A j \in 1 .. n : f[j] = f[j - 1] \o seqs[j]

\* There are such concatenations.
LEMMA JoinsExist ==
    ASSUME NEW n \in Nat, NEW seqs \in [1 .. n -> Seq(Byte)]
    PROVE  \E f : Joins(f, seqs, n)
PROOF
<1> DEFINE S == {k \in Nat : \E f : Joins(f, seqs, k)}
<1>1. 0 \in S
  <2>1. Joins([j \in 0 .. 0 |-> <<>>], seqs, 0)
    BY DEF Joins
  <2> QED BY <2>1
<1>2. ASSUME NEW k \in 0 .. n - 1, k \in S PROVE k + 1 \in S
  <2>1. PICK f : Joins(f, seqs, k)
    BY <1>2
  <2> DEFINE e == [j \in 0 .. k + 1 |-> IF j = k + 1 THEN f[k] \o seqs[k + 1] ELSE f[j]]
  <2>2. k \in 0 .. k /\ f[k] \in Seq(Byte) /\ seqs[k + 1] \in Seq(Byte)
    BY <2>1 DEF Joins
  <2>3. f[k] \o seqs[k + 1] \in Seq(Byte)
    BY <2>2
  <2>4. e \in [0 .. k + 1 -> Seq(Byte)] /\ e[0] = <<>>
    BY <2>1, <2>3 DEF Joins
  <2>5. ASSUME NEW j \in 1 .. k + 1 PROVE e[j] = e[j - 1] \o seqs[j]
    <3>1. CASE j = k + 1
      <4>1. j \in 0 .. k + 1 /\ j - 1 = k /\ k \in 0 .. k + 1 /\ k # k + 1
        BY <3>1
      <4>2. e[j] = f[k] \o seqs[k + 1] /\ e[k] = f[k]
        BY <3>1, <4>1
      <4> HIDE DEF e
      <4> QED BY <3>1, <4>1, <4>2
    <3>2. CASE j # k + 1
      <4>1. j \in 1 .. k /\ j \in 0 .. k + 1 /\ j - 1 \in 0 .. k + 1 /\ j - 1 # k + 1
        BY <3>2
      <4>2. f[j] = f[j - 1] \o seqs[j]
        BY <2>1, <4>1 DEF Joins
      <4>3. e[j] = f[j] /\ e[j - 1] = f[j - 1]
        BY <3>2, <4>1
      <4> QED BY <4>2, <4>3
    <3> QED BY <3>1, <3>2
  <2> HIDE DEF e
  <2>6. Joins(e, seqs, k + 1)
    BY <2>4, <2>5 DEF Joins
  <2> QED BY <2>6
<1> HIDE DEF S
<1>3. \A k \in 0 .. n : k \in S
  BY <1>1, <1>2, UpTo
<1>4. n \in S
  BY <1>3
<1> QED BY <1>4 DEF S

\* They depend on the joined sequences only.
LEMMA JoinsAgree ==
    ASSUME NEW n \in Nat, NEW f, NEW g, NEW a, NEW b, Joins(f, a, n), Joins(g, b, n),
           \A j \in 1 .. n : a[j] = b[j]
    PROVE  \A j \in 0 .. n : f[j] = g[j]
PROOF
<1> DEFINE S == {k \in 0 .. n : f[k] = g[k]}
<1>1. 0 \in S
  BY DEF Joins
<1>2. ASSUME NEW k \in 0 .. n - 1, k \in S PROVE k + 1 \in S
  <2>1. k + 1 \in 1 .. n /\ k + 1 \in 0 .. n /\ (k + 1) - 1 = k
    OBVIOUS
  <2>2. f[k + 1] = f[k] \o a[k + 1] /\ g[k + 1] = g[k] \o b[k + 1]
    BY <2>1 DEF Joins
  <2> QED BY <1>2, <2>1, <2>2
<1> HIDE DEF S
<1>3. \A k \in 0 .. n : k \in S
  BY <1>1, <1>2, UpTo
<1> QED BY <1>3 DEF S

\* FlattenSeq is the last of them.
LEMMA FlattenIs ==
    ASSUME NEW n \in Nat, NEW seqs \in [1 .. n -> Seq(Byte)], NEW g, Joins(g, seqs, n)
    PROVE  FlattenSeq(seqs) = g[n] /\ FlattenSeq(seqs) \in Seq(Byte)
PROOF
<1>1. seqs \in Seq(Seq(Byte)) /\ Len(seqs) = n
  OBVIOUS
<1>2. g[n] \in Seq(Byte)
  BY DEF Joins
<1>3. CASE n = 0
  <2>1. FlattenSeq(seqs) = seqs
    BY <1>1, <1>3 DEF FlattenSeq
  <2>2. seqs = <<>>
    BY <1>1, <1>3
  <2> QED BY <1>2, <1>3, <2>1, <2>2 DEF Joins
<1>4. CASE n # 0
  <2> DEFINE Sol(f) == f = [i \in 1 .. Len(seqs) |->
                               IF i = 1 THEN seqs[i] ELSE f[i - 1] \o seqs[i]]
             f == CHOOSE f : Sol(f)
             h == [i \in 1 .. n |-> g[i]]
             c == [i \in 0 .. n |-> IF i = 0 THEN <<>> ELSE f[i]]
  <2>1. ASSUME NEW i \in 1 .. n PROVE h[i] = (IF i = 1 THEN seqs[i] ELSE h[i - 1] \o seqs[i])
    <3>1. g[i] = g[i - 1] \o seqs[i] /\ g[0] = <<>>
      BY DEF Joins
    <3>2. <<>> \o seqs[1] = seqs[1]
      <4>1. seqs[1] \in Seq(Byte)
        BY <1>4
      <4> QED BY <4>1
    <3>3. CASE i = 1
      <4>1. i - 1 = 0 /\ h[i] = g[i]
        BY <3>3
      <4> QED BY <3>1, <3>2, <3>3, <4>1
    <3>4. CASE i # 1
      BY <3>1, <3>4, SMTT(40)
    <3> QED BY <3>3, <3>4
  <2>2. Sol(h)
    BY <1>1, <2>1, Zenon
  <2>3. Sol(f)
    BY <2>2, Zenon
  <2>4. FlattenSeq(seqs) = f[n]
    BY <1>1, <1>4 DEF FlattenSeq
  <2> HIDE DEF f
  <2>5. \A i \in 1 .. n : f[i] = (IF i = 1 THEN seqs[i] ELSE f[i - 1] \o seqs[i])
    BY <1>1, <2>3
  <2> DEFINE S == {k \in 0 .. n : k = 0 \/ f[k] = g[k]}
  <2>6. ASSUME NEW k \in 0 .. n - 1, k \in S PROVE k + 1 \in S
    <3>1. k + 1 \in 1 .. n /\ k + 1 \in 0 .. n /\ (k + 1) - 1 = k
      OBVIOUS
    <3>2. g[k + 1] = g[k] \o seqs[k + 1]
      BY <3>1 DEF Joins
    <3>3. CASE k = 0
      <4>1. g[0] = <<>> /\ g[1] = g[0] \o seqs[1]
        <5>1. 0 + 1 = 1 /\ g[0 + 1] = g[0] \o seqs[0 + 1]
          BY <3>2, <3>3
        <5> QED BY <5>1 DEF Joins
      <4>2. 1 \in 1 .. n /\ seqs[1] \in Seq(Byte)
        BY <1>4
      <4>3. f[1] = seqs[1]
        BY <2>5, <4>2
      <4>4. <<>> \o seqs[1] = seqs[1]
        BY <4>2
      <4>5. f[1] = g[1]
        BY <4>1, <4>3, <4>4
      <4> QED BY <3>1, <3>3, <4>5
    <3>4. CASE k # 0
      <4>2. k + 1 # 1
        BY <3>4
      <4>3. f[k + 1] = f[(k + 1) - 1] \o seqs[k + 1]
        BY <2>5, <3>1, <4>2, Zenon
      <4>1. f[k + 1] = f[k] \o seqs[k + 1]
        BY <3>1, <4>3
      <4> QED BY <2>6, <3>1, <3>2, <3>4, <4>1
    <3> QED BY <3>3, <3>4
  <2>7. 0 \in S
    OBVIOUS
  <2> HIDE DEF S
  <2>8. \A k \in 0 .. n : k \in S
    BY <2>6, <2>7, UpTo
  <2>9. f[n] = g[n]
    BY <1>4, <2>8 DEF S
  <2> QED BY <1>2, <2>4, <2>9
<1> QED BY <1>3, <1>4

\* A flattened sequence holds each of its parts after those before it.
LEMMA FlattenAt ==
    ASSUME NEW n \in Nat, NEW seqs \in [1 .. n -> Seq(Byte)]
    PROVE  /\ FlattenSeq(seqs) \in Seq(Byte)
           /\ \A k \in 1 .. n :
                  /\ FlattenSeq([j \in 1 .. k - 1 |-> seqs[j]]) \in Seq(Byte)
                  /\ At(FlattenSeq(seqs), Len(FlattenSeq([j \in 1 .. k - 1 |-> seqs[j]])), seqs[k])
PROOF
<1>1. PICK g : Joins(g, seqs, n)
  BY JoinsExist
<1>2. FlattenSeq(seqs) = g[n] /\ FlattenSeq(seqs) \in Seq(Byte)
  BY <1>1, FlattenIs
<1>3. ASSUME NEW k \in 1 .. n
      PROVE  /\ FlattenSeq([j \in 1 .. k - 1 |-> seqs[j]]) \in Seq(Byte)
             /\ At(FlattenSeq(seqs), Len(FlattenSeq([j \in 1 .. k - 1 |-> seqs[j]])), seqs[k])
  <2>1. PICK m \in Nat : m = k - 1 /\ k = m + 1
    OBVIOUS
  <2> DEFINE before == [j \in 1 .. m |-> seqs[j]]
  <2>2. before \in [1 .. m -> Seq(Byte)]
    BY <2>1
  <2>3. \A j \in 1 .. m : before[j] = seqs[j]
    OBVIOUS
  <2> HIDE DEF before
  <2>4. PICK f : Joins(f, before, m)
    BY <2>2, JoinsExist
  <2>5. FlattenSeq(before) = f[m] /\ FlattenSeq(before) \in Seq(Byte)
    BY <2>2, <2>4, FlattenIs
  <2> DEFINE h == [j \in 0 .. m |-> g[j]]
  <2>6. Joins(h, seqs, m)
    <3>3. \A j \in 0 .. m : j \in 0 .. n
      BY <2>1
    <3>4. g \in [0 .. n -> Seq(Byte)] /\ g[0] = <<>> /\ 0 \in 0 .. m
      BY <1>1 DEF Joins
    <3>1. h \in [0 .. m -> Seq(Byte)] /\ h[0] = <<>>
      BY <3>3, <3>4
    <3>2. ASSUME NEW j \in 1 .. m PROVE h[j] = h[j - 1] \o seqs[j]
      <4>1. j \in 1 .. n /\ j \in 0 .. m /\ j - 1 \in 0 .. m
        BY <2>1
      <4> QED BY <1>1, <4>1 DEF Joins
    <3> HIDE DEF h
    <3> QED BY <3>1, <3>2 DEF Joins
  <2>7. f[m] = g[m]
    <3>1. \A j \in 0 .. m : f[j] = h[j]
      <4> HIDE DEF h
      <4> QED BY <2>3, <2>4, <2>6, JoinsAgree
    <3> QED BY <3>1
  <2>8. g[m] \in Seq(Byte) /\ seqs[k] \in Seq(Byte) /\ Len(g[m]) \in Nat
    BY <2>5, <2>7
  <2>9. g[k] = g[m] \o seqs[k]
    BY <1>1, <2>1 DEF Joins
  <2> DEFINE S == {d \in 0 .. n - k : At(g[k + d], Len(g[m]), seqs[k])}
  <2>10. 0 \in S
    <3>1. At(g[k], Len(g[m]), seqs[k])
      BY <2>8, <2>9, AtEnd
    <3>2. k + 0 = k /\ 0 \in 0 .. n - k
      OBVIOUS
    <3> QED BY <3>1, <3>2
  <2>11. ASSUME NEW d \in 0 .. (n - k) - 1, d \in S PROVE d + 1 \in S
    <3>1. /\ k + d \in 0 .. n /\ k + (d + 1) \in 1 .. n
          /\ (k + (d + 1)) - 1 = k + d /\ d + 1 \in 0 .. n - k
      OBVIOUS
    <3>2. g[k + (d + 1)] = g[k + d] \o seqs[k + (d + 1)]
      BY <1>1, <3>1 DEF Joins
    <3>3. g[k + d] \in Seq(Byte) /\ seqs[k + (d + 1)] \in Seq(Byte)
      BY <1>1, <3>1 DEF Joins
    <3>4. At(g[k + d], Len(g[m]), seqs[k])
      BY <2>11
    <3>5. At(g[k + (d + 1)], Len(g[m]), seqs[k])
      BY <2>8, <3>2, <3>3, <3>4, AtLeft
    <3> QED BY <3>1, <3>5
  <2> HIDE DEF S
  <2>12. n - k \in Nat
    OBVIOUS
  <2>13. \A d \in 0 .. n - k : d \in S
    BY <2>10, <2>11, <2>12, UpTo
  <2>14. n - k \in 0 .. n - k /\ k + (n - k) = n
    OBVIOUS
  <2>15. At(g[n], Len(g[m]), seqs[k])
    BY <2>13, <2>14 DEF S
  <2>16. before = [j \in 1 .. k - 1 |-> seqs[j]]
    BY <2>1 DEF before
  <2> QED BY <1>2, <2>5, <2>7, <2>15, <2>16
<1> QED BY <1>2, <1>3

-----------------------------------------------------------------------------
(* Where the parts of a header are.                                        *)

\* Where the first three, the sixth and the last of eight parts are.
PartsAt(all, p, c, r, x, k, f, e, d) ==
    /\ all \in Seq(Byte)
    /\ Len(all) = Len(p) + Len(c) + Len(r) + Len(x) + Len(k) + Len(f) + Len(e) + Len(d)
    /\ At(all, 0, p) /\ At(all, Len(p), c) /\ At(all, Len(p) + Len(c), r)
    /\ At(all, Len(p) + Len(c) + Len(r) + Len(x) + Len(k), f)
    /\ At(all, Len(all) - Len(d), d)

LEMMA EightParts ==
    ASSUME NEW p \in Seq(Byte), NEW c \in Seq(Byte), NEW r \in Seq(Byte), NEW x \in Seq(Byte),
           NEW k \in Seq(Byte), NEW f \in Seq(Byte), NEW e \in Seq(Byte), NEW d \in Seq(Byte)
    PROVE  PartsAt(p \o c \o r \o x \o k \o f \o e \o d, p, c, r, x, k, f, e, d)
PROOF
<1> DEFINE s2 == p \o c
           s3 == s2 \o r
           s4 == s3 \o x
           s5 == s4 \o k
           s6 == s5 \o f
           s7 == s6 \o e
           s8 == s7 \o d
<1>1. /\ Len(p) \in Nat /\ Len(c) \in Nat /\ Len(r) \in Nat /\ Len(x) \in Nat
      /\ Len(k) \in Nat /\ Len(f) \in Nat /\ Len(e) \in Nat /\ Len(d) \in Nat
  OBVIOUS
<1>2. s2 \in Seq(Byte) /\ Len(s2) = Len(p) + Len(c) /\ At(s2, 0, p) /\ At(s2, Len(p), c)
  BY Concat, AtSelf, AtLeft, AtEnd
<1> HIDE DEF s2
<1>3. /\ s3 \in Seq(Byte) /\ Len(s3) = Len(s2) + Len(r)
      /\ At(s3, 0, p) /\ At(s3, Len(p), c) /\ At(s3, Len(s2), r)
  BY <1>1, <1>2, Concat, AtLeft, AtEnd
<1>4. At(s3, Len(p) + Len(c), r) /\ Len(p) + Len(c) \in Nat
  BY <1>1, <1>2, <1>3
<1> HIDE DEF s3
<1>5. /\ s4 \in Seq(Byte) /\ Len(s4) = Len(s3) + Len(x)
      /\ At(s4, 0, p) /\ At(s4, Len(p), c) /\ At(s4, Len(p) + Len(c), r)
  BY <1>1, <1>3, <1>4, Concat, AtLeft
<1> HIDE DEF s4
<1>6. /\ s5 \in Seq(Byte) /\ Len(s5) = Len(s4) + Len(k)
      /\ At(s5, 0, p) /\ At(s5, Len(p), c) /\ At(s5, Len(p) + Len(c), r)
  BY <1>1, <1>4, <1>5, Concat, AtLeft
<1>7. Len(s5) = Len(p) + Len(c) + Len(r) + Len(x) + Len(k) /\ Len(s5) \in Nat
  BY <1>1, <1>2, <1>3, <1>5, <1>6
<1> HIDE DEF s5
<1>8. /\ s6 \in Seq(Byte) /\ Len(s6) = Len(s5) + Len(f) /\ At(s6, Len(s5), f)
      /\ At(s6, 0, p) /\ At(s6, Len(p), c) /\ At(s6, Len(p) + Len(c), r)
  BY <1>1, <1>4, <1>6, Concat, AtLeft, AtEnd
<1> HIDE DEF s6
<1>9. /\ s7 \in Seq(Byte) /\ Len(s7) = Len(s6) + Len(e) /\ At(s7, Len(s5), f)
      /\ At(s7, 0, p) /\ At(s7, Len(p), c) /\ At(s7, Len(p) + Len(c), r)
  BY <1>1, <1>4, <1>7, <1>8, Concat, AtLeft
<1> HIDE DEF s7
<1>10. /\ s8 \in Seq(Byte) /\ Len(s8) = Len(s7) + Len(d) /\ At(s8, Len(s7), d)
       /\ At(s8, 0, p) /\ At(s8, Len(p), c) /\ At(s8, Len(p) + Len(c), r)
       /\ At(s8, Len(s5), f)
  BY <1>1, <1>4, <1>7, <1>9, Concat, AtLeft, AtEnd
<1>11. Len(s8) = Len(p) + Len(c) + Len(r) + Len(x) + Len(k) + Len(f) + Len(e) + Len(d)
  BY <1>1, <1>7, <1>8, <1>9, <1>10
<1>12. Len(s7) \in Nat /\ Len(s8) - Len(d) = Len(s7)
  BY <1>1, <1>9, <1>10
<1>13. At(s8, Len(s8) - Len(d), d)
  BY <1>10, <1>12
<1>14. At(s8, Len(p) + Len(c) + Len(r) + Len(x) + Len(k), f)
  BY <1>7, <1>10
<1> HIDE DEF s8
<1>15. PartsAt(s8, p, c, r, x, k, f, e, d)
  BY <1>10, <1>11, <1>13, <1>14, Zenon DEF PartsAt
<1> QED BY <1>15 DEF s2, s3, s4, s5, s6, s7, s8

\* The parts of an encoded log.
LEMMA LogParts ==
    ASSUME NEW log \in DigestItems
    PROVE  /\ EncodeLog(log) \in Seq(Byte)
           /\ log.value \in Seq(Byte) /\ log.engine \in Seq(Byte) /\ Len(log.engine) = 4
           /\ EncodeLog(log)[1] = log.flag
           /\ At(EncodeLog(log), 1, log.engine)
           /\ At(EncodeLog(log), 5, Compact(Len(log.value)))
           /\ At(EncodeLog(log), 5 + Len(Compact(Len(log.value))), log.value)
           /\ Compact(Len(log.value)) \in Seq(Byte)
PROOF
<1> DEFINE a == <<log.flag>>
           g == log.engine
           c == Compact(Len(log.value))
           v == log.value
           s2 == a \o g
           s3 == s2 \o c
           s4 == s3 \o v
<1>1. /\ a \in Seq(Byte) /\ Len(a) = 1 /\ a[1] = log.flag
      /\ g \in ByteArray(4) /\ v \in Seq(Byte)
  BY DEF DigestItems
<1>2. g \in Seq(Byte) /\ Len(g) = 4
  BY <1>1, ArrayIsSeq
<1>3. c \in Seq(Byte)
  <2>1. Len(v) \in Nat
    BY <1>1
  <2> QED BY <2>1, CompactMode DEF GoodMode
<1>4. EncodeLog(log) = s4
  BY DEF EncodeLog
<1> HIDE DEF a, g, c, v
<1>5. Len(a) \in Nat /\ Len(g) \in Nat /\ Len(c) \in Nat /\ Len(v) \in Nat
  BY <1>1, <1>2, <1>3
<1>6. s2 \in Seq(Byte) /\ Len(s2) = Len(a) + Len(g) /\ At(s2, 0, a) /\ At(s2, Len(a), g)
  BY <1>1, <1>2, Concat, AtSelf, AtLeft, AtEnd
<1>7. Len(s2) = 5 /\ At(s2, 1, g)
  BY <1>1, <1>2, <1>6
<1> HIDE DEF s2
<1>8. /\ s3 \in Seq(Byte) /\ Len(s3) = Len(s2) + Len(c)
      /\ At(s3, 0, a) /\ At(s3, 1, g) /\ At(s3, Len(s2), c)
  BY <1>1, <1>2, <1>3, <1>6, <1>7, Concat, AtLeft, AtEnd
<1>9. Len(s3) = 5 + Len(c) /\ At(s3, 5, c)
  BY <1>7, <1>8
<1> HIDE DEF s3
<1>10. /\ s4 \in Seq(Byte) /\ At(s4, Len(s3), v)
       /\ At(s4, 0, a) /\ At(s4, 1, g) /\ At(s4, 5, c)
  BY <1>1, <1>2, <1>3, <1>8, <1>9, Concat, AtLeft, AtEnd
<1> HIDE DEF s4
<1>11. s4[1] = log.flag
  <2>1. 1 \in 1 .. Len(a) /\ 0 + 1 = 1
    BY <1>1
  <2> QED BY <1>1, <1>10, <2>1 DEF At
<1>12. At(s4, 5 + Len(c), v)
  BY <1>9, <1>10
<1> QED BY <1>1, <1>2, <1>3, <1>4, <1>10, <1>11, <1>12 DEF g, c, v

\* The encoded logs of a header, before they are joined.
EncodedLogs(b) == [i \in 1 .. Len(Header[b].logs) |-> EncodeLog(Header[b].logs[i])]

LEMMA EncodedLogsSeq ==
    ASSUME NEW b \in Blocks
    PROVE  /\ Len(Header[b].logs) \in Nat
           /\ DOMAIN Header[b].logs = 1 .. Len(Header[b].logs)
           /\ EncodedLogs(b) \in [1 .. Len(Header[b].logs) -> Seq(Byte)]
           /\ \A i \in 1 .. Len(Header[b].logs) : Header[b].logs[i] \in DigestItems
PROOF
<1> DEFINE logs == Header[b].logs
<1>1. logs \in Seq(DigestItems)
  BY FieldsAssumption
<1> HIDE DEF logs
<1>2. /\ Len(logs) \in Nat /\ DOMAIN logs = 1 .. Len(logs)
      /\ \A i \in 1 .. Len(logs) : logs[i] \in DigestItems
  BY <1>1
<1>3. \A i \in 1 .. Len(logs) : EncodeLog(logs[i]) \in Seq(Byte)
  BY <1>2, LogParts
<1>4. [i \in 1 .. Len(logs) |-> EncodeLog(logs[i])] \in [1 .. Len(logs) -> Seq(Byte)]
  BY <1>3
<1> QED BY <1>2, <1>4 DEF logs, EncodedLogs

\* The parts of an encoded header.
LEMMA HeaderParts ==
    ASSUME NEW b \in Blocks
    PROVE  /\ Encoded[b] \in Seq(Byte)
           /\ Len(Encoded[b]) >= HASH_SIZE + 5
           /\ Len(Encoded[b]) >= 2 * HASH_SIZE + Len(Compact(b))
           /\ At(Encoded[b], 0, Header[b].parent_hash)
           /\ At(Encoded[b], HASH_SIZE, Compact(b))
           /\ At(Encoded[b], HASH_SIZE + Len(Compact(b)), Header[b].state_root)
           /\ At(Encoded[b], 3 * HASH_SIZE + Len(Compact(b)) + Len(Compact(Len(Header[b].logs))),
                 FlattenSeq(EncodedLogs(b)))
           /\ At(Encoded[b], Len(Encoded[b]) - HASH_SIZE, Header[b].data_root)
PROOF
<1> DEFINE p == Header[b].parent_hash
           c == Compact(b)
           r == Header[b].state_root
           x == Header[b].extrinsics_root
           k == Compact(Len(Header[b].logs))
           f == FlattenSeq(EncodedLogs(b))
           e == Header[b].extension
           d == Header[b].data_root
           all == Encoded[b]
<1>1. HASH_SIZE \in Nat /\ HASH_SIZE >= 1
  BY LengthsAssumption
<1>2. /\ p \in ByteArray(HASH_SIZE) /\ r \in ByteArray(HASH_SIZE)
      /\ x \in ByteArray(HASH_SIZE) /\ d \in ByteArray(HASH_SIZE) /\ e \in Seq(Byte)
  BY FieldsAssumption
<1>3. /\ p \in Seq(Byte) /\ Len(p) = HASH_SIZE /\ r \in Seq(Byte) /\ Len(r) = HASH_SIZE
      /\ x \in Seq(Byte) /\ Len(x) = HASH_SIZE /\ d \in Seq(Byte) /\ Len(d) = HASH_SIZE
  BY <1>1, <1>2, ArrayIsSeq
<1>4. b \in Nat /\ Header[b].number = b
  BY FieldsAssumption, HeadersAssumption DEF IsU32
<1>5. GoodMode(c) /\ GoodMode(k)
  BY <1>4, CompactMode, EncodedLogsSeq, Zenon
<1>6. f \in Seq(Byte)
  BY EncodedLogsSeq, FlattenAt, ZenonT(40)
<1>7. all = p \o c \o r \o x \o k \o f \o e \o d
  BY <1>4, EncodedLogsSeq, ZenonT(30) DEF Encoded, EncodeHeader, EncodedLogs
<1> HIDE DEF p, c, r, x, k, f, e, d, all
<1>8. c \in Seq(Byte) /\ k \in Seq(Byte) /\ Len(c) \in Nat /\ Len(c) >= 1 /\ Len(k) \in Nat /\ Len(k) >= 1
  BY <1>5 DEF GoodMode
<1>9. /\ all \in Seq(Byte)
      /\ Len(all) = Len(p) + Len(c) + Len(r) + Len(x) + Len(k) + Len(f) + Len(e) + Len(d)
      /\ At(all, 0, p) /\ At(all, Len(p), c) /\ At(all, Len(p) + Len(c), r)
      /\ At(all, Len(p) + Len(c) + Len(r) + Len(x) + Len(k), f)
      /\ At(all, Len(all) - Len(d), d)
  <2>1. PartsAt(p \o c \o r \o x \o k \o f \o e \o d, p, c, r, x, k, f, e, d)
    BY <1>2, <1>3, <1>6, <1>8, EightParts, Zenon
  <2>2. PartsAt(all, p, c, r, x, k, f, e, d)
    BY <1>7, <2>1, Zenon
  <2> QED BY <2>2, Zenon DEF PartsAt
<1>10. Len(f) \in Nat /\ Len(e) \in Nat
  BY <1>2, <1>6
<1>11. Len(all) >= HASH_SIZE + 5 /\ Len(all) >= 2 * HASH_SIZE + Len(c)
  BY <1>1, <1>3, <1>8, <1>9, <1>10
<1>12. /\ At(all, HASH_SIZE, c) /\ At(all, HASH_SIZE + Len(c), r)
       /\ At(all, Len(all) - HASH_SIZE, d)
  BY <1>3, <1>9
<1>13. Len(p) + Len(c) + Len(r) + Len(x) + Len(k) = 3 * HASH_SIZE + Len(c) + Len(k)
  BY <1>1, <1>3, <1>8
<1>14. At(all, 3 * HASH_SIZE + Len(c) + Len(k), f)
  BY <1>9, <1>13
<1> QED BY <1>9, <1>11, <1>12, <1>14 DEF p, c, r, x, k, f, d, all

\* Bytes that a prover may use for header b: its encoding, then padding.
HeaderWithPadding(bytes, b) ==
    /\ bytes \in Seq(Byte)
    /\ At(bytes, 0, Encoded[b])
    /\ Len(bytes) >= Len(Encoded[b])
    /\ Len(bytes) >= MAX_HEADER_SIZE

\* The repository's, with zeros.
LEMMA PaddedParts ==
    ASSUME NEW b \in Blocks
    PROVE  HeaderWithPadding(Padded(Encoded[b]), b)
PROOF
<1> DEFINE s == Encoded[b]
           z == Zeros(MAX_HEADER_SIZE - Len(s))
<1>1. s \in Seq(Byte) /\ Len(s) \in Nat
  BY HeaderParts
<1>2. Padded(s) = s \o z
  BY DEF Padded
<1> HIDE DEF s
<1>3. MAX_HEADER_SIZE \in Nat /\ MAX_HEADER_SIZE - Len(s) \in Int
  BY <1>1, LengthsAssumption
<1>4. /\ z \in Seq(Byte)
      /\ MAX_HEADER_SIZE - Len(s) \in Nat => Len(z) = MAX_HEADER_SIZE - Len(s)
  BY <1>3, ZerosFacts
<1> HIDE DEF z
<1>5. s \o z \in Seq(Byte) /\ Len(s \o z) = Len(s) + Len(z) /\ Len(z) \in Nat
  BY <1>1, <1>4, Concat
<1>6. At(s \o z, 0, s)
  BY <1>1, <1>4, AtSelf, AtLeft
<1>7. Len(s \o z) >= Len(s) /\ Len(s \o z) >= MAX_HEADER_SIZE
  BY <1>1, <1>3, <1>4, <1>5
<1> QED BY <1>2, <1>5, <1>6, <1>7 DEF s, HeaderWithPadding

\* Those of any other prover.
LEMMA AnyPaddingParts ==
    ASSUME NEW b \in Blocks, NEW padding \in AnyPadding, Len(Encoded[b]) <= MAX_HEADER_SIZE
    PROVE  HeaderWithPadding(WithPadding(Encoded[b], padding), b)
PROOF
<1> DEFINE s == Encoded[b]
           n == MAX_HEADER_SIZE
           bytes == WithPadding(s, padding)
<1>1. s \in Seq(Byte) /\ Len(s) \in Nat
  BY HeaderParts
<1> HIDE DEF s
<1>2. n \in Nat /\ \A i \in 1 .. n : padding[i] \in Byte
  BY LengthsAssumption, PaddingAssumption DEF ByteArray
<1>3. bytes = [i \in 1 .. n |-> IF i <= Len(s) THEN s[i] ELSE padding[i]]
  BY DEF WithPadding
<1> HIDE DEF bytes
<1>4. \A i \in 1 .. n : i <= Len(s) => s[i] \in Byte
  BY <1>1
<1>5. bytes \in ByteArray(n)
  BY <1>2, <1>3, <1>4 DEF ByteArray
<1>6. bytes \in Seq(Byte) /\ Len(bytes) = n
  BY <1>2, <1>5, ArrayIsSeq
<1>7. Len(s) <= n
  BY DEF s
<1>8. At(bytes, 0, s)
  <2>1. \A j \in 1 .. Len(s) : bytes[0 + j] = s[j]
    BY <1>1, <1>2, <1>3, <1>7
  <2> QED BY <1>1, <1>2, <1>6, <1>7, <2>1 DEF At
<1> QED BY <1>1, <1>2, <1>6, <1>7, <1>8 DEF HeaderWithPadding, s, bytes

\* A part of the encoding is at the same place in the padded header.
LEMMA InPadded ==
    ASSUME NEW b \in Blocks, NEW bytes, HeaderWithPadding(bytes, b),
           NEW from \in Nat, NEW p \in Seq(Byte), At(Encoded[b], from, p)
    PROVE  At(bytes, from, p)
PROOF
<1>1. At(bytes, 0 + from, p)
  BY HeaderParts, AtAt DEF HeaderWithPadding
<1> QED BY <1>1

-----------------------------------------------------------------------------
(* The header decoder.                                                     *)

\* The decoder reads the header of every block, whatever the padding.
LEMMA BlockDecoded ==
    ASSUME NEW b \in Blocks, NEW bytes, HeaderWithPadding(bytes, b)
    PROVE  Decodes(bytes, Len(Encoded[b]), Header[b])
PROOF
<1> DEFINE size == Len(Encoded[b])
           w == Subarray(bytes, HASH_SIZE, 5)
           c == Compact(b)
           h == Header[b]
<1>1. /\ bytes \in Seq(Byte) /\ Len(bytes) \in Nat /\ size \in Nat
      /\ size >= HASH_SIZE + 5 /\ Len(bytes) >= size
  BY HeaderParts DEF HeaderWithPadding
<1>2. HASH_SIZE \in Nat /\ HASH_SIZE >= 1
  BY LengthsAssumption
<1>3. b \in Nat /\ IsU32(b) /\ h.number = b
  BY FieldsAssumption, HeadersAssumption DEF IsU32
<1>4. /\ h.parent_hash \in ByteArray(HASH_SIZE) /\ h.state_root \in ByteArray(HASH_SIZE)
      /\ h.data_root \in ByteArray(HASH_SIZE)
  BY FieldsAssumption
<1>5. /\ h.parent_hash \in Seq(Byte) /\ Len(h.parent_hash) = HASH_SIZE
      /\ h.state_root \in Seq(Byte) /\ Len(h.state_root) = HASH_SIZE
      /\ h.data_root \in Seq(Byte) /\ Len(h.data_root) = HASH_SIZE
  BY <1>2, <1>4, ArrayIsSeq
<1>6. GoodMode(c)
  BY <1>3, CompactMode
<1>7. c \in Seq(Byte) /\ Len(c) \in Nat /\ Len(c) <= 5
  BY <1>6 DEF GoodMode
<1>8. At(bytes, 0, h.parent_hash) /\ At(bytes, HASH_SIZE, c)
  BY <1>2, <1>5, <1>7, HeaderParts, InPadded
<1>9. At(bytes, HASH_SIZE + Len(c), h.state_root)
  <2>1. HASH_SIZE + Len(c) \in Nat
    BY <1>2, <1>7
  <2> QED BY <1>5, <2>1, HeaderParts, InPadded
<1>10. At(bytes, size - HASH_SIZE, h.data_root)
  <2>1. size - HASH_SIZE \in Nat
    BY <1>1, <1>2
  <2> QED BY <1>5, <2>1, HeaderParts, InPadded
<1> HIDE DEF size, c, h
<1>11. HASH_SIZE + 5 <= Len(bytes)
  BY <1>1, <1>2
<1>12. w \in Seq(Byte) /\ Len(w) = 5
  <2>1. 5 \in Nat
    OBVIOUS
  <2> QED BY <1>1, <1>2, <1>11, <2>1, Reads, Zenon
<1>13. At(w, 0, c)
  <2>1. At(bytes, HASH_SIZE + 0, c) /\ 0 + Len(c) <= 5
    BY <1>2, <1>7, <1>8
  <2> QED BY <1>1, <1>2, <1>7, <1>11, <2>1, AtRead
<1> HIDE DEF w
<1>14. decode_compact_int(w) = b
  BY <1>3, <1>12, <1>13, CompactValue DEF c
<1>15. ValidCompactInt(w) /\ <<1, 2, 4, 5>>[compress_mode(w) + 1] = Len(c)
  BY <1>3, <1>12, <1>13, CompactLength DEF c
<1>16. Subarray(bytes, 0, HASH_SIZE) = h.parent_hash
  BY <1>1, <1>5, <1>8, ReadsPart
<1>17. Subarray(bytes, HASH_SIZE + Len(c), HASH_SIZE) = h.state_root
  <2>1. HASH_SIZE + Len(c) \in Nat
    BY <1>2, <1>7
  <2> QED BY <1>1, <1>5, <1>9, <2>1, ReadsPart
<1>18. Subarray(bytes, size - HASH_SIZE, HASH_SIZE) = h.data_root
  <2>1. size - HASH_SIZE \in Nat
    BY <1>1, <1>2
  <2> QED BY <1>1, <1>5, <1>10, <2>1, ReadsPart
<1>19. size # 0
  BY <1>1, <1>2
<1>20. decode_header(bytes, size) =
           [block_number |-> h.number, parent_hash |-> h.parent_hash,
            state_root |-> h.state_root, data_root |-> h.data_root]
  BY <1>3, <1>14, <1>15, <1>16, <1>17, <1>18, <1>19
     DEF decode_header, MAX_COMPACT_UINT_BYTES, w
<1> QED BY <1>15, <1>20 DEF Decodes, MAX_COMPACT_UINT_BYTES, w, size, h

\* It reads zeros from the padding header.
LEMMA PaddingDecoded == Decodes(Zeros(MAX_HEADER_SIZE), 0, EmptyHeader)
PROOF
<1> DEFINE bytes == Zeros(MAX_HEADER_SIZE)
           w == Subarray(bytes, HASH_SIZE, 5)
           z == Zeros(HASH_SIZE)
<1>1. /\ HASH_SIZE \in Nat /\ HASH_SIZE >= 1 /\ MAX_HEADER_SIZE \in Nat
      /\ MAX_HEADER_SIZE >= 2 * HASH_SIZE + 5
  BY LengthsAssumption DEF MAX_COMPACT_UINT_BYTES
<1>2. /\ bytes \in Seq(Byte) /\ Len(bytes) = MAX_HEADER_SIZE
      /\ \A j \in 1 .. MAX_HEADER_SIZE : bytes[j] = 0
  BY <1>1, ZerosFacts
<1>3. z \in Seq(Byte) /\ Len(z) = HASH_SIZE /\ \A j \in 1 .. HASH_SIZE : z[j] = 0
  BY <1>1, ZerosFacts
<1> HIDE DEF bytes, z
<1>4. ASSUME NEW from \in Nat, from + HASH_SIZE <= MAX_HEADER_SIZE
      PROVE  Subarray(bytes, from, HASH_SIZE) = z
  <2>1. At(bytes, from, z)
    <3>1. \A j \in 1 .. HASH_SIZE : from + j \in 1 .. MAX_HEADER_SIZE
      BY <1>1, <1>4
    <3> QED BY <1>2, <1>3, <1>4, <3>1 DEF At
  <2> QED BY <1>2, <1>3, <2>1, ReadsPart
<1>5. HASH_SIZE + 5 <= Len(bytes)
  BY <1>1, <1>2
<1>6. w[1] = 0
  <2>1. w[1] = bytes[HASH_SIZE + 1]
    <3>1. 5 \in Nat /\ 1 \in 1 .. 5
      OBVIOUS
    <3> QED BY <1>1, <1>2, <1>5, <3>1, Reads, ZenonT(40)
  <2>2. HASH_SIZE + 1 \in 1 .. MAX_HEADER_SIZE
    BY <1>1
  <2> QED BY <1>2, <2>1, <2>2
<1> HIDE DEF w
<1>7. 0 % 4 = 0 /\ 0 \div 4 = 0
  OBVIOUS
<1>8. compress_mode(w) = 0 /\ w[1] \div 4 = 0
  BY <1>6, <1>7 DEF compress_mode
<1>9. ValidCompactInt(w) /\ decode_compact_int(w) = 0
  BY <1>8 DEF ValidCompactInt, decode_compact_int
<1>10. <<1, 2, 4, 5>>[compress_mode(w) + 1] = 1
  BY <1>8
<1>11. Subarray(bytes, 0, HASH_SIZE) = z /\ Subarray(bytes, HASH_SIZE + 1, HASH_SIZE) = z
  <2>1. 0 + HASH_SIZE <= MAX_HEADER_SIZE /\ (HASH_SIZE + 1) + HASH_SIZE <= MAX_HEADER_SIZE
        /\ HASH_SIZE + 1 \in Nat
    BY <1>1
  <2> QED BY <1>4, <2>1
<1>12. decode_header(bytes, 0) =
           [block_number |-> 0, parent_hash |-> z, state_root |-> z, data_root |-> z]
  BY <1>9, <1>10, <1>11 DEF decode_header, MAX_COMPACT_UINT_BYTES, w
<1> QED BY <1>9, <1>12 DEF Decodes, EmptyHeader, MAX_COMPACT_UINT_BYTES, w, z, bytes

\* The bytes of a witness are those of the header of a block and padding, and
\* there is no witness before the hint.
HasHeader(w) ==
    /\ w.block \in Blocks
    /\ w.header_size = Len(Encoded[w.block])
    /\ HeaderWithPadding(w.header_bytes, w.block)

HeaderOfBlock ==
    /\ stage \in {"hint", "panic"} => witness = None
    /\ stage \notin {"hint", "panic"} => HasHeader(witness)

LEMMA HintBlock ==
    ASSUME NEW b, b = last_justified_block(current_authority_set_id), ~ HeaderRotatePanics(b)
    PROVE  /\ b \in Blocks /\ b # 0 /\ EpochEnd(b)
           /\ Header[b].signer = current_authority_set_id
PROOF
<1> DEFINE id == current_authority_set_id
<1>1. b # 0 /\ EpochEnd(b)
  BY DEF HeaderRotatePanics
<1>2. \E c \in Blocks : EpochEnd(c) /\ Header[c].signer = id
  BY <1>1 DEF last_justified_block
<1>3. b = CHOOSE c \in Blocks : EpochEnd(c) /\ Header[c].signer = id
  BY <1>2 DEF last_justified_block
<1> QED BY <1>1, <1>2, <1>3

LEMMA HeaderOfBlockStep == HeaderOfBlock /\ [Next]_vars => HeaderOfBlock'
PROOF
<1> SUFFICES ASSUME HeaderOfBlock, [Next]_vars PROVE HeaderOfBlock'
  OBVIOUS
<1>1. CASE RotateHint
  <2> DEFINE b == last_justified_block(current_authority_set_id)
  <2>1. CASE HeaderRotatePanics(b) \/ Len(get_authorities(b)) > MAX_NUM_AUTHORITIES
    BY <1>1, <2>1 DEF RotateHint, HeaderOfBlock
  <2>2. CASE ~ (HeaderRotatePanics(b) \/ Len(get_authorities(b)) > MAX_NUM_AUTHORITIES)
    <3>1. b \in Blocks
      BY <2>2, HintBlock
    <3>2. stage' = "circuit" /\ witness' = get_header_rotate(b)
      BY <1>1, <2>2 DEF RotateHint
    <3>3. /\ witness'.block = b /\ witness'.header_size = Len(Encoded[b])
          /\ witness'.header_bytes = Padded(Encoded[b])
      BY <3>2 DEF get_header_rotate
    <3>4. HasHeader(witness')
      <4> HIDE DEF b
      <4> QED BY <3>1, <3>3, PaddedParts DEF HasHeader
    <3> QED BY <3>2, <3>4 DEF HeaderOfBlock
  <2> QED BY <2>1, <2>2
<1>2. CASE AnyHeader
  <2>1. PICK b \in Blocks, padding \in AnyPadding :
            \E position \in 0 .. MAX_HEADER_SIZE :
                /\ Len(Encoded[b]) <= MAX_HEADER_SIZE
                /\ witness' = [present |-> TRUE, block |-> b, header_size |-> Len(Encoded[b]),
                               header_bytes |-> WithPadding(Encoded[b], padding),
                               position |-> position]
    BY <1>2 DEF AnyHeader
  <2>2. /\ Len(Encoded[b]) <= MAX_HEADER_SIZE
        /\ witness'.block = b /\ witness'.header_size = Len(Encoded[b])
        /\ witness'.header_bytes = WithPadding(Encoded[b], padding)
    BY <2>1
  <2>3. stage' = "authorities"
    BY <1>2 DEF AnyHeader
  <2>4. HasHeader(witness')
    BY <2>2, AnyPaddingParts DEF HasHeader
  <2> QED BY <2>3, <2>4 DEF HeaderOfBlock
<1>3. CASE AnyAuthorities
  <2>1. /\ witness'.block = witness.block /\ witness'.header_size = witness.header_size
        /\ witness'.header_bytes = witness.header_bytes
        /\ stage' = "circuit" /\ stage = "authorities"
    BY <1>3 DEF AnyAuthorities
  <2>2. HasHeader(witness')
    BY <2>1 DEF HeaderOfBlock, HasHeader
  <2> QED BY <2>1, <2>2 DEF HeaderOfBlock
<1>4. CASE rotate
  <2>1. stage = "circuit" /\ stage' \in {"proved", "rejected"} /\ witness' = witness
    BY <1>4 DEF rotate
  <2> QED BY <2>1 DEF HeaderOfBlock
<1>5. CASE UNCHANGED vars
  BY <1>5 DEF HeaderOfBlock, vars
<1> QED BY <1>1, <1>2, <1>3, <1>4, <1>5 DEF Next

\* decode_header reads back number, parent hash, state root and data root of
\* every header a prover can use, whatever the length of its compact number
\* and of its digest and whatever bytes follow it, and zeros from the padding
\* header; its assertion on the compact number holds.
THEOREM EveryHeaderDecoded == Spec => []HeaderDecoded
PROOF
<1>1. Init => HeaderOfBlock
  BY DEF Init, HeaderOfBlock
<1>2. HeaderOfBlock => HeaderDecoded
  <2> SUFFICES ASSUME HeaderOfBlock, witness.present
               PROVE  Decodes(witness.header_bytes, witness.header_size,
                              Header[witness.block])
    BY PaddingDecoded DEF HeaderDecoded
  <2>1. witness # None
    BY DEF None
  <2>2. HasHeader(witness)
    BY <2>1 DEF HeaderOfBlock
  <2> QED BY <2>2, BlockDecoded DEF HasHeader
<1> QED BY <1>1, <1>2, HeaderOfBlockStep, PTL DEF Spec

-----------------------------------------------------------------------------
(* The announcement of the next set.                                       *)

\* Multiplication by a length is monotonic.
LEMMA TimesMonotonic ==
    ASSUME NEW i \in Nat, NEW j \in Nat, NEW k \in Nat, i <= j
    PROVE  i * k \in Nat /\ i * k <= j * k
PROOF
<1>1. j - i \in Nat /\ j = i + (j - i)
  OBVIOUS
<1>2. ASSUME NEW d \in Nat PROVE (i + d) * k = i * k + d * k /\ d * k \in Nat /\ i * k \in Nat
  OBVIOUS
<1> QED BY <1>1, <1>2

\* Parts of the same length follow each other at multiples of it.
LEMMA EqualParts ==
    ASSUME NEW n \in Nat, NEW size \in Nat, NEW seqs \in [1 .. n -> Seq(Byte)],
           \A j \in 1 .. n : Len(seqs[j]) = size
    PROVE  \A i \in 1 .. n : At(FlattenSeq(seqs), (i - 1) * size, seqs[i])
PROOF
<1> SUFFICES ASSUME NEW i \in 1 .. n
             PROVE  At(FlattenSeq(seqs), (i - 1) * size, seqs[i])
  OBVIOUS
<1>1. PICK m \in Nat : m = i - 1
  OBVIOUS
<1> DEFINE before == [j \in 1 .. m |-> seqs[j]]
<1>2. before \in [1 .. m -> Seq(Byte)] /\ \A j \in 1 .. m : Len(before[j]) = size
  BY <1>1
<1>3. At(FlattenSeq(seqs), Len(FlattenSeq(before)), seqs[i])
  BY <1>1, FlattenAt
<1> HIDE DEF before
<1>4. PICK f : Joins(f, before, m)
  BY <1>2, JoinsExist
<1> DEFINE S == {k \in 0 .. m : Len(f[k]) = k * size}
<1>5. 0 \in S
  <2>1. f[0] = <<>> /\ Len(<<>>) = 0 /\ 0 * size = 0
    BY <1>4 DEF Joins
  <2> QED BY <2>1
<1>6. ASSUME NEW k \in 0 .. m - 1, k \in S PROVE k + 1 \in S
  <2>1. k + 1 \in 1 .. m /\ k + 1 \in 0 .. m /\ k \in 0 .. m /\ (k + 1) - 1 = k
    OBVIOUS
  <2>2. f[k + 1] = f[k] \o before[k + 1] /\ f[k] \in Seq(Byte) /\ before[k + 1] \in Seq(Byte)
    BY <1>2, <1>4, <2>1 DEF Joins
  <2>3. Len(f[k + 1]) = Len(f[k]) + Len(before[k + 1])
    BY <2>2, Concat
  <2>4. Len(f[k]) = k * size /\ Len(before[k + 1]) = size
    BY <1>2, <1>6, <2>1
  <2>5. (k + 1) * size = k * size + size
    OBVIOUS
  <2> QED BY <2>1, <2>3, <2>4, <2>5
<1> HIDE DEF S
<1>7. \A k \in 0 .. m : k \in S
  BY <1>5, <1>6, UpTo
<1>8. Len(f[m]) = m * size
  BY <1>7 DEF S
<1>9. FlattenSeq(before) = f[m]
  BY <1>2, <1>4, FlattenIs
<1> QED BY <1>1, <1>3, <1>8, <1>9

\* The encoded authorities: their number, and then every key with its
\* weight at a multiple of VALIDATOR_LENGTH.
KeysPart(keys) == FlattenSeq([i \in DOMAIN keys |-> keys[i] \o LittleEndian(1, WEIGHT_LENGTH)])

LEMMA KeysAreAt ==
    ASSUME NEW n \in Nat, NEW keys \in [1 .. n -> ByteArray(PUBKEY_LENGTH)]
    PROVE  /\ KeysPart(keys) \in Seq(Byte)
           /\ \A i \in 1 .. n : At(KeysPart(keys), (i - 1) * VALIDATOR_LENGTH, keys[i])
PROOF
<1> DEFINE weight == LittleEndian(1, WEIGHT_LENGTH)
           seqs == [i \in 1 .. n |-> keys[i] \o weight]
<1>1. PUBKEY_LENGTH \in Nat /\ WEIGHT_LENGTH \in Nat
  BY LengthsAssumption
<1>2. weight \in Seq(Byte) /\ Len(weight) = WEIGHT_LENGTH
  BY <1>1, LittleEndianSeq
<1> HIDE DEF weight
<1>3. ASSUME NEW i \in 1 .. n
      PROVE  /\ keys[i] \in Seq(Byte)
             /\ keys[i] \o weight \in Seq(Byte)
             /\ Len(keys[i] \o weight) = VALIDATOR_LENGTH
             /\ At(keys[i] \o weight, 0, keys[i])
  <2>1. keys[i] \in Seq(Byte) /\ Len(keys[i]) = PUBKEY_LENGTH
    BY <1>1, ArrayIsSeq
  <2> QED BY <1>2, <2>1, Concat, AtSelf, AtLeft DEF VALIDATOR_LENGTH
<1>4. seqs \in [1 .. n -> Seq(Byte)] /\ \A i \in 1 .. n : Len(seqs[i]) = VALIDATOR_LENGTH
  BY <1>3
<1>5. DOMAIN keys = 1 .. n
  OBVIOUS
<1>6. KeysPart(keys) = FlattenSeq(seqs)
  BY <1>5 DEF KeysPart, weight
<1>7. \A i \in 1 .. n : seqs[i] = keys[i] \o weight
  OBVIOUS
<1> HIDE DEF seqs
<1>8. VALIDATOR_LENGTH \in Nat
  BY <1>1 DEF VALIDATOR_LENGTH
<1>9. FlattenSeq(seqs) \in Seq(Byte)
  BY <1>4, FlattenAt
<1>10. ASSUME NEW i \in 1 .. n PROVE At(FlattenSeq(seqs), (i - 1) * VALIDATOR_LENGTH, keys[i])
  <2>1. PICK m \in Nat : m = (i - 1) * VALIDATOR_LENGTH
    BY <1>8, TimesMonotonic
  <2>2. At(FlattenSeq(seqs), m, seqs[i])
    BY <1>4, <1>8, <2>1, EqualParts
  <2>3. seqs[i] \in Seq(Byte) /\ keys[i] \in Seq(Byte) /\ At(seqs[i], 0, keys[i])
    BY <1>3, <1>7
  <2>4. At(FlattenSeq(seqs), m + 0, keys[i])
    BY <1>9, <2>2, <2>3, AtAt
  <2> QED BY <2>1, <2>4
<1> QED BY <1>6, <1>9, <1>10

\* The value of a ScheduledChange log: a flag, the number of authorities and
\* their keys.
LEMMA AnnouncementParts ==
    ASSUME NEW n \in Nat, NEW keys \in [1 .. n -> ByteArray(PUBKEY_LENGTH)]
    PROVE  LET value == ScheduledChange(keys).value
           IN /\ value \in Seq(Byte)
              /\ At(value, 1, Compact(n))
              /\ At(value, 1 + Len(Compact(n)), KeysPart(keys))
PROOF
<1> DEFINE a == <<1>>
           c == Compact(n)
           k == KeysPart(keys)
           z == Zeros(DELAY_LENGTH)
           e == c \o k
           s2 == a \o e
           value == s2 \o z
<1>1. a \in Seq(Byte) /\ Len(a) = 1
  BY DEF Byte
<1>2. c \in Seq(Byte)
  BY CompactMode DEF GoodMode
<1>3. k \in Seq(Byte)
  BY KeysAreAt
<1>4. z \in Seq(Byte)
  BY LengthsAssumption, ZerosFacts
<1>5. keys \in Seq(ByteArray(PUBKEY_LENGTH)) /\ Len(keys) = n
  OBVIOUS
<1>6. ScheduledChange(keys).value = value
  BY <1>5 DEF ScheduledChange, DigestItem, EncodeAuthorities, KeysPart
<1> HIDE DEF a, c, k, z
<1>7. e \in Seq(Byte) /\ At(e, 0, c) /\ At(e, Len(c), k) /\ Len(c) \in Nat
  BY <1>2, <1>3, Concat, AtSelf, AtLeft, AtEnd
<1> HIDE DEF e
<1>8. s2 \in Seq(Byte) /\ At(s2, Len(a) + 0, c) /\ At(s2, Len(a) + Len(c), k)
  BY <1>1, <1>2, <1>3, <1>7, Concat, AtRight
<1>9. At(s2, 1, c) /\ At(s2, 1 + Len(c), k) /\ 1 + Len(c) \in Nat
  BY <1>1, <1>7, <1>8
<1> HIDE DEF s2
<1>10. value \in Seq(Byte) /\ At(value, 1, c) /\ At(value, 1 + Len(c), k)
  BY <1>2, <1>3, <1>4, <1>8, <1>9, Concat, AtLeft
<1> QED BY <1>6, <1>10 DEF c, k

\* Every log of a header is at its LogStart.
LEMMA LogIsAt ==
    ASSUME NEW b \in Blocks, NEW bytes, HeaderWithPadding(bytes, b),
           NEW i \in DOMAIN Header[b].logs
    PROVE  LogStart(b, i) \in Nat /\ At(bytes, LogStart(b, i), EncodeLog(Header[b].logs[i]))
PROOF
<1> DEFINE logs == Header[b].logs
           n == Len(logs)
           offset == 3 * HASH_SIZE + Len(Compact(b)) + Len(Compact(n))
           before == FlattenSeq([j \in 1 .. i - 1 |-> EncodedLogs(b)[j]])
           all == FlattenSeq(EncodedLogs(b))
           log == EncodeLog(logs[i])
<1>1. n \in Nat /\ i \in 1 .. n /\ EncodedLogs(b) \in [1 .. n -> Seq(Byte)]
  BY EncodedLogsSeq
<1>2. EncodedLogs(b)[i] = log
  BY <1>1 DEF EncodedLogs
<1>3. log \in Seq(Byte)
  BY <1>1, <1>2
<1>4. all \in Seq(Byte) /\ before \in Seq(Byte) /\ At(all, Len(before), log)
  BY <1>1, <1>2, FlattenAt
<1>5. before = FlattenSeq([j \in 1 .. i - 1 |-> EncodeLog(logs[j])])
  <2>1. \A j \in 1 .. i - 1 : j \in 1 .. n
    BY <1>1
  <2>2. [j \in 1 .. i - 1 |-> EncodedLogs(b)[j]] = [j \in 1 .. i - 1 |-> EncodeLog(logs[j])]
    BY <2>1 DEF EncodedLogs
  <2> QED BY <2>2
<1>6. LogStart(b, i) = offset + Len(before)
  BY <1>5 DEF LogStart
<1>7. offset \in Nat
  <2>1. b \in Nat
    BY FieldsAssumption DEF IsU32
  <2>2. GoodMode(Compact(b)) /\ GoodMode(Compact(n))
    BY <1>1, <2>1, CompactMode
  <2>3. Len(Compact(b)) \in Nat /\ Len(Compact(n)) \in Nat
    BY <2>2 DEF GoodMode
  <2> QED BY <2>3, LengthsAssumption
<1>8. At(Encoded[b], offset, all) /\ Encoded[b] \in Seq(Byte)
  BY HeaderParts
<1> HIDE DEF offset, before, all, log
<1>9. Len(before) \in Nat /\ offset + Len(before) \in Nat
  BY <1>4, <1>7
<1>10. At(Encoded[b], offset + Len(before), log)
  BY <1>3, <1>4, <1>7, <1>8, <1>9, AtAt
<1>11. At(bytes, offset + Len(before), log)
  BY <1>3, <1>9, <1>10, InPadded
<1> QED BY <1>6, <1>9, <1>11 DEF log

-----------------------------------------------------------------------------
(* What a witness that satisfies the circuit means.                        *)

\* A signed precommit carries the hash of the signed block.
LEMMA PrecommitHash ==
    ASSUME NEW signed \in Blocks
    PROVE  decode_precommit(Precommit(signed, Header[signed].signer)).block_hash = Header[signed].hash
PROOF
<1> DEFINE a == <<1>>
           h == Header[signed].hash
           n == LittleEndian(signed, 4)
           r == LittleEndian(7, 8)
           i == LittleEndian(Header[signed].signer, 8)
           s2 == a \o h
           s3 == s2 \o n
           s4 == s3 \o r
           s5 == s4 \o i
<1>1. a \in Seq(Byte) /\ Len(a) = 1
  BY DEF Byte
<1>2. h \in Seq(Byte) /\ Len(h) = HASH_SIZE
  <2>1. h \in ByteArray(HASH_SIZE) /\ HASH_SIZE \in Nat
    BY FieldsAssumption, LengthsAssumption
  <2> QED BY <2>1, ArrayIsSeq
<1>3. signed \in Nat /\ Header[signed].signer \in Nat
  BY FieldsAssumption, HeadersAssumption DEF IsU32
<1>4. n \in Seq(Byte) /\ r \in Seq(Byte) /\ i \in Seq(Byte)
  <2>1. 4 \in Nat /\ 7 \in Nat /\ 8 \in Nat
    OBVIOUS
  <2> QED BY <1>3, <2>1, LittleEndianSeq, Zenon
<1>5. Precommit(signed, Header[signed].signer) = s5
  BY DEF Precommit, EncodePrecommit, hash_encoded_header
<1> HIDE DEF a, h, n, r, i
<1>6. s2 \in Seq(Byte) /\ At(s2, Len(a), h)
  BY <1>1, <1>2, Concat, AtEnd
<1>7. At(s2, 1, h)
  BY <1>1, <1>6
<1> HIDE DEF s2
<1>8. s3 \in Seq(Byte) /\ At(s3, 1, h)
  BY <1>2, <1>4, <1>6, <1>7, Concat, AtLeft
<1> HIDE DEF s3
<1>9. s4 \in Seq(Byte) /\ At(s4, 1, h)
  BY <1>2, <1>4, <1>8, Concat, AtLeft
<1> HIDE DEF s4
<1>10. s5 \in Seq(Byte) /\ At(s5, 1, h)
  BY <1>2, <1>4, <1>9, Concat, AtLeft
<1> HIDE DEF s5
<1>11. Subarray(s5, 1, HASH_SIZE) = h
  BY <1>2, <1>10, ReadsPart
<1> QED BY <1>5, <1>11 DEF decode_precommit, h

\* One entry for every slot.
PerSlot(pubkeys) == pubkeys = [i \in Slots |-> pubkeys[i]]

\* The circuit's commitment covers the first n keys, for a number n of
\* authorities that there are slots for.
LEMMA CommitmentOfKeys ==
    ASSUME NEW n \in 1 .. MAX_NUM_AUTHORITIES, NEW pubkeys, PerSlot(pubkeys),
           NEW K, NEW keys \in [1 .. n -> K],
           \A i \in 1 .. n : pubkeys[i] = keys[i]
    PROVE  compute_authority_set_commitment(n, pubkeys) = ChainedHash(keys)
PROOF
<1> DEFINE enabled == {i \in 1 .. MAX_NUM_AUTHORITIES - 1 : \A j \in 1 .. i : j # n}
<1>1. MAX_NUM_AUTHORITIES \in Nat
  BY SlotsAssumption
<1>2. enabled = 1 .. n - 1
  <2>1. ASSUME NEW i \in enabled PROVE i \in 1 .. n - 1
    <3>1. i >= n => n \in 1 .. i
      BY <1>1
    <3> QED BY <1>1, <3>1
  <2>2. ASSUME NEW i \in 1 .. n - 1 PROVE i \in enabled
    BY <1>1
  <2> HIDE DEF enabled
  <2> QED BY <2>1, <2>2
<1>3. Cardinality(1 .. n - 1) = n - 1
  <2>1. 1 \in Int /\ n - 1 \in Int /\ ~ (1 > n - 1 /\ n # 1)
    BY <1>1
  <2>2. Cardinality(1 .. n - 1) = IF 1 > n - 1 THEN 0 ELSE (n - 1) - 1 + 1
    BY <2>1, FS_Interval
  <2> QED BY <1>1, <2>2
<1>4. Cardinality(enabled) = n - 1
  BY <1>2, <1>3
<1> HIDE DEF enabled
<1>5. 1 + Cardinality(enabled) = n
  BY <1>1, <1>4
<1>6. SubSeq(pubkeys, 1, n) = keys
  <2>1. SubSeq(pubkeys, 1, n) = [i \in 1 .. n |-> pubkeys[i]]
    <3> DEFINE P == {pubkeys[i] : i \in Slots}
    <3>1. pubkeys \in Seq(P) /\ Len(pubkeys) = MAX_NUM_AUTHORITIES
      <4>1. pubkeys = [i \in 1 .. MAX_NUM_AUTHORITIES |-> pubkeys[i]]
        BY DEF PerSlot, Slots
      <4>2. \A i \in 1 .. MAX_NUM_AUTHORITIES : pubkeys[i] \in P
        BY DEF Slots
      <4> HIDE DEF P
      <4>3. pubkeys \in [1 .. MAX_NUM_AUTHORITIES -> P]
        BY <4>1, <4>2
      <4> QED BY <1>1, <4>3
    <3> QED BY <1>1, <3>1
  <2>2. keys = [i \in 1 .. n |-> keys[i]]
    OBVIOUS
  <2> QED BY <2>1, <2>2
<1> QED BY <1>5, <1>6 DEF compute_authority_set_commitment, enabled

\* Lengths of compact integers.
LEMMA GoodLength ==
    ASSUME NEW c, GoodMode(c)
    PROVE  c \in Seq(Byte) /\ Len(c) \in Nat /\ Len(c) >= 1 /\ Len(c) <= 5
BY DEF GoodMode

\* The prefix that the circuit reads, from the byte before a log whose
\* message starts with a compact number of authorities n: it finds that
\* number, and the end of it.
LEMMA PrefixRead ==
    ASSUME NEW bytes \in Seq(Byte), NEW p \in Nat, NEW l \in Nat, NEW n \in Nat,
           IsU32(n), p + MAX_PREFIX_LENGTH <= Len(bytes),
           At(bytes, p + 6, Compact(l)),
           At(bytes, p + 6 + Len(Compact(l)) + 1, Compact(n))
    PROVE  LET prefix == Subarray(bytes, p, MAX_PREFIX_LENGTH)
           IN /\ decode_compact_int(EncodedNumAuthorities(prefix)) = n
              /\ TotalPrefixLength(prefix) = 7 + Len(Compact(l)) + Len(Compact(n))
PROOF
<1> DEFINE prefix == Subarray(bytes, p, 17)
           c == Compact(l)
           d == Compact(n)
           u == Subarray(prefix, 6, 5)
           w == Subarray(prefix, 6 + Len(c) + 1, 5)
<1>1. MAX_PREFIX_LENGTH = 17
  BY DEF MAX_PREFIX_LENGTH, CONSENSUS_ENGINE_ID_PREFIX_LENGTH, MAX_COMPACT_UINT_BYTES
<1>2. GoodMode(c) /\ GoodMode(d)
  BY CompactMode
<1>3. At(bytes, p + 6, c) /\ At(bytes, p + 6 + Len(c) + 1, d)
  OBVIOUS
<1> HIDE DEF c, d
<1>4. /\ c \in Seq(Byte) /\ Len(c) \in Nat /\ Len(c) >= 1 /\ Len(c) <= 5
      /\ d \in Seq(Byte) /\ Len(d) \in Nat /\ Len(d) >= 1 /\ Len(d) <= 5
  BY <1>2, GoodLength
<1>5. PICK k \in Nat : k = 17
  OBVIOUS
<1>6. PICK five \in Nat : five = 5
  OBVIOUS
<1>7. PICK m \in Nat : m = 6 + Len(c) + 1
  BY <1>4
<1>8. p + k <= Len(bytes)
  BY <1>1, <1>5
<1>9. prefix \in Seq(Byte) /\ Len(prefix) = k
  BY <1>5, <1>8, Reads
<1>10. PICK six \in Nat : six = 6
  OBVIOUS
<1>11. At(prefix, six, c) /\ At(prefix, m, d)
  <2>1. At(bytes, p + six, c) /\ six + Len(c) <= k
    BY <1>3, <1>4, <1>5, <1>10
  <2>2. p + 6 + Len(c) + 1 = p + m
    BY <1>4, <1>7
  <2>3. At(bytes, p + m, d) /\ m + Len(d) <= k
    BY <1>3, <1>4, <1>5, <1>7, <2>2
  <2>4. At(Subarray(bytes, p, k), six, c)
    BY <1>4, <1>8, <2>1, AtRead
  <2>5. At(Subarray(bytes, p, k), m, d)
    BY <1>4, <1>8, <2>3, AtRead
  <2> QED BY <1>5, <2>4, <2>5
<1> HIDE DEF prefix
<1>12. u \in Seq(Byte) /\ At(u, 0, c)
  <2>1. six + five <= Len(prefix) /\ 0 + Len(c) <= five /\ At(prefix, six + 0, c)
    BY <1>4, <1>5, <1>6, <1>9, <1>10, <1>11
  <2>2. Subarray(prefix, six, five) \in Seq(Byte) /\ At(Subarray(prefix, six, five), 0, c)
    BY <1>4, <1>9, <2>1, Reads, AtRead
  <2> QED BY <1>6, <1>10, <2>2
<1>13. w \in Seq(Byte) /\ At(w, 0, d)
  <2>1. m + five <= Len(prefix) /\ 0 + Len(d) <= five /\ At(prefix, m + 0, d)
    BY <1>4, <1>5, <1>6, <1>7, <1>9, <1>11
  <2>2. Subarray(prefix, m, five) \in Seq(Byte) /\ At(Subarray(prefix, m, five), 0, d)
    BY <1>4, <1>9, <2>1, Reads, AtRead
  <2> QED BY <1>6, <1>7, <2>2
<1> HIDE DEF u, w
<1>14. get_compact_int_byte_length(compress_mode(u)) = Len(c)
  BY <1>12, CompactLength DEF c
<1>15. get_compact_int_byte_length(compress_mode(w)) = Len(d)
  BY <1>13, CompactLength DEF d
<1>16. decode_compact_int(w) = n
  BY <1>13, CompactValue DEF d
<1>17. ScheduledChangeFlagAt(prefix) = 6 + Len(c)
  BY <1>14 DEF ScheduledChangeFlagAt, u, CONSENSUS_ENGINE_ID_PREFIX_LENGTH, MAX_COMPACT_UINT_BYTES
<1>18. EncodedNumAuthorities(prefix) = w
  BY <1>17 DEF EncodedNumAuthorities, w, MAX_COMPACT_UINT_BYTES
<1>19. TotalPrefixLength(prefix) = 7 + Len(c) + Len(d)
  <2>1. TotalPrefixLength(prefix) = 6 + Len(c) + 1 + Len(d)
    BY <1>15, <1>17, <1>18, Zenon DEF TotalPrefixLength
  <2> QED BY <1>4, <2>1
<1> QED BY <1>1, <1>16, <1>18, <1>19 DEF prefix, c, d

\* The bytes after the skipped one are those that start a GRANDPA log.
LEMMA PrefixStarts ==
    ASSUME NEW bytes \in Seq(Byte), NEW p \in Nat, p + MAX_PREFIX_LENGTH <= Len(bytes),
           verify_consensus_log(Subarray(bytes, p, MAX_PREFIX_LENGTH))
    PROVE  Subarray(bytes, p + 1, 5) = <<CONSENSUS>> \o FRNK /\ p + 1 \in 0 .. Len(bytes) - 5
PROOF
<1> DEFINE prefix == Subarray(bytes, p, MAX_PREFIX_LENGTH)
           start == <<4, 70, 82, 78, 75>>
<1>1. MAX_PREFIX_LENGTH = 17
  BY DEF MAX_PREFIX_LENGTH, CONSENSUS_ENGINE_ID_PREFIX_LENGTH, MAX_COMPACT_UINT_BYTES
<1>2. prefix \in Seq(Byte) /\ Len(prefix) = 17 /\ \A j \in 1 .. 17 : prefix[j] = bytes[p + j]
  <2>1. PICK k \in Nat : k = 17
    OBVIOUS
  <2>2. p + k <= Len(bytes)
    BY <1>1, <2>1
  <2>3. /\ Subarray(bytes, p, k) \in Seq(Byte) /\ Len(Subarray(bytes, p, k)) = k
        /\ \A j \in 1 .. k : Subarray(bytes, p, k)[j] = bytes[p + j]
    BY <2>2, Reads
  <2> QED BY <1>1, <2>1, <2>3
<1>3. prefix[2] = 4 /\ Subarray(prefix, 2, 4) = <<70, 82, 78, 75>>
  BY DEF verify_consensus_log, CONSENSUS, FRNK
<1> HIDE DEF prefix
<1>4. \A j \in 1 .. 4 : Subarray(prefix, 2, 4)[j] = prefix[2 + j]
  <2>1. PICK two \in Nat, four \in Nat : two = 2 /\ four = 4
    OBVIOUS
  <2>2. two + four <= Len(prefix)
    BY <1>2, <2>1
  <2>3. \A j \in 1 .. four : Subarray(prefix, two, four)[j] = prefix[two + j]
    BY <1>2, <2>2, Reads
  <2> QED BY <2>1, <2>3
<1>5. prefix[3] = 70 /\ prefix[4] = 82 /\ prefix[5] = 78 /\ prefix[6] = 75
  <2> DEFINE s == Subarray(prefix, 2, 4)
  <2>1. s[1] = 70 /\ s[2] = 82 /\ s[3] = 78 /\ s[4] = 75
    BY <1>3
  <2>2. s[1] = prefix[2 + 1] /\ s[2] = prefix[2 + 2] /\ s[3] = prefix[2 + 3] /\ s[4] = prefix[2 + 4]
    BY <1>4
  <2> HIDE DEF s
  <2> QED BY <2>1, <2>2
<1>6. /\ bytes[p + 2] = 4 /\ bytes[p + 3] = 70 /\ bytes[p + 4] = 82
      /\ bytes[p + 5] = 78 /\ bytes[p + 6] = 75
  <2>1. /\ prefix[2] = bytes[p + 2] /\ prefix[3] = bytes[p + 3] /\ prefix[4] = bytes[p + 4]
        /\ prefix[5] = bytes[p + 5] /\ prefix[6] = bytes[p + 6]
    BY <1>2
  <2> QED BY <1>3, <1>5, <2>1, ZenonT(40)
<1>7. start \in Seq(Byte) /\ Len(start) = 5
  BY DEF Byte
<1>8. At(bytes, p + 1, start)
  <2>1. (p + 1) + 5 <= Len(bytes)
    BY <1>1
  <2>2. ASSUME NEW j \in 1 .. 5 PROVE bytes[(p + 1) + j] = start[j]
    <3>1. CASE j = 1
      BY <1>6, <3>1
    <3>2. CASE j = 2
      BY <1>6, <3>2
    <3>3. CASE j = 3
      BY <1>6, <3>3
    <3>4. CASE j = 4
      BY <1>6, <3>4
    <3>5. CASE j = 5
      BY <1>6, <3>5
    <3> QED BY <3>1, <3>2, <3>3, <3>4, <3>5
  <2> HIDE DEF start
  <2> QED BY <1>7, <2>1, <2>2 DEF At
<1>9. start = <<CONSENSUS>> \o FRNK
  BY DEF CONSENSUS, FRNK
<1> HIDE DEF start
<1>10. p + 1 \in Nat
  OBVIOUS
<1>11. Subarray(bytes, p + 1, Len(start)) = start
  BY <1>7, <1>8, <1>10, ReadsPart
<1>12. p + 1 \in 0 .. Len(bytes) - 5
  <2>1. Len(bytes) \in Nat
    OBVIOUS
  <2> QED BY <1>1, <2>1
<1> QED BY <1>7, <1>9, <1>11, <1>12

\* The keys of the announcement are those that the circuit compares.
LEMMA KeysRead ==
    ASSUME NEW bytes \in Seq(Byte), NEW cursor \in Nat, NEW n \in 1 .. MAX_NUM_AUTHORITIES,
           NEW keys \in [1 .. n -> ByteArray(PUBKEY_LENGTH)], NEW pubkeys,
           cursor + MAX_SUBARRAY_SIZE <= Len(bytes),
           At(bytes, cursor, KeysPart(keys)),
           verify_validators(Subarray(bytes, cursor, MAX_SUBARRAY_SIZE), n, pubkeys)
    PROVE  \A i \in 1 .. n : pubkeys[i] = keys[i]
PROOF
<1> SUFFICES ASSUME NEW i \in 1 .. n PROVE pubkeys[i] = keys[i]
  OBVIOUS
<1> DEFINE size == MAX_SUBARRAY_SIZE
           encoded == Subarray(bytes, cursor, size)
<1>1. /\ PUBKEY_LENGTH \in Nat /\ WEIGHT_LENGTH \in Nat /\ DELAY_LENGTH \in Nat
      /\ MAX_NUM_AUTHORITIES \in Nat
  BY LengthsAssumption, SlotsAssumption
<1>2. VALIDATOR_LENGTH \in Nat /\ PUBKEY_LENGTH <= VALIDATOR_LENGTH
  BY <1>1 DEF VALIDATOR_LENGTH
<1>3. PICK m \in Nat : m = (i - 1) * VALIDATOR_LENGTH
  BY <1>2, TimesMonotonic
<1>4. size \in Nat /\ m + PUBKEY_LENGTH <= size
  <2>1. m + VALIDATOR_LENGTH = i * VALIDATOR_LENGTH
    <3>1. \A j \in Nat : j * VALIDATOR_LENGTH + VALIDATOR_LENGTH = (j + 1) * VALIDATOR_LENGTH
      BY <1>2
    <3>2. i - 1 \in Nat /\ (i - 1) + 1 = i
      OBVIOUS
    <3> QED BY <1>3, <3>1, <3>2
  <2>2. /\ MAX_NUM_AUTHORITIES * VALIDATOR_LENGTH \in Nat
        /\ i * VALIDATOR_LENGTH \in Nat
        /\ i * VALIDATOR_LENGTH <= MAX_NUM_AUTHORITIES * VALIDATOR_LENGTH
    <3>1. i \in Nat /\ i <= MAX_NUM_AUTHORITIES
      BY <1>1
    <3> QED BY <1>1, <1>2, <3>1, TimesMonotonic
  <2>3. size = MAX_NUM_AUTHORITIES * VALIDATOR_LENGTH + DELAY_LENGTH
    BY DEF MAX_SUBARRAY_SIZE
  <2> QED BY <1>1, <1>2, <2>1, <2>2, <2>3
<1>5. keys[i] \in Seq(Byte) /\ Len(keys[i]) = PUBKEY_LENGTH
  BY <1>1, ArrayIsSeq
<1>6. KeysPart(keys) \in Seq(Byte) /\ At(KeysPart(keys), m, keys[i])
  <2>1. n \in Nat
    OBVIOUS
  <2> QED BY <1>3, <2>1, KeysAreAt
<1>7. At(bytes, cursor + m, keys[i])
  BY <1>5, <1>6, AtAt
<1>8. Subarray(encoded, m, PUBKEY_LENGTH) = pubkeys[i]
  <2>1. i \in Slots /\ ~ (n \in 1 .. i - 1)
    BY <1>1 DEF Slots
  <2> QED BY <1>3, <2>1 DEF verify_validators
<1> HIDE DEF size
<1>9. encoded \in Seq(Byte)
  BY <1>4, Reads DEF size
<1>10. At(encoded, m, keys[i])
  BY <1>4, <1>5, <1>7, AtRead DEF size
<1> HIDE DEF encoded
<1>11. Subarray(encoded, m, Len(keys[i])) = keys[i]
  BY <1>5, <1>9, <1>10, ReadsPart
<1> QED BY <1>5, <1>8, <1>11

\* A witness that has the bytes of the header of a block, a precommit of the
\* set id if it has the votes of the set, and one key for every slot.
GoodWitness(w, id) ==
    /\ HasHeader(w)
    /\ w.by_set => \E signed \in Blocks :
                       Header[signed].signer = id /\ w.precommit = Precommit(signed, id)
    /\ w.next_authority_set_start_position \in Nat
    /\ PerSlot(w.new_pubkeys)

\* The position is the byte before an announcement of GRANDPA.
AtAnnouncement(w) ==
    \E i \in DOMAIN Header[w.block].logs :
        /\ IsScheduledChange(Header[w.block].logs[i])
        /\ w.next_authority_set_start_position + 1 = LogStart(w.block, i)

\* What RotatedIsNextSet says of an output.
IsNextSet(id, output) ==
    /\ last_justified_block(id) # 0
    /\ output = DummyRotate(id)
    /\ output = compute_authority_set_hash(Authorities[id + 1])

\* An epoch end block that a set signed is the end of its epoch.
LEMMA EpochEndIs ==
    ASSUME NEW b \in Blocks, EpochEnd(b)
    PROVE  /\ last_justified_block(Header[b].signer) = b /\ b # 0
           /\ get_authorities(b) = Authorities[Header[b].signer + 1]
PROOF
<1> DEFINE id == Header[b].signer
           P(c) == EpochEnd(c) /\ Header[c].signer = id
           e == CHOOSE c \in Blocks : P(c)
<1>1. P(b)
  OBVIOUS
<1>2. last_justified_block(id) = e
  BY <1>1 DEF last_justified_block
<1>3. e \in Blocks /\ P(e)
  BY <1>1
<1>4. e = b
  <2> HIDE DEF e
  <2> QED BY <1>1, <1>3, HeadersAssumption
<1>5. b # 0
  BY HeadersAssumption
<1> QED BY <1>2, <1>4, <1>5 DEF get_authorities

\* Where the circuit accepts the start of a log.
LEMMA LogAccepted ==
    ASSUME NEW w, NEW id, GoodWitness(w, id), RotateAssertions(id, w)
    PROVE  LET bytes == w.header_bytes
               p == w.next_authority_set_start_position
           IN /\ bytes \in Seq(Byte) /\ Len(bytes) \in Nat /\ Len(bytes) >= MAX_HEADER_SIZE
              /\ p \in Nat /\ p + MAX_PREFIX_LENGTH <= Len(bytes)
              /\ Subarray(bytes, p + 1, 5) = <<CONSENSUS>> \o FRNK
              /\ p + 1 \in 0 .. Len(bytes) - 5
PROOF
<1> DEFINE bytes == w.header_bytes
           p == w.next_authority_set_start_position
           prefix == Subarray(bytes, p, MAX_PREFIX_LENGTH)
<1>1. p \in Nat
  BY DEF GoodWitness
<1>2. p + MAX_PREFIX_LENGTH <= MAX_HEADER_SIZE /\ verify_consensus_log(prefix)
  BY Zenon DEF RotateAssertions, verify_epoch_end_header, InsideHeader
<1>3. bytes \in Seq(Byte) /\ Len(bytes) \in Nat /\ Len(bytes) >= MAX_HEADER_SIZE /\ MAX_HEADER_SIZE \in Nat
  BY LengthsAssumption DEF GoodWitness, HasHeader, HeaderWithPadding
<1> HIDE DEF bytes, p
<1>4. MAX_PREFIX_LENGTH \in Nat
  BY DEF MAX_PREFIX_LENGTH, CONSENSUS_ENGINE_ID_PREFIX_LENGTH, MAX_COMPACT_UINT_BYTES
<1>5. p + MAX_PREFIX_LENGTH <= Len(bytes)
  BY <1>1, <1>2, <1>3, <1>4
<1>6. Subarray(bytes, p + 1, 5) = <<CONSENSUS>> \o FRNK /\ p + 1 \in 0 .. Len(bytes) - 5
  BY <1>1, <1>2, <1>3, <1>5, PrefixStarts
<1> QED BY <1>1, <1>3, <1>5, <1>6 DEF bytes, p

\* Bytes that hold the start of a log only where there is one leave no other
\* position.
LEMMA OnlyAnnouncements ==
    ASSUME NEW w, NEW id, GoodWitness(w, id), RotateAssertions(id, w),
           GrandpaLogsOnly(w.block, w.header_bytes)
    PROVE  AtAnnouncement(w)
PROOF BY LogAccepted DEF GrandpaLogsOnly, AtAnnouncement

\* A witness at an announcement that satisfies the circuit's assertions, with
\* the votes of the set, gives the next set.
LEMMA AssertionsSound ==
    ASSUME NEW w, NEW id, GoodWitness(w, id), RotateAssertions(id, w),
           w.by_set, AtAnnouncement(w)
    PROVE  IsNextSet(id, compute_authority_set_commitment(w.target_header_num_authorities,
                                                          w.new_pubkeys))
PROOF
<1> DEFINE b == w.block
           bytes == w.header_bytes
           p == w.next_authority_set_start_position
           num == w.target_header_num_authorities
           pubkeys == w.new_pubkeys
           prefix == Subarray(bytes, p, MAX_PREFIX_LENGTH)
           cursor == p + TotalPrefixLength(prefix)
<1>1. PICK signed \in Blocks :
          Header[signed].signer = id /\ w.precommit = Precommit(signed, id)
  BY DEF GoodWitness
<1>2. b \in Blocks /\ p \in Nat /\ PerSlot(pubkeys) /\ HeaderWithPadding(bytes, b)
  BY DEF GoodWitness, HasHeader
<1>3. signed = b
  <2>1. decode_precommit(w.precommit).block_hash = Header[b].hash
    BY DEF RotateAssertions, verify_simple_justification, hash_encoded_header
  <2>2. Header[signed].hash = Header[b].hash
    BY <1>1, <2>1, PrecommitHash
  <2> QED BY <1>2, <2>2, HeadersAssumption
<1>4. verify_epoch_end_header(bytes, num, p, pubkeys)
  BY DEF RotateAssertions
<1>5. /\ decode_compact_int(EncodedNumAuthorities(prefix)) = num
      /\ cursor + MAX_SUBARRAY_SIZE <= MAX_HEADER_SIZE
      /\ verify_validators(Subarray(bytes, cursor, MAX_SUBARRAY_SIZE), num, pubkeys)
  BY <1>4, Zenon DEF verify_epoch_end_header, InsideHeader, verify_encoded_num_authorities
<1>6. /\ bytes \in Seq(Byte) /\ Len(bytes) \in Nat /\ Len(bytes) >= MAX_HEADER_SIZE
      /\ MAX_HEADER_SIZE \in Nat
  BY LogAccepted, LengthsAssumption
<1>7. p + MAX_PREFIX_LENGTH <= Len(bytes)
  BY LogAccepted
<1>8. PICK i \in DOMAIN Header[b].logs :
           IsScheduledChange(Header[b].logs[i]) /\ p + 1 = LogStart(b, i)
  BY DEF AtAnnouncement
<1> HIDE DEF bytes
<1>9. EpochEnd(b)
  BY <1>8 DEF EpochEnd
<1> DEFINE log == Header[b].logs[i]
           keys == Authorities[id + 1]
           value == log.value
           c == Compact(Len(value))
<1>10. id + 1 \in SetIds /\ log = ScheduledChange(keys)
  BY <1>1, <1>2, <1>3, <1>8, <1>9, HeadersAssumption
<1>11. PICK n \in 1 .. MAX_NUM_AUTHORITIES :
           n = Len(keys) /\ n \in Nat /\ IsU32(n) /\ keys \in [1 .. n -> ByteArray(PUBKEY_LENGTH)]
  <2>1. keys \in Seq(ByteArray(PUBKEY_LENGTH)) /\ IsU32(Len(keys)) /\ Len(keys) \in 1 .. MAX_NUM_AUTHORITIES
    BY <1>10, FieldsAssumption, HeadersAssumption
  <2> HIDE DEF keys
  <2> QED BY <2>1, SlotsAssumption
<1> DEFINE d == Compact(n)
<1>12. At(bytes, p + 1, EncodeLog(log))
  BY <1>2, <1>8, LogIsAt
<1>13. /\ EncodeLog(log) \in Seq(Byte) /\ value \in Seq(Byte) /\ c \in Seq(Byte)
       /\ At(EncodeLog(log), 5, c) /\ At(EncodeLog(log), 5 + Len(c), value)
  <2>1. log \in DigestItems
    BY <1>2, <1>8, EncodedLogsSeq
  <2> HIDE DEF log
  <2> QED BY <2>1, LogParts
<1>14. /\ d \in Seq(Byte) /\ KeysPart(keys) \in Seq(Byte)
       /\ At(value, 1, d) /\ At(value, 1 + Len(d), KeysPart(keys))
  <2>1. value = ScheduledChange(keys).value
    BY <1>10
  <2> HIDE DEF value, keys
  <2>2. GoodMode(d)
    BY <1>11, CompactMode
  <2> QED BY <1>11, <2>1, <2>2, AnnouncementParts, KeysAreAt, GoodLength
<1> HIDE DEF log, keys, value, c, d
<1>15. Len(c) \in Nat /\ Len(d) \in Nat /\ Len(value) \in Nat
  BY <1>13, <1>14
<1>16. At(bytes, p + 6, c)
  <2>1. At(bytes, (p + 1) + 5, c)
    BY <1>2, <1>6, <1>12, <1>13, AtAt
  <2> QED BY <1>2, <2>1
<1>17. At(bytes, p + 6 + Len(c), value) /\ p + 6 + Len(c) \in Nat
  <2>1. At(bytes, (p + 1) + (5 + Len(c)), value)
    BY <1>2, <1>6, <1>12, <1>13, <1>15, AtAt
  <2>2. (p + 1) + (5 + Len(c)) = p + 6 + Len(c) /\ p + 6 + Len(c) \in Nat
    BY <1>2, <1>15
  <2> QED BY <2>1, <2>2
<1>18. At(bytes, p + 6 + Len(c) + 1, d)
  BY <1>6, <1>13, <1>14, <1>17, AtAt
<1>19. decode_compact_int(EncodedNumAuthorities(prefix)) = n /\ TotalPrefixLength(prefix) = 7 + Len(c) + Len(d)
  BY <1>2, <1>6, <1>7, <1>11, <1>15, <1>16, <1>18, PrefixRead DEF c, d
<1>20. num = n
  BY <1>5, <1>19
<1>21. cursor \in Nat /\ cursor = (p + 6 + Len(c)) + (1 + Len(d))
  BY <1>2, <1>15, <1>19
<1>22. At(bytes, cursor, KeysPart(keys))
  <2>1. 1 + Len(d) \in Nat
    BY <1>15
  <2> HIDE DEF cursor
  <2> QED BY <1>6, <1>13, <1>14, <1>17, <1>21, <2>1, AtAt
<1> HIDE DEF cursor
<1>23. cursor + MAX_SUBARRAY_SIZE <= Len(bytes)
  <2>1. MAX_SUBARRAY_SIZE \in Int
    BY SlotsAssumption, LengthsAssumption DEF MAX_SUBARRAY_SIZE, VALIDATOR_LENGTH
  <2> QED BY <1>5, <1>6, <1>21, <2>1
<1>24. /\ verify_validators(Subarray(bytes, cursor, MAX_SUBARRAY_SIZE), n, pubkeys)
       /\ compute_authority_set_commitment(num, pubkeys)
              = compute_authority_set_commitment(n, pubkeys)
  BY <1>5, <1>20 DEF cursor
<1>25. keys \in [1 .. n -> ByteArray(PUBKEY_LENGTH)] /\ PerSlot(pubkeys)
  BY <1>2, <1>11
<1> HIDE DEF num, pubkeys
<1>26. \A j \in 1 .. n : pubkeys[j] = keys[j]
  BY <1>6, <1>21, <1>22, <1>23, <1>24, <1>25, KeysRead
<1>27. compute_authority_set_commitment(n, pubkeys) = ChainedHash(keys)
  BY <1>25, <1>26, CommitmentOfKeys, ZenonT(40)
<1>28. last_justified_block(id) # 0 /\ DummyRotate(id) = ChainedHash(keys)
  BY <1>1, <1>2, <1>3, <1>9, EpochEndIs DEF DummyRotate, compute_authority_set_hash, keys
<1> QED BY <1>24, <1>27, <1>28 DEF IsNextSet, compute_authority_set_hash, keys, num, pubkeys

-----------------------------------------------------------------------------
(* Every behaviour of the circuit and its provers.                         *)

\* The repository's hint points into the header, in front of an announcement
\* and as many bytes as the number of logs takes.
LEMMA StartPosition ==
    ASSUME NEW b \in Blocks, EpochEnd(b)
    PROVE  /\ start_position(b) \in Nat
           /\ \E i \in DOMAIN Header[b].logs :
                  /\ IsScheduledChange(Header[b].logs[i])
                  /\ LogStart(b, i) = start_position(b) + Len(Compact(Len(Header[b].logs)))
PROOF
<1> DEFINE logs == Header[b].logs
           n == Len(logs)
           found == {k \in 1 .. n : IsScheduledChange(logs[k])}
           first == FirstScheduledChange(b)
           before == FlattenSeq([j \in 1 .. first - 1 |-> EncodedLogs(b)[j]])
<1>1. n \in Nat /\ DOMAIN logs = 1 .. n /\ EncodedLogs(b) \in [1 .. n -> Seq(Byte)]
  BY EncodedLogsSeq
<1>2. \E k \in DOMAIN logs :
          IsScheduledChange(logs[k]) /\ \A j \in 1 .. k - 1 : ~ IsScheduledChange(logs[j])
  <2>1. found # {} /\ found \subseteq Nat
    BY <1>1 DEF EpochEnd
  <2>2. PICK k \in found : \A j \in found : k <= j
    <3> HIDE DEF found
    <3> QED BY <2>1, LeastNumber
  <2>3. ASSUME NEW j \in 1 .. k - 1 PROVE ~ IsScheduledChange(logs[j])
    <3>1. j \in 1 .. n /\ ~ (k <= j)
      BY <1>1, <2>2
    <3> QED BY <2>2, <3>1
  <2> QED BY <1>1, <2>2, <2>3
<1>3. first \in 1 .. n /\ IsScheduledChange(logs[first])
  BY <1>1, <1>2 DEF FirstScheduledChange
<1> HIDE DEF first
<1>4. before \in Seq(Byte)
  BY <1>1, <1>3, FlattenAt
<1>5. before = FlattenSeq([j \in 1 .. first - 1 |-> EncodeLog(logs[j])])
  <2>1. \A j \in 1 .. first - 1 : j \in 1 .. n
    BY <1>1, <1>3
  <2>2. [j \in 1 .. first - 1 |-> EncodedLogs(b)[j]] = [j \in 1 .. first - 1 |-> EncodeLog(logs[j])]
    BY <2>1 DEF EncodedLogs
  <2> QED BY <2>2
<1>6. Len(Compact(b)) \in Nat /\ Len(Compact(n)) \in Nat
  <2>1. b \in Nat
    BY FieldsAssumption DEF IsU32
  <2>2. GoodMode(Compact(b)) /\ GoodMode(Compact(n))
    BY <1>1, <2>1, CompactMode
  <2> QED BY <2>2, GoodLength
<1>7. start_position(b) = HASH_SIZE + Len(Compact(b)) + HASH_SIZE + HASH_SIZE + Len(before)
  BY <1>5 DEF start_position, first
<1>8. LogStart(b, first) = 3 * HASH_SIZE + Len(Compact(b)) + Len(Compact(n)) + Len(before)
  BY <1>5 DEF LogStart
<1> HIDE DEF before
<1>9. Len(before) \in Nat
  BY <1>4
<1>10. /\ start_position(b) \in Nat
       /\ LogStart(b, first) = start_position(b) + Len(Compact(n))
  BY <1>6, <1>7, <1>8, <1>9, LengthsAssumption
<1> QED BY <1>1, <1>3, <1>10

\* The bytes that start a GRANDPA log.
LEMMA GrandpaStart == <<4, 70, 82, 78, 75>> = <<CONSENSUS>> \o FRNK
BY DEF CONSENSUS, FRNK

\* If the circuit accepts the repository's position, the number of logs takes one byte,
\* and the log is right after it: with more bytes the flag of the log would
\* be where the circuit compares the engine id.
LEMMA RepositoryPosition ==
    ASSUME NEW w, NEW id, GoodWitness(w, id), RotateAssertions(id, w), EpochEnd(w.block),
           w.next_authority_set_start_position = start_position(w.block)
    PROVE  AtAnnouncement(w)
PROOF
<1> DEFINE b == w.block
           bytes == w.header_bytes
           p == w.next_authority_set_start_position
           n == Len(Header[b].logs)
           k == Len(Compact(n))
<1>1. b \in Blocks /\ HeaderWithPadding(bytes, b)
  BY DEF GoodWitness, HasHeader
<1>2. PICK i \in DOMAIN Header[b].logs :
          IsScheduledChange(Header[b].logs[i]) /\ LogStart(b, i) = p + k
  BY <1>1, StartPosition
<1>3. k \in Nat /\ k >= 1 /\ k <= 5
  <2>1. n \in Nat
    BY <1>1, EncodedLogsSeq
  <2>2. GoodMode(Compact(n))
    BY <2>1, CompactMode
  <2> QED BY <2>2, GoodLength
<1>4. /\ bytes \in Seq(Byte) /\ p \in Nat /\ p + 17 <= Len(bytes) /\ Len(bytes) \in Nat
      /\ Subarray(bytes, p + 1, 5) = <<4, 70, 82, 78, 75>>
  <2>1. MAX_PREFIX_LENGTH = 17
    BY DEF MAX_PREFIX_LENGTH, CONSENSUS_ENGINE_ID_PREFIX_LENGTH, MAX_COMPACT_UINT_BYTES
  <2> QED BY <2>1, GrandpaStart, LogAccepted
<1> DEFINE log == Header[b].logs[i]
<1>5. EncodeLog(log) \in Seq(Byte) /\ Len(EncodeLog(log)) >= 1 /\ EncodeLog(log)[1] = 4
  <2>1. log \in DigestItems
    BY <1>1, <1>2, EncodedLogsSeq
  <2>2. log.flag = 4
    BY <1>2 DEF IsScheduledChange, CONSENSUS
  <2> HIDE DEF log
  <2>3. /\ EncodeLog(log) \in Seq(Byte) /\ EncodeLog(log)[1] = 4
        /\ At(EncodeLog(log), 1, log.engine) /\ Len(log.engine) = 4
    BY <2>1, <2>2, LogParts
  <2>4. Len(EncodeLog(log)) \in Nat /\ 1 + 4 <= Len(EncodeLog(log))
    BY <2>3 DEF At
  <2> QED BY <2>3, <2>4
<1>6. At(bytes, p + k, EncodeLog(log))
  BY <1>1, <1>2, LogIsAt
<1> HIDE DEF bytes, p, k, log
<1>7. bytes[p + k + 1] = 4
  BY <1>3, <1>4, <1>5, <1>6 DEF At
<1>8. \A j \in 1 .. 5 : <<4, 70, 82, 78, 75>>[j] = bytes[(p + 1) + j]
  <2>1. PICK five \in Nat : five = 5
    OBVIOUS
  <2>2. p + 1 \in Nat /\ (p + 1) + five <= Len(bytes)
    BY <1>4, <2>1
  <2>3. \A j \in 1 .. five : Subarray(bytes, p + 1, five)[j] = bytes[(p + 1) + j]
    BY <1>4, <2>2, Reads
  <2> QED BY <1>4, <2>1, <2>3
<1>9. k = 1
  <2>0. k \in 1 .. 5
    BY <1>3
  <2>1. <<4, 70, 82, 78, 75>>[k] = bytes[(p + 1) + k]
    BY <1>8, <2>0, Zenon
  <2>2. (p + 1) + k = p + k + 1
    BY <1>3, <1>4
  <2>3. <<4, 70, 82, 78, 75>>[k] = 4
    BY <1>7, <2>1, <2>2
  <2>4. k = 1 \/ k = 2 \/ k = 3 \/ k = 4 \/ k = 5
    BY <2>0
  <2> QED BY <2>3, <2>4
<1> QED BY <1>2, <1>9 DEF AtAnnouncement, p

\* The inductive invariant.  A justification of the current set is carried
\* from the hint to the assertions, the repository's position with it, and
\* what they accept is the next set.
RInv ==
    /\ stage = "authorities" => prover = "any" /\ witness.position \in Nat
    /\ stage = "circuit" =>
           /\ GoodWitness(witness, current_authority_set_id)
           /\ prover = "repository" =>
                  /\ EpochEnd(witness.block)
                  /\ witness.next_authority_set_start_position = start_position(witness.block)
    /\ RotatedIsNextSet

LEMMA RInvStep == RInv /\ HeaderOfBlock' /\ [Next]_vars => RInv'
PROOF
<1> DEFINE id == current_authority_set_id
<1> SUFFICES ASSUME RInv, HeaderOfBlock', [Next]_vars PROVE RInv'
  OBVIOUS
<1>0. (stage \notin {"hint", "panic"} => HasHeader(witness))'
  BY DEF HeaderOfBlock
<1>1. \A keys : PerSlot(PaddedKeys(keys))
  BY DEF PerSlot, PaddedKeys
<1>2. \A bytes, cursor : PerSlot(KeysAt(bytes, cursor))
  BY DEF PerSlot, KeysAt
<1>3. CASE RotateHint
  <2> DEFINE b == last_justified_block(id)
  <2>1. CASE HeaderRotatePanics(b) \/ Len(get_authorities(b)) > MAX_NUM_AUTHORITIES
    BY <1>3, <2>1 DEF RotateHint, RInv, RotatedIsNextSet
  <2>2. CASE ~ (HeaderRotatePanics(b) \/ Len(get_authorities(b)) > MAX_NUM_AUTHORITIES)
    <3>1. b \in Blocks /\ EpochEnd(b) /\ Header[b].signer = id
      BY <2>2, HintBlock
    <3>2. stage' = "circuit" /\ witness' = get_header_rotate(b) /\ id' = id
      BY <1>3, <2>2 DEF RotateHint
    <3> HIDE DEF b
    <3>3. /\ witness'.block = b /\ witness'.precommit = Precommit(b, Header[b].signer)
          /\ witness'.next_authority_set_start_position = start_position(b)
          /\ witness'.new_pubkeys = PaddedKeys(get_authorities(b))
      BY <3>2 DEF get_header_rotate
    <3>4. HasHeader(witness')
      BY <1>0, <3>2
    <3>5. GoodWitness(witness', id)
      BY <1>1, <3>1, <3>3, <3>4, StartPosition DEF GoodWitness
    <3> QED BY <3>1, <3>2, <3>3, <3>5 DEF RInv, RotatedIsNextSet
  <2> QED BY <2>1, <2>2
<1>4. CASE AnyHeader
  <2>1. \E position \in 0 .. MAX_HEADER_SIZE : witness'.position = position
    BY <1>4 DEF AnyHeader
  <2>2. witness'.position \in Nat
    BY <2>1, LengthsAssumption
  <2>3. stage' = "authorities" /\ prover' = "any"
    BY <1>4 DEF AnyHeader
  <2> QED BY <2>2, <2>3 DEF RInv, RotatedIsNextSet
<1>5. CASE AnyAuthorities
  <2> DEFINE W(keys, num, j) ==
                 [present |-> TRUE, block |-> witness.block,
                  header_size |-> witness.header_size,
                  header_bytes |-> witness.header_bytes,
                  precommit |-> Precommit(j.signed, id),
                  by_set |-> j.by_set,
                  epoch_end_block_number |-> j.signed,
                  target_header_num_authorities |-> num,
                  next_authority_set_start_position |-> witness.position,
                  new_pubkeys |-> keys]
  <2>1. PICK keys \in AnyKeys(witness.header_bytes, witness.position), num \in AnyNumber,
             j \in AnyJustification(witness.block) : witness' = W(keys, num, j)
    BY <1>5 DEF AnyAuthorities
  <2>2. PerSlot(keys)
    BY <1>1, <1>2, <2>1 DEF AnyKeys
  <2>3. j.by_set => j.signed \in Blocks /\ Header[j.signed].signer = id
    BY <2>1 DEF AnyJustification
  <2>4. /\ witness'.precommit = Precommit(j.signed, id) /\ witness'.by_set = j.by_set
        /\ witness'.next_authority_set_start_position = witness.position
        /\ witness'.new_pubkeys = keys
    BY <2>1
  <2>5. stage = "authorities" /\ stage' = "circuit" /\ id' = id /\ prover' = prover
    BY <1>5 DEF AnyAuthorities
  <2>6. HasHeader(witness') /\ prover' = "any" /\ witness.position \in Nat
    BY <1>0, <2>5 DEF RInv
  <2>7. GoodWitness(witness', id)
    BY <2>2, <2>3, <2>4, <2>6 DEF GoodWitness
  <2> QED BY <2>5, <2>6, <2>7 DEF RInv, RotatedIsNextSet
<1>6. CASE rotate
  <2>1. /\ stage = "circuit" /\ id' = id /\ GoodWitness(witness, id)
        /\ UNCHANGED <<prover, witness>>
        /\ prover = "repository" =>
               /\ EpochEnd(witness.block)
               /\ witness.next_authority_set_start_position = start_position(witness.block)
    BY <1>6 DEF rotate, RInv
  <2>2. CASE RotateAssertions(id, witness)
    <3>1. /\ stage' = "proved"
          /\ new_authority_set_hash' =
                 compute_authority_set_commitment(
                     witness.target_header_num_authorities, witness.new_pubkeys)
      BY <1>6, <2>2 DEF rotate
    <3>2. ASSUME witness.by_set,
                 prover = "repository" \/ GrandpaLogsOnly(witness.block, witness.header_bytes)
          PROVE  IsNextSet(id, new_authority_set_hash')
      <4>1. AtAnnouncement(witness)
        BY <2>1, <2>2, <3>2, OnlyAnnouncements, RepositoryPosition
      <4> QED BY <2>1, <2>2, <3>1, <3>2, <4>1, AssertionsSound
    <3>3. RotatedIsNextSet'
      BY <2>1, <3>2 DEF RotatedIsNextSet, IsNextSet
    <3> QED BY <3>1, <3>3 DEF RInv
  <2>3. CASE ~ RotateAssertions(id, witness)
    BY <1>6, <2>3 DEF rotate, RInv, RotatedIsNextSet
  <2> QED BY <2>2, <2>3
<1>7. CASE UNCHANGED vars
  BY <1>7 DEF RInv, RotatedIsNextSet, vars
<1> QED BY <1>3, <1>4, <1>5, <1>6, <1>7 DEF Next

\* A proof that the repository's prover makes means that the epoch of the
\* current set is over and that the output is the commitment to the set that
\* follows it, as the dummy circuit computes it.  So does that of any other
\* prover whose justification has the votes of the set and whose bytes hold
\* the start of a GRANDPA log only where the header has one: no other log, no
\* other place and no other number of keys passes for the announcement.
THEOREM RotationSound == Spec => []RotatedIsNextSet
PROOF
<1>1. Init => RInv /\ HeaderOfBlock
  BY DEF Init, RInv, RotatedIsNextSet, HeaderOfBlock
<1>2. RInv => RotatedIsNextSet
  BY DEF RInv
<1> QED BY <1>1, <1>2, RInvStep, HeaderOfBlockStep, PTL DEF Spec
=============================================================================
