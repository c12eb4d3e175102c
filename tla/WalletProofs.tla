---------------------------- MODULE WalletProofs ----------------------------
(***************************************************************************)
(* What is proved of the wallet and of the two encodings, for all widths   *)
(* that EncodingAssumption allows.                                         *)
(*                                                                         *)
(* The characters of an address are the groups of one number, x, that the  *)
(* bytes are also the groups of: encoding keeps the bits that are already  *)
(* out, as multiplying x by a power of two shifts all of its groups, and   *)
(* decoding goes through the prefixes of x.  The words of a phrase are the *)
(* groups of the entropy with its checksum.                                *)
(***************************************************************************)
EXTENDS Wallet, Numbers, SequenceTheorems

-----------------------------------------------------------------------------
(***************************************************************************)
(* Groups of bits.                                                         *)
(***************************************************************************)

\* The widths as numbers.
LEMMA CodeSizes ==
  /\ ByteBits \in Nat \ {0} /\ CharBits \in Nat \ {0} /\ CharBits <= ByteBits
  /\ WordBits \in Nat \ {0} /\ EntUnit \in Nat \ {0}
BY EncodingAssumption

\* z has d bits, those of x, which has c, and more below them.
Extends(z, d, x, c) ==
  /\ x \in Nat /\ c \in Nat
  /\ \E b \in Nat, y \in Nat : y < 2 ^ b /\ z = x * 2 ^ b + y /\ d = c + b

\* Bits added below a number leave its groups from the top as they were.
LEMMA GroupShifts ==
  ASSUME NEW x, NEW c, NEW w, NEW i, NEW z, NEW d,
         Extends(z, d, x, c), w \in Nat, i \in Nat, w * i <= c
  PROVE  Group(z, d, w, i) = Group(x, c, w, i)
<1> PICK b \in Nat, y \in Nat : y < 2 ^ b /\ z = x * 2 ^ b + y /\ d = c + b
  BY DEF Extends
<1> x \in Nat /\ c \in Nat
  BY DEF Extends
<1> DEFINE e == c - w * i
           p == 2 ^ b
           q == 2 ^ e
<1>1. e \in Nat /\ d - w * i = e + b
  <2>1. w * i \in Nat
    OBVIOUS
  <2>2. QED
    BY <2>1
<1> HIDE DEF e
<1>2. p \in Nat \ {0} /\ q \in Nat \ {0} /\ 2 ^ (e + b) = q * p
  BY <1>1, PowerIsPositive, PowerSum
<1>3. y < p
  OBVIOUS
<1> HIDE DEF p, q
<1>4. q * p = p * q
  BY <1>2
<1>5. (x * p + y) \div (p * q) = x \div q
  <2>1. p \in Nat \ {0} /\ q \in Nat \ {0} /\ x \in Nat /\ y \in Nat /\ y < p
    BY <1>2, <1>3
  <2>2. \A u \in Nat, v \in Nat : v < p => (u * p + v) \div (p * q) = u \div q
    <3> SUFFICES ASSUME NEW u \in Nat, NEW v \in Nat, v < p
                 PROVE  (u * p + v) \div (p * q) = u \div q
      OBVIOUS
    <3>1. QED
      BY <2>1, DivisionShifts
  <2>3. QED
    BY <2>1, <2>2, Zenon
<1>6. Group(z, d, w, i) = ((x * p + y) \div (p * q)) % 2 ^ w
  BY <1>1, <1>2, <1>4 DEF Group, p
<1>7. Group(x, c, w, i) = (x \div q) % 2 ^ w
  BY DEF Group, q, e
<1> QED BY <1>5, <1>6, <1>7

\* The last group is the remainder.
LEMMA LastGroup ==
  ASSUME NEW x \in Nat, NEW w \in Nat, NEW i \in Nat
  PROVE  Group(x, w * i, w, i) = x % 2 ^ w
<1>1. w * i - w * i = 0
  <2>1. w * i \in Nat
    OBVIOUS
  <2>2. QED
    BY <2>1
<1>2. x \div 1 = x
  OBVIOUS
<1> QED BY <1>1, <1>2, PowerZero DEF Group

\* The first j of the n groups of x.
Prefix(x, w, n, j) == x \div 2 ^ (w * (n - j))

\* A prefix is the one before it and one more group.
LEMMA NextGroup ==
  ASSUME NEW x \in Nat, NEW w \in Nat, NEW n \in Nat, NEW j \in Nat, j < n
  PROVE  Prefix(x, w, n, j + 1) = Prefix(x, w, n, j) * 2 ^ w + Group(x, w * n, w, j + 1)
<1> DEFINE d == w * (n - (j + 1))
           p == 2 ^ d
           q == 2 ^ w
           z == x \div p
<1>1. d \in Nat
  <2>1. n - (j + 1) \in Nat
    OBVIOUS
  <2> DEFINE m == n - (j + 1)
  <2> HIDE DEF m
  <2>2. w * m \in Nat
    BY <2>1 DEF m
  <2>3. QED
    BY <2>2 DEF m
<1>2. w * (n - j) = d + w
  <2> DEFINE m == n - (j + 1)
  <2>1. n - j = m + 1 /\ m \in Nat
    OBVIOUS
  <2> HIDE DEF m
  <2>2. w * (m + 1) = w * m + w
    BY <2>1
  <2>3. QED
    BY <2>1, <2>2 DEF m
<1>3. w * n - w * (j + 1) = d
  <2> DEFINE m == n - (j + 1)
  <2>1. n = m + (j + 1) /\ m \in Nat
    OBVIOUS
  <2> HIDE DEF m
  <2>2. w * (m + (j + 1)) = w * m + w * (j + 1)
    BY <2>1
  <2>3. w * m \in Nat /\ w * (j + 1) \in Nat
    BY <2>1
  <2>4. w * (m + (j + 1)) - w * (j + 1) = w * m
    BY <2>2, <2>3
  <2>5. QED
    BY <2>1, <2>4 DEF m
<1>4. Group(x, w * n, w, j + 1) = z % q
  BY <1>3 DEF Group
<1> HIDE DEF d
<1>5. p \in Nat \ {0} /\ q \in Nat \ {0}
  BY <1>1, PowerIsPositive
<1>6. 2 ^ (d + w) = p * q
  BY <1>1, PowerSum
<1> HIDE DEF p, q
<1>7. x \div p = (x \div (p * q)) * q + ((x \div p) % q)
  BY <1>5, QuotientSplits
<1>8. Prefix(x, w, n, j + 1) = x \div p
  BY DEF Prefix, p, d
<1>9. Prefix(x, w, n, j) = x \div (p * q)
  BY <1>2, <1>6 DEF Prefix
<1>10. Group(x, w * n, w, j + 1) = (x \div p) % q
  BY <1>4 DEF z
<1> QED BY <1>7, <1>8, <1>9, <1>10 DEF q

\* A prefix is a number.
LEMMA PrefixType ==
  ASSUME NEW x \in Nat, NEW w \in Nat, NEW n \in Nat, NEW j \in Nat, j <= n
  PROVE  Prefix(x, w, n, j) \in Nat
<1> DEFINE m == n - j
<1>1. m \in Nat
  OBVIOUS
<1> HIDE DEF m
<1>2. w * m \in Nat
  BY <1>1
<1>3. 2 ^ (w * m) \in Nat \ {0}
  BY <1>2, PowerIsPositive
<1>4. x \div 2 ^ (w * m) \in Nat
  BY <1>3, Division
<1> QED BY <1>4 DEF Prefix, m

\* The number itself has all the groups, and before the first there is nothing.
LEMMA PrefixEnds ==
  ASSUME NEW x \in Nat, NEW w \in Nat, NEW n \in Nat
  PROVE  /\ Prefix(x, w, n, n) = x
         /\ x < 2 ^ (w * n) => Prefix(x, w, n, 0) = 0
<1>1. n - n = 0 /\ w * 0 = 0 /\ x \div 1 = x /\ n - 0 = n
  OBVIOUS
<1>2. Prefix(x, w, n, n) = x
  <2>1. w * (n - n) = 0
    BY <1>1
  <2>2. 2 ^ (w * (n - n)) = 1
    BY <2>1, PowerZero
  <2>3. QED
    BY <1>1, <2>2 DEF Prefix
<1>3. ASSUME x < 2 ^ (w * n)
      PROVE  Prefix(x, w, n, 0) = 0
  <2> DEFINE p == 2 ^ (w * n)
  <2>1. w * n \in Nat
    OBVIOUS
  <2>2. p \in Nat \ {0} /\ x < p
    BY <1>3, <2>1, PowerIsPositive
  <2> HIDE DEF p
  <2>3. x = p * 0 + x
    BY <2>2
  <2>4. x \div p = 0
    BY <2>2, <2>3, DivisionIsUnique
  <2>5. QED
    BY <1>1, <2>4 DEF Prefix, p
<1> QED BY <1>2, <1>3

\* A group is a number of its width.
LEMMA GroupType ==
  ASSUME NEW x \in Nat, NEW c \in Nat, NEW w \in Nat, NEW i \in Nat, w * i <= c
  PROVE  Group(x, c, w, i) \in 0 .. 2 ^ w - 1
<1> DEFINE d == c - w * i
<1>1. d \in Nat
  <2>1. w * i \in Nat
    OBVIOUS
  <2>2. QED
    BY <2>1
<1> HIDE DEF d
<1>2. 2 ^ d \in Nat \ {0} /\ 2 ^ w \in Nat \ {0}
  BY <1>1, PowerIsPositive
<1>3. x \div 2 ^ d \in Nat
  BY <1>2, Division
<1>4. (x \div 2 ^ d) % 2 ^ w \in Nat /\ (x \div 2 ^ d) % 2 ^ w < 2 ^ w
  BY <1>2, <1>3, Division
<1> QED BY <1>2, <1>4 DEF Group, d

-----------------------------------------------------------------------------

Byte == 0 .. 2 ^ ByteBits - 1
Char == 0 .. 2 ^ CharBits - 1

Accumulator == [bits: Nat, count: Nat, out: Seq(Nat)]

\* The accumulator of the encoder keeps its type.
LEMMA EncodeByteType ==
  ASSUME NEW acc \in Accumulator, NEW byte \in Nat
  PROVE  EncodeByte(acc, byte) \in Accumulator
<1> DEFINE bits == acc.bits * 2 ^ ByteBits + byte
           count == acc.count + ByteBits
           new == [i \in 1 .. count \div CharBits |-> Group(bits, count, CharBits, i)]
<1>1. acc.bits \in Nat /\ acc.count \in Nat /\ acc.out \in Seq(Nat)
  BY DEF Accumulator
<1>2. bits \in Nat
  <2>1. 2 ^ ByteBits \in Nat
    BY CodeSizes, PowerIsPositive
  <2>2. QED
    BY <1>1, <2>1, SMTT(60)
<1>3. count \in Nat
  BY <1>1, CodeSizes
<1> HIDE DEF bits, count
<1>4. count \div CharBits \in Nat /\ count % CharBits \in Nat
  BY <1>3, CodeSizes, Division
<1>5. ASSUME NEW i \in 1 .. count \div CharBits
      PROVE  Group(bits, count, CharBits, i) \in Nat
  <2>1. i \in Nat /\ CharBits * i <= count
    BY <1>3, <1>4, CodeSizes, DivisionBounds
  <2>2. Group(bits, count, CharBits, i) \in 0 .. 2 ^ CharBits - 1
    BY <1>2, <1>3, <2>1, CodeSizes, GroupType
  <2>3. QED
    BY <2>2
<1>6. new \in Seq(Nat)
  BY <1>4, <1>5
<1> HIDE DEF new
<1>7. acc.out \o new \in Seq(Nat)
  BY <1>1, <1>6
<1>8. EncodeByte(acc, byte) = [bits |-> bits, count |-> count % CharBits, out |-> acc.out \o new]
  BY DEF EncodeByte, bits, count, new
<1> QED BY <1>2, <1>4, <1>7, <1>8 DEF Accumulator

\* The accumulator passes from byte to byte.
LEMMA EncodedByByte ==
  ASSUME NEW data \in Seq(Nat)
  PROVE  \E acc : /\ acc[0] = Empty
                  /\ \A k \in 1 .. Len(data) : acc[k] = EncodeByte(acc[k - 1], data[k])
                  /\ Encoded(data) = acc[Len(data)]
<1> DEFINE n == Len(data)
           g == [p \in (1 .. n) \X Accumulator |-> EncodeByte(p[2], data[p[1]])]
           Fold(acc) == acc = [k \in 0 .. n |-> IF k = 0 THEN Empty
                                                ELSE EncodeByte(acc[k - 1], data[k])]
<1>1. n \in Nat /\ \A k \in 1 .. n : data[k] \in Nat
  OBVIOUS
<1>2. g \in [(1 .. n) \X Accumulator -> Accumulator]
  BY <1>1, EncodeByteType
<1>3. Empty \in Accumulator
  BY DEF Empty, Accumulator
<1>4. \A k \in 1 .. n : \A x \in Accumulator : g[<<k, x>>] = EncodeByte(x, data[k])
  OBVIOUS
<1>5. Encoded(data) = (CHOOSE acc : Fold(acc))[n]
  BY DEF Encoded
<1> HIDE DEF g, n
<1>6. PICK f : Accumulates(f, Accumulator, n, Empty, g)
  BY <1>1, <1>2, <1>3, Accumulation
<1>7. Fold(f)
  <2>1. f \in [0 .. n -> Accumulator] /\ f[0] = Empty
    BY <1>6 DEF Accumulates
  <2>2. ASSUME NEW k \in 1 .. n
        PROVE  f[k] = EncodeByte(f[k - 1], data[k])
    <3>1. f[k] = g[<<k, f[k - 1]>>] /\ k - 1 \in 0 .. n
      BY <1>1, <1>6 DEF Accumulates
    <3>2. QED
      BY <1>4, <2>1, <3>1
  <2>3. \A k \in 0 .. n : k # 0 => k \in 1 .. n
    BY <1>1
  <2>4. QED
    BY <2>1, <2>2, <2>3
<1>8. Fold(CHOOSE acc : Fold(acc))
  <2> HIDE DEF Fold
  <2>1. QED
    BY <1>7
<1> DEFINE acc == CHOOSE acc : Fold(acc)
<1>9. acc = [k \in 0 .. n |-> IF k = 0 THEN Empty ELSE EncodeByte(acc[k - 1], data[k])]
  BY <1>8
<1>10. Encoded(data) = acc[n]
  BY <1>5
<1> HIDE DEF acc
<1>11. acc[0] = Empty /\ \A k \in 1 .. n : acc[k] = EncodeByte(acc[k - 1], data[k])
  BY <1>1, <1>9
<1> QED BY <1>10, <1>11 DEF n

\* What the accumulator holds once k bytes of data are in: their bits, and the
\* characters that the bits are enough for.
EncodedUpTo(acc, k, data) ==
  /\ acc.bits \in Nat /\ acc.bits < 2 ^ (ByteBits * k)
  /\ acc.count = (ByteBits * k) % CharBits
  /\ acc.out \in Seq(Char)
  /\ Len(acc.out) = (ByteBits * k) \div CharBits
  /\ \A i \in 1 .. Len(acc.out) : acc.out[i] = Group(acc.bits, ByteBits * k, CharBits, i)
  /\ \A m \in 1 .. k : Group(acc.bits, ByteBits * k, ByteBits, m) = data[m]

\* One more byte: the characters that are out stay the groups of the bits, and the
\* bits have the bytes so far as theirs.
LEMMA EncodeByteKeeps ==
  ASSUME NEW data \in Seq(Byte), NEW k \in Nat, k < Len(data),
         NEW acc, EncodedUpTo(acc, k, data)
  PROVE  EncodedUpTo(EncodeByte(acc, data[k + 1]), k + 1, data)
<1> DEFINE byte == data[k + 1]
           bits == acc.bits * 2 ^ ByteBits + byte
           count == acc.count + ByteBits
           new == [i \in 1 .. count \div CharBits |-> Group(bits, count, CharBits, i)]
           N == ByteBits * k
           q == N \div CharBits
           more == count \div CharBits
           next == EncodeByte(acc, byte)
<1>1. /\ next.bits = bits /\ next.count = count % CharBits /\ next.out = acc.out \o new
  BY DEF EncodeByte
<1>2. byte \in Nat /\ byte < 2 ^ ByteBits
  <2>1. k + 1 \in 1 .. Len(data)
    OBVIOUS
  <2>2. data[k + 1] \in Byte
    BY <2>1
  <2>3. 2 ^ ByteBits \in Nat
    BY CodeSizes, PowerIsPositive
  <2>4. QED
    BY <2>2, <2>3 DEF Byte
<1> HIDE DEF byte, next
<1>3. N \in Nat /\ ByteBits * (k + 1) = N + ByteBits /\ ByteBits \in Nat /\ CharBits \in Nat \ {0}
  BY CodeSizes
<1>4. acc.bits \in Nat /\ acc.bits < 2 ^ N /\ acc.count = N % CharBits
  BY DEF EncodedUpTo
<1>5. Len(acc.out) = q /\ acc.out \in Seq(Char)
  BY DEF EncodedUpTo
<1>6. \A i \in 1 .. q : acc.out[i] = Group(acc.bits, N, CharBits, i)
  BY <1>5 DEF EncodedUpTo
<1>7. \A m \in 1 .. k : Group(acc.bits, N, ByteBits, m) = data[m]
  BY DEF EncodedUpTo
<1> HIDE DEF N
<1>8. /\ q \in Nat /\ N = CharBits * q + acc.count /\ acc.count \in Nat /\ acc.count < CharBits
  BY <1>3, <1>4, Division, SMTT(60)
<1> HIDE DEF q
<1>9. 2 ^ ByteBits \in Nat \ {0} /\ 2 ^ CharBits \in Nat \ {0} /\ 2 ^ N \in Nat \ {0}
  BY <1>3, PowerIsPositive
<1>10. bits \in Nat /\ bits < 2 ^ (N + ByteBits)
  <2>1. 2 ^ (N + ByteBits) = 2 ^ N * 2 ^ ByteBits
    BY <1>3, PowerSum
  <2> DEFINE x == acc.bits
             P == 2 ^ N
             Q == 2 ^ ByteBits
  <2>2. x \in Nat /\ x < P /\ P \in Nat /\ Q \in Nat /\ byte < Q
    BY <1>2, <1>4, <1>9
  <2> HIDE DEF x, P, Q
  <2>3. (x + 1) * Q <= P * Q
    BY <2>2
  <2>4. (x + 1) * Q = x * Q + Q /\ x * Q \in Nat /\ P * Q \in Nat
    BY <2>2
  <2>5. x * Q + byte \in Nat /\ x * Q + byte < P * Q
    BY <1>2, <2>2, <2>3, <2>4
  <2>6. QED
    BY <2>1, <2>5 DEF x, P, Q
<1>11. count \in Nat /\ N + ByteBits = CharBits * q + count
  <2>1. CharBits * q \in Nat
    BY <1>3, <1>8
  <2>2. QED
    BY <1>3, <1>8, <2>1, SMTT(60)
<1>12. Extends(bits, N + ByteBits, acc.bits, N)
  <2> DEFINE x == acc.bits
             z == x * 2 ^ ByteBits + byte
             d == N + ByteBits
  <2>1. x \in Nat /\ N \in Nat /\ ByteBits \in Nat /\ byte \in Nat
    BY <1>2, <1>3, <1>4
  <2>2. byte < 2 ^ ByteBits /\ z = x * 2 ^ ByteBits + byte /\ d = N + ByteBits
    BY <1>2
  <2>3. bits = z
    OBVIOUS
  <2> HIDE DEF x, z, d, bits
  <2>4. \E b \in Nat, y \in Nat : y < 2 ^ b /\ z = x * 2 ^ b + y /\ d = N + b
    BY <2>1, <2>2, Zenon
  <2>5. QED
    BY <2>1, <2>3, <2>4 DEF Extends, x, d
<1>13. ASSUME NEW i \in Nat, CharBits * i <= N
       PROVE  Group(bits, N + ByteBits, CharBits, i) = Group(acc.bits, N, CharBits, i)
  BY <1>3, <1>12, <1>13, GroupShifts
<1>14. ASSUME NEW i \in Nat, ByteBits * i <= N
       PROVE  Group(bits, N + ByteBits, ByteBits, i) = Group(acc.bits, N, ByteBits, i)
  BY <1>3, <1>12, <1>14, GroupShifts
<1> HIDE DEF bits
<1>15. more \in Nat /\ count % CharBits \in Nat /\ count % CharBits < CharBits
       /\ count = CharBits * more + (count % CharBits)
  BY <1>3, <1>11, Division
<1> DEFINE rest == count % CharBits
<1> HIDE DEF count, more
<1>16. (N + ByteBits) \div CharBits = q + more /\ (N + ByteBits) % CharBits = rest
  <2>1. CharBits * q + CharBits * more = CharBits * (q + more)
    BY <1>3, <1>8, <1>15
  <2>2. CharBits * q \in Nat /\ CharBits * more \in Nat /\ rest \in Nat /\ q + more \in Nat
    BY <1>3, <1>8, <1>15
  <2> HIDE DEF rest
  <2>3. count = CharBits * more + rest /\ rest < CharBits
    BY <1>15 DEF rest
  <2>4. N + ByteBits = CharBits * (q + more) + rest
    BY <1>11, <2>1, <2>2, <2>3
  <2>5. N + ByteBits \in Nat
    BY <1>3
  <2>6. QED
    BY <1>3, <2>2, <2>3, <2>4, <2>5, DivisionIsUnique
<1>17. new \in Seq(Char) /\ Len(new) = more /\ \A j \in 1 .. more : new[j] = Group(bits, count, CharBits, j)
  <2>1. ASSUME NEW j \in 1 .. more
        PROVE  Group(bits, count, CharBits, j) \in Char
    <3>1. j \in Nat /\ CharBits * j <= count
      BY <1>3, <1>11, <1>15, DivisionBounds DEF more
    <3>2. QED
      BY <1>3, <1>10, <1>11, <3>1, GroupType DEF Char
  <2>2. new = [j \in 1 .. more |-> Group(bits, count, CharBits, j)]
    BY DEF more
  <2> HIDE DEF new
  <2>3. QED
    BY <1>15, <2>1, <2>2
<1> HIDE DEF new
<1>18. /\ acc.out \o new \in Seq(Char) /\ Len(acc.out \o new) = q + more
       /\ \A i \in 1 .. q + more :
            (acc.out \o new)[i] = IF i <= q THEN acc.out[i] ELSE new[i - q]
  <2> DEFINE out == acc.out
  <2>1. out \in Seq(Char) /\ Len(out) = q
    BY <1>5
  <2> HIDE DEF out
  <2>2. /\ out \o new \in Seq(Char) /\ Len(out \o new) = Len(out) + Len(new)
        /\ \A i \in 1 .. Len(out) + Len(new) :
             (out \o new)[i] = IF i <= Len(out) THEN out[i] ELSE new[i - Len(out)]
    BY <1>17, <2>1, ConcatProperties
  <2>3. QED
    BY <1>17, <2>1, <2>2 DEF out
<1>19. ASSUME NEW i \in 1 .. q + more
       PROVE  (acc.out \o new)[i] = Group(bits, N + ByteBits, CharBits, i)
  <2>1. CASE i <= q
    <3>1. i \in 1 .. q /\ (acc.out \o new)[i] = acc.out[i]
      BY <1>8, <1>18, <2>1
    <3>2. CharBits * i <= N
      <4>1. i \in Nat /\ CharBits * i <= CharBits * q
        BY <1>3, <1>8, <3>1
      <4>2. CharBits * q \in Nat /\ CharBits * i \in Nat
        BY <1>3, <1>8, <4>1
      <4>3. QED
        BY <1>8, <4>1, <4>2
    <3>3. QED
      BY <1>6, <1>13, <3>1, <3>2
  <2>2. CASE q < i
    <3>1. i - q \in 1 .. more /\ (acc.out \o new)[i] = new[i - q]
      <4>1. q \in Nat /\ more \in Nat
        BY <1>8, <1>15
      <4>2. (acc.out \o new)[i] = new[i - q]
        BY <1>18, <2>2, <4>1
      <4>3. QED
        BY <2>2, <4>1, <4>2
    <3>2. (N + ByteBits) - CharBits * i = count - CharBits * (i - q)
      <4>1. i - q \in Nat /\ q + (i - q) = i
        BY <1>8, <3>1
      <4>2. CharBits * (q + (i - q)) = CharBits * q + CharBits * (i - q)
        BY <1>3, <1>8, <4>1
      <4>3. CharBits * q \in Nat /\ CharBits * (i - q) \in Nat
        BY <1>3, <1>8, <4>1
      <4>4. CharBits * i = CharBits * q + CharBits * (i - q)
        BY <4>1, <4>2
      <4>5. QED
        BY <1>11, <4>3, <4>4
    <3>3. Group(bits, N + ByteBits, CharBits, i) = Group(bits, count, CharBits, i - q)
      BY <3>2 DEF Group
    <3>4. QED
      BY <1>17, <3>1, <3>3
  <2>3. i <= q \/ q < i
    <3>1. i \in Nat /\ q \in Nat
      BY <1>8, <1>15
    <3>2. QED
      BY <3>1
  <2>4. QED
    BY <2>1, <2>2, <2>3, Zenon
<1>20. ASSUME NEW m \in 1 .. k + 1
       PROVE  Group(bits, N + ByteBits, ByteBits, m) = data[m]
  <2>1. CASE m <= k
    <3>1. m \in 1 .. k /\ ByteBits * m <= N
      BY <1>3, <2>1 DEF N
    <3>2. QED
      BY <1>7, <1>14, <3>1
  <2>2. CASE m = k + 1
    <3>1. Group(bits, ByteBits * (k + 1), ByteBits, k + 1) = bits % 2 ^ ByteBits
      BY <1>3, <1>10, LastGroup
    <3>2. bits % 2 ^ ByteBits = byte
      <4>1. bits = 2 ^ ByteBits * acc.bits + byte
        BY <1>4, <1>9 DEF bits
      <4>2. QED
        BY <1>2, <1>4, <1>9, <1>10, <4>1, DivisionIsUnique
    <3>3. QED
      BY <1>3, <2>2, <3>1, <3>2 DEF byte
  <2>3. QED
    BY <2>1, <2>2
<1>21. EncodedUpTo(next, k + 1, data)
  <2>1. next.out = acc.out \o new /\ next.bits = bits /\ next.count = count % CharBits
    BY <1>1
  <2>2. ByteBits * (k + 1) = N + ByteBits
    BY <1>3
  <2>3. next.bits \in Nat /\ next.bits < 2 ^ (ByteBits * (k + 1))
    BY <1>10, <2>1, <2>2
  <2>4. next.count = (ByteBits * (k + 1)) % CharBits
    BY <1>16, <2>1, <2>2
  <2>5. next.out \in Seq(Char) /\ Len(next.out) = (ByteBits * (k + 1)) \div CharBits
    BY <1>16, <1>18, <2>1, <2>2
  <2>6. \A i \in 1 .. Len(next.out) : next.out[i] = Group(next.bits, ByteBits * (k + 1), CharBits, i)
    BY <1>18, <1>19, <2>1, <2>2
  <2>7. \A m \in 1 .. k + 1 : Group(next.bits, ByteBits * (k + 1), ByteBits, m) = data[m]
    BY <1>20, <2>1, <2>2
  <2>8. QED
    BY <2>3, <2>4, <2>5, <2>6, <2>7 DEF EncodedUpTo
<1> QED BY <1>21 DEF next, byte

\* All the bytes are in.
LEMMA EncodedHolds ==
  ASSUME NEW data \in Seq(Byte)
  PROVE  EncodedUpTo(Encoded(data), Len(data), data)
<1> DEFINE n == Len(data)
<1>1. n \in Nat /\ data \in Seq(Nat)
  <2>1. Byte \subseteq Nat
    BY DEF Byte
  <2>2. n \in Nat /\ data = [i \in 1 .. n |-> data[i]] /\ \A i \in 1 .. n : data[i] \in Byte
    OBVIOUS
  <2>3. \A i \in 1 .. n : data[i] \in Nat
    BY <2>1, <2>2
  <2> HIDE DEF n
  <2>4. QED
    BY <2>2, <2>3
<1>2. PICK acc : /\ acc[0] = Empty
                 /\ \A k \in 1 .. n : acc[k] = EncodeByte(acc[k - 1], data[k])
                 /\ Encoded(data) = acc[n]
  BY <1>1, EncodedByByte
<1> DEFINE S == {k \in Nat : k <= n => EncodedUpTo(acc[k], k, data)}
<1>3. 0 \in S
  <2>1. Empty.bits = 0 /\ Empty.count = 0 /\ Empty.out = <<>>
    BY DEF Empty
  <2>2. ByteBits * 0 = 0 /\ 0 \div CharBits = 0 /\ 0 % CharBits = 0
    BY CodeSizes
  <2>3. <<>> \in Seq(Char) /\ Len(<<>>) = 0
    OBVIOUS
  <2>4. EncodedUpTo(Empty, 0, data)
    <3>1. Empty.bits \in Nat /\ Empty.bits < 2 ^ (ByteBits * 0)
      <4>1. 2 ^ (ByteBits * 0) = 1
        BY <2>2, PowerZero
      <4>2. QED
        BY <2>1, <4>1
    <3>2. /\ Empty.count = (ByteBits * 0) % CharBits
          /\ Empty.out \in Seq(Char) /\ Len(Empty.out) = (ByteBits * 0) \div CharBits
          /\ Len(Empty.out) = 0
      BY <2>1, <2>2, <2>3
    <3>3. QED
      BY <3>1, <3>2 DEF EncodedUpTo
  <2>5. QED
    BY <1>2, <2>4
<1>4. ASSUME NEW k \in Nat, k \in S
      PROVE  k + 1 \in S
  <2> SUFFICES ASSUME k + 1 <= n PROVE EncodedUpTo(acc[k + 1], k + 1, data)
    OBVIOUS
  <2>1. k < n /\ k + 1 \in 1 .. n /\ (k + 1) - 1 = k /\ EncodedUpTo(acc[k], k, data)
    BY <1>1, <1>4
  <2>2. acc[k + 1] = EncodeByte(acc[k], data[k + 1])
    BY <1>2, <2>1
  <2>3. EncodedUpTo(EncodeByte(acc[k], data[k + 1]), k + 1, data)
    BY <2>1, EncodeByteKeeps
  <2>4. QED
    BY <2>2, <2>3
<1> HIDE DEF S
<1>5. n \in S
  BY <1>1, <1>3, <1>4, NaturalInduction
<1> QED BY <1>1, <1>2, <1>5 DEF S

\* chars are the digits of the number x.
Spells(chars, x) ==
  /\ x \in Nat /\ x < 2 ^ (CharBits * Len(chars))
  /\ chars \in Seq(Char)
  /\ \A i \in 1 .. Len(chars) : chars[i] = Group(x, CharBits * Len(chars), CharBits, i)

\* The characters of data are the digits of a number, whose first bits are the
\* bytes of data, and there are less bits than a byte has behind them.
LEMMA EncodeSpells ==
  ASSUME NEW data \in Seq(Byte)
  PROVE  \E x : LET chars == base32_encode(data)
                    bits  == CharBits * Len(chars)
                IN  /\ Spells(chars, x)
                    /\ bits \div ByteBits = Len(data)
                    /\ \A m \in 1 .. Len(data) : Group(x, bits, ByteBits, m) = data[m]
<1> DEFINE acc == Encoded(data)
           n == Len(data)
           N == ByteBits * n
           out == acc.out
           q == N \div CharBits
           r == acc.count
           pad == IF r > 0 THEN CharBits - r ELSE 0
           x == acc.bits * 2 ^ pad
           chars == base32_encode(data)
           L == Len(chars)
           B == CharBits * L
<1>1. chars = IF r > 0 THEN Append(out, (acc.bits * 2 ^ (CharBits - r)) % 2 ^ CharBits) ELSE out
  BY DEF base32_encode
<1>2. EncodedUpTo(acc, n, data)
  BY EncodedHolds
<1> HIDE DEF acc
<1>3. n \in Nat /\ N \in Nat /\ ByteBits \in Nat \ {0} /\ CharBits \in Nat \ {0} /\ CharBits <= ByteBits
  BY CodeSizes
<1>4. /\ acc.bits \in Nat /\ acc.bits < 2 ^ N /\ r = N % CharBits
      /\ out \in Seq(Char) /\ Len(out) = q
      /\ \A i \in 1 .. q : out[i] = Group(acc.bits, N, CharBits, i)
      /\ \A m \in 1 .. n : Group(acc.bits, N, ByteBits, m) = data[m]
  BY <1>2 DEF EncodedUpTo
<1> HIDE DEF out, chars, n
<1>5. q \in Nat /\ r \in Nat /\ r < CharBits /\ N = CharBits * q + r
  <2> HIDE DEF N, r
  <2>1. QED
    BY <1>3, <1>4, Division
<1> HIDE DEF q, r
<1>6. pad \in Nat /\ pad < CharBits
  BY <1>3, <1>5
<1>7. 2 ^ pad \in Nat \ {0} /\ 2 ^ CharBits \in Nat \ {0} /\ 2 ^ N \in Nat \ {0}
  BY <1>3, <1>6, PowerIsPositive
<1>8. x \in Nat
  BY <1>4, <1>7
<1>9. r = 0 => pad = 0 /\ chars = out
  BY <1>1, <1>5
<1>10. r # 0 => pad = CharBits - r /\ chars = Append(out, x % 2 ^ CharBits)
  BY <1>1, <1>5
<1>11. x % 2 ^ CharBits \in Char
  <2> HIDE DEF x
  <2>1. x % 2 ^ CharBits \in Nat /\ x % 2 ^ CharBits < 2 ^ CharBits
    BY <1>7, <1>8, Division
  <2>2. QED
    BY <1>7, <2>1 DEF Char
<1> HIDE DEF pad
<1>12. /\ chars \in Seq(Char) /\ L = IF r = 0 THEN q ELSE q + 1
       /\ \A i \in 1 .. q : chars[i] = out[i]
       /\ r # 0 => chars[q + 1] = x % 2 ^ CharBits
  <2> HIDE DEF x
  <2>1. CASE r = 0
    BY <1>4, <1>9, <2>1
  <2>2. CASE r # 0
    <3> DEFINE last == x % 2 ^ CharBits
    <3> HIDE DEF last
    <3>1. last \in Char /\ out \in Seq(Char) /\ Len(out) = q /\ q \in Nat
      BY <1>4, <1>5, <1>11 DEF last
    <3>2. /\ Append(out, last) \in Seq(Char) /\ Len(Append(out, last)) = q + 1
          /\ \A i \in 1 .. q : Append(out, last)[i] = out[i]
          /\ Append(out, last)[q + 1] = last
      BY <3>1
    <3>3. QED
      BY <1>10, <2>2, <3>2 DEF last
  <2>3. QED
    BY <2>1, <2>2
<1>13. L \in Nat /\ B = N + pad
  <2> HIDE DEF N, chars
  <2>1. CASE r = 0
    BY <1>3, <1>5, <1>9, <1>12, <2>1
  <2>2. CASE r # 0
    <3>1. CharBits * (q + 1) = CharBits * q + CharBits /\ CharBits * q \in Nat
      BY <1>3, <1>5
    <3>2. QED
      BY <1>3, <1>5, <1>10, <1>12, <2>2, <3>1
  <2>3. QED
    BY <2>1, <2>2
<1> HIDE DEF L
<1>14. Extends(x, B, acc.bits, N)
  <2> DEFINE y == acc.bits
  <2>1. y * 2 ^ pad = y * 2 ^ pad + 0 /\ y \in Nat /\ 0 < 2 ^ pad
    BY <1>4, <1>7
  <2> HIDE DEF B, N, y
  <2>2. \E b \in Nat, z \in Nat : z < 2 ^ b /\ y * 2 ^ pad = y * 2 ^ b + z /\ B = N + b
    <3>1. 0 \in Nat /\ pad \in Nat
      BY <1>6
    <3>2. QED
      BY <1>13, <2>1, <3>1, Zenon
  <2>3. QED
    BY <1>3, <2>1, <2>2 DEF Extends, y
<1>15. x < 2 ^ B
  <2>1. 2 ^ B = 2 ^ N * 2 ^ pad
    <3> HIDE DEF B, N
    <3>1. QED
      BY <1>3, <1>6, <1>13, PowerSum
  <2> DEFINE y == acc.bits
             P == 2 ^ N
             Q == 2 ^ pad
  <2>2. y \in Nat /\ y < P /\ P \in Nat /\ Q \in Nat \ {0}
    BY <1>4, <1>7
  <2> HIDE DEF y, P, Q
  <2>3. y * Q < P * Q
    <3>1. (y + 1) * Q <= P * Q
      BY <2>2
    <3>2. (y + 1) * Q = y * Q + Q /\ y * Q \in Nat /\ P * Q \in Nat
      BY <2>2
    <3>3. QED
      BY <2>2, <3>1, <3>2
  <2>4. QED
    BY <2>1, <2>3 DEF y, P, Q
<1> HIDE DEF x
<1>16. \A i \in 1 .. L : chars[i] = Group(x, B, CharBits, i)
  <2> SUFFICES ASSUME NEW i \in 1 .. L PROVE chars[i] = Group(x, B, CharBits, i)
    OBVIOUS
  <2>1. CASE i \in 1 .. q
    <3>1. i \in Nat /\ CharBits * i <= N
      <4>1. i \in Nat /\ CharBits * i <= CharBits * q
        BY <1>3, <1>5, <2>1
      <4>2. CharBits * q \in Nat /\ CharBits * i \in Nat
        BY <1>3, <1>5, <4>1
      <4> HIDE DEF N
      <4>3. QED
        BY <1>5, <4>1, <4>2
    <3> HIDE DEF B, N
    <3>2. Group(x, B, CharBits, i) = Group(acc.bits, N, CharBits, i)
      BY <1>3, <1>14, <3>1, GroupShifts
    <3>3. QED
      BY <1>4, <1>12, <2>1, <3>2
  <2>2. CASE i \notin 1 .. q
    <3>1. r # 0 /\ i = q + 1 /\ i = L /\ i \in Nat
      BY <1>5, <1>12, <2>2
    <3>2. Group(x, CharBits * i, CharBits, i) = x % 2 ^ CharBits
      BY <1>3, <1>8, <3>1, LastGroup
    <3>3. QED
      BY <1>12, <3>1, <3>2
  <2>3. QED
    BY <2>1, <2>2
<1>17. B \div ByteBits = n
  <2> HIDE DEF B
  <2>1. B = ByteBits * n + pad /\ pad < ByteBits /\ B \in Nat
    BY <1>3, <1>6, <1>13
  <2>2. QED
    BY <1>3, <1>6, <2>1, DivisionIsUnique
<1>18. \A m \in 1 .. n : Group(x, B, ByteBits, m) = data[m]
  <2> SUFFICES ASSUME NEW m \in 1 .. n PROVE Group(x, B, ByteBits, m) = data[m]
    OBVIOUS
  <2>1. m \in Nat /\ ByteBits * m <= N
    BY <1>3
  <2> HIDE DEF B, N
  <2>2. Group(x, B, ByteBits, m) = Group(acc.bits, N, ByteBits, m)
    BY <1>3, <1>14, <2>1, GroupShifts
  <2>3. QED
    BY <1>4, <2>2
<1>19. Spells(chars, x)
  BY <1>8, <1>12, <1>15, <1>16 DEF Spells, L
<1> QED BY <1>17, <1>18, <1>19 DEF chars, n, L

\* The accumulator of the decoder keeps its type.
LEMMA DecodeCharType ==
  ASSUME NEW acc \in Accumulator, NEW char \in Nat
  PROVE  DecodeChar(acc, char) \in Accumulator
<1> DEFINE bits == acc.bits * 2 ^ CharBits + char
           count == acc.count + CharBits
           byte == Group(bits, count, ByteBits, 1)
<1>1. acc.bits \in Nat /\ acc.count \in Nat /\ acc.out \in Seq(Nat)
  BY DEF Accumulator
<1>2. bits \in Nat
  <2>1. 2 ^ CharBits \in Nat
    BY CodeSizes, PowerIsPositive
  <2>2. QED
    BY <1>1, <2>1
<1>3. count \in Nat
  BY <1>1, CodeSizes
<1>4. DecodeChar(acc, char) =
        IF char = Padding THEN acc
        ELSE IF count >= ByteBits
        THEN [bits |-> bits, count |-> count - ByteBits, out |-> Append(acc.out, byte)]
        ELSE [acc EXCEPT !.bits = bits, !.count = count]
  BY DEF DecodeChar
<1>5. CASE char = Padding
  BY <1>4, <1>5
<1>6. CASE char # Padding /\ count >= ByteBits
  <2> HIDE DEF bits, count
  <2>1. count - ByteBits \in Nat
    BY <1>3, <1>6, CodeSizes
  <2>2. byte \in Nat
    <3>1. 1 \in Nat /\ ByteBits * 1 <= count
      BY <1>3, <1>6, CodeSizes
    <3>2. byte \in 0 .. 2 ^ ByteBits - 1
      BY <1>2, <1>3, <3>1, CodeSizes, GroupType
    <3>3. QED
      BY <3>2
  <2> HIDE DEF byte
  <2>3. Append(acc.out, byte) \in Seq(Nat)
    BY <1>1, <2>2
  <2>4. QED
    BY <1>2, <1>4, <1>6, <2>1, <2>3 DEF Accumulator
<1>7. CASE char # Padding /\ ~(count >= ByteBits)
  <2> HIDE DEF bits, count, byte
  <2>1. QED
    BY <1>2, <1>3, <1>4, <1>7 DEF Accumulator
<1> QED BY <1>5, <1>6, <1>7

\* The accumulator passes from character to character.
LEMMA DecodedByChar ==
  ASSUME NEW chars \in Seq(Nat)
  PROVE  \E acc : /\ acc[0] = Empty
                  /\ \A k \in 1 .. Len(chars) : acc[k] = DecodeChar(acc[k - 1], chars[k])
                  /\ Decoded(chars) = acc[Len(chars)]
<1> DEFINE n == Len(chars)
           g == [p \in (1 .. n) \X Accumulator |-> DecodeChar(p[2], chars[p[1]])]
           Fold(acc) == acc = [k \in 0 .. n |-> IF k = 0 THEN Empty
                                                ELSE DecodeChar(acc[k - 1], chars[k])]
<1>1. n \in Nat /\ \A k \in 1 .. n : chars[k] \in Nat
  OBVIOUS
<1>2. g \in [(1 .. n) \X Accumulator -> Accumulator]
  BY <1>1, DecodeCharType
<1>3. Empty \in Accumulator
  BY DEF Empty, Accumulator
<1>4. \A k \in 1 .. n : \A x \in Accumulator : g[<<k, x>>] = DecodeChar(x, chars[k])
  OBVIOUS
<1>5. Decoded(chars) = (CHOOSE acc : Fold(acc))[n]
  BY DEF Decoded
<1> HIDE DEF g, n
<1>6. PICK f : Accumulates(f, Accumulator, n, Empty, g)
  BY <1>1, <1>2, <1>3, Accumulation
<1>7. Fold(f)
  <2>1. f \in [0 .. n -> Accumulator] /\ f[0] = Empty
    BY <1>6 DEF Accumulates
  <2>2. ASSUME NEW k \in 1 .. n
        PROVE  f[k] = DecodeChar(f[k - 1], chars[k])
    <3>1. f[k] = g[<<k, f[k - 1]>>] /\ k - 1 \in 0 .. n
      BY <1>1, <1>6 DEF Accumulates
    <3>2. QED
      BY <1>4, <2>1, <3>1
  <2>3. \A k \in 0 .. n : k # 0 => k \in 1 .. n
    BY <1>1
  <2>4. QED
    BY <2>1, <2>2, <2>3
<1>8. Fold(CHOOSE acc : Fold(acc))
  <2> HIDE DEF Fold
  <2>1. QED
    BY <1>7
<1> DEFINE acc == CHOOSE acc : Fold(acc)
<1>9. acc = [k \in 0 .. n |-> IF k = 0 THEN Empty ELSE DecodeChar(acc[k - 1], chars[k])]
  BY <1>8
<1>10. Decoded(chars) = acc[n]
  BY <1>5
<1> HIDE DEF acc
<1>11. acc[0] = Empty /\ \A k \in 1 .. n : acc[k] = DecodeChar(acc[k - 1], chars[k])
  BY <1>1, <1>9
<1> QED BY <1>10, <1>11 DEF n

\* What the accumulator holds once j of the n characters of x are in: the bits
\* of x that they have, and the bytes that those are enough for.
DecodedUpTo(acc, j, x, n) ==
  /\ acc \in Accumulator
  /\ acc.bits = Prefix(x, CharBits, n, j)
  /\ acc.count = (CharBits * j) % ByteBits
  /\ Len(acc.out) = (CharBits * j) \div ByteBits
  /\ \A m \in 1 .. Len(acc.out) : acc.out[m] = Group(acc.bits, CharBits * j, ByteBits, m)

\* One more character: the bytes that are out stay the groups of the bits, which
\* are one more group of x.
LEMMA DecodeCharKeeps ==
  ASSUME NEW chars, NEW x, Spells(chars, x), NEW j \in Nat, j < Len(chars),
         NEW acc, DecodedUpTo(acc, j, x, Len(chars))
  PROVE  DecodedUpTo(DecodeChar(acc, chars[j + 1]), j + 1, x, Len(chars))
<1> DEFINE n == Len(chars)
           char == chars[j + 1]
           bits == acc.bits * 2 ^ CharBits + char
           count == acc.count + CharBits
           byte == Group(bits, count, ByteBits, 1)
           N == CharBits * j
           q == N \div ByteBits
           next == DecodeChar(acc, char)
           D == CharBits * (j + 1)
<1>1. next = IF char = Padding THEN acc
             ELSE IF count >= ByteBits
             THEN [bits |-> bits, count |-> count - ByteBits, out |-> Append(acc.out, byte)]
             ELSE [acc EXCEPT !.bits = bits, !.count = count]
  BY DEF DecodeChar
<1>2. /\ n \in Nat /\ x \in Nat /\ j + 1 \in 1 .. n
      /\ char = Group(x, CharBits * n, CharBits, j + 1) /\ char \in Char
  BY DEF Spells
<1>3. ByteBits \in Nat \ {0} /\ CharBits \in Nat \ {0} /\ CharBits <= ByteBits
  BY CodeSizes
<1>4. 2 ^ CharBits \in Nat \ {0} /\ char \in Nat /\ char < 2 ^ CharBits /\ char # Padding
  <2>1. 2 ^ CharBits \in Nat \ {0}
    BY <1>3, PowerIsPositive
  <2> HIDE DEF char
  <2>2. QED
    BY <1>2, <2>1 DEF Char, Padding
<1>5. /\ acc.bits = Prefix(x, CharBits, n, j) /\ acc.count = N % ByteBits
      /\ acc.out \in Seq(Nat) /\ Len(acc.out) = q
      /\ \A m \in 1 .. q : acc.out[m] = Group(acc.bits, N, ByteBits, m)
  BY DEF DecodedUpTo, Accumulator
<1>6. acc.bits \in Nat /\ acc \in Accumulator /\ next \in Accumulator
  <2>1. acc.bits \in Nat /\ acc \in Accumulator
    BY DEF DecodedUpTo, Accumulator
  <2> HIDE DEF char
  <2>2. QED
    BY <1>4, <2>1, DecodeCharType
<1>7. bits = Prefix(x, CharBits, n, j + 1)
  <2>1. Prefix(x, CharBits, n, j + 1)
          = Prefix(x, CharBits, n, j) * 2 ^ CharBits + Group(x, CharBits * n, CharBits, j + 1)
    BY <1>2, <1>3, NextGroup
  <2>2. QED
    BY <1>2, <1>5, <2>1
<1>8. N \in Nat /\ D = N + CharBits /\ D \in Nat
  BY <1>3
<1>9. bits \in Nat
  <2> HIDE DEF char
  <2>1. QED
    BY <1>4, <1>6
<1>10. Extends(bits, D, acc.bits, N)
  <2> DEFINE y == acc.bits
             z == y * 2 ^ CharBits + char
  <2>1. bits = z /\ y \in Nat
    BY <1>6
  <2> HIDE DEF char
  <2>2. z = y * 2 ^ CharBits + char
    OBVIOUS
  <2> HIDE DEF D, N, y, z, bits
  <2>3. \E b \in Nat, w \in Nat : w < 2 ^ b /\ z = y * 2 ^ b + w /\ D = N + b
    <3>1. CharBits \in Nat
      BY <1>3
    <3>2. QED
      BY <1>4, <1>8, <2>2, <3>1, Zenon
  <2>4. QED
    BY <1>8, <2>1, <2>3 DEF Extends, y
<1> HIDE DEF bits, char, next, D, N
<1>11. q \in Nat /\ acc.count \in Nat /\ acc.count < ByteBits /\ N = ByteBits * q + acc.count
  BY <1>3, <1>5, <1>8, Division
<1> HIDE DEF q
<1>12. ASSUME NEW m \in 1 .. q
       PROVE  acc.out[m] = Group(bits, D, ByteBits, m)
  <2>1. m \in Nat /\ ByteBits * m <= N
    <3>1. m \in Nat /\ ByteBits * m <= ByteBits * q
      BY <1>3, <1>11
    <3>2. ByteBits * q \in Nat /\ ByteBits * m \in Nat
      BY <1>3, <1>11, <3>1
    <3>3. QED
      BY <1>11, <3>1, <3>2
  <2>2. Group(bits, D, ByteBits, m) = Group(acc.bits, N, ByteBits, m)
    BY <1>3, <1>10, <2>1, GroupShifts
  <2>3. QED
    BY <1>5, <2>2
<1>13. count \in Nat /\ D = ByteBits * q + count /\ ByteBits * q \in Nat
  <2>1. ByteBits * q \in Nat
    BY <1>3, <1>11
  <2>2. QED
    BY <1>3, <1>8, <1>11, <2>1, SMTT(60)
<1>14. CASE count >= ByteBits
  <2>1. next = [bits |-> bits, count |-> count - ByteBits, out |-> Append(acc.out, byte)]
    BY <1>1, <1>4, <1>14
  <2>2. D = ByteBits * (q + 1) + (count - ByteBits) /\ count - ByteBits \in Nat /\ count - ByteBits < ByteBits
    <3>1. ByteBits * (q + 1) = ByteBits * q + ByteBits
      BY <1>3, <1>11
    <3>2. count < ByteBits + ByteBits
      BY <1>3, <1>11
    <3> HIDE DEF count
    <3>3. QED
      BY <1>3, <1>13, <1>14, <3>1, <3>2
  <2> HIDE DEF count
  <2>3. D \div ByteBits = q + 1 /\ D % ByteBits = count - ByteBits
    <3>1. q + 1 \in Nat
      BY <1>11
    <3>2. QED
      BY <1>3, <1>8, <2>2, <3>1, DivisionIsUnique
  <2>4. D - ByteBits * (q + 1) = count - ByteBits * 1
    <3>1. ByteBits * (q + 1) \in Nat
      BY <1>3, <1>11
    <3>2. QED
      BY <1>3, <1>13, <2>2, <3>1
  <2>5. byte = Group(bits, D, ByteBits, q + 1)
    BY <2>4 DEF Group
  <2>6. byte \in Nat
    <3>1. 1 \in Nat /\ ByteBits * 1 <= count
      BY <1>3, <1>13, <1>14
    <3>2. byte \in 0 .. 2 ^ ByteBits - 1
      BY <1>3, <1>9, <1>13, <3>1, GroupType
    <3>3. QED
      BY <3>2
  <2> HIDE DEF byte
  <2>7. /\ Append(acc.out, byte) \in Seq(Nat) /\ Len(Append(acc.out, byte)) = q + 1
        /\ \A m \in 1 .. q : Append(acc.out, byte)[m] = acc.out[m]
        /\ Append(acc.out, byte)[q + 1] = byte
    <3> DEFINE out == acc.out
    <3>1. out \in Seq(Nat) /\ Len(out) = q /\ q \in Nat
      BY <1>5, <1>11
    <3> HIDE DEF out
    <3>2. /\ Append(out, byte) \in Seq(Nat) /\ Len(Append(out, byte)) = q + 1
          /\ \A m \in 1 .. q : Append(out, byte)[m] = out[m]
          /\ Append(out, byte)[q + 1] = byte
      BY <2>6, <3>1
    <3>3. QED
      BY <3>2 DEF out
  <2>8. \A m \in 1 .. q + 1 : Append(acc.out, byte)[m] = Group(bits, D, ByteBits, m)
    <3> SUFFICES ASSUME NEW m \in 1 .. q + 1
                 PROVE  Append(acc.out, byte)[m] = Group(bits, D, ByteBits, m)
      OBVIOUS
    <3>1. CASE m \in 1 .. q
      BY <1>12, <2>7, <3>1
    <3>2. CASE m = q + 1
      BY <2>5, <2>7, <3>2
    <3>3. m \in 1 .. q \/ m = q + 1
      <4>1. q \in Nat
        BY <1>11
      <4>2. QED
        BY <4>1
    <3>4. QED
      BY <3>1, <3>2, <3>3, Zenon
  <2>9. /\ next.bits = bits /\ next.count = count - ByteBits /\ next.out = Append(acc.out, byte)
    BY <2>1
  <2>10. /\ next.bits = Prefix(x, CharBits, n, j + 1)
         /\ next.count = D % ByteBits
         /\ Len(next.out) = D \div ByteBits
         /\ \A m \in 1 .. Len(next.out) : next.out[m] = Group(next.bits, D, ByteBits, m)
    BY <1>7, <2>3, <2>7, <2>8, <2>9
  <2>11. QED
    BY <1>6, <2>10 DEF DecodedUpTo, D, next, char
<1>15. CASE ~(count >= ByteBits)
  <2>1. next = [acc EXCEPT !.bits = bits, !.count = count]
    BY <1>1, <1>4, <1>15
  <2>2. D \div ByteBits = q /\ D % ByteBits = count
    <3>1. count < ByteBits
      BY <1>3, <1>13, <1>15
    <3> HIDE DEF count
    <3>2. QED
      BY <1>3, <1>8, <1>11, <1>13, <3>1, DivisionIsUnique
  <2> HIDE DEF count
  <2>3. next.bits = bits /\ next.count = count /\ next.out = acc.out
    BY <1>6, <2>1 DEF Accumulator
  <2>4. /\ next.bits = Prefix(x, CharBits, n, j + 1)
        /\ next.count = D % ByteBits
        /\ Len(next.out) = D \div ByteBits
        /\ \A m \in 1 .. Len(next.out) : next.out[m] = Group(next.bits, D, ByteBits, m)
    BY <1>5, <1>7, <1>12, <2>2, <2>3
  <2>5. QED
    BY <1>6, <2>4 DEF DecodedUpTo, D, next, char
<1> QED BY <1>14, <1>15

\* Decoding digits gives the bytes that their number starts with.
LEMMA DecodeSpelled ==
  ASSUME NEW chars, NEW x, Spells(chars, x)
  PROVE  LET bits == CharBits * Len(chars)
         IN  base32_decode(chars)
               = [m \in 1 .. bits \div ByteBits |-> Group(x, bits, ByteBits, m)]
<1> DEFINE n == Len(chars)
           D == CharBits * n
<1>1. /\ n \in Nat /\ x \in Nat /\ x < 2 ^ D /\ chars \in Seq(Char)
      /\ \A i \in 1 .. n : chars[i] \in Char
      /\ DOMAIN chars = 1 .. n
  BY DEF Spells
<1>2. 2 ^ CharBits \in Nat \ {0} /\ CharBits \in Nat \ {0} /\ ByteBits \in Nat \ {0}
  BY CodeSizes, PowerIsPositive
<1>3. chars \in Seq(Nat) /\ \A i \in 1 .. n : chars[i] \in 0 .. Padding
  <2>1. Char \subseteq Nat /\ Char \subseteq 0 .. Padding
    BY <1>2 DEF Char, Padding
  <2>2. chars = [i \in 1 .. n |-> chars[i]]
    BY <1>1
  <2>3. \A i \in 1 .. n : chars[i] \in Nat
    BY <1>1, <2>1
  <2> HIDE DEF n
  <2>4. QED
    BY <1>1, <2>1, <2>2, <2>3
<1>4. base32_decode(chars) = Decoded(chars).out
  BY <1>1, <1>3 DEF base32_decode
<1>5. PICK acc : /\ acc[0] = Empty
                 /\ \A k \in 1 .. n : acc[k] = DecodeChar(acc[k - 1], chars[k])
                 /\ Decoded(chars) = acc[n]
  BY <1>3, DecodedByChar
<1> DEFINE S == {k \in Nat : k <= n => DecodedUpTo(acc[k], k, x, n)}
<1>6. 0 \in S
  <2>1. Empty.bits = 0 /\ Empty.count = 0 /\ Empty.out = <<>> /\ Empty \in Accumulator
    BY DEF Empty, Accumulator
  <2>2. CharBits * 0 = 0 /\ 0 \div ByteBits = 0 /\ 0 % ByteBits = 0
    BY <1>2
  <2>3. Prefix(x, CharBits, n, 0) = 0
    BY <1>1, <1>2, PrefixEnds
  <2>4. Len(<<>>) = 0
    OBVIOUS
  <2>5. /\ Empty.count = (CharBits * 0) % ByteBits
        /\ Len(Empty.out) = (CharBits * 0) \div ByteBits /\ Len(Empty.out) = 0
    BY <2>1, <2>2, <2>4
  <2>6. DecodedUpTo(Empty, 0, x, n)
    BY <2>1, <2>3, <2>5 DEF DecodedUpTo
  <2>7. QED
    BY <1>5, <2>6
<1>7. ASSUME NEW k \in Nat, k \in S
      PROVE  k + 1 \in S
  <2> SUFFICES ASSUME k + 1 <= n PROVE DecodedUpTo(acc[k + 1], k + 1, x, n)
    OBVIOUS
  <2>1. k < n /\ k + 1 \in 1 .. n /\ (k + 1) - 1 = k /\ DecodedUpTo(acc[k], k, x, n)
    BY <1>1, <1>7
  <2>2. acc[k + 1] = DecodeChar(acc[k], chars[k + 1])
    BY <1>5, <2>1
  <2>3. DecodedUpTo(DecodeChar(acc[k], chars[k + 1]), k + 1, x, n)
    BY <2>1, DecodeCharKeeps
  <2>4. QED
    BY <2>2, <2>3
<1> HIDE DEF S
<1>8. n \in S
  BY <1>1, <1>6, <1>7, NaturalInduction
<1>9. DecodedUpTo(acc[n], n, x, n)
  BY <1>1, <1>8 DEF S
<1> DEFINE out == acc[n].out
<1>10. Prefix(x, CharBits, n, n) = x
  BY <1>1, <1>2, PrefixEnds
<1>11. /\ out \in Seq(Nat) /\ Len(out) = D \div ByteBits
       /\ \A m \in 1 .. Len(out) : out[m] = Group(x, D, ByteBits, m)
  BY <1>9, <1>10 DEF DecodedUpTo, Accumulator
<1>12. base32_decode(chars) = out
  BY <1>4, <1>5
<1> HIDE DEF out
<1>13. out = [m \in 1 .. D \div ByteBits |-> Group(x, D, ByteBits, m)]
  <2>1. out = [m \in 1 .. Len(out) |-> out[m]]
    BY <1>11
  <2> HIDE DEF D
  <2>2. QED
    BY <1>11, <2>1
<1> QED BY <1>12, <1>13

\* All bytes are read back from their characters, whatever their number and the
\* widths (base32_encode, base32_decode).
THEOREM Base32ReadsBack ==
  ASSUME NEW data \in Seq(Byte)
  PROVE  base32_decode(base32_encode(data)) = data
<1> DEFINE chars == base32_encode(data)
           bits == CharBits * Len(chars)
<1>1. PICK x : /\ Spells(chars, x)
               /\ bits \div ByteBits = Len(data)
               /\ \A m \in 1 .. Len(data) : Group(x, bits, ByteBits, m) = data[m]
  BY EncodeSpells
<1>2. base32_decode(chars) = [m \in 1 .. bits \div ByteBits |-> Group(x, bits, ByteBits, m)]
  BY <1>1, DecodeSpelled
<1> HIDE DEF chars, bits
<1>3. base32_decode(chars) = [m \in 1 .. Len(data) |-> data[m]]
  BY <1>1, <1>2
<1>4. data = [m \in 1 .. Len(data) |-> data[m]]
  OBVIOUS
<1> QED BY <1>3, <1>4 DEF chars

-----------------------------------------------------------------------------
(***************************************************************************)
(* BIP39.                                                                  *)
(***************************************************************************)

\* The number is made word by word.
LEMMA CombinedByWord ==
  ASSUME NEW words \in Seq(Nat)
  PROVE  \E digits :
           /\ digits[0] = 0
           /\ \A k \in 1 .. Len(words) : digits[k] = digits[k - 1] * 2 ^ WordBits + words[k]
           /\ \A k \in 0 .. Len(words) : digits[k] \in Nat
           /\ Combined(words) = digits[Len(words)]
<1> DEFINE n == Len(words)
           p == 2 ^ WordBits
           g == [a \in (1 .. n) \X Nat |-> a[2] * p + words[a[1]]]
           Fold(digits) == digits = [k \in 0 .. n |-> IF k = 0 THEN 0
                                                      ELSE digits[k - 1] * p + words[k]]
<1>1. n \in Nat /\ \A k \in 1 .. n : words[k] \in Nat
  OBVIOUS
<1>2. p \in Nat
  BY CodeSizes, PowerIsPositive
<1>3. Combined(words) = (CHOOSE digits : Fold(digits))[n]
  BY DEF Combined
<1> HIDE DEF p
<1>4. \A k \in 1 .. n : \A a \in Nat : g[<<k, a>>] = a * p + words[k]
  OBVIOUS
<1>5. g \in [(1 .. n) \X Nat -> Nat]
  <2>1. ASSUME NEW a \in (1 .. n) \X Nat
        PROVE  a[2] * p + words[a[1]] \in Nat
    <3>1. a[2] \in Nat /\ words[a[1]] \in Nat
      BY <1>1
    <3>2. ASSUME NEW x \in Nat, NEW y \in Nat PROVE x * p + y \in Nat
      BY <1>2
    <3>3. QED
      BY <3>1, <3>2
  <2>2. QED
    BY <2>1
<1> HIDE DEF g, n
<1>6. PICK f : Accumulates(f, Nat, n, 0, g)
  <2>1. 0 \in Nat
    OBVIOUS
  <2>2. QED
    BY <1>1, <1>5, <2>1, Accumulation
<1>7. Fold(f)
  <2>1. f \in [0 .. n -> Nat] /\ f[0] = 0
    BY <1>6 DEF Accumulates
  <2>2. ASSUME NEW k \in 1 .. n
        PROVE  f[k] = f[k - 1] * p + words[k]
    <3>1. f[k] = g[<<k, f[k - 1]>>] /\ k - 1 \in 0 .. n
      BY <1>1, <1>6 DEF Accumulates
    <3>2. QED
      BY <1>4, <2>1, <3>1
  <2>3. \A k \in 0 .. n : k # 0 => k \in 1 .. n
    BY <1>1
  <2>4. QED
    BY <2>1, <2>2, <2>3
<1>8. Fold(CHOOSE digits : Fold(digits))
  <2> HIDE DEF Fold
  <2>1. QED
    BY <1>7
<1> DEFINE digits == CHOOSE digits : Fold(digits)
<1>9. digits = [k \in 0 .. n |-> IF k = 0 THEN 0 ELSE digits[k - 1] * p + words[k]]
  BY <1>8
<1>10. Combined(words) = digits[n]
  BY <1>3
<1> HIDE DEF digits
<1>11. digits[0] = 0 /\ \A k \in 1 .. n : digits[k] = digits[k - 1] * p + words[k]
  BY <1>1, <1>9
<1> DEFINE S == {k \in Nat : k <= n => digits[k] \in Nat}
<1>12. 0 \in S
  BY <1>11
<1>13. ASSUME NEW k \in Nat, k \in S
       PROVE  k + 1 \in S
  <2> SUFFICES ASSUME k + 1 <= n PROVE digits[k + 1] \in Nat
    OBVIOUS
  <2>1. k + 1 \in 1 .. n /\ (k + 1) - 1 = k /\ digits[k] \in Nat
    BY <1>1, <1>13
  <2>2. digits[k + 1] = digits[k] * p + words[k + 1] /\ words[k + 1] \in Nat
    BY <1>1, <1>11, <2>1
  <2>3. ASSUME NEW x \in Nat, NEW y \in Nat PROVE x * p + y \in Nat
    BY <1>2
  <2>4. QED
    BY <2>1, <2>2, <2>3
<1> HIDE DEF S
<1>14. Nat \subseteq S
  BY <1>12, <1>13, NaturalInduction
<1>15. \A k \in 0 .. n : digits[k] \in Nat
  BY <1>1, <1>14 DEF S
<1> QED BY <1>10, <1>11, <1>15 DEF n, p

\* Words of WordBits bits make a number of so many bits each.
LEMMA CombinedBounds ==
  ASSUME NEW words \in Seq(Nat), \A i \in 1 .. Len(words) : words[i] < 2 ^ WordBits
  PROVE  Combined(words) \in Nat /\ Combined(words) < 2 ^ (WordBits * Len(words))
<1> DEFINE n == Len(words)
           p == 2 ^ WordBits
<1>1. PICK digits :
        /\ digits[0] = 0
        /\ \A k \in 1 .. n : digits[k] = digits[k - 1] * p + words[k]
        /\ \A k \in 0 .. n : digits[k] \in Nat
        /\ Combined(words) = digits[n]
  BY CombinedByWord
<1>2. n \in Nat /\ \A k \in 1 .. n : words[k] \in Nat /\ words[k] < p
  OBVIOUS
<1>3. WordBits \in Nat /\ p \in Nat \ {0}
  BY CodeSizes, PowerIsPositive
<1> HIDE DEF n
<1> DEFINE S == {k \in Nat : k <= n => digits[k] < 2 ^ (WordBits * k)}
<1>4. 0 \in S
  <2>1. WordBits * 0 = 0
    BY <1>3
  <2>2. 2 ^ (WordBits * 0) = 1
    BY <2>1, PowerZero
  <2>3. QED
    BY <1>1, <2>2
<1>5. ASSUME NEW k \in Nat, k \in S
      PROVE  k + 1 \in S
  <2> SUFFICES ASSUME k + 1 <= n PROVE digits[k + 1] < 2 ^ (WordBits * (k + 1))
    OBVIOUS
  <2> DEFINE d == WordBits * k
             q == 2 ^ d
             x == digits[k]
             y == words[k + 1]
  <2>1. k + 1 \in 1 .. n /\ (k + 1) - 1 = k /\ k \in 0 .. n /\ x < q
    BY <1>2, <1>5
  <2>2. x \in Nat /\ y \in Nat /\ y < p /\ digits[k + 1] = x * p + y
    BY <1>1, <1>2, <2>1
  <2>3. d \in Nat /\ WordBits * (k + 1) = d + WordBits
    BY <1>3
  <2> HIDE DEF d
  <2>4. q \in Nat \ {0} /\ 2 ^ (d + WordBits) = q * p
    BY <1>3, <2>3, PowerIsPositive, PowerSum
  <2> HIDE DEF p, q, x, y
  <2>5. (x + 1) * p <= q * p
    BY <1>3, <2>1, <2>2, <2>4
  <2>6. (x + 1) * p = x * p + p /\ x * p \in Nat /\ q * p \in Nat
    BY <1>3, <2>2, <2>4
  <2>7. x * p + y < q * p
    BY <1>3, <2>2, <2>5, <2>6
  <2>8. QED
    BY <2>2, <2>3, <2>4, <2>7
<1> HIDE DEF S
<1>6. n \in S
  BY <1>2, <1>4, <1>5, NaturalInduction
<1>7. n <= n /\ n \in 0 .. n
  BY <1>2
<1> QED BY <1>1, <1>6, <1>7 DEF S, n

\* Words that are the groups of a number make that number.
LEMMA CombinedOfGroups ==
  ASSUME NEW words \in Seq(Nat), NEW x \in Nat, x < 2 ^ (WordBits * Len(words)),
         \A i \in 1 .. Len(words) : words[i] = Group(x, WordBits * Len(words), WordBits, i)
  PROVE  Combined(words) = x
<1> DEFINE n == Len(words)
           p == 2 ^ WordBits
<1>1. PICK digits :
        /\ digits[0] = 0
        /\ \A k \in 1 .. n : digits[k] = digits[k - 1] * p + words[k]
        /\ \A k \in 0 .. n : digits[k] \in Nat
        /\ Combined(words) = digits[n]
  BY CombinedByWord
<1>2. n \in Nat /\ WordBits \in Nat
  BY CodeSizes
<1>3. x < 2 ^ (WordBits * n) /\ \A i \in 1 .. n : words[i] = Group(x, WordBits * n, WordBits, i)
  OBVIOUS
<1> HIDE DEF n
<1> DEFINE S == {k \in Nat : k <= n => digits[k] = Prefix(x, WordBits, n, k)}
<1>4. 0 \in S
  BY <1>1, <1>2, <1>3, PrefixEnds
<1>5. ASSUME NEW k \in Nat, k \in S
      PROVE  k + 1 \in S
  <2> SUFFICES ASSUME k + 1 <= n PROVE digits[k + 1] = Prefix(x, WordBits, n, k + 1)
    OBVIOUS
  <2>1. k < n /\ k + 1 \in 1 .. n /\ (k + 1) - 1 = k /\ digits[k] = Prefix(x, WordBits, n, k)
    BY <1>2, <1>5
  <2>2. digits[k + 1] = digits[k] * p + words[k + 1]
    BY <1>1, <2>1
  <2>3. words[k + 1] = Group(x, WordBits * n, WordBits, k + 1)
    BY <1>3, <2>1
  <2>4. Prefix(x, WordBits, n, k + 1) = Prefix(x, WordBits, n, k) * p + Group(x, WordBits * n, WordBits, k + 1)
    BY <1>2, <2>1, NextGroup
  <2>5. QED
    BY <2>1, <2>2, <2>3, <2>4
<1> HIDE DEF S
<1>6. n \in S
  BY <1>2, <1>4, <1>5, NaturalInduction
<1>7. digits[n] = Prefix(x, WordBits, n, n)
  BY <1>2, <1>6 DEF S
<1>8. Prefix(x, WordBits, n, n) = x
  BY <1>2, PrefixEnds
<1> QED BY <1>1, <1>7, <1>8

\* The words of a phrase have the bits of its entropy and its checksum.
LEMMA PhraseLength ==
  ASSUME NEW u \in Units
  PROVE  /\ u \in Nat \ {0} /\ u <= ByteBits /\ EntUnit * u \in Nat
         /\ Words(u) \in Nat /\ WordBits * Words(u) = EntUnit * u + u
         /\ (EntUnit + 1) * u = EntUnit * u + u
         /\ (EntUnit * u + u) \div (EntUnit + 1) = u
<1> DEFINE e == EntUnit + 1
           d == e \div WordBits
           t == e * u
<1>1. /\ u \in Nat \ {0} /\ u <= ByteBits /\ EntUnit \in Nat \ {0} /\ WordBits \in Nat \ {0}
      /\ e % WordBits = 0
  BY EncodingAssumption
<1>2. EntUnit * u \in Nat /\ t = EntUnit * u + u /\ e \in Nat \ {0}
  BY <1>1
<1> HIDE DEF e
<1>3. d \in Nat /\ e = WordBits * d
  BY <1>1, <1>2, Division
<1> HIDE DEF d
<1>4. d * u \in Nat /\ t = WordBits * (d * u)
  <2>1. (WordBits * d) * u = WordBits * (d * u)
    BY <1>1, <1>3
  <2>2. QED
    BY <1>1, <1>3, <2>1
<1>5. t \in Nat /\ t \div WordBits = d * u
  <2> DEFINE m == d * u
  <2> HIDE DEF t, m
  <2>1. m \in Nat /\ t = WordBits * m
    BY <1>4 DEF m
  <2>2. t \in Nat /\ t = WordBits * m + 0
    BY <1>1, <2>1
  <2>3. t \div WordBits = m
    BY <1>1, <2>1, <2>2, DivisionIsUnique
  <2>4. QED
    BY <2>2, <2>3 DEF m
<1>6. t \div e = u
  <2> HIDE DEF t
  <2>1. t = e * u + 0
    BY <1>1, <1>2 DEF t
  <2>2. QED
    BY <1>1, <1>2, <1>5, <2>1, DivisionIsUnique
<1>7. Words(u) = d * u
  BY <1>5 DEF Words, e
<1>8. (EntUnit * u + u) \div (EntUnit + 1) = u
  BY <1>2, <1>6 DEF e
<1> QED BY <1>1, <1>2, <1>4, <1>7, <1>8 DEF e

\* The checksum has a bit for every unit.
LEMMA ChecksumSize ==
  ASSUME NEW u \in Units, NEW e \in 0 .. 2 ^ (EntUnit * u) - 1
  PROVE  Checksum(u, e) \in Nat /\ Checksum(u, e) < 2 ^ u
<1> DEFINE b == ByteBits - u
           h == Digest(u, e)
<1>1. h \in 0 .. 2 ^ ByteBits - 1
  BY EncodingAssumption
<1>2. u \in Nat /\ b \in Nat /\ u + b = ByteBits
  <2>1. u \in Nat /\ u <= ByteBits
    BY PhraseLength
  <2>2. QED
    BY <2>1, CodeSizes
<1> HIDE DEF b, h
<1> DEFINE p == 2 ^ u
           q == 2 ^ b
<1>3. p \in Nat \ {0} /\ q \in Nat \ {0} /\ 2 ^ ByteBits = p * q
  BY <1>2, PowerIsPositive, PowerSum
<1>4. 2 ^ ByteBits \in Nat \ {0}
  BY CodeSizes, PowerIsPositive
<1>5. h \in Nat /\ h < p * q
  BY <1>1, <1>3, <1>4
<1> HIDE DEF p, q
<1> DEFINE c == h \div q
<1>6. c \in Nat /\ p * q = q * p
  BY <1>3, <1>5, Division
<1>7. ~(q * p <= h)
  BY <1>3, <1>5, <1>6
<1>8. p <= c <=> q * p <= h
  BY <1>3, <1>5, DivisionBounds
<1>9. c < p
  BY <1>3, <1>6, <1>7, <1>8
<1> QED BY <1>6, <1>9 DEF Checksum, c, q, h, b, p

\* Every entropy that has a phrase is read back from it with its size
\* (entropy_to_mnemonic, mnemonic_to_entropy).
THEOREM MnemonicReadsBack ==
  ASSUME NEW u \in Units, NEW e \in 0 .. 2 ^ (EntUnit * u) - 1,
         entropy_to_mnemonic(u, e) # Failed
  PROVE  /\ entropy_to_mnemonic(u, e) \in Seq(Nat)
         /\ mnemonic_to_entropy(entropy_to_mnemonic(u, e)) = <<u, e>>
<1> DEFINE words == entropy_to_mnemonic(u, e)
           m == Checksum(u, e)
           c == e * 2 ^ u + m
           n == Words(u)
           d == EntUnit * u
           index(i) == Group(c, (EntUnit + 1) * u, WordBits, i)
<1>1. /\ u \in Nat \ {0} /\ d \in Nat /\ n \in Nat /\ WordBits * n = d + u
      /\ (EntUnit + 1) * u = d + u /\ (d + u) \div (EntUnit + 1) = u
  BY PhraseLength
<1>2. m \in Nat /\ m < 2 ^ u
  BY ChecksumSize
<1>3. \A i \in 1 .. n : index(i) < WordCount
  BY DEF entropy_to_mnemonic
<1>4. words = [i \in 1 .. n |-> index(i)]
  BY <1>3 DEF entropy_to_mnemonic
<1>5. 2 ^ u \in Nat \ {0} /\ 2 ^ d \in Nat \ {0} /\ 2 ^ (d + u) = 2 ^ d * 2 ^ u
  BY <1>1, PowerIsPositive, PowerSum
<1>6. e \in Nat /\ e < 2 ^ d
  BY <1>5
<1> HIDE DEF words, m, n, d
<1>7. /\ c \in Nat /\ c < 2 ^ (d + u) /\ c \div 2 ^ u = e /\ c % 2 ^ u = m
  <2> DEFINE p == 2 ^ u
             q == 2 ^ d
  <2>1. p \in Nat \ {0} /\ q \in Nat \ {0} /\ m < p /\ e < q
    BY <1>2, <1>5, <1>6
  <2>2. c = e * p + m
    OBVIOUS
  <2>3. 2 ^ (d + u) = q * p
    BY <1>5
  <2> HIDE DEF p, q, c
  <2>4. (e + 1) * p <= q * p
    <3>1. e + 1 <= q
      BY <1>6, <2>1
    <3>2. QED
      BY <1>6, <2>1, <3>1
  <2>5. (e + 1) * p = e * p + p /\ e * p \in Nat /\ q * p \in Nat /\ e * p = p * e
    BY <1>6, <2>1
  <2>6. c \in Nat /\ c < q * p /\ c = p * e + m
    BY <1>2, <2>1, <2>2, <2>4, <2>5
  <2>7. c \div p = e /\ c % p = m
    BY <1>2, <1>6, <2>1, <2>6, DivisionIsUnique
  <2>8. QED
    BY <2>3, <2>6, <2>7 DEF p
<1> HIDE DEF c
<1>8. ASSUME NEW i \in 1 .. n
      PROVE  index(i) \in Nat /\ index(i) = Group(c, WordBits * n, WordBits, i)
  <2>1. i \in Nat /\ WordBits \in Nat /\ WordBits * n \in Nat
    BY <1>1, CodeSizes
  <2>2. WordBits * i <= WordBits * n
    BY <1>1, CodeSizes
  <2>3. Group(c, WordBits * n, WordBits, i) \in 0 .. 2 ^ WordBits - 1
    BY <1>7, <2>1, <2>2, GroupType
  <2>4. 2 ^ WordBits \in Nat
    BY <2>1, PowerIsPositive
  <2>5. Group(c, WordBits * n, WordBits, i) \in Nat
    BY <2>3, <2>4
  <2>6. QED
    BY <1>1, <2>5
<1>9. words \in Seq(Nat) /\ Len(words) = n
  BY <1>1, <1>4, <1>8
<1>10. Combined(words) = c
  <2>1. c < 2 ^ (WordBits * Len(words))
    BY <1>1, <1>7, <1>9
  <2>2. \A i \in 1 .. Len(words) : words[i] = Group(c, WordBits * Len(words), WordBits, i)
    BY <1>4, <1>8, <1>9
  <2>3. QED
    BY <1>7, <1>9, <2>1, <2>2, CombinedOfGroups
<1>11. (Len(words) * WordBits) \div (EntUnit + 1) = u
  <2>1. n * WordBits = WordBits * n
    BY <1>1, CodeSizes
  <2>2. QED
    BY <1>1, <1>9, <2>1
<1>12. ASSUME NEW i \in DOMAIN words PROVE words[i] \in 0 .. WordCount - 1
  <2>1. i \in 1 .. n
    BY <1>4
  <2>2. words[i] \in Nat /\ words[i] < WordCount
    BY <1>3, <1>4, <1>8, <2>1
  <2>3. WordCount \in Nat
    BY EncodingAssumption, CodeSizes, PowerIsPositive
  <2>4. QED
    BY <2>2, <2>3
<1>13. mnemonic_to_entropy(words) = <<u, e>>
  BY <1>7, <1>9, <1>10, <1>11, <1>12 DEF mnemonic_to_entropy, m, n
<1> QED BY <1>9, <1>13 DEF words

\* What a phrase is read as is an entropy of one of the sizes.
LEMMA MnemonicType ==
  ASSUME NEW words \in Seq(Nat), mnemonic_to_entropy(words) # Failed
  PROVE  \E u \in Units : \E e \in 0 .. 2 ^ (EntUnit * u) - 1 :
           mnemonic_to_entropy(words) = <<u, e>>
<1> DEFINE u == (Len(words) * WordBits) \div (EntUnit + 1)
           c == Combined(words)
           e == c \div 2 ^ u
           d == EntUnit * u
<1>1. /\ u \in Units /\ Len(words) = Words(u)
      /\ \A i \in DOMAIN words : words[i] \in 0 .. WordCount - 1
      /\ mnemonic_to_entropy(words) = <<u, e>>
  BY DEF mnemonic_to_entropy
<1> HIDE DEF u
<1>2. u \in Nat /\ d \in Nat /\ WordBits * Len(words) = d + u
  BY <1>1, PhraseLength
<1>3. 2 ^ u \in Nat \ {0} /\ 2 ^ d \in Nat \ {0} /\ 2 ^ (d + u) = 2 ^ d * 2 ^ u
  BY <1>2, PowerIsPositive, PowerSum
<1>4. \A i \in 1 .. Len(words) : words[i] < 2 ^ WordBits
  <2>1. 2 ^ WordBits \in Nat
    BY CodeSizes, PowerIsPositive
  <2>2. WordCount \in Nat /\ WordCount <= 2 ^ WordBits
    BY <2>1, EncodingAssumption
  <2>3. ASSUME NEW i \in 1 .. Len(words) PROVE words[i] < 2 ^ WordBits
    <3>1. words[i] \in 0 .. WordCount - 1
      BY <1>1
    <3>2. QED
      BY <2>1, <2>2, <3>1
  <2>4. QED
    BY <2>3
<1>5. c \in Nat /\ c < 2 ^ (WordBits * Len(words))
  BY <1>4, CombinedBounds
<1>6. c < 2 ^ d * 2 ^ u
  BY <1>2, <1>3, <1>5
<1> HIDE DEF c, d
<1>7. e \in 0 .. 2 ^ d - 1
  <2> DEFINE p == 2 ^ u
             q == 2 ^ d
  <2>1. p \in Nat \ {0} /\ q \in Nat \ {0} /\ c < q * p /\ e = c \div p
    BY <1>3, <1>6
  <2> HIDE DEF p, q, e
  <2>2. e \in Nat /\ q * p = p * q /\ p * q \in Nat
    BY <1>5, <2>1, Division
  <2>3. q <= e <=> p * q <= c
    BY <1>5, <2>1, DivisionBounds
  <2>4. e < q
    BY <1>5, <2>1, <2>2, <2>3
  <2>5. QED
    BY <2>1, <2>2, <2>4 DEF q
<1> QED BY <1>1, <1>7 DEF d

-----------------------------------------------------------------------------
(***************************************************************************)
(* The wallet.                                                             *)
(***************************************************************************)

\* A file holds what its last whole save put there, and no account without
\* such a save; while it is open it holds none.
FilesAgree ==
  /\ ~Idle => saved[saving.file] = Nothing
  /\ \A f \in File :
       disk[f].kind = "full" \/ saved[f] # Nothing =>
         /\ saved[f] # Nothing
         /\ disk[f] = [kind |-> "full", account |-> saved[f].account,
                       password |-> saved[f].password]

\* A phrase that was noted is one that was shown.
NotedWasShown == Noted("phrase") => ToMnemonic(noted.of) # Failed

WalletInvariant == TypeOK /\ NotedWasShown /\ FilesAgree

\* What is assumed of the constants, taken apart for the provers.
LEMMA WalletFacts ==
  /\ Typed \subseteq Seq(Nat) /\ Payee \subseteq Account
  /\ SpendBound \in Nat /\ 0 \in 0 .. SpendBound
  /\ Nothing \notin [account: Account, password: Password]
<1>1. /\ Typed \subseteq Seq(Nat) /\ Payee \subseteq Account
      /\ SpendBound \in Nat
      /\ Nothing \notin [account: Account, password: Password]
  BY WalletAssumption, Zenon
<1> QED BY <1>1

\* What is assumed of the hashes of an account.
LEMMA AccountFacts ==
  ASSUME NEW a \in Account
  PROVE  /\ Entropy(a) \in 0 .. 2 ^ (EntUnit * PhraseUnits) - 1
         /\ a # [root |-> <<PhraseUnits, Entropy(a)>>, spends |-> 0]
         /\ AddressBytes(a) \in Seq(Byte)
         /\ PhraseUnits \in Units
BY WalletAssumption DEF Byte

\* A pair is not what a function that raises returns.
LEMMA PairIsNoFailure ==
  ASSUME NEW a, NEW b
  PROVE  <<a, b>> # Failed
<1>1. Len(<<a, b>>) = 2 /\ Len(<<"raised">>) = 1
  OBVIOUS
<1> QED BY <1>1 DEF Failed

\* A phrase that an account has reads back.
LEMMA PhraseFacts ==
  ASSUME NEW a \in Account, ToMnemonic(a) # Failed
  PROVE  /\ ToMnemonic(a) \in Seq(Nat)
         /\ mnemonic_to_entropy(ToMnemonic(a)) = <<PhraseUnits, Entropy(a)>>
         /\ validate_mnemonic(ToMnemonic(a))
<1>1. PhraseUnits \in Units /\ Entropy(a) \in 0 .. 2 ^ (EntUnit * PhraseUnits) - 1
  BY AccountFacts
<1>2. entropy_to_mnemonic(PhraseUnits, Entropy(a)) # Failed
  BY DEF ToMnemonic
<1>3. /\ ToMnemonic(a) \in Seq(Nat)
      /\ mnemonic_to_entropy(ToMnemonic(a)) = <<PhraseUnits, Entropy(a)>>
  BY <1>1, <1>2, MnemonicReadsBack DEF ToMnemonic
<1> QED BY <1>3, PairIsNoFailure DEF validate_mnemonic

\* The account of a phrase that passes validation.
LEMMA ImportedIsAnAccount ==
  ASSUME NEW words \in Seq(Nat), validate_mnemonic(words)
  PROVE  FromMnemonic(words) \in Account
<1>1. PICK u \in Units : \E e \in 0 .. 2 ^ (EntUnit * u) - 1 : mnemonic_to_entropy(words) = <<u, e>>
  BY MnemonicType DEF validate_mnemonic
<1>2. mnemonic_to_entropy(words) \in {u} \X (0 .. 2 ^ (EntUnit * u) - 1)
  BY <1>1
<1>3. mnemonic_to_entropy(words) \in Root
  BY <1>2 DEF Root
<1>4. 0 \in 0 .. SpendBound
  BY WalletFacts
<1> QED BY <1>3, <1>4 DEF FromMnemonic, Account

\* What can be imported is a sequence of indices.
LEMMA PhrasesAreWords ==
  ASSUME TypeOK, NotedWasShown
  PROVE  Phrases \subseteq Seq(Nat)
<1>1. Typed \subseteq Seq(Nat)
  BY WalletFacts
<1>2. Noted("phrase") => ToMnemonic(noted.of) \in Seq(Nat)
  <2> SUFFICES ASSUME Noted("phrase") PROVE ToMnemonic(noted.of) \in Seq(Nat)
    OBVIOUS
  <2>1. noted.of \in Account
    BY DEF TypeOK, Noted
  <2>2. ToMnemonic(noted.of) # Failed
    BY DEF NotedWasShown
  <2>3. QED
    BY <2>1, <2>2, PhraseFacts
<1> QED BY <1>1, <1>2 DEF Phrases

\* Types: what is loaded or imported is an account.
LEMMA WalletTypeStep ==
  ASSUME TypeOK, NotedWasShown, [Next]_vars
  PROVE  TypeOK' /\ NotedWasShown'
<1> USE DEF TypeOK, NotedWasShown, Noted
<1>1. ASSUME NEW n \in 1 .. SeedBound, Create(n)
      PROVE  TypeOK' /\ NotedWasShown'
  <2>1. <<0, n>> \in Root /\ 0 \in 0 .. SpendBound
    BY WalletFacts DEF Root
  <2>2. [root |-> <<0, n>>, spends |-> 0] \in Account
    BY <2>1 DEF Account
  <2>3. QED
    BY <1>1, <2>2 DEF Create, files
<1>2. CASE ExportPrivateKey
  BY <1>2 DEF ExportPrivateKey, Loaded, files
<1>3. CASE ExportMnemonic
  BY <1>3 DEF ExportMnemonic, Loaded, files
<1>4. CASE ImportPrivateKey
  BY <1>4 DEF ImportPrivateKey, files
<1>5. ASSUME NEW words \in Phrases, ImportMnemonic(words)
      PROVE  TypeOK' /\ NotedWasShown'
  <2>1. words \in Seq(Nat)
    BY PhrasesAreWords
  <2>2. account' \in Account \cup {Nothing}
    BY <1>5, <2>1, ImportedIsAnAccount DEF ImportMnemonic
  <2>3. QED
    BY <1>5, <2>2 DEF ImportMnemonic, files
<1>6. ASSUME NEW path \in File \cup {Nothing}, NEW password \in Password, BeginSave(path, password)
      PROVE  TypeOK' /\ NotedWasShown'
  <2> DEFINE file == IF path # Nothing THEN path ELSE IF filepath # Nothing THEN filepath ELSE DefaultFile
             key  == IF password = "" THEN DefaultPassword ELSE password
  <2>1. file \in File /\ key \in Password /\ account \in Account
    BY <1>6, WalletAssumption DEF BeginSave, Loaded
  <2>2. [kind |-> "empty"] \in Content
    BY DEF Content
  <2>3. /\ disk' = [disk EXCEPT ![file] = [kind |-> "empty"]]
        /\ saving' = [file |-> file, account |-> account, password |-> key]
        /\ saved' = [saved EXCEPT ![file] = Nothing]
        /\ UNCHANGED <<account, filepath, noted, chain, sent>>
    BY <1>6 DEF BeginSave
  <2> HIDE DEF file, key
  <2>4. QED
    BY <2>1, <2>2, <2>3
<1>7. CASE EndSave
  <2>1. saving \in [file: File, account: Account, password: Password]
    BY <1>7 DEF EndSave, Idle
  <2>2. [kind |-> "full", account |-> saving.account, password |-> saving.password] \in Content
    BY <2>1 DEF Content
  <2>3. QED
    BY <1>7, <2>1, <2>2 DEF EndSave
<1>8. CASE FailSave
  <2>1. PICK c \in Torn : disk' = [disk EXCEPT ![saving.file] = c]
    BY <1>8 DEF FailSave
  <2>2. c \in Content
    BY DEF Torn, Content
  <2>3. QED
    BY <1>8, <2>1, <2>2 DEF FailSave
<1>9. CASE Crash
  <2>1. disk' \in [File -> Content]
    <3>1. CASE Idle
      BY <1>9, <3>1 DEF Crash
    <3>2. CASE ~Idle
      <4>1. PICK c \in Torn : disk' = [disk EXCEPT ![saving.file] = c]
        BY <1>9, <3>2 DEF Crash
      <4>2. c \in Content
        BY DEF Torn, Content
      <4>3. QED
        BY <4>1, <4>2
    <3>3. QED
      BY <3>1, <3>2
  <2>2. QED
    BY <1>9, <2>1 DEF Crash
<1>10. ASSUME NEW file \in File, NEW password \in Password, Load(file, password)
       PROVE  TypeOK' /\ NotedWasShown'
  <2>1. LoadFile(disk[file], password) \in Account \cup {Nothing}
    <3>1. disk[file] \in Content
      OBVIOUS
    <3>2. disk[file].kind = "full" => disk[file].account \in Account
      BY <3>1 DEF Content
    <3>3. QED
      BY <3>2 DEF LoadFile
  <2>2. account' \in Account \cup {Nothing} /\ filepath' \in File \cup {Nothing}
    BY <1>10, <2>1 DEF Load
  <2>3. QED
    BY <1>10, <2>2 DEF Load
<1>11. ASSUME NEW to \in Recipient, NEW amount \in Amount, NEW fee \in Fee, Send(to, amount, fee)
       PROVE  TypeOK' /\ NotedWasShown'
  <2>1. BuildTransaction(to, amount, fee) \subseteq {"output", "returned", "pooled"}
    BY DEF BuildTransaction, CreateTransaction
  <2>2. QED
    BY <1>11, <2>1 DEF Send, files
<1>12. ASSUME NEW owners \in SUBSET Payee, Receive(owners)
       PROVE  TypeOK' /\ NotedWasShown'
  <2>1. owners \in SUBSET Account
    BY WalletFacts
  <2>2. QED
    BY <1>12, <2>1 DEF Receive, files
<1>13. CASE UNCHANGED vars
  BY <1>13 DEF vars
<1> QED
  BY <1>1, <1>2, <1>3, <1>4, <1>5, <1>6, <1>7, <1>8, <1>9, <1>10, <1>11, <1>12, <1>13 DEF Next

\* Files: a save empties its file and forgets what was saved there, and only its
\* end fills both again.
LEMMA WalletFilesStep ==
  ASSUME WalletInvariant, [Next]_vars
  PROVE  FilesAgree'
<1> USE DEF FilesAgree, Idle
<1>1. /\ disk \in [File -> Content]
      /\ saved \in [File -> {Nothing} \cup [account: Account, password: Password]]
      /\ ~Idle => saving \in [file: File, account: Account, password: Password]
      /\ FilesAgree
  BY DEF WalletInvariant, TypeOK
<1>2. CASE UNCHANGED files
  BY <1>1, <1>2 DEF files
<1>3. ASSUME NEW path \in File \cup {Nothing}, NEW password \in Password, BeginSave(path, password)
      PROVE  FilesAgree'
  <2> DEFINE file == IF path # Nothing THEN path ELSE IF filepath # Nothing THEN filepath ELSE DefaultFile
             key  == IF password = "" THEN DefaultPassword ELSE password
  <2>1. file \in File
    BY <1>3, WalletAssumption DEF WalletInvariant, TypeOK
  <2>2. /\ disk' = [disk EXCEPT ![file] = [kind |-> "empty"]]
        /\ saving' = [file |-> file, account |-> account, password |-> key]
        /\ saved' = [saved EXCEPT ![file] = Nothing]
    BY <1>3 DEF BeginSave
  <2> HIDE DEF file, key
  <2>3. disk'[file] = [kind |-> "empty"] /\ saved'[file] = Nothing /\ saving'.file = file
    BY <1>1, <2>1, <2>2
  <2>4. \A f \in File : f # file => disk'[f] = disk[f] /\ saved'[f] = saved[f]
    BY <1>1, <2>1, <2>2
  <2>5. QED
    BY <1>1, <2>3, <2>4
<1>4. CASE EndSave
  <2> DEFINE new == [account |-> saving.account, password |-> saving.password]
  <2>1. saving.file \in File /\ saving' = Nothing
    BY <1>1, <1>4 DEF EndSave
  <2>2. new # Nothing
    <3>1. new \in [account: Account, password: Password]
      BY <1>1, <1>4 DEF EndSave
    <3>2. QED
      BY <3>1, WalletFacts, Zenon
  <2>3. /\ disk'[saving.file] = [kind |-> "full", account |-> saving.account, password |-> saving.password]
        /\ saved'[saving.file] = new
        /\ \A f \in File : f # saving.file => disk'[f] = disk[f] /\ saved'[f] = saved[f]
    BY <1>1, <1>4, <2>1 DEF EndSave
  <2>4. QED
    BY <1>1, <2>1, <2>2, <2>3
<1>5. CASE FailSave \/ (Crash /\ ~Idle)
  <2>1. PICK c \in Torn : disk' = [disk EXCEPT ![saving.file] = c]
    BY <1>5 DEF FailSave, Crash
  <2>2. saving.file \in File /\ saving' = Nothing /\ saved' = saved /\ saved[saving.file] = Nothing
    BY <1>1, <1>5 DEF FailSave, Crash
  <2>3. c.kind # "full"
    BY DEF Torn
  <2>4. /\ disk'[saving.file] = c
        /\ \A f \in File : f # saving.file => disk'[f] = disk[f]
    BY <1>1, <2>1, <2>2
  <2>5. QED
    BY <1>1, <2>2, <2>3, <2>4
<1>6. CASE Crash /\ Idle
  BY <1>1, <1>6 DEF Crash
<1>7. ASSUME NEW file \in File, NEW password \in Password, Load(file, password)
      PROVE  FilesAgree'
  BY <1>1, <1>7 DEF Load
<1>8. ASSUME Next
      PROVE  \/ UNCHANGED files
             \/ \E path \in File \cup {Nothing}, password \in Password : BeginSave(path, password)
             \/ EndSave \/ FailSave \/ Crash
             \/ \E file \in File, password \in Password : Load(file, password)
  BY <1>8 DEF Next, Create, ExportPrivateKey, ExportMnemonic, ImportPrivateKey, ImportMnemonic,
              Send, Receive
<1>9. CASE UNCHANGED vars
  BY <1>2, <1>9 DEF vars, files
<1>10. CASE Next
  BY <1>2, <1>3, <1>4, <1>5, <1>6, <1>7, <1>8, <1>10
<1> QED BY <1>9, <1>10

\* The inductive invariant.
LEMMA WalletInvariantHolds == Spec => []WalletInvariant
<1>1. Init => WalletInvariant
  <2> SUFFICES ASSUME Init PROVE WalletInvariant
    OBVIOUS
  <2>1. chain \in Seq(SUBSET Account)
    BY DEF Init
  <2>2. TypeOK
    BY <2>1 DEF Init, TypeOK, Content
  <2>3. NotedWasShown /\ FilesAgree
    BY DEF Init, NotedWasShown, Noted, FilesAgree, Idle
  <2>4. QED
    BY <2>2, <2>3 DEF WalletInvariant
<1>2. WalletInvariant /\ [Next]_vars => WalletInvariant'
  BY WalletTypeStep, WalletFilesStep DEF WalletInvariant
<1> QED BY <1>1, <1>2, PTL DEF Spec

\* Wallet and files only ever hold accounts: what is typed in, noted down or read
\* from a file, and what a crash leaves, is never taken for anything else.
THEOREM WalletTypes == Spec => []TypeOK
<1>1. WalletInvariant => TypeOK
  BY DEF WalletInvariant
<1> QED BY <1>1, WalletInvariantHolds, PTL

\* Every file loads under the password of its last whole save, and only under it,
\* as the account of that save (WalletFile.save and load), for any number of files,
\* crashes and failed writes.
THEOREM FilesKeepWhatWasSaved == Spec => []LoadsWhatWasSaved
<1>1. WalletInvariant => LoadsWhatWasSaved
  <2> SUFFICES ASSUME WalletInvariant, NEW f \in File, NEW p \in Password
               PROVE  LoadFile(disk[f], p) =
                        IF saved[f] # Nothing /\ saved[f].password = p
                        THEN saved[f].account ELSE Nothing
    BY DEF LoadsWhatWasSaved
  <2>1. CASE saved[f] # Nothing
    <3>1. disk[f] = [kind |-> "full", account |-> saved[f].account,
                     password |-> saved[f].password]
      BY <2>1 DEF WalletInvariant, FilesAgree
    <3>2. /\ disk[f].kind = "full" /\ disk[f].account = saved[f].account
          /\ disk[f].password = saved[f].password
      BY <3>1
    <3>3. QED
      BY <2>1, <3>2 DEF LoadFile
  <2>2. CASE saved[f] = Nothing
    BY <2>2 DEF WalletInvariant, FilesAgree, LoadFile
  <2>3. QED
    BY <2>1, <2>2
<1> QED BY <1>1, WalletInvariantHolds, PTL

\* The address of the account in memory decodes to its bytes and its phrase to its
\* entropy, whatever the hashes give and whatever the widths of the codes.
THEOREM WhatIsShownReadsBack == Spec => []ShownReadsBack
<1>1. TypeOK => ShownReadsBack
  <2> SUFFICES ASSUME TypeOK, account # Nothing
               PROVE  /\ base32_decode(base32_encode(AddressBytes(account))) = AddressBytes(account)
                      /\ ToMnemonic(account) # Failed =>
                           mnemonic_to_entropy(ToMnemonic(account)) = <<PhraseUnits, Entropy(account)>>
    BY DEF ShownReadsBack
  <2>1. account \in Account
    BY DEF TypeOK
  <2>2. AddressBytes(account) \in Seq(Byte)
    BY <2>1, AccountFacts
  <2>3. QED
    BY <2>1, <2>2, Base32ReadsBack, PhraseFacts
<1> QED BY <1>1, WalletTypes, PTL

\* The balance is 0, however many outputs are owned (get_balance).
LEMMA NothingIsUnlocked ==
  ASSUME TypeOK
  PROVE  Unlocked = 0
<1> DEFINE S == {h \in Owned : Len(chain) - h + 1 >= UnlockDepth}
<1>1. IsFiniteSet(1 .. Len(chain)) /\ S \subseteq 1 .. Len(chain)
  <2>1. Len(chain) \in Nat /\ DOMAIN chain = 1 .. Len(chain)
    BY DEF TypeOK
  <2>2. IsFiniteSet(1 .. Len(chain))
    BY <2>1, FS_Interval
  <2>3. QED
    BY <2>1, <2>2 DEF Owned
<1>2. IsFiniteSet(S)
  BY <1>1, FS_Subset
<1>3. Cardinality(S) \in Nat
  BY <1>2, FS_CardinalityType
<1> HIDE DEF S
<1>4. 0 * Cardinality(S) = 0
  BY <1>3
<1> QED BY <1>4 DEF Unlocked, ScannedAmount, S

\* No call of send returns a transaction or puts one in the mempool, whatever the
\* amounts, fees, recipients and blocks (Wallet.send, build_transaction).
THEOREM SendPaysNobody == Spec => []NothingSent
<1>1. Init => NothingSent
  BY DEF Init, NothingSent
<1>2. TypeOK /\ NothingSent /\ [Next]_vars => NothingSent'
  <2> SUFFICES ASSUME TypeOK, NothingSent, [Next]_vars PROVE NothingSent'
    OBVIOUS
  <2>1. ASSUME NEW to \in Recipient, NEW amount \in Amount, NEW fee \in Fee, Send(to, amount, fee)
        PROVE  NothingSent'
    <3> DEFINE done == BuildTransaction(to, amount, fee)
    <3>1. amount \in Int /\ fee \in Int
      BY WalletAssumption
    <3>2. ASSUME amount > 0, fee >= 0, Unlocked >= amount + fee PROVE FALSE
      BY <3>1, <3>2, NothingIsUnlocked
    <3>3. done \subseteq {"output"}
      BY <3>1, <3>2 DEF BuildTransaction, CreateTransaction
    <3> HIDE DEF done
    <3>4. sent' = sent \cup done \cup (IF "returned" \in done /\ ValidateBasic(0, 1, fee)
                                       THEN {"pooled"} ELSE {})
      BY <2>1 DEF Send, done
    <3>5. QED
      BY <3>3, <3>4 DEF NothingSent
  <2>2. CASE UNCHANGED sent
    BY <2>2 DEF NothingSent
  <2>3. \/ \E to \in Recipient, amount \in Amount, fee \in Fee : Send(to, amount, fee)
        \/ UNCHANGED sent
    BY DEF Next, vars, Create, ExportPrivateKey, ExportMnemonic, ImportPrivateKey, ImportMnemonic,
           BeginSave, EndSave, FailSave, Crash, Load, Receive
  <2>4. QED
    BY <2>1, <2>2, <2>3
<1> QED BY <1>1, <1>2, WalletTypes, PTL DEF Spec

\* Importing the key or the phrase an account exported starts another account: a
\* key has one derivation more, and the hash behind a phrase has no fixed point.
THEOREM ImportsStartAnother == Spec => ImportStartsAnother
<1>1. WalletInvariant =>
        (ImportPrivateKey \/ (Noted("phrase") /\ ImportMnemonic(ToMnemonic(noted.of)))
           => account' # noted.of)
  <2> SUFFICES ASSUME WalletInvariant PROVE
        (ImportPrivateKey \/ (Noted("phrase") /\ ImportMnemonic(ToMnemonic(noted.of)))
           => account' # noted.of)
    OBVIOUS
  <2>1. ASSUME noted # Nothing PROVE noted.of \in Account
    BY <2>1 DEF WalletInvariant, TypeOK
  <2>2. ASSUME ImportPrivateKey PROVE account' # noted.of
    <3>1. noted.of \in Account /\ account' = SpendSeed(noted.of)
      BY <2>1, <2>2 DEF ImportPrivateKey, Noted
    <3>2. noted.of.spends \in Nat /\ SpendSeed(noted.of).spends = noted.of.spends + 1
      BY <3>1, WalletFacts DEF SpendSeed, Account
    <3>3. QED
      BY <3>1, <3>2
  <2>3. ASSUME Noted("phrase"), ImportMnemonic(ToMnemonic(noted.of))
        PROVE  account' # noted.of
    <3>1. noted.of \in Account
      BY <2>1, <2>3 DEF Noted
    <3>2. ToMnemonic(noted.of) # Failed
      BY <2>3 DEF WalletInvariant, NotedWasShown
    <3>3. account' = FromMnemonic(ToMnemonic(noted.of))
      BY <2>3, <3>1, <3>2, PhraseFacts DEF ImportMnemonic
    <3>4. account' = [root |-> <<PhraseUnits, Entropy(noted.of)>>, spends |-> 0]
      BY <3>1, <3>2, <3>3, PhraseFacts DEF FromMnemonic
    <3>5. QED
      BY <3>1, <3>4, AccountFacts
  <2>4. QED
    BY <2>2, <2>3
<1> QED BY <1>1, WalletInvariantHolds, PTL DEF ImportStartsAnother

=============================================================================
