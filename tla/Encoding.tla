------------------------------ MODULE Encoding ------------------------------
(***************************************************************************)
(* The two text encodings of the program.  core/crypto.py writes the bytes *)
(* of an address as characters of CharBits bits; core/bip39.py writes an   *)
(* entropy and its checksum as words of WordBits bits.  Characters and     *)
(* words are their indices.  The widths are parameters (8, 5, 11 and 32 in *)
(* the program), so that TLC can go over all the inputs.                   *)
(***************************************************************************)
EXTENDS Integers, Sequences, FiniteSets

CONSTANTS
  ByteBits,   \* bits of a byte
  CharBits,   \* bits of a character of BASE32_ALPHABET
  KeyBytes,   \* bytes of a public key
  WordBits,   \* bits of the index of a word
  WordCount,  \* words in BIP39_WORDS
  EntUnit,    \* bits of entropy for one bit of checksum
  Units,      \* the entropy sizes that are allowed, in units
  Digest(_,_) \* the first byte of the hash of an entropy of so many units

\* What a function that raises returns.
Failed == <<"raised">>

ASSUME EncodingAssumption ==
  /\ ByteBits \in Nat /\ CharBits \in 1 .. ByteBits
  /\ KeyBytes \in Nat
  /\ WordBits \in Nat \ {0} /\ WordCount \in 1 .. 2 ^ WordBits
  /\ EntUnit \in Nat \ {0} /\ (EntUnit + 1) % WordBits = 0
  /\ \A u \in Units : /\ u \in 1 .. ByteBits
                      /\ \A e \in 0 .. 2 ^ (EntUnit * u) - 1 : Digest(u, e) \in 0 .. 2 ^ ByteBits - 1

-----------------------------------------------------------------------------
(***************************************************************************)
(* Base32: the bits go through an accumulator, most significant first.     *)
(***************************************************************************)

Empty == [bits |-> 0, count |-> 0, out |-> <<>>]

\* The i-th group of width bits from the top of the count lowest bits.
Group(bits, count, width, i) == (bits \div 2 ^ (count - width * i)) % 2 ^ width

EncodeByte(acc, byte) ==
  LET bits  == acc.bits * 2 ^ ByteBits + byte
      count == acc.count + ByteBits
  IN  [bits  |-> bits,
       count |-> count % CharBits,
       out   |-> acc.out \o [i \in 1 .. count \div CharBits |-> Group(bits, count, CharBits, i)]]

\* The accumulator once the bytes are in, one after the other.
Encoded(data) ==
  LET acc[k \in 0 .. Len(data)] ==
        IF k = 0 THEN Empty ELSE EncodeByte(acc[k - 1], data[k])
  IN  acc[Len(data)]

base32_encode(data) ==
  LET acc == Encoded(data)
  IN  IF acc.count > 0
      THEN Append(acc.out, (acc.bits * 2 ^ (CharBits - acc.count)) % 2 ^ CharBits)
      ELSE acc.out

\* The character = is no member of the alphabet.
Padding == 2 ^ CharBits

\* Padding is dropped, wherever it is.
DecodeChar(acc, char) ==
  LET bits  == acc.bits * 2 ^ CharBits + char
      count == acc.count + CharBits
  IN  IF char = Padding THEN acc
      ELSE IF count >= ByteBits
      THEN [bits  |-> bits, count |-> count - ByteBits,
            out   |-> Append(acc.out, Group(bits, count, ByteBits, 1))]
      ELSE [acc EXCEPT !.bits = bits, !.count = count]

Decoded(chars) ==
  LET acc[k \in 0 .. Len(chars)] ==
        IF k = 0 THEN Empty ELSE DecodeChar(acc[k - 1], chars[k])
  IN  acc[Len(chars)]

\* The bits left over at the end are dropped; a character outside the alphabet
\* raises.
base32_decode(chars) ==
  IF \A i \in DOMAIN chars : chars[i] \in 0 .. Padding THEN Decoded(chars).out ELSE Failed

\* PublicKey.from_address: the bytes must be those of a key.
from_address(addr) ==
  LET raw == base32_decode(addr)
  IN  IF raw # Failed /\ Len(raw) = KeyBytes THEN raw ELSE Failed

-----------------------------------------------------------------------------
(***************************************************************************)
(* BIP39: entropy, then a checksum bit for every unit of entropy.          *)
(***************************************************************************)

Words(units) == ((EntUnit + 1) * units) \div WordBits

Checksum(units, entropy) == Digest(units, entropy) \div 2 ^ (ByteBits - units)

\* Mutant: the checksum is put in front of the entropy.
entropy_to_mnemonic_swapped(units, entropy) ==
  LET combined == Checksum(units, entropy) * 2 ^ (EntUnit * units) + entropy
      index(i) == Group(combined, (EntUnit + 1) * units, WordBits, i)
  IN  IF \A i \in 1 .. Words(units) : index(i) < WordCount
      THEN [i \in 1 .. Words(units) |-> index(i)]
      ELSE Failed

\* An index past the end of the list raises an IndexError.
entropy_to_mnemonic(units, entropy) ==
  LET combined == entropy * 2 ^ units + Checksum(units, entropy)
      index(i) == Group(combined, (EntUnit + 1) * units, WordBits, i)
  IN  IF \A i \in 1 .. Words(units) : index(i) < WordCount
      THEN [i \in 1 .. Words(units) |-> index(i)]
      ELSE Failed

\* The number that the words are the digits of.
Combined(words) ==
  LET digits[k \in 0 .. Len(words)] ==
        IF k = 0 THEN 0 ELSE digits[k - 1] * 2 ^ WordBits + words[k]
  IN  digits[Len(words)]

\* The entropy with its size, or Failed.
mnemonic_to_entropy(words) ==
  LET combined == Combined(words)
      units    == (Len(words) * WordBits) \div (EntUnit + 1)
      entropy  == combined \div 2 ^ units
  IN  IF /\ units \in Units /\ Len(words) = Words(units)
         /\ \A i \in DOMAIN words : words[i] \in 0 .. WordCount - 1
         /\ Checksum(units, entropy) = combined % 2 ^ units
      THEN <<units, entropy>>
      ELSE Failed

validate_mnemonic(words) == mnemonic_to_entropy(words) # Failed

=============================================================================
