------------------------------ MODULE MCWallet ------------------------------
(***************************************************************************)
(* One random seed and two files.  Bytes have four bits, characters three, *)
(* words two, of which the list has three; a phrase has four words.  The   *)
(* entropy of the new account has a phrase, that of the account imported   *)
(* from it has one too, and that of the next one has none.                 *)
(***************************************************************************)
EXTENDS Wallet

CONSTANTS f1, f2

MCUnits == {1, 2}
MCDigest(units, e) == (7 * e + 3 * units) % 16

\* The entropies 21 and 38 have a phrase, 63 has none.
MCEntropy(a) ==
  CASE a = [root |-> <<0, 1>>, spends |-> 0] -> 21
    [] a = [root |-> <<2, 21>>, spends |-> 0] -> 38
    [] OTHER -> IF a.root = <<2, 63>> THEN 0 ELSE 63

MCAddressBytes(a) == <<(3 + 5 * a.spends) % 16, (a.root[2] * 7 + 1) % 16, (9 + a.root[1]) % 16>>

\* One phrase is valid; the others have a wrong checksum, an unknown word and
\* a wrong length.
MCTyped == {<<2, 1>>, <<1, 1>>, <<0, 3>>, <<0, 0, 0>>}

NewAccount == [root |-> <<0, 1>>, spends |-> 0]
\* An address, what is too short for one, and a key with padding to the length
\* of an address.
MCRecipient == {base32_encode(MCAddressBytes(NewAccount)), <<1>>,
                Append(base32_encode(<<1, 2>>), Padding)}

MCPayee == {NewAccount}
MCFee == {0, -1}

=============================================================================
