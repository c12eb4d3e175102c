SPECIFICATION Spec
CONSTANTS
  f1 = f1
  f2 = f2
  ByteBits = 4
  CharBits = 3
  KeyBytes = 2
  WordBits = 2
  WordCount = 3
  EntUnit = 3
  Units <- MCUnits
  Digest <- MCDigest
  File = {f1, f2}
  DefaultFile = f1
  Password = {"", "pw", "default_password"}
  DefaultPassword = "default_password"
  Typed <- MCTyped
  PhraseUnits = 2
  Entropy <- MCEntropy
  AddressBytes <- MCAddressBytes
  UnlockDepth = 1
  MaxSupply = 10
  Recipient <- MCRecipient
  Amount = {0, 1}
  Fee <- MCFee
  Payee <- MCPayee
  Nothing = Nothing
  SeedBound = 1
  SpendBound = 1
  ChainBound = 2
INVARIANTS
  LoadsWhatWasSaved
  ShownReadsBack
  NothingSent
PROPERTY ImportStartsAnother
