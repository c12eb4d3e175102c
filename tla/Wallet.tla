------------------------------- MODULE Wallet -------------------------------
(***************************************************************************)
(* The wallet of wallet/__init__.py: one account in memory, files, the     *)
(* secrets the user has noted down, and what the wallet sees of the chain. *)
(*                                                                         *)
(* An account is known by the seed it was generated from.  The seed of a   *)
(* new account is random; the seed of an imported one is either a private  *)
(* key, which is itself derived from the seed of the account that exported *)
(* it, or the entropy of a phrase.  Seeds are therefore named by what they *)
(* come from: root is <<0, n>> for the n-th random seed and the size and   *)
(* value of the entropy for a phrase, spends counts the derivations of a   *)
(* key.  Different derivations give different seeds.                       *)
(*                                                                         *)
(* All calls are synchronous; save is split where the file is open, since  *)
(* the program may end there, or the write fail.                           *)
(***************************************************************************)
EXTENDS Encoding

CONSTANTS
  File,             \* paths of wallet files
  DefaultFile,      \* CONFIG.wallet.default_wallet_file
  Password,         \* passwords; "" is the empty one
  DefaultPassword,  \* the password of save when none is given
  Typed,            \* phrases a user may type, besides those noted
  PhraseUnits,      \* size of the entropy to_mnemonic takes from the keys
  Entropy(_),       \* that entropy, a hash of the keys
  AddressBytes(_),  \* the bytes of the address, a hash of the public key
  UnlockDepth,      \* confirmations that unlock an output
  MaxSupply,        \* CONFIG.monetary.max_supply
  Recipient,        \* addresses a user sends to
  Amount, Fee,      \* amounts and fees of calls of send
  Payee,            \* accounts that blocks have outputs for
  Nothing,          \* None
  SeedBound,        \* bound: random seeds
  SpendBound,       \* bound: derivations of a key
  ChainBound        \* bound: blocks

VARIABLES
  account,   \* Wallet.account
  filepath,  \* Wallet._filepath
  disk,      \* the wallet files
  saving,    \* the save that has its file open
  saved,     \* history: what the last save of a file has put there
  noted,     \* history: the secret the user exported last, and of which account
  chain,     \* for each block of the chain, the accounts its outputs are for
  sent       \* how far the calls of send have got

vars == <<account, filepath, disk, saving, saved, noted, chain, sent>>
files == <<filepath, disk, saving, saved>>

Root == ({0} \X (1 .. SeedBound)) \cup UNION {{u} \X (0 .. 2 ^ (EntUnit * u) - 1) : u \in Units}

Account == [root: Root, spends: 0 .. SpendBound]

ASSUME WalletAssumption ==
  /\ DefaultFile \in File
  /\ DefaultPassword \in Password \ {""}
  /\ Typed \subseteq Seq(Nat)
  /\ PhraseUnits \in Units
  /\ \A a \in Account : /\ Entropy(a) \in 0 .. 2 ^ (EntUnit * PhraseUnits) - 1
                        /\ a # [root |-> <<PhraseUnits, Entropy(a)>>, spends |-> 0]
                        /\ AddressBytes(a) \in Seq(0 .. 2 ^ ByteBits - 1)
  /\ UnlockDepth \in Nat /\ SpendBound \in Nat
  /\ Amount \subseteq Int /\ Fee \subseteq Int
  /\ Payee \subseteq Account
  /\ Nothing \notin File \cup Account
  /\ Nothing \notin [account: Account, password: Password]
  /\ Nothing \notin [file: File, account: Account, password: Password]

Content ==
  [kind: {"absent", "empty", "magic", "partial"}]
    \cup [kind: {"full"}, account: Account, password: Password]

TypeOK ==
  /\ account \in Account \cup {Nothing}
  /\ filepath \in File \cup {Nothing}
  /\ disk \in [File -> Content]
  /\ saving \in {Nothing} \cup [file: File, account: Account, password: Password]
  /\ saved \in [File -> {Nothing} \cup [account: Account, password: Password]]
  /\ noted \in {Nothing} \cup [kind: {"key", "phrase"}, of: Account]
  /\ chain \in Seq(SUBSET Account)
  /\ sent \subseteq {"output", "returned", "pooled"}

Init ==
  /\ account = Nothing /\ filepath = Nothing
  /\ disk = [f \in File |-> [kind |-> "absent"]]
  /\ saving = Nothing
  /\ saved = [f \in File |-> Nothing]
  /\ noted = Nothing
  /\ chain = <<{}>>
  /\ sent = {}

Idle == saving = Nothing

Loaded == Idle /\ account # Nothing

-----------------------------------------------------------------------------
(***************************************************************************)
(* Accounts and their secrets.                                             *)
(***************************************************************************)

\* Mutant: the seed is taken for the spend key as it is.
SpendSeedRaw(a) == a

\* The private key of an account: its spend seed, a hash of its seed.
SpendSeed(a) == [a EXCEPT !.spends = @ + 1]

ToMnemonic(a) == entropy_to_mnemonic(PhraseUnits, Entropy(a))

FromMnemonic(words) == [root |-> mnemonic_to_entropy(words), spends |-> 0]

Create(n) ==
  /\ Idle
  /\ account' = [root |-> <<0, n>>, spends |-> 0]
  /\ UNCHANGED <<files, noted, chain, sent>>

Noted(kind) == noted # Nothing /\ noted.kind = kind

ExportPrivateKey ==
  /\ Loaded
  /\ noted' = [kind |-> "key", of |-> account]
  /\ UNCHANGED <<account, files, chain, sent>>

\* An index past the list makes export_mnemonic raise: there is no phrase.
ExportMnemonic ==
  /\ Loaded
  /\ ToMnemonic(account) # Failed
  /\ noted' = [kind |-> "phrase", of |-> account]
  /\ UNCHANGED <<account, files, chain, sent>>

ImportPrivateKey ==
  /\ Idle /\ Noted("key") /\ SpendSeed(noted.of) \in Account
  /\ account' = SpendSeed(noted.of)
  /\ UNCHANGED <<files, noted, chain, sent>>

\* A phrase, noted or typed; an invalid one is refused.
ImportMnemonic(words) ==
  /\ Idle
  /\ account' = IF validate_mnemonic(words) THEN FromMnemonic(words) ELSE account
  /\ UNCHANGED <<files, noted, chain, sent>>

-----------------------------------------------------------------------------
(***************************************************************************)
(* Files.                                                                  *)
(***************************************************************************)

Torn == [kind: {"empty", "magic", "partial"}]

\* Mutant: the file is overwritten without being cut.
BeginSaveOver(path, password) ==
  LET file == IF path # Nothing THEN path ELSE IF filepath # Nothing THEN filepath ELSE DefaultFile
      key  == IF password = "" THEN DefaultPassword ELSE password
  IN  /\ Loaded
      /\ saving' = [file |-> file, account |-> account, password |-> key]
      /\ saved' = [saved EXCEPT ![file] = Nothing]
      /\ UNCHANGED <<account, filepath, disk, noted, chain, sent>>

\* save opens the file, which cuts it to nothing.  Without a path it is the
\* file of the last load or save, without a password, or with an empty one,
\* the password is the default one.
BeginSave(path, password) ==
  LET file == IF path # Nothing THEN path ELSE IF filepath # Nothing THEN filepath ELSE DefaultFile
      key  == IF password = "" THEN DefaultPassword ELSE password
  IN  /\ Loaded
      /\ disk' = [disk EXCEPT ![file] = [kind |-> "empty"]]
      /\ saving' = [file |-> file, account |-> account, password |-> key]
      /\ saved' = [saved EXCEPT ![file] = Nothing]
      /\ UNCHANGED <<account, filepath, noted, chain, sent>>

EndSave ==
  /\ ~Idle
  /\ disk' = [disk EXCEPT ![saving.file] =
                [kind |-> "full", account |-> saving.account, password |-> saving.password]]
  /\ saved' = [saved EXCEPT ![saving.file] =
                [account |-> saving.account, password |-> saving.password]]
  /\ filepath' = saving.file
  /\ saving' = Nothing
  /\ UNCHANGED <<account, noted, chain, sent>>

\* A write fails: some of the file is there, and save raises.
FailSave ==
  /\ ~Idle
  /\ \E c \in Torn : disk' = [disk EXCEPT ![saving.file] = c]
  /\ saving' = Nothing
  /\ UNCHANGED <<account, filepath, saved, noted, chain, sent>>

\* The program ends, maybe while a file is open; it can be started again.
Crash ==
  /\ account # Nothing
  /\ IF Idle THEN UNCHANGED disk
             ELSE \E c \in Torn : disk' = [disk EXCEPT ![saving.file] = c]
  /\ account' = Nothing /\ filepath' = Nothing /\ saving' = Nothing
  /\ UNCHANGED <<saved, noted, chain, sent>>

\* What WalletFile.load returns.  Only a whole file under its own password
\* decrypts to JSON.  (A file that ends after its magic makes it raise.)
LoadFile(c, password) ==
  IF c.kind = "full" /\ c.password = password THEN c.account ELSE Nothing

Load(file, password) ==
  /\ Idle
  /\ LET found == LoadFile(disk[file], password)
     IN  IF found # Nothing THEN account' = found /\ filepath' = file
                            ELSE UNCHANGED <<account, filepath>>
  /\ UNCHANGED <<disk, saving, saved, noted, chain, sent>>

-----------------------------------------------------------------------------
(***************************************************************************)
(* Balance and payments.                                                   *)
(***************************************************************************)

\* The blocks with outputs that the scanner recognises.
Owned == {h \in DOMAIN chain : account \in chain[h]}

\* The amount of an output is not recovered from its commitment.
ScannedAmount == 0

Unlocked == ScannedAmount * Cardinality({h \in Owned : Len(chain) - h + 1 >= UnlockDepth})

\* Mutant: a payment of nothing is made.
CreateTransactionOfNothing(to, amount, fee) ==
  IF amount >= 0 /\ amount + fee <= MaxSupply /\ from_address(to) # Failed
  THEN {"output"} \cup (IF fee >= 0 THEN {"returned"} ELSE {})
  ELSE {}

\* RingCTBuilder.create_transaction makes an output for the public key that it
\* reads from the address, or an assertion fails; no input is ever added.  The
\* hash of a transaction with a negative fee cannot be packed.
CreateTransaction(to, amount, fee) ==
  IF amount > 0 /\ amount + fee <= MaxSupply /\ from_address(to) # Failed
  THEN {"output"} \cup (IF fee >= 0 THEN {"returned"} ELSE {})
  ELSE {}

AddressLength == Len(base32_encode(AddressBytes(account)))

BuildTransaction(to, amount, fee) ==
  IF Len(to) = AddressLength /\ Unlocked >= amount + fee
  THEN CreateTransaction(to, amount, fee)
  ELSE {}

\* Of a regular transaction.
ValidateBasic(inputs, outputs, fee) == inputs > 0 /\ outputs > 0 /\ fee >= 0

\* send returns the transaction whether or not the mempool takes it.
Send(to, amount, fee) ==
  LET done == BuildTransaction(to, amount, fee)
      kept == IF "returned" \in done /\ ValidateBasic(0, 1, fee) THEN {"pooled"} ELSE {}
  IN  /\ Loaded
      /\ sent' = sent \cup done \cup kept
      /\ UNCHANGED <<account, files, noted, chain>>

\* A block joins the chain; its outputs are for some accounts.
Receive(owners) ==
  /\ Idle /\ Len(chain) < ChainBound
  /\ chain' = Append(chain, owners)
  /\ UNCHANGED <<account, files, noted, sent>>

-----------------------------------------------------------------------------

Phrases == Typed \cup (IF Noted("phrase") THEN {ToMnemonic(noted.of)} ELSE {})

Next ==
  \/ \E n \in 1 .. SeedBound : Create(n)
  \/ ExportPrivateKey
  \/ ExportMnemonic
  \/ ImportPrivateKey
  \/ \E words \in Phrases : ImportMnemonic(words)
  \/ \E path \in File \cup {Nothing}, password \in Password : BeginSave(path, password)
  \/ EndSave
  \/ FailSave
  \/ Crash
  \/ \E file \in File, password \in Password : Load(file, password)
  \/ \E to \in Recipient, amount \in Amount, fee \in Fee : Send(to, amount, fee)
  \/ \E owners \in SUBSET Payee : Receive(owners)

Spec == Init /\ [][Next]_vars

-----------------------------------------------------------------------------
(***************************************************************************)
(* Properties.                                                             *)
(***************************************************************************)

\* A file loads under exactly the password it was saved with, as exactly the
\* account whose save ran to its end; a save that failed or that the program
\* did not survive has lost what was there before, and leaves nothing that
\* could be taken for an account (save writes in place).
LoadsWhatWasSaved ==
  \A f \in File, p \in Password :
    LoadFile(disk[f], p) =
      IF saved[f] # Nothing /\ saved[f].password = p THEN saved[f].account ELSE Nothing

\* What the wallet shows reads back: its address decodes to the bytes it was
\* made from, and its phrase, if there is one, to the entropy of its keys.
ShownReadsBack ==
  account # Nothing =>
    /\ base32_decode(base32_encode(AddressBytes(account))) = AddressBytes(account)
    /\ ToMnemonic(account) # Failed =>
         mnemonic_to_entropy(ToMnemonic(account)) = <<PhraseUnits, Entropy(account)>>

\* The import of a secret never leads back to the account that exported it:
\* both imports take the secret for the seed of an account, which it is not.
ImportStartsAnother ==
  [][ImportPrivateKey \/ (Noted("phrase") /\ ImportMnemonic(ToMnemonic(noted.of)))
       => account' # noted.of]_vars

\* No call of send pays anyone: it returns no transaction and adds none to the
\* mempool, whatever the wallet owns.  The scanner takes all outputs to be worth
\* nothing, so the only call to get past the balance has a negative fee, and the
\* transaction made for it cannot be hashed.
NothingSent == sent \cap {"returned", "pooled"} = {}

=============================================================================
