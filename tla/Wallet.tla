-------------------------------- MODULE Wallet --------------------------------
(***************************************************************************)
(* The wallet (web3-eth-accounts/src/wallet.ts, with the account provider  *)
(* of web3/src/accounts.ts): an array of accounts and a map from addresses *)
(* to indexes, a browser storage, and the two calls that wait for          *)
(* cryptography, save() and load().  Indexes are counted from 1.           *)
(***************************************************************************)
EXTENDS Accounts, SequencesExt

CONSTANTS
    Keys,        \* private keys, each with its account
    Passwords,
    MaxAccounts, \* bounds the wallet
    MaxAsync     \* bounds the calls of save() and load()

\* A password is given: the account refuses one that is not.
ASSUME PasswordsAssumption == Absent \notin Passwords

VARIABLES
    accounts,    \* the array
    addressMap,  \* _addressMap
    stored,      \* what the storage holds under the default name, Absent at first
    saving,      \* save() calls that wait: [password, keys]
    loading,     \* load() calls that wait: [password, found]
    async,       \* number of these calls so far
    shifted      \* history: an account was removed before others

walletVars == <<accounts, addressMap, stored, saving, loading, async, shifted>>

EmptyMap == [a \in {} |-> 0]

WalletInit ==
    /\ accounts = <<>>
    /\ addressMap = EmptyMap
    /\ stored = Absent
    /\ saving = {} /\ loading = {}
    /\ async = 0
    /\ shifted = FALSE

Known(k) == k \in DOMAIN addressMap
\* get(address): what stands at the index of the address, if anything does.
Get(k) == IF Known(k) /\ addressMap[k] <= Len(accounts) THEN accounts[addressMap[k]] ELSE Absent

WithIndex(map, k, index) == [a \in DOMAIN map \cup {k} |-> IF a = k THEN index ELSE map[a]]
Without(k) == [a \in DOMAIN addressMap \ {k} |-> addressMap[a]]

\* The wallet after add(account): [accounts, addressMap].
FaultAdded(w, k) ==
    [accounts |-> Append(w.accounts, k), addressMap |-> WithIndex(w.addressMap, k, Len(w.accounts) + 1)]
Added(w, k) ==
    LET length == Len(w.accounts)
        exists == k \in DOMAIN w.addressMap /\ w.addressMap[k] <= length
        index  == IF exists THEN w.addressMap[k] ELSE length + 1
    IN
    [accounts   |-> IF index <= length THEN [w.accounts EXCEPT ![index] = k]
                    ELSE Append(w.accounts, k),
     addressMap |-> WithIndex(w.addressMap, k, index)]

\* The wallet after an add() of every result, from the first to the last.
AddedAll(w, results) ==
    LET after[n \in 0 .. Len(results)] ==
            IF n = 0 THEN w ELSE Added(after[n - 1], results[n].address)
    IN after[Len(results)]

Now == [accounts |-> accounts, addressMap |-> addressMap]
Become(w) == accounts' = w.accounts /\ addressMap' = w.addressMap

\* create(), add(account), add(privateKey)
Add(k) ==
    /\ Len(accounts) < MaxAccounts
    /\ Become(Added(Now, k))
    /\ UNCHANGED <<stored, saving, loading, async, shifted>>

\* remove(address): the entries of the accounts behind it are not moved.  An
\* index beyond the array removes nothing from it.
RemoveAddress(k) ==
    /\ Known(k)
    /\ addressMap' = Without(k)
    /\ accounts' = IF addressMap[k] <= Len(accounts) THEN RemoveAt(accounts, addressMap[k])
                   ELSE accounts
    /\ shifted' = (shifted \/ addressMap[k] # Len(accounts))
    /\ UNCHANGED <<stored, saving, loading, async>>

\* remove(index): the entry of the address stays.
RemoveIndex(i) ==
    /\ i \in DOMAIN accounts
    /\ accounts' = RemoveAt(accounts, i)
    /\ shifted' = TRUE
    /\ UNCHANGED <<addressMap, stored, saving, loading, async>>

Clear ==
    /\ accounts # <<>> \/ addressMap # EmptyMap
    /\ accounts' = <<>> /\ addressMap' = EmptyMap
    /\ shifted' = FALSE
    /\ UNCHANGED <<stored, saving, loading, async>>

KeyData(k) == [form |-> "hex", nibbles |-> KeyNibbles, key |-> k]
NoOptions == [kdf |-> Absent, dklen |-> Absent, c |-> Absent, iv |-> Absent]

\* encrypt(password): of the accounts there are when it is called.
StoreOf(keys, password) ==
    [i \in DOMAIN keys |-> EncryptKey(KeyData(keys[i]), password, NoOptions, i)]
Encrypt(password) == StoreOf(accounts, password)

\* save(): the storage is looked up before and written after the encryption.
SaveCalled(password) ==
    /\ async < MaxAsync
    /\ saving' = saving \cup {[call |-> async, stores |-> Encrypt(password)]}
    /\ async' = async + 1
    /\ UNCHANGED <<accounts, addressMap, stored, loading, shifted>>

\* The encryptions of two calls may end in any order.
SaveDone(s) ==
    /\ stored' = s.stores
    /\ saving' = saving \ {s}
    /\ UNCHANGED <<accounts, addressMap, loading, async, shifted>>

\* load(): reads the storage and decrypts all of it.
LoadCalled(password) ==
    /\ async < MaxAsync
    /\ stored # Absent
    /\ loading' = loading \cup
           {[call |-> async, password |-> password,
             from |-> stored, results |-> [i \in DOMAIN stored |-> DecryptKey(stored[i], password)]]}
    /\ async' = async + 1
    /\ UNCHANGED <<accounts, addressMap, stored, saving, shifted>>

Decrypted(l) == \A i \in DOMAIN l.results : ~ Fails(l.results[i])

\* decrypt(): adds every account that was stored.
LoadDone(l) ==
    /\ Len(accounts) + Len(l.results) <= MaxAccounts
    /\ loading' = loading \ {l}
    /\ Become(AddedAll(Now, l.results))
    /\ UNCHANGED <<stored, saving, async, shifted>>

\* One account that cannot be decrypted and none is added.
LoadFails(l) ==
    /\ loading' = loading \ {l}
    /\ UNCHANGED <<accounts, addressMap, stored, saving, async, shifted>>

WalletNext ==
    \/ \E k \in Keys : Add(k) \/ RemoveAddress(k)
    \/ \E i \in 1..MaxAccounts : RemoveIndex(i)
    \/ Clear
    \/ \E p \in Passwords : SaveCalled(p) \/ LoadCalled(p)
    \/ \E s \in saving : SaveDone(s)
    \/ \E l \in loading : IF Decrypted(l) THEN LoadDone(l) ELSE LoadFails(l)

WalletSpec == WalletInit /\ [][WalletNext]_walletVars

---------------------------------------------------------------------------
(* Properties *)

\* As long as accounts were removed only from the end, every address that is
\* known leads to its own account and every account is known by its address: a
\* program never signs with the key of another account (wallet.ts `add`,
\* `get`, `remove`, `load`).
WalletAgrees ==
    ~ shifted =>
        /\ DOMAIN addressMap = {accounts[i] : i \in DOMAIN accounts}
        /\ \A k \in DOMAIN addressMap : Get(k) = k

Guarded(l) ==
    \A i \in DOMAIN l.results :
        LET store == l.from[i]
            key   == store.address
        IN
        l.results[i] = IF store.ciphertext[3][1][3] = l.password
                       THEN [address |-> key, privateKey |-> key]
                       ELSE Thrown("KeyDerivationError")

\* What a load decrypts is what was saved, with the password it was saved with
\* and with no other: the MAC tells a wrong password before it makes accounts of
\* keys nobody has (account.ts `decrypt`, wallet.ts `load`).
PasswordGuards == \A l \in loading : Guarded(l)
==============================================================================
