---------------------------- MODULE AccountsProofs ----------------------------
(***************************************************************************)
(* Proofs about what a program keeps of web3-eth-accounts, for any number  *)
(* of them: the wallet, and the chains of transactions (Common).           *)
(***************************************************************************)
EXTENDS Wallet, Common, SignedMessages, FiniteSetTheorems, SequenceTheorems, TLAPS

---------------------------------------------------------------------------
(* The wallet *)

(* The wallet's state: an array of keys, a map to indexes, and stores of   *)
(* what some wallet held, each under one password.                         *)
Maps   == UNION {[D -> Nat \ {0}] : D \in SUBSET Keys}
Stores == {StoreOf(keys, p) : keys \in Seq(Keys), p \in Passwords}

WalletTyped ==
    /\ accounts \in Seq(Keys)
    /\ addressMap \in Maps
    /\ stored \in Stores \cup {Absent}
    /\ shifted \in BOOLEAN
    /\ \A s \in saving : s.stores \in Stores
    /\ \A l \in loading :
          /\ l.password \in Passwords
          /\ l.from \in Stores
          /\ l.results = [i \in DOMAIN l.from |-> DecryptKey(l.from[i], l.password)]

Paired(array, map) ==
    /\ DOMAIN map = {array[i] : i \in DOMAIN array}
    /\ \A i \in DOMAIN array : map[array[i]] = i

WalletInv == WalletTyped /\ (~ shifted => Paired(accounts, addressMap))

(* What a store yields to its password, and what it yields to another.     *)
Unlocks(store, key, p) ==
    /\ store.address = key
    /\ store.ciphertext[3][1][3] = p
    /\ \A q : DecryptKey(store, q) = IF q = p THEN [address |-> key, privateKey |-> key]
                                     ELSE Thrown("KeyDerivationError")

LEMMA RoundTrip ==
    ASSUME NEW keys \in Seq(Keys), NEW p, p # Absent, NEW i \in DOMAIN keys
    PROVE  Unlocks(StoreOf(keys, p)[i], keys[i], p)
<1> DEFINE params == [dklen |-> 32, salt |-> i, c |-> 0]
           derived(pw) == DerivedKey("scrypt", pw, params)
           cipher == <<"aes", keys[i], AesKey(derived(p))>>
           store == StoreOf(keys, p)[i]
<1>1. EncryptError(KeyData(keys[i]), p, NoOptions) = Absent
  BY DEF EncryptError, KeyData, NoOptions, KeyNibbles, ParsePrivateKey, Or
<1>2. store = [version |-> 3, address |-> keys[i], kdf |-> "scrypt", kdfparams |-> params,
               ciphertext |-> cipher, mac |-> Mac(derived(p), cipher)]
  BY <1>1 DEF StoreOf, EncryptKey, KeyData, NoOptions, Or
<1>3. \A q : AesKey(derived(q)) = <<derived(q), 0, 16>>
  BY DEF AesKey, Slice, DerivedKey
<1>4. store.address = keys[i] /\ store.ciphertext[3][1][3] = p
  BY <1>2, <1>3 DEF DerivedKey
<1>5. ASSUME NEW q
      PROVE  DecryptKey(store, q) = IF q = p THEN [address |-> keys[i], privateKey |-> keys[i]]
                                    ELSE Thrown("KeyDerivationError")
  <2>1. derived(p) = derived(q) <=> p = q
    BY DEF DerivedKey
  <2>2. /\ Slice(derived(q), 16, 32) = <<derived(q), 16, 32>>
        /\ Slice(derived(p), 16, 32) = <<derived(p), 16, 32>>
    BY DEF Slice, DerivedKey
  <2>3. Mac(derived(q), cipher) = Mac(derived(p), cipher) <=> p = q
    <3> HIDE DEF derived, cipher
    <3>1. QED
      BY <2>1, <2>2 DEF Mac
  <2>4. ~ AesRefuses(derived(q))
    BY DEF AesRefuses, DerivedKey
  <2> HIDE DEF cipher
  <2>5. /\ store.version = 3 /\ store.kdf = "scrypt" /\ store.kdfparams = params
        /\ store.ciphertext = cipher /\ store.mac = Mac(derived(p), cipher)
    BY <1>2
  <2>6. CASE q # p
    <3>1. Mac(DerivedKey(store.kdf, q, store.kdfparams), store.ciphertext) # store.mac
      BY <2>3, <2>5, <2>6
    <3> HIDE DEF store
    <3>2. QED
      BY <2>5, <2>6, <3>1 DEF DecryptKey
  <2>7. CASE q = p
    <3>1. cipher[2] = keys[i] /\ cipher[3] = AesKey(derived(p))
      BY DEF cipher
    <3> HIDE DEF store
    <3>2. QED
      BY <2>4, <2>5, <2>7, <3>1 DEF DecryptKey, PrivateKeyToAccount, ParsePrivateKey, KeyNibbles
  <2>8. QED
    BY <2>6, <2>7
<1>6. QED
  BY <1>4, <1>5 DEF Unlocks

(* Induction over the natural numbers, for a set: the least number that is *)
(* not in it would be the length of a least interval.                      *)
LEMMA NatSetInduction ==
    ASSUME NEW S, 0 \in S, \A n \in Nat : n \in S => n + 1 \in S
    PROVE  Nat \subseteq S
<1> DEFINE R == StrictSubsetOrdering(Nat)
           T == {1 .. n : n \in Nat \ S}
<1> SUFFICES ASSUME T # {} PROVE FALSE
  OBVIOUS
<1>1. IsWellFoundedOn(R, FiniteSubsetsOf(Nat))
  BY FS_StrictSubsetOrderingWellFounded
<1>2. T \subseteq FiniteSubsetsOf(Nat)
  <2> SUFFICES ASSUME NEW n \in Nat
               PROVE  1 .. n \in FiniteSubsetsOf(Nat)
    OBVIOUS
  <2>1. 1 \in Int /\ n \in Int /\ 1 .. n \in SUBSET Nat
    OBVIOUS
  <2>2. IsFiniteSet(1 .. n)
    BY <2>1, FS_Interval
  <2>3. QED
    BY <2>1, <2>2 DEF FiniteSubsetsOf
<1>3. PICK x \in T : \A y \in T : ~ (<<y, x>> \in R)
  <2> HIDE DEF R, T
  <2>1. QED
    BY <1>1, <1>2, WFMin
<1>4. PICK n \in Nat \ S : x = 1 .. n
  OBVIOUS
<1>5. n # 0 /\ n - 1 \in Nat \ S
  OBVIOUS
<1>6. 1 .. n - 1 \in T
  BY <1>5
<1>7. 1 .. n - 1 \subseteq 1 .. n /\ n \in 1 .. n /\ n \notin 1 .. n - 1
  BY <1>5
<1>8. <<1 .. n - 1, x>> \in R
  BY <1>4, <1>7 DEF StrictSubsetOrdering
<1>9. QED
  BY <1>3, <1>6, <1>8

(* What one add() keeps, all the adds of a load keep.                      *)
LEMMA AddedAllKeeps ==
    ASSUME NEW S, NEW w \in S, NEW results, Len(results) \in Nat,
           \A v \in S : \A i \in 1 .. Len(results) : Added(v, results[i].address) \in S
    PROVE  AddedAll(w, results) \in S
<1> DEFINE m == Len(results)
           Rule(g, n) == IF n = 0 THEN w ELSE Added(g[n - 1], results[n].address)
           Run(g, n) == g = [j \in 0 .. n |-> Rule(g, j)]
           HasRun == {n \in Nat : \E g : Run(g, n)}
<1>1. \E g : Run(g, m)
  <2>1. 0 \in HasRun
    <3>1. Run([j \in 0 .. 0 |-> w], 0)
      OBVIOUS
    <3>2. QED
      BY <3>1
  <2>2. ASSUME NEW n \in Nat, n \in HasRun
        PROVE  n + 1 \in HasRun
    <3>1. PICK g : Run(g, n)
      BY <2>2
    <3> DEFINE h == [j \in 0 .. n + 1 |-> IF j = n + 1 THEN Rule(g, n + 1) ELSE g[j]]
    <3>2. ASSUME NEW j \in 0 .. n + 1
          PROVE  h[j] = Rule(h, j)
      <4>1. CASE j = 0
        BY <3>1, <4>1
      <4>2. CASE j # 0
        <5>1. j - 1 \in 0 .. n /\ h[j - 1] = g[j - 1]
          BY <4>2
        <5>2. h[j] = Rule(g, j)
          BY <3>1
        <5>3. QED
          BY <4>2, <5>1, <5>2
      <4>3. QED
        BY <4>1, <4>2
    <3>3. Run(h, n + 1)
      BY <3>2
    <3> HIDE DEF Run, h
    <3>4. QED
      BY <3>3
  <2> HIDE DEF HasRun
  <2>3. Nat \subseteq HasRun
    BY <2>1, <2>2, NatSetInduction
  <2>4. QED
    BY <2>3 DEF HasRun
<1> DEFINE after == CHOOSE g : Run(g, m)
           Kept == {n \in Nat : n <= m => after[n] \in S}
<1>2. Run(after, m)
  <2> HIDE DEF Run
  <2>1. QED
    BY <1>1
<1> HIDE DEF after
<1>3. 0 \in Kept
  BY <1>2
<1>4. ASSUME NEW n \in Nat, n \in Kept
      PROVE  n + 1 \in Kept
  <2> SUFFICES ASSUME n + 1 <= m
               PROVE  after[n + 1] \in S
    OBVIOUS
  <2>1. after[n] \in S
    BY <1>4
  <2>2. n + 1 \in 1 .. m /\ after[n + 1] = Added(after[n], results[n + 1].address)
    BY <1>2
  <2>3. QED
    BY <2>1, <2>2
<1> HIDE DEF Kept
<1>5. Nat \subseteq Kept
  BY <1>3, <1>4, NatSetInduction
<1>6. after[m] \in S
  BY <1>5 DEF Kept
<1>7. AddedAll(w, results) = after[m]
  BY DEF AddedAll, after
<1>8. QED
  BY <1>6, <1>7

(* What add() does to an array and a map that are well formed, and to a    *)
(* pair of them that agrees.                                               *)
Wallets == [accounts : Seq(Keys), addressMap : Maps]

LEMMA AddedTyped ==
    ASSUME NEW w \in Wallets, NEW k \in Keys
    PROVE  Added(w, k) \in Wallets
<1> DEFINE length == Len(w.accounts)
           exists == k \in DOMAIN w.addressMap /\ w.addressMap[k] <= length
           index  == IF exists THEN w.addressMap[k] ELSE length + 1
           array  == IF index <= length THEN [w.accounts EXCEPT ![index] = k]
                     ELSE Append(w.accounts, k)
<1>1. w.accounts \in Seq(Keys) /\ length \in Nat /\ w.addressMap \in Maps
  BY DEF Wallets
<1>2. PICK D \in SUBSET Keys : w.addressMap \in [D -> Nat \ {0}]
  BY <1>1 DEF Maps
<1>3. index \in Nat \ {0}
  BY <1>1, <1>2
<1>4. array \in Seq(Keys)
  <2>1. CASE index <= length
    BY <1>1, <1>3, <2>1, ExceptSeq
  <2>2. CASE ~ (index <= length)
    BY <1>1, <2>2, AppendProperties
  <2>3. QED
    BY <2>1, <2>2
<1>5. WithIndex(w.addressMap, k, index) \in [D \cup {k} -> Nat \ {0}]
  <2> HIDE DEF index
  <2>1. QED
    BY <1>2, <1>3 DEF WithIndex
<1>6. WithIndex(w.addressMap, k, index) \in Maps
  BY <1>5 DEF Maps
<1>7. Added(w, k) = [accounts |-> array, addressMap |-> WithIndex(w.addressMap, k, index)]
  BY DEF Added
<1>8. QED
  <2> HIDE DEF index, array
  <2>1. QED
    BY <1>4, <1>6, <1>7 DEF Wallets

LEMMA AddedPaired ==
    ASSUME NEW w \in Wallets, NEW k \in Keys, Paired(w.accounts, w.addressMap)
    PROVE  Paired(Added(w, k).accounts, Added(w, k).addressMap)
<1> DEFINE length == Len(w.accounts)
<1>1. w.accounts \in Seq(Keys) /\ length \in Nat /\ DOMAIN w.accounts = 1 .. length
  BY DEF Wallets
<1>2. CASE k \in DOMAIN w.addressMap
  <2>1. PICK i \in 1 .. length : k = w.accounts[i]
    BY <1>1, <1>2 DEF Paired
  <2>2. w.addressMap[k] = i
    BY <1>1, <2>1 DEF Paired
  <2>3. Added(w, k).accounts = [w.accounts EXCEPT ![i] = k]
    BY <1>1, <1>2, <2>1, <2>2 DEF Added
  <2>4. Added(w, k).accounts = w.accounts
    BY <1>1, <2>1, <2>3
  <2>5. Added(w, k).addressMap = WithIndex(w.addressMap, k, i)
    BY <1>1, <1>2, <2>1, <2>2 DEF Added
  <2>6. /\ DOMAIN Added(w, k).addressMap = DOMAIN w.addressMap
        /\ \A a \in DOMAIN w.addressMap : Added(w, k).addressMap[a] = w.addressMap[a]
    BY <1>2, <2>2, <2>5 DEF WithIndex
  <2>7. QED
    BY <2>4, <2>6 DEF Paired
<1>3. CASE k \notin DOMAIN w.addressMap
  <2>1. /\ Added(w, k).accounts = Append(w.accounts, k)
        /\ Added(w, k).addressMap = WithIndex(w.addressMap, k, length + 1)
    BY <1>1, <1>3 DEF Added
  <2>2. /\ DOMAIN Append(w.accounts, k) = 1 .. length + 1
        /\ Append(w.accounts, k)[length + 1] = k
        /\ \A i \in 1 .. length : Append(w.accounts, k)[i] = w.accounts[i]
    BY <1>1
  <2>3. \A i \in 1 .. length : w.accounts[i] \in DOMAIN w.addressMap
    BY <1>1 DEF Paired
  <2>4. {Append(w.accounts, k)[i] : i \in 1 .. length + 1}
          = {w.accounts[i] : i \in 1 .. length} \cup {k}
    BY <1>1, <2>2
  <2>5. ASSUME NEW i \in 1 .. length + 1
        PROVE  WithIndex(w.addressMap, k, length + 1)[Append(w.accounts, k)[i]] = i
    <3>1. CASE i = length + 1
      BY <2>2, <3>1 DEF WithIndex
    <3>2. CASE i \in 1 .. length
      BY <1>1, <1>3, <2>2, <2>3, <3>2 DEF WithIndex, Paired
    <3>3. QED
      BY <1>1, <3>1, <3>2
  <2>6. DOMAIN WithIndex(w.addressMap, k, length + 1) = DOMAIN w.addressMap \cup {k}
    BY DEF WithIndex
  <2>7. DOMAIN w.addressMap \cup {k} = {w.accounts[i] : i \in 1 .. length} \cup {k}
    BY <1>1 DEF Paired
  <2> DEFINE array == Append(w.accounts, k)
             map   == WithIndex(w.addressMap, k, length + 1)
  <2>8. /\ DOMAIN map = {array[i] : i \in DOMAIN array}
        /\ \A i \in DOMAIN array : map[array[i]] = i
    BY <2>2, <2>4, <2>5, <2>6, <2>7
  <2>9. Added(w, k).accounts = array /\ Added(w, k).addressMap = map
    BY <2>1
  <2> HIDE DEF array, map
  <2>10. QED
    BY <2>8, <2>9 DEF Paired
<1>4. QED
  BY <1>2, <1>3

(* Removing from an array leaves an array, and the last of a pair that     *)
(* agrees may go.                                                          *)
LEMMA RemovedTyped ==
    ASSUME NEW array \in Seq(Keys), NEW i \in 1 .. Len(array)
    PROVE  RemoveAt(array, i) \in Seq(Keys)
<1>1. SubSeq(array, 1, i - 1) \in Seq(Keys)
  BY SubSeqProperties
<1>2. SubSeq(array, i + 1, Len(array)) \in Seq(Keys)
  BY SubSeqProperties
<1>3. QED
  BY <1>1, <1>2, ConcatProperties DEF RemoveAt

LEMMA LastRemoved ==
    ASSUME NEW array \in Seq(Keys), array # <<>>
    PROVE  LET front == RemoveAt(array, Len(array)) IN
           /\ DOMAIN front = 1 .. Len(array) - 1
           /\ \A i \in DOMAIN front : front[i] = array[i]
<1> DEFINE n == Len(array)
<1>1. n \in Nat /\ n # 0
  BY EmptySeq
<1>2. /\ SubSeq(array, 1, n - 1) \in Seq(Keys)
      /\ Len(SubSeq(array, 1, n - 1)) = n - 1
      /\ \A i \in 1 .. n - 1 : SubSeq(array, 1, n - 1)[i] = array[i]
  <2>1. 1 \in Int /\ n - 1 \in Int /\ \A i \in 1 .. n - 1 : array[i] \in Keys
    BY <1>1
  <2>2. /\ SubSeq(array, 1, n - 1) \in Seq(Keys)
        /\ Len(SubSeq(array, 1, n - 1)) = IF 1 <= n - 1 THEN (n - 1) - 1 + 1 ELSE 0
        /\ \A i \in 1 .. (n - 1) - 1 + 1 : SubSeq(array, 1, n - 1)[i] = array[1 + i - 1]
    <3> HIDE DEF n
    <3>1. QED
      BY <2>1, SubSeqProperties
  <2>3. (n - 1) - 1 + 1 = n - 1 /\ (1 > n - 1 => n - 1 = 0) /\ \A i \in 1 .. n - 1 : 1 + i - 1 = i
    <3> HIDE DEF n
    <3>1. QED
      BY <1>1
  <2> HIDE DEF n
  <2>4. QED
    BY <1>1, <2>2, <2>3
<1>3. SubSeq(array, n + 1, n) = <<>>
  BY <1>1, SubSeqProperties
<1>4. RemoveAt(array, n) = SubSeq(array, 1, n - 1)
  BY <1>2, <1>3, ConcatEmptySeq DEF RemoveAt
<1>5. QED
  BY <1>1, <1>2, <1>4

(* The results of a load that decrypts are accounts of keys the wallet had.*)
LEMMA LoadedKeys ==
    ASSUME WalletTyped, NEW l \in loading
    PROVE  /\ Len(l.results) \in Nat
           /\ DOMAIN l.results = 1 .. Len(l.results)
           /\ Decrypted(l) => \A i \in 1 .. Len(l.results) : l.results[i].address \in Keys
           /\ Guarded(l)
<1>1. PICK keys \in Seq(Keys), p \in Passwords : l.from = StoreOf(keys, p)
  <2>1. l.from \in Stores
    BY DEF WalletTyped
  <2>2. QED
    BY <2>1 DEF Stores
<1>2. DOMAIN l.from = DOMAIN keys /\ DOMAIN keys = 1 .. Len(keys) /\ Len(keys) \in Nat
  BY <1>1 DEF StoreOf
<1>3. /\ l.password \in Passwords
      /\ l.results = [i \in 1 .. Len(keys) |-> DecryptKey(l.from[i], l.password)]
  BY <1>2 DEF WalletTyped
<1>4. DOMAIN l.results = 1 .. Len(l.results) /\ Len(l.results) \in Nat
  BY <1>2, <1>3
<1>5. \A i \in 1 .. Len(keys) :
         /\ l.from[i].address = keys[i]
         /\ l.from[i].ciphertext[3][1][3] = p
         /\ l.results[i] = IF l.password = p THEN [address |-> keys[i], privateKey |-> keys[i]]
                           ELSE Thrown("KeyDerivationError")
  <2> SUFFICES ASSUME NEW i \in 1 .. Len(keys)
               PROVE  /\ l.from[i].address = keys[i]
                      /\ l.from[i].ciphertext[3][1][3] = p
                      /\ l.results[i] = IF l.password = p
                                        THEN [address |-> keys[i], privateKey |-> keys[i]]
                                        ELSE Thrown("KeyDerivationError")
    OBVIOUS
  <2>1. l.results[i] = DecryptKey(l.from[i], l.password)
    BY <1>3
  <2>2. p # Absent
    BY PasswordsAssumption
  <2>3. i \in DOMAIN keys
    BY <1>1
  <2>4. Unlocks(StoreOf(keys, p)[i], keys[i], p)
    BY <2>2, <2>3, RoundTrip
  <2>5. QED
    BY <1>1, <2>1, <2>4 DEF Unlocks
<1>6. ASSUME Decrypted(l), NEW i \in 1 .. Len(keys)
      PROVE  l.results[i].address \in Keys
  <2>1. l.results[i] # Thrown("KeyDerivationError")
    BY <1>3, <1>6 DEF Decrypted, Fails, Thrown
  <2>2. keys[i] \in Keys
    BY <1>1
  <2>3. l.results[i] = [address |-> keys[i], privateKey |-> keys[i]]
    BY <1>5, <2>1
  <2>4. QED
    BY <2>2, <2>3
<1>7. QED
  BY <1>2, <1>3, <1>4, <1>5, <1>6 DEF Guarded

(* The steps that change the array or the map.                             *)
LEMMA AddStep ==
    ASSUME WalletInv, NEW k \in Keys, Add(k)
    PROVE  WalletInv'
<1>1. Now \in Wallets
  BY DEF WalletInv, WalletTyped, Wallets, Now
<1>2. accounts' = Added(Now, k).accounts /\ addressMap' = Added(Now, k).addressMap
  BY DEF Add, Become
<1>3. accounts' \in Seq(Keys) /\ addressMap' \in Maps
  <2>1. Added(Now, k) \in Wallets
    BY <1>1, AddedTyped
  <2>2. QED
    BY <1>2, <2>1 DEF Wallets
<1>4. ~ shifted => Paired(accounts', addressMap')
  BY <1>1, <1>2, AddedPaired DEF WalletInv, Now
<1>5. QED
  BY <1>3, <1>4 DEF Add, WalletInv, WalletTyped

LEMMA RemoveStep ==
    ASSUME WalletInv, NEW k \in Keys, RemoveAddress(k)
    PROVE  WalletInv'
<1>1. /\ Known(k) /\ addressMap' = Without(k)
      /\ accounts' = IF addressMap[k] <= Len(accounts) THEN RemoveAt(accounts, addressMap[k])
                     ELSE accounts
      /\ shifted' = (shifted \/ addressMap[k] # Len(accounts))
      /\ UNCHANGED <<stored, saving, loading, async>>
  BY DEF RemoveAddress
<1>2. accounts \in Seq(Keys) /\ addressMap \in Maps /\ shifted \in BOOLEAN
  BY DEF WalletInv, WalletTyped
<1>3. PICK D \in SUBSET Keys : addressMap \in [D -> Nat \ {0}]
  BY <1>2 DEF Maps
<1>4. k \in D /\ addressMap[k] \in Nat \ {0}
  BY <1>1, <1>3 DEF Known
<1>5. Without(k) \in [D \ {k} -> Nat \ {0}]
  BY <1>3 DEF Without
<1>6. accounts' \in Seq(Keys)
  BY <1>1, <1>2, <1>4, RemovedTyped
<1>7. WalletTyped'
  BY <1>1, <1>5, <1>6 DEF WalletInv, WalletTyped, Maps
<1>8. ASSUME ~ shifted'
      PROVE  Paired(accounts', addressMap')
  <2> DEFINE n == Len(accounts)
  <2>1. Paired(accounts, addressMap) /\ addressMap[k] = n
    BY <1>1, <1>2, <1>8 DEF WalletInv
  <2>2. accounts' = RemoveAt(accounts, n) /\ n \in Nat \ {0} /\ accounts # <<>>
    BY <1>1, <1>2, <1>4, <2>1
  <2>3. /\ DOMAIN accounts' = 1 .. n - 1
        /\ \A i \in 1 .. n - 1 : accounts'[i] = accounts[i]
    BY <1>2, <2>2, LastRemoved
  <2>4. /\ DOMAIN addressMap = {accounts[i] : i \in 1 .. n}
        /\ \A i \in 1 .. n : addressMap[accounts[i]] = i
    BY <1>2, <2>1 DEF Paired
  <2>5. accounts[n] = k
    BY <1>1, <2>1, <2>2, <2>4 DEF Known
  <2>6. \A i \in 1 .. n - 1 : accounts[i] # k
    BY <2>2, <2>4, <2>5
  <2>7. {accounts[i] : i \in 1 .. n} \ {k} = {accounts'[i] : i \in 1 .. n - 1}
    BY <2>2, <2>3, <2>5, <2>6
  <2>8. DOMAIN addressMap' = DOMAIN addressMap \ {k}
    BY <1>1 DEF Without
  <2>9. ASSUME NEW i \in 1 .. n - 1
        PROVE  addressMap'[accounts'[i]] = i
    <3>1. i \in 1 .. n /\ accounts'[i] = accounts[i]
      BY <2>2, <2>3
    <3>2. accounts[i] \in DOMAIN addressMap \ {k} /\ addressMap[accounts[i]] = i
      BY <2>4, <2>6, <3>1
    <3>3. QED
      BY <1>1, <3>1, <3>2 DEF Without
  <2>10. QED
    BY <2>3, <2>4, <2>7, <2>8, <2>9 DEF Paired
<1>9. QED
  BY <1>7, <1>8 DEF WalletInv

LEMMA LoadStep ==
    ASSUME WalletInv, NEW l \in loading, Decrypted(l), LoadDone(l)
    PROVE  WalletInv'
<1> DEFINE Sound == {w \in Wallets : ~ shifted => Paired(w.accounts, w.addressMap)}
<1>1. Now \in Sound
  BY DEF WalletInv, WalletTyped, Wallets, Now
<1>2. Len(l.results) \in Nat /\ \A i \in 1 .. Len(l.results) : l.results[i].address \in Keys
  BY LoadedKeys DEF WalletInv
<1>3. \A w \in Sound : \A i \in 1 .. Len(l.results) : Added(w, l.results[i].address) \in Sound
  BY <1>2, AddedTyped, AddedPaired
<1>4. AddedAll(Now, l.results) \in Sound
  <2> HIDE DEF Sound
  <2>1. QED
    BY <1>1, <1>2, <1>3, AddedAllKeeps
<1>5. /\ accounts' = AddedAll(Now, l.results).accounts
      /\ addressMap' = AddedAll(Now, l.results).addressMap
      /\ loading' = loading \ {l}
      /\ UNCHANGED <<stored, saving, async, shifted>>
  BY DEF LoadDone, Become
<1>7. accounts' \in Seq(Keys) /\ addressMap' \in Maps
  BY <1>4, <1>5 DEF Wallets
<1>8. ~ shifted' => Paired(accounts', addressMap')
  BY <1>4, <1>5
<1>9. QED
  BY <1>5, <1>7, <1>8 DEF WalletInv, WalletTyped

(* The other steps.                                                        *)
LEMMA OtherStep ==
    ASSUME WalletInv,
           \/ \E i \in 1 .. MaxAccounts : RemoveIndex(i)
           \/ Clear
           \/ \E p \in Passwords : SaveCalled(p) \/ LoadCalled(p)
           \/ \E s \in saving : SaveDone(s)
           \/ \E l \in loading : LoadFails(l)
    PROVE  WalletInv'
<1>1. ASSUME NEW i, RemoveIndex(i)
      PROVE  WalletInv'
  <2>1. /\ i \in 1 .. Len(accounts) /\ accounts' = RemoveAt(accounts, i)
        /\ shifted' = TRUE
        /\ UNCHANGED <<addressMap, stored, saving, loading>>
    BY <1>1 DEF RemoveIndex, WalletInv, WalletTyped
  <2>2. accounts' \in Seq(Keys)
    BY <2>1, RemovedTyped DEF WalletInv, WalletTyped
  <2>3. QED
    BY <2>1, <2>2 DEF WalletInv, WalletTyped
<1>2. CASE Clear
  <2>1. EmptyMap \in [{} -> Nat \ {0}]
    BY DEF EmptyMap
  <2>2. EmptyMap \in Maps
    BY <2>1 DEF Maps
  <2>3. Paired(<<>>, EmptyMap)
    BY DEF Paired, EmptyMap
  <2>4. <<>> \in Seq(Keys)
    BY EmptySeq
  <2>5. WalletTyped'
    BY <1>2, <2>2, <2>4 DEF Clear, WalletInv, WalletTyped
  <2>6. QED
    BY <1>2, <2>3, <2>5 DEF Clear, WalletInv
<1>3. ASSUME NEW p \in Passwords, SaveCalled(p)
      PROVE  WalletInv'
  <2>1. Encrypt(p) \in Stores
    BY DEF Encrypt, Stores, WalletInv, WalletTyped
  <2>2. QED
    BY <1>3, <2>1 DEF SaveCalled, WalletInv, WalletTyped
<1>4. ASSUME NEW p \in Passwords, LoadCalled(p)
      PROVE  WalletInv'
  <2>1. stored \in Stores
    BY <1>4 DEF LoadCalled, WalletInv, WalletTyped
  <2>2. QED
    BY <1>4, <2>1 DEF LoadCalled, WalletInv, WalletTyped
<1>5. ASSUME NEW s \in saving, SaveDone(s)
      PROVE  WalletInv'
  BY <1>5 DEF SaveDone, WalletInv, WalletTyped
<1>6. ASSUME NEW l \in loading, LoadFails(l)
      PROVE  WalletInv'
  BY <1>6 DEF LoadFails, WalletInv, WalletTyped
<1>7. QED
  BY <1>1, <1>2, <1>3, <1>4, <1>5, <1>6

(* The array and the map agree until an account is removed before others.  *)
LEMMA WalletIsSound == WalletSpec => []WalletInv
<1>1. ASSUME WalletInit
      PROVE  WalletInv
  <2>1. EmptyMap \in [{} -> Nat \ {0}]
    BY DEF EmptyMap
  <2>2. EmptyMap \in Maps
    BY <2>1 DEF Maps
  <2>3. Paired(<<>>, EmptyMap)
    BY DEF Paired, EmptyMap
  <2>4. <<>> \in Seq(Keys)
    BY EmptySeq
  <2>5. accounts \in Seq(Keys) /\ addressMap \in Maps /\ Paired(accounts, addressMap)
    BY <1>1, <2>2, <2>3, <2>4 DEF WalletInit
  <2>6. stored \in Stores \cup {Absent} /\ shifted \in BOOLEAN /\ saving = {} /\ loading = {}
    BY <1>1 DEF WalletInit
  <2>7. WalletTyped
    BY <2>5, <2>6 DEF WalletTyped
  <2>8. QED
    BY <2>5, <2>7 DEF WalletInv
<1>2. ASSUME WalletInv, WalletNext
      PROVE  WalletInv'
  <2>1. ASSUME NEW l \in loading, IF Decrypted(l) THEN LoadDone(l) ELSE LoadFails(l)
        PROVE  WalletInv'
    BY <1>2, <2>1, LoadStep, OtherStep
  <2>2. QED
    BY <1>2, <2>1, AddStep, RemoveStep, OtherStep DEF WalletNext
<1>3. WalletInv /\ UNCHANGED walletVars => WalletInv'
  BY DEF walletVars, WalletInv, WalletTyped
<1>4. QED
  BY <1>1, <1>2, <1>3, PTL DEF WalletSpec

(* Every known address leads to its own account, whatever was added,       *)
(* saved and loaded, in any number.                                        *)
THEOREM AddressesLeadToTheirAccounts == WalletSpec => []WalletAgrees
<1>1. ASSUME WalletInv
      PROVE  WalletAgrees
  <2>1. CASE ~ shifted
    <3>1. /\ DOMAIN addressMap = {accounts[i] : i \in DOMAIN accounts}
          /\ \A i \in DOMAIN accounts : addressMap[accounts[i]] = i
      BY <1>1, <2>1 DEF WalletInv, Paired, Now
    <3>2. DOMAIN accounts = 1 .. Len(accounts)
      BY <1>1 DEF WalletInv, WalletTyped
    <3>3. QED
      BY <3>1, <3>2 DEF WalletAgrees, Get, Known
  <2>2. QED
    BY <2>1 DEF WalletAgrees
<1>2. QED
  BY <1>1, WalletIsSound, PTL

(* A load yields the keys that were saved under its password, and none     *)
(* that were saved under another.                                          *)
THEOREM OnlyThePasswordUnlocks == WalletSpec => []PasswordGuards
<1>1. ASSUME WalletInv
      PROVE  PasswordGuards
  BY <1>1, LoadedKeys DEF WalletInv, PasswordGuards
<1>2. QED
  BY <1>1, WalletIsSound, PTL

---------------------------------------------------------------------------
(* Common *)

(* Why listeners are informed: every object has a table of listeners of    *)
(* its own, only objects that are made are listened to, and each of them   *)
(* has a hardfork.                                                         *)
CommonInv ==
    /\ emitter = [o \in Commons |-> o]
    /\ heard = [o \in Commons |-> heard[o]]
    /\ listening \subseteq MadeCommons /\ MadeCommons \subseteq Commons
    /\ \A o \in MadeCommons : "hardfork" \in DOMAIN commons[o]
    /\ ListenersInformed

LEMMA MakingKeepsCommonInv ==
    ASSUME CommonInv, NEW o \in Commons \ MadeCommons, NEW c, "hardfork" \in DOMAIN c,
           commons' = With(o, c), UNCHANGED <<listening, heard>>,
           emitter' = emitter \/ emitter' = [emitter EXCEPT ![o] = o]
    PROVE  CommonInv'
<1>1. /\ DOMAIN commons' = {o} \cup DOMAIN commons
      /\ commons'[o] = c
      /\ \A p \in DOMAIN commons \ {o} : commons'[p] = commons[p]
  BY DEF With, MadeCommons
<1>2. emitter' = [p \in Commons |-> p]
  BY DEF CommonInv
<1>3. ListenersInformed'
  BY <1>1 DEF CommonInv, ListenersInformed, MadeCommons
<1>4. QED
  BY <1>1, <1>2, <1>3 DEF CommonInv, MadeCommons

(* A call on an object reaches the listeners of that object and no other.  *)
LEMMA CallingKeepsCommonInv ==
    ASSUME CommonInv, NEW o \in MadeCommons,
           \/ Listen(o)
           \/ \E hf : SetHardfork(o, hf)
           \/ \E eips \in EipLists : SetEIPs(o, eips)
           \/ \E chain \in ChainNames : SetChain(o, chain)
    PROVE  CommonInv'
<1> USE DEF CommonInv, MadeCommons
<1>1. CASE Listen(o)
  BY <1>1 DEF Listen, ListenersInformed
<1>2. ASSUME NEW hf, SetHardfork(o, hf)
      PROVE  CommonInv'
  <2>1. /\ commons' = [commons EXCEPT ![o].hardfork = hf]
        /\ UNCHANGED <<emitter, listening>>
    BY <1>2 DEF SetHardfork
  <2>2. /\ DOMAIN commons' = DOMAIN commons
        /\ commons'[o].hardfork = hf
        /\ \A p \in DOMAIN commons \ {o} : commons'[p] = commons[p]
        /\ \A p \in DOMAIN commons : DOMAIN commons'[p] = DOMAIN commons[p]
    BY <2>1
  <2>3. CASE commons[o].hardfork = hf /\ UNCHANGED heard
    BY <2>1, <2>2, <2>3 DEF ListenersInformed
  <2>4. CASE Tell(o, hf)
    <3>1. \A p \in Commons : heard'[p] = IF p \in listening /\ p = o THEN hf ELSE heard[p]
      BY <2>4 DEF Tell
    <3>2. QED
      BY <2>1, <2>2, <2>4, <3>1 DEF ListenersInformed, Tell
  <2>5. QED
    BY <1>2, <2>3, <2>4 DEF SetHardfork
<1>3. ASSUME NEW eips \in EipLists, SetEIPs(o, eips)
      PROVE  CommonInv'
  <2>1. commons' = [commons EXCEPT ![o].eips = eips] /\ UNCHANGED <<emitter, listening, heard>>
    BY <1>3 DEF SetEIPs
  <2>2. /\ DOMAIN commons' = DOMAIN commons
        /\ \A p \in DOMAIN commons : /\ DOMAIN commons'[p] = DOMAIN commons[p]
                                     /\ commons'[p].hardfork = commons[p].hardfork
    BY <2>1
  <2>3. QED
    BY <2>1, <2>2 DEF ListenersInformed
<1>4. ASSUME NEW chain \in ChainNames, SetChain(o, chain)
      PROVE  CommonInv'
  <2>1. commons' = [commons EXCEPT ![o].forks = Chains[chain]] /\ UNCHANGED <<emitter, listening, heard>>
    BY <1>4 DEF SetChain
  <2>2. /\ DOMAIN commons' = DOMAIN commons
        /\ \A p \in DOMAIN commons : /\ DOMAIN commons'[p] = DOMAIN commons[p]
                                     /\ commons'[p].hardfork = commons[p].hardfork
    BY <2>1
  <2>3. QED
    BY <2>1, <2>2 DEF ListenersInformed
<1>5. QED
  BY <1>1, <1>2, <1>3, <1>4

(* A listener knows the hardfork of its object whatever happens to that    *)
(* object, to its copies and to the objects it is a copy of.               *)
THEOREM ListenersAreInformed == CommonSpec => []ListenersInformed
<1>1. CommonInit => CommonInv
  BY DEF CommonInit, CommonInv, ListenersInformed, MadeCommons
<1>2. ASSUME CommonInv, CommonNext
      PROVE  CommonInv'
  <2>1. ASSUME NEW o \in Commons, NEW chain \in ChainNames, NEW hf \in Hardforks,
               NEW eips \in EipLists, NewCommon(o, chain, hf, eips)
        PROVE  CommonInv'
    <3> DEFINE c == [[Bare(chain) EXCEPT !.hardfork = hf] EXCEPT !.eips = eips]
    <3>1. "hardfork" \in DOMAIN c
      BY DEF Bare
    <3>2. /\ o \in Commons \ MadeCommons /\ commons' = With(o, c)
          /\ UNCHANGED <<emitter, listening, heard>>
      BY <2>1 DEF NewCommon
    <3>3. QED
      BY <1>2, <3>1, <3>2, MakingKeepsCommonInv
  <2>2. ASSUME NEW o \in MadeCommons, NEW copy \in Commons \ {o}, Copy(o, copy)
        PROVE  CommonInv'
    <3>1. "hardfork" \in DOMAIN commons[o]
      BY <1>2 DEF CommonInv
    <3>2. QED
      BY <1>2, <2>2, <3>1, MakingKeepsCommonInv DEF Copy
  <2>3. ASSUME NEW o \in MadeCommons, NEW block \in BlockNumbers, SetHardforkByBlockNumber(o, block)
        PROVE  \E hf : SetHardfork(o, hf)
    BY <2>3 DEF SetHardforkByBlockNumber
  <2>4. QED
    BY <1>2, <2>1, <2>2, <2>3, CallingKeepsCommonInv DEF CommonNext
<1>3. CommonInv /\ UNCHANGED commonVars => CommonInv'
  BY DEF commonVars, CommonInv, ListenersInformed, MadeCommons
<1>4. CommonInv => ListenersInformed
  BY DEF CommonInv
<1>5. QED
  BY <1>1, <1>2, <1>3, <1>4, PTL DEF CommonSpec
---------------------------------------------------------------------------
(* Chains *)

(* A fork has begun by the one thing it is known by.                       *)
Begun(fork, block, td, time) ==
    IF fork.block # Unset THEN fork.block <= block
    ELSE IF fork.timestamp # Unset THEN time # Unset /\ fork.timestamp <= time
    ELSE fork.ttd # Unset /\ td # Unset /\ fork.ttd <= td

(* No fork up to it begins at a later block.                               *)
InTime(forks, i, block) ==
    \A j \in DOMAIN forks : (j <= i /\ forks[j].block # Unset) => forks[j].block <= block

Reached(forks, block, td, time) ==
    {i \in DOMAIN forks : Begun(forks[i], block, td, time) /\ InTime(forks, i, block)}

(* The total difficulty says that the merge has been, or has not, and a    *)
(* block says otherwise; a time is past one that blocks do not admit.      *)
TdContradicts(forks, block, td, time) ==
    td # Unset /\ \E m \in DOMAIN forks :
        /\ forks[m].ttd # Unset
        /\ \/ forks[m].ttd <= td /\ ~ InTime(forks, m, block)
           \/ forks[m].ttd > td /\ \E i \in Reached(forks, block, td, time) : i >= m
TimeContradicts(forks, block, time) ==
    time # Unset /\ \E i \in DOMAIN forks :
        forks[i].timestamp # Unset /\ forks[i].timestamp < time /\ ~ InTime(forks, i, block)

LEMMA LastIsGreatest ==
    ASSUME NEW n \in Nat, NEW S \in SUBSET (1 .. n), S # {}
    PROVE  LastOf(S) \in S /\ \A j \in S : LastOf(S) >= j
<1> DEFINE Bounded(m) == \A T \in SUBSET (1 .. m) : T # {} => \E i \in T : \A j \in T : i >= j
           Good == {m \in Nat : Bounded(m)}
<1>1. 0 \in Good
  <2>1. 1 .. 0 = {}
    OBVIOUS
  <2>2. Bounded(0)
    BY <2>1
  <2> HIDE DEF Bounded
  <2>3. QED
    BY <2>2
<1>2. ASSUME NEW m \in Nat, m \in Good
      PROVE  m + 1 \in Good
  <2> SUFFICES ASSUME NEW T \in SUBSET (1 .. m + 1), T # {}
               PROVE  \E i \in T : \A j \in T : i >= j
    OBVIOUS
  <2>1. CASE m + 1 \in T
    BY <2>1
  <2>2. CASE m + 1 \notin T
    <3>1. T \in SUBSET (1 .. m)
      BY <2>2
    <3>2. QED
      BY <1>2, <3>1
  <2>3. QED
    BY <2>1, <2>2
<1>3. n \in Good
  <2> HIDE DEF Good
  <2>1. QED
    BY <1>1, <1>2, NatSetInduction
<1>4. \E i \in S : \A j \in S : i >= j
  BY <1>3
<1>5. QED
  BY <1>4 DEF LastOf

LEMMA LastIsThat ==
    ASSUME NEW n \in Nat, NEW S \in SUBSET (1 .. n), NEW i \in S, \A j \in S : i >= j
    PROVE  LastOf(S) = i
<1>1. LastOf(S) \in S /\ LastOf(S) >= i
  BY LastIsGreatest
<1>2. i >= LastOf(S)
  BY <1>1
<1>3. \A j \in S : j \in Nat
  OBVIOUS
<1>4. i \in Nat /\ LastOf(S) \in Nat
  BY <1>1, <1>3
<1>5. QED
  BY <1>1, <1>2, <1>4

(* The fork of a block is the last that was reached, for any forks in      *)
(* order and whatever is known of difficulty and time; what is known       *)
(* contradicts itself exactly where the code throws                        *)
(* (getHardforkByBlockNumber of common.ts).                                *)
THEOREM ForkIsTheLastReached ==
    ASSUME NEW T, NEW forks \in Seq(T), Scheduled(forks), Unset \notin Nat,
           NEW block \in Nat, NEW td \in Nat \cup {Unset}, NEW time \in Nat \cup {Unset}
    PROVE  HardforkByBlock(forks, block, td, time) =
              IF TdContradicts(forks, block, td, time) \/ TimeContradicts(forks, block, time)
              THEN Throws ELSE forks[LastOf(Reached(forks, block, td, time))].name
<1> DEFINE n        == Len(forks)
           B(i)     == forks[i].block
           D(i)     == forks[i].ttd
           S(i)     == forks[i].timestamp
           applied  == {i \in DOMAIN forks : B(i) # Unset \/ D(i) # Unset \/ S(i) # Unset}
           merges   == {i \in applied : D(i) # Unset}
           merge    == FirstOf(merges)
           after(i) == \/ B(i) # Unset /\ B(i) > block
                       \/ time # Unset /\ S(i) # Unset /\ S(i) > time
           begun    == {i \in applied : \A j \in applied : after(j) => i < j}
           dated    == {i \in begun : time # Unset \/ B(i) # Unset \/ D(i) # Unset}
           last     == LastOf(dated)
           byTtd    == B(last) = Unset /\ S(last) = Unset
           start    == IF byTtd /\ (td = Unset \/ D(last) > td)
                       THEN LastOf({i \in applied : i < last}) ELSE last
           wrongTd  == /\ ~ byTtd /\ merges # {} /\ td # Unset
                       /\ (start >= merge) # (D(merge) <= td)
           same(i)  == B(i) = B(start) /\ S(i) = S(start)
           following == {i \in applied : i >= start /\ \A k \in applied \cap start .. i : same(k)}
           found    == LastOf(following)
           timed    == time # Unset /\ time # 0
           tooEarly == timed /\ \E i \in applied : i < start /\ Ors(S(i), 0) > time
           tooLate  == timed /\ \E i \in applied : i > found /\ Ors(S(i), time) < time
           inTime(i) == \A j \in 1 .. n : (j <= i /\ B(j) # Unset) => B(j) <= block
           reached  == Reached(forks, block, td, time)
<1>1. n \in Nat /\ DOMAIN forks = 1 .. n /\ 1 \in 1 .. n /\ B(1) = 0
  BY DEF Scheduled
<1>2. \A i \in 1 .. n : /\ B(i) \in Nat \cup {Unset} /\ D(i) \in Nat \cup {Unset} /\ S(i) \in Nat \cup {Unset}
                        /\ S(i) # Unset => B(i) = Unset /\ D(i) = Unset
  BY <1>1 DEF Scheduled
<1>3. \A i, j \in 1 .. n : i < j =>
          /\ D(i) = Unset \/ D(j) = Unset
          /\ (B(i) # Unset /\ B(j) # Unset) => B(i) <= B(j)
          /\ S(i) # Unset => B(j) = Unset /\ D(j) = Unset /\ (S(j) # Unset => S(i) <= S(j))
  BY <1>1 DEF Scheduled
<1>4. HardforkByBlock(forks, block, td, time) =
         IF (\E i \in merges : i # merge) \/ begun = {} \/ wrongTd THEN Throws
         ELSE IF tooEarly THEN Throws
         ELSE IF tooLate THEN Throws
         ELSE forks[found].name
  BY DEF HardforkByBlock
<1>5. \A i \in 1 .. n : InTime(forks, i, block) <=> inTime(i)
  BY <1>1 DEF InTime
<1>6. reached = {i \in 1 .. n : /\ inTime(i)
                                /\ IF B(i) # Unset THEN B(i) <= block
                                   ELSE IF S(i) # Unset THEN time # Unset /\ S(i) <= time
                                   ELSE D(i) # Unset /\ td # Unset /\ D(i) <= td}
  BY <1>1, <1>5 DEF Reached, Begun
<1>7. TdContradicts(forks, block, td, time) <=>
          td # Unset /\ \E m \in 1 .. n : /\ D(m) # Unset
                                          /\ \/ D(m) <= td /\ ~ inTime(m)
                                             \/ D(m) > td /\ \E i \in reached : i >= m
  BY <1>1, <1>5 DEF TdContradicts
<1>8. TimeContradicts(forks, block, time) <=>
          time # Unset /\ \E i \in 1 .. n : S(i) # Unset /\ S(i) < time /\ ~ inTime(i)
  BY <1>1, <1>5 DEF TimeContradicts
<1>9. applied = {i \in 1 .. n : B(i) # Unset \/ D(i) # Unset \/ S(i) # Unset}
  BY <1>1
<1> HIDE DEF n, B, D, S, reached
<1>10. begun = {i \in applied : inTime(i) /\ ((S(i) # Unset /\ time # Unset) => S(i) <= time)}
  <2>1. ASSUME NEW i \in begun
        PROVE  inTime(i) /\ ((S(i) # Unset /\ time # Unset) => S(i) <= time)
    <3>1. \A j \in applied : after(j) => i < j
      OBVIOUS
    <3>2. i \in 1 .. n /\ i \in applied
      BY <1>9
    <3>3. ASSUME NEW j \in 1 .. n, j <= i, B(j) # Unset
          PROVE  B(j) <= block
      BY <1>1, <1>2, <1>9, <3>1, <3>2, <3>3
    <3>4. ASSUME S(i) # Unset, time # Unset
          PROVE  S(i) <= time
      BY <1>1, <1>2, <3>1, <3>2, <3>4
    <3>5. QED
      BY <3>3, <3>4
  <2>2. ASSUME NEW i \in applied, inTime(i), (S(i) # Unset /\ time # Unset) => S(i) <= time,
               NEW j \in applied, after(j)
        PROVE  i < j
    <3> SUFFICES ASSUME j <= i
                 PROVE  FALSE
      BY <1>1, <1>9
    <3>1. i \in 1 .. n /\ j \in 1 .. n
      BY <1>9
    <3>2. CASE B(j) # Unset /\ B(j) > block
      BY <1>2, <2>2, <3>1, <3>2
    <3>3. CASE time # Unset /\ S(j) # Unset /\ S(j) > time
      <4>1. S(i) # Unset
        <5>1. CASE j = i
          BY <3>3, <5>1
        <5>2. CASE j < i
          BY <1>3, <1>9, <3>1, <3>3, <5>2
        <5>3. QED
          BY <3>1, <5>1, <5>2
      <4>2. S(j) <= S(i)
        BY <1>2, <1>3, <3>1, <3>3, <4>1
      <4>3. QED
        BY <1>2, <2>2, <3>1, <3>3, <4>1, <4>2
    <3>4. QED
      BY <2>2, <3>2, <3>3
  <2>3. begun \subseteq applied
    OBVIOUS
  <2> HIDE DEF applied, inTime, after
  <2>4. QED
    BY <2>1, <2>2, <2>3
<1>11. dated = {i \in 1 .. n : /\ inTime(i)
                               /\ \/ B(i) # Unset \/ D(i) # Unset
                                  \/ S(i) # Unset /\ time # Unset /\ S(i) <= time}
  <2> DEFINE may(i) == (S(i) # Unset /\ time # Unset) => S(i) <= time
  <2>1. dated = {i \in applied : inTime(i) /\ may(i) /\ (time # Unset \/ B(i) # Unset \/ D(i) # Unset)}
    <3> HIDE DEF applied, inTime
    <3>1. QED
      BY <1>10
  <2> HIDE DEF dated, inTime
  <2>2. QED
    BY <1>2, <1>9, <2>1
<1>12. 1 \in dated /\ 1 \in reached /\ begun # {}
  <2>1. inTime(1)
    BY <1>1
  <2>2. B(1) # Unset /\ B(1) <= block
    BY <1>1
  <2>3. 1 \in dated /\ 1 \in reached
    <3> HIDE DEF dated, inTime
    <3>1. QED
      BY <1>1, <1>6, <1>11, <2>1, <2>2
  <2>4. dated \subseteq begun
    <3> HIDE DEF begun
    <3>1. QED
      OBVIOUS
  <2>5. QED
    BY <2>3, <2>4
<1> HIDE DEF after, begun, dated
<1>13. last \in dated /\ \A j \in dated : last >= j
  <2>1. dated \in SUBSET (1 .. n) /\ dated # {}
    BY <1>11, <1>12
  <2>2. QED
    BY <1>1, <2>1, LastIsGreatest
<1>14. /\ \A m \in 1 .. n : D(m) # Unset <=> m \in merges
       /\ \A m \in merges : m = merge /\ m \in 1 .. n
  <2>1. \A m \in 1 .. n : D(m) # Unset <=> m \in merges
    BY <1>9
  <2>2. merges \subseteq 1 .. n
    BY <1>9
  <2>3. ASSUME NEW m \in merges
        PROVE  m = merge
    <3>1. \A i \in merges : i = m
      BY <1>1, <1>3, <2>1, <2>2
    <3> HIDE DEF merges
    <3>2. \A i \in merges : m <= i
      BY <2>2, <3>1
    <3>3. merge \in merges
      BY <3>2 DEF FirstOf
    <3>4. QED
      BY <3>1, <3>3
  <2>4. QED
    BY <2>1, <2>2, <2>3
<1> HIDE DEF merges, merge, last
<1>15. /\ reached \subseteq dated /\ dated \subseteq 1 .. n
       /\ \A i \in dated : \/ i \in reached
                           \/ /\ B(i) = Unset /\ S(i) = Unset /\ D(i) # Unset
                              /\ td = Unset \/ ~ D(i) <= td
  <2> HIDE DEF inTime
  <2>1. reached \subseteq dated
    BY <1>2, <1>6, <1>11
  <2>2. dated \subseteq 1 .. n
    BY <1>11
  <2>3. ASSUME NEW i \in dated
        PROVE  \/ i \in reached
               \/ /\ B(i) = Unset /\ S(i) = Unset /\ D(i) # Unset
                  /\ td = Unset \/ ~ D(i) <= td
    <3>1. i \in 1 .. n /\ inTime(i)
      BY <1>11
    <3>2. CASE B(i) # Unset
      <4>1. B(i) <= block
        BY <1>1, <3>1, <3>2 DEF inTime
      <4>2. QED
        BY <1>6, <3>1, <3>2, <4>1
    <3>3. CASE B(i) = Unset
      BY <1>2, <1>6, <1>11, <3>1, <3>3
    <3>4. QED
      BY <3>2, <3>3
  <2>4. QED
    BY <2>1, <2>2, <2>3
<1>16. \A i \in 1 .. n : \A j \in 1 .. n : (inTime(i) /\ j <= i) => inTime(j)
  BY <1>1
<1>17. /\ start \in reached /\ \A j \in reached : start >= j
       /\ wrongTd <=> TdContradicts(forks, block, td, time)
  <2>1. CASE byTtd
    <3>1. last \in 1 .. n /\ inTime(last) /\ D(last) # Unset
      <4> HIDE DEF inTime
      <4>1. QED
        BY <1>11, <1>13, <2>1
    <3>2. \A m \in 1 .. n : D(m) # Unset => m = last
      BY <1>14, <3>1
    <3>3. last \in reached <=> td # Unset /\ D(last) <= td
      <4> HIDE DEF inTime
      <4>1. QED
        BY <1>6, <2>1, <3>1
    <3>4. \A i \in reached : i <= last
      BY <1>13, <1>15, <3>1
    <3>5. ~ TdContradicts(forks, block, td, time)
      <4> SUFFICES ASSUME td # Unset, NEW m \in 1 .. n, D(m) # Unset,
                          \/ D(m) <= td /\ ~ inTime(m)
                          \/ D(m) > td /\ \E i \in reached : i >= m
                   PROVE  FALSE
        BY <1>7
      <4>1. m = last
        BY <3>2
      <4> HIDE DEF inTime
      <4>2. D(last) > td /\ \E i \in reached : i >= last
        BY <3>1, <4>1
      <4>3. PICK i \in reached : i >= last
        BY <4>2
      <4>4. i \in 1 .. n
        BY <1>15
      <4>5. i = last
        BY <1>1, <3>1, <3>4, <4>3, <4>4
      <4>6. QED
        BY <1>2, <3>1, <3>3, <4>2, <4>5
    <3>6. ~ wrongTd
      BY <2>1
    <3>7. CASE td # Unset /\ D(last) <= td
      <4>1. ~ (D(last) > td)
        BY <1>2, <3>1, <3>7
      <4>2. start = last
        BY <3>7, <4>1
      <4> HIDE DEF start, wrongTd
      <4>3. QED
        BY <1>1, <1>15, <3>1, <3>3, <3>4, <3>5, <3>6, <3>7, <4>2
    <3>8. CASE td = Unset \/ ~ D(last) <= td
      <4>1. td = Unset \/ D(last) > td
        BY <1>2, <3>1, <3>8
      <4> DEFINE before == {i \in applied : i < last}
      <4>2. start = LastOf(before)
        BY <2>1, <4>1
      <4>3. before = reached
        <5>1. ASSUME NEW i \in before
              PROVE  i \in reached
          <6>1. i \in 1 .. n /\ i < last /\ (B(i) # Unset \/ D(i) # Unset \/ S(i) # Unset)
            BY <1>9
          <6>2. S(i) = Unset
            BY <1>3, <3>1, <6>1
          <6>3. D(i) = Unset
            BY <1>3, <3>1, <6>1
          <6>4. inTime(i)
            BY <1>1, <1>16, <3>1, <6>1
          <6>5. B(i) <= block
            BY <6>1, <6>2, <6>3, <6>4
          <6> HIDE DEF inTime
          <6>6. QED
            BY <1>6, <6>1, <6>2, <6>3, <6>4, <6>5
        <5>2. ASSUME NEW i \in reached
              PROVE  i \in before
          <6>1. i \in 1 .. n /\ i # last
            BY <1>15, <3>3, <3>8
          <6>2. i \in applied
            <7> HIDE DEF inTime
            <7>1. QED
              BY <1>6, <1>9, <6>1
          <6>3. QED
            BY <1>1, <3>1, <3>4, <6>1, <6>2
        <5> HIDE DEF before
        <5>3. QED
          BY <5>1, <5>2
      <4>4. reached \in SUBSET (1 .. n) /\ reached # {}
        BY <1>12, <1>15
      <4> HIDE DEF start, wrongTd, before
      <4>5. start \in reached /\ \A j \in reached : start >= j
        BY <1>1, <4>2, <4>3, <4>4, LastIsGreatest
      <4>6. QED
        BY <3>5, <3>6, <4>5
    <3>9. QED
      BY <3>7, <3>8
  <2>2. CASE ~ byTtd
    <3>1. start = last
      BY <2>2
    <3>2. last \in reached /\ last \in 1 .. n /\ \A j \in reached : last >= j
      BY <1>13, <1>15, <2>2
    <3>3. wrongTd <=> /\ td # Unset /\ merges # {}
                      /\ (last >= merge) # (D(merge) <= td)
      BY <2>2, <3>1
    <3> HIDE DEF start, wrongTd
    <3>4. ASSUME td # Unset, NEW m \in 1 .. n, D(m) # Unset
          PROVE  wrongTd <=> \/ D(m) <= td /\ ~ inTime(m)
                             \/ D(m) > td /\ \E i \in reached : i >= m
      <4>1. m = merge /\ merges # {}
        BY <1>14, <3>4
      <4>2. inTime(m) <=> last >= m
        <5>1. CASE inTime(m)
          <6>1. m \in dated
            <7> HIDE DEF inTime
            <7>1. QED
              BY <1>11, <3>4, <5>1
          <6>2. QED
            BY <1>13, <5>1, <6>1
        <5>2. CASE last >= m
          <6>1. inTime(last)
            <7> HIDE DEF inTime
            <7>1. QED
              BY <1>6, <3>2
          <6> HIDE DEF inTime
          <6>2. QED
            BY <1>1, <1>16, <3>2, <5>2, <6>1
        <5> HIDE DEF inTime
        <5>3. QED
          BY <5>1, <5>2
      <4>3. (\E i \in reached : i >= m) <=> last >= m
        BY <1>1, <1>15, <3>2
      <4>4. D(m) > td <=> ~ (D(m) <= td)
        BY <1>2, <3>4
      <4> HIDE DEF inTime
      <4>5. QED
        BY <3>3, <3>4, <4>1, <4>2, <4>3, <4>4
    <3>5. wrongTd <=> TdContradicts(forks, block, td, time)
      <4>1. ASSUME wrongTd
            PROVE  TdContradicts(forks, block, td, time)
        <5>1. td # Unset /\ merges # {}
          BY <3>3, <4>1
        <5>2. merge \in 1 .. n /\ D(merge) # Unset
          BY <1>14, <5>1
        <5> HIDE DEF inTime
        <5>3. QED
          BY <1>7, <3>4, <4>1, <5>1, <5>2
      <4>2. ASSUME TdContradicts(forks, block, td, time)
            PROVE  wrongTd
        <5> HIDE DEF inTime
        <5>1. QED
          BY <1>7, <3>4, <4>2
      <4>3. QED
        BY <4>1, <4>2
    <3>6. QED
      BY <3>1, <3>2, <3>5
  <2>3. QED
    BY <2>1, <2>2
<1> HIDE DEF start, wrongTd
<1>18. LastOf(reached) = start /\ start \in 1 .. n /\ start \in applied /\ inTime(start)
  <2> HIDE DEF inTime
  <2>1. reached \in SUBSET (1 .. n)
    BY <1>15
  <2>2. LastOf(reached) = start
    BY <1>1, <1>17, <2>1, LastIsThat
  <2>3. QED
    BY <1>6, <1>9, <1>17, <2>1, <2>2
<1>19. found = start
  <2>1. start \in following
    BY <1>18
  <2>2. ASSUME NEW i \in following
        PROVE  i = start
    <3>1. i \in 1 .. n /\ i >= start /\ B(i) = B(start) /\ S(i) = S(start) /\ i \in applied
      BY <1>9, <1>18
    <3> SUFFICES ASSUME i > start
                 PROVE  FALSE
      BY <1>18, <3>1
    <3>2. i \notin reached
      BY <1>17, <1>18, <3>1
    <3>3. CASE B(start) # Unset
      <4>1. B(start) <= block
        BY <1>18, <3>3
      <4>2. ASSUME NEW j \in 1 .. n, j <= i, B(j) # Unset
            PROVE  B(j) <= block
        <5>1. B(j) <= B(i)
          BY <1>2, <1>3, <3>1, <3>3, <4>2
        <5>2. B(i) <= block /\ B(i) \in Nat /\ B(j) \in Nat
          BY <1>2, <1>18, <3>1, <3>3, <4>1, <4>2
        <5>3. QED
          BY <5>1, <5>2
      <4>3. QED
        BY <1>6, <3>1, <3>2, <3>3, <4>1, <4>2
    <3>4. CASE S(start) # Unset
      <4>1. time # Unset /\ S(start) <= time /\ B(start) = Unset
        <5> HIDE DEF inTime
        <5>1. QED
          BY <1>2, <1>6, <1>17, <1>18, <3>4
      <4>2. ASSUME NEW j \in 1 .. n, j <= i, B(j) # Unset
            PROVE  B(j) <= block
        <5>1. j <= start
          BY <1>3, <1>18, <3>4, <4>2
        <5>2. QED
          BY <1>18, <4>2, <5>1
      <4>3. QED
        BY <1>6, <3>1, <3>2, <3>4, <4>1, <4>2
    <3>5. CASE B(start) = Unset /\ S(start) = Unset
      <4>1. D(start) # Unset /\ D(i) # Unset
        BY <1>9, <1>18, <3>1, <3>5
      <4>2. QED
        BY <1>3, <1>18, <3>1, <4>1
    <3>6. QED
      BY <3>3, <3>4, <3>5
  <2>3. following \subseteq 1 .. n
    BY <1>9
  <2> HIDE DEF following
  <2>4. \A i \in following : start >= i
    BY <1>18, <2>2
  <2>5. QED
    BY <1>1, <2>1, <2>3, <2>4, LastIsThat
<1> HIDE DEF found
<1>20. ~ tooEarly
  <2> SUFFICES ASSUME timed, NEW i \in 1 .. n, i < start, Ors(S(i), 0) > time
               PROVE  FALSE
    BY <1>9
  <2>1. S(i) # Unset /\ S(i) > time
    BY <1>2 DEF Ors
  <2>2. B(start) = Unset /\ D(start) = Unset /\ (S(start) # Unset => S(i) <= S(start))
    BY <1>3, <1>18, <2>1
  <2>3. S(start) # Unset /\ S(start) <= time
    <3> HIDE DEF inTime
    <3>1. QED
      BY <1>6, <1>17, <1>18, <2>2
  <2>4. QED
    BY <1>2, <1>18, <2>1, <2>2, <2>3
<1>21. tooLate <=> TimeContradicts(forks, block, time)
  <2>1. ASSUME tooLate
        PROVE  TimeContradicts(forks, block, time)
    <3>1. PICK i \in applied : i > start /\ Ors(S(i), time) < time
      BY <1>19, <2>1
    <3>2. i \in 1 .. n /\ time \in Nat
      BY <1>9, <2>1
    <3>3. S(i) # Unset /\ S(i) < time /\ B(i) = Unset
      BY <1>2, <3>1, <3>2 DEF Ors
    <3>4. i \notin reached
      BY <1>1, <1>17, <1>18, <3>1, <3>2
    <3> HIDE DEF inTime
    <3>5. ~ inTime(i)
      BY <1>2, <1>6, <3>2, <3>3, <3>4
    <3>6. QED
      BY <1>8, <2>1, <3>2, <3>3, <3>5
  <2>2. ASSUME TimeContradicts(forks, block, time)
        PROVE  tooLate
    <3>1. time # Unset /\ time \in Nat
      BY <1>8, <2>2
    <3>2. PICK i \in 1 .. n : S(i) # Unset /\ S(i) < time /\ ~ inTime(i)
      <4> HIDE DEF inTime
      <4>1. QED
        BY <1>8, <2>2
    <3>3. timed /\ i \in applied /\ Ors(S(i), time) < time
      BY <1>2, <1>9, <3>1, <3>2 DEF Ors
    <3>4. i > start
      <4> HIDE DEF inTime
      <4>1. QED
        BY <1>1, <1>16, <1>18, <3>2
    <3>5. QED
      BY <1>19, <3>3, <3>4
  <2>3. QED
    BY <2>1, <2>2
<1>22. ~ \E i \in merges : i # merge
  BY <1>14
<1> HIDE DEF tooEarly, tooLate, applied, inTime
<1>23. LastOf(Reached(forks, block, td, time)) = found
  BY <1>18, <1>19 DEF reached
<1>24. begun # {} /\ (wrongTd <=> TdContradicts(forks, block, td, time))
  BY <1>12, <1>17
<1>25. QED
  BY <1>4, <1>20, <1>21, <1>22, <1>23, <1>24

ReachedBy(forks, block) == Reached(forks, block, Unset, Unset)

LEMMA ForkByNumber ==
    ASSUME NEW T, NEW forks \in Seq(T), Scheduled(forks), Unset \notin Nat, NEW block \in Nat
    PROVE  LET at == LastOf(ReachedBy(forks, block)) IN
           /\ HardforkByBlock(forks, block, Unset, Unset) = forks[at].name
           /\ at \in DOMAIN forks /\ InTime(forks, at, block) /\ at \in ReachedBy(forks, block)
           /\ \A i \in DOMAIN forks : i \in ReachedBy(forks, block) => i <= at
<1> DEFINE reached == ReachedBy(forks, block)
           at == LastOf(reached)
<1>1. DOMAIN forks = 1 .. Len(forks) /\ Len(forks) \in Nat /\ 1 \in DOMAIN forks /\ forks[1].block = 0
  BY DEF Scheduled
<1>2. HardforkByBlock(forks, block, Unset, Unset) = forks[at].name
  BY ForkIsTheLastReached DEF TdContradicts, TimeContradicts, ReachedBy
<1>3. reached \subseteq DOMAIN forks /\ \A i \in reached : InTime(forks, i, block)
  BY DEF ReachedBy, Reached
<1>4. 1 \in reached
  BY <1>1 DEF ReachedBy, Reached, Begun, InTime
<1> HIDE DEF reached
<1>5. at \in reached /\ \A i \in reached : at >= i
  BY <1>1, <1>3, <1>4, LastIsGreatest
<1> HIDE DEF at
<1>6. \A i \in reached : i <= at
  BY <1>1, <1>3, <1>5
<1>7. QED
  BY <1>2, <1>3, <1>5, <1>6 DEF at, reached

(* By its number alone every block has a fork, and none has an earlier one *)
(* than a block before it.                                                 *)
THEOREM ForksNeverGoBack ==
    ASSUME NEW T, NEW forks \in Seq(T), Scheduled(forks), Unset \notin Nat,
           NEW block \in Nat, NEW later \in Nat, block <= later
    PROVE  \E i, j \in DOMAIN forks :
              /\ i <= j
              /\ HardforkByBlock(forks, block, Unset, Unset) = forks[i].name
              /\ HardforkByBlock(forks, later, Unset, Unset) = forks[j].name
<1> DEFINE i == LastOf(ReachedBy(forks, block))
           j == LastOf(ReachedBy(forks, later))
<1>1. /\ HardforkByBlock(forks, block, Unset, Unset) = forks[i].name
      /\ i \in DOMAIN forks /\ InTime(forks, i, block) /\ i \in ReachedBy(forks, block)
  BY ForkByNumber
<1>2. /\ HardforkByBlock(forks, later, Unset, Unset) = forks[j].name
      /\ j \in DOMAIN forks
      /\ \A k \in DOMAIN forks : k \in ReachedBy(forks, later) => k <= j
  BY ForkByNumber
<1>3. i \in ReachedBy(forks, later)
  <2>1. \A k \in DOMAIN forks : forks[k].block \in Nat \cup {Unset}
    BY DEF Scheduled
  <2>2. i \in ReachedBy(forks, block)
    BY <1>1
  <2> HIDE DEF i
  <2>3. Begun(forks[i], block, Unset, Unset)
    BY <2>2 DEF ReachedBy, Reached
  <2>4. Begun(forks[i], later, Unset, Unset)
    BY <1>1, <2>1, <2>3 DEF Begun
  <2>5. InTime(forks, i, later)
    BY <1>1, <2>1 DEF InTime
  <2>6. QED
    BY <1>1, <2>4, <2>5 DEF ReachedBy, Reached
<1> HIDE DEF i, j
<1>4. QED
  BY <1>1, <1>2, <1>3

ToldApart(forks) == \A i, j \in DOMAIN forks : forks[i].name = forks[j].name => i = j

LEMMA PositionIs ==
    ASSUME NEW T, NEW forks \in Seq(T), ToldApart(forks), NEW i \in DOMAIN forks
    PROVE  Position(forks, forks[i].name) = i
<1> DEFINE same == {k \in DOMAIN forks : forks[k].name = forks[i].name}
<1>1. DOMAIN forks = 1 .. Len(forks) /\ Len(forks) \in Nat
  OBVIOUS
<1>2. i \in same /\ same \in SUBSET (1 .. Len(forks)) /\ \A k \in same : k = i
  BY <1>1 DEF ToldApart
<1> HIDE DEF same
<1>3. \A k \in same : i >= k
  BY <1>1, <1>2
<1>4. LastOf(same) = i
  BY <1>1, <1>2, <1>3, LastIsThat
<1>5. QED
  BY <1>2, <1>4 DEF Position, same

(* From its block on, a fork is reached.                                   *)
LEMMA ReachedFrom ==
    ASSUME NEW T, NEW forks \in Seq(T), Scheduled(forks), Unset \notin Nat,
           NEW at \in DOMAIN forks, forks[at].block # Unset,
           NEW block \in Nat, block >= forks[at].block
    PROVE  at \in ReachedBy(forks, block)
<1>1. forks[at].block \in Nat /\ \A k \in DOMAIN forks : forks[k].block \in Nat \cup {Unset}
  BY DEF Scheduled
<1>2. Begun(forks[at], block, Unset, Unset)
  BY <1>1 DEF Begun
<1>3. InTime(forks, at, block)
  <2> SUFFICES ASSUME NEW j \in DOMAIN forks, j <= at, forks[j].block # Unset
               PROVE  forks[j].block <= block
    BY DEF InTime
  <2>1. forks[j].block <= forks[at].block /\ forks[j].block \in Nat
    <3>1. CASE j = at
      BY <1>1, <3>1
    <3>2. CASE j # at
      <4>1. j < at
        BY <3>2
      <4>2. QED
        BY <1>1, <4>1 DEF Scheduled
    <3>3. QED
      BY <3>1, <3>2
  <2>2. QED
    BY <1>1, <2>1
<1>4. QED
  BY <1>2, <1>3 DEF ReachedBy, Reached

(* Whether a fork is active on a block, asked of the fork alone, and       *)
(* whether the fork of the block is that one or a later one, is the same   *)
(* question (hardforkIsActiveOnBlock and hardforkGteHardfork of            *)
(* common.ts); but for forks of the first block, which are never active by *)
(* the first.                                                              *)
THEOREM ActiveForksAgree ==
    ASSUME NEW T, NEW forks \in Seq(T), Scheduled(forks), Unset \notin Nat,
           ToldApart(forks), NEW at \in DOMAIN forks, forks[at].block \notin {Unset, 0}, NEW block \in Nat
    PROVE  HardforkIsActiveOnBlock(forks, forks[at].name, block)
              <=> HardforkGteHardfork(forks, HardforkByBlock(forks, block, Unset, Unset),
                                      forks[at].name)
<1> DEFINE under == LastOf(ReachedBy(forks, block))
<1>1. /\ HardforkByBlock(forks, block, Unset, Unset) = forks[under].name
      /\ under \in DOMAIN forks /\ InTime(forks, under, block)
      /\ \A i \in DOMAIN forks : i \in ReachedBy(forks, block) => i <= under
  BY ForkByNumber
<1> HIDE DEF under
<1>2. DOMAIN forks = 1 .. Len(forks) /\ Len(forks) \in Nat
  OBVIOUS
<1>3. \A i \in DOMAIN forks : Position(forks, forks[i].name) = i
  BY PositionIs
<1>4. at # 0
  BY <1>2
<1>5. HardforkIsActiveOnBlock(forks, forks[at].name, block) <=> block >= forks[at].block
  BY <1>3, <1>4 DEF HardforkIsActiveOnBlock, HardforkBlock
<1>6. HardforkGteHardfork(forks, forks[under].name, forks[at].name) <=> under >= at
  BY <1>1, <1>3, <1>4 DEF HardforkGteHardfork
<1>7. forks[at].block \in Nat /\ \A k \in DOMAIN forks : forks[k].block \in Nat \cup {Unset}
  BY DEF Scheduled
<1>8. ASSUME block >= forks[at].block
      PROVE  under >= at
  <2>1. at \in ReachedBy(forks, block)
    BY <1>8, ReachedFrom
  <2>2. at <= under
    BY <1>1, <2>1
  <2>3. QED
    BY <1>1, <1>2, <2>2
<1>9. ASSUME under >= at
      PROVE  block >= forks[at].block
  <2>1. at <= under
    BY <1>1, <1>2, <1>9
  <2>2. forks[at].block <= block
    BY <1>1, <1>7, <2>1 DEF InTime
  <2>3. QED
    BY <1>7, <2>2
<1>10. QED
  BY <1>1, <1>5, <1>6, <1>8, <1>9

LEMMA FirstIsLeast ==
    ASSUME NEW n \in Nat, NEW S \in SUBSET (1 .. n), S # {}
    PROVE  FirstOf(S) \in S /\ \A j \in S : FirstOf(S) <= j
<1> DEFINE Bounded(m) == \A T \in SUBSET (1 .. m) : T # {} => \E i \in T : \A j \in T : i <= j
           Good == {m \in Nat : Bounded(m)}
<1>1. 0 \in Good
  <2>1. 1 .. 0 = {}
    OBVIOUS
  <2>2. Bounded(0)
    BY <2>1
  <2> HIDE DEF Bounded
  <2>3. QED
    BY <2>2
<1>2. ASSUME NEW m \in Nat, m \in Good
      PROVE  m + 1 \in Good
  <2> SUFFICES ASSUME NEW T \in SUBSET (1 .. m + 1), T # {}
               PROVE  \E i \in T : \A j \in T : i <= j
    OBVIOUS
  <2> DEFINE U == T \cap 1 .. m
  <2>1. \A j \in T : j \in U \/ j = m + 1
    OBVIOUS
  <2>2. CASE U = {}
    <3>1. \A j \in T : j = m + 1
      BY <2>1, <2>2
    <3> HIDE DEF U
    <3>2. m + 1 <= m + 1
      OBVIOUS
    <3>3. PICK t \in T : t = m + 1
      BY <3>1
    <3>4. QED
      BY <3>1, <3>2, <3>3
  <2>3. CASE U # {}
    <3>1. PICK i \in U : \A j \in U : i <= j
      BY <1>2, <2>3
    <3>2. i \in T /\ i <= m + 1
      BY <3>1
    <3> HIDE DEF U
    <3>3. QED
      BY <2>1, <3>1, <3>2
  <2>4. QED
    BY <2>2, <2>3
<1>3. n \in Good
  <2> HIDE DEF Good
  <2>1. QED
    BY <1>1, <1>2, NatSetInduction
<1>4. \E i \in S : \A j \in S : i <= j
  BY <1>3
<1>5. QED
  BY <1>4 DEF FirstOf

(* nextHardforkBlock() of common.ts: at that block the fork is a later one *)
(* of just that block, and up to it blocks stay under a fork of the same   *)
(* block as the one that was asked about, or the merge, which peers do not *)
(* see.                                                                    *)
THEOREM NextForkIsNext ==
    ASSUME NEW T, NEW forks \in Seq(T), Scheduled(forks), Unset \notin Nat, ToldApart(forks),
           NEW at \in DOMAIN forks, forks[at].block # Unset
    PROVE  LET own  == forks[at].block
               next == NextHardforkBlock(forks, forks[at].name)
               under(block, i) == HardforkByBlock(forks, block, Unset, Unset) = forks[i].name
           IN
           /\ next # Unset => /\ next \in Nat /\ next > own
                              /\ \E i \in DOMAIN forks : under(next, i) /\ forks[i].block = next
           /\ \A block \in Nat : (block >= own /\ (next = Unset \/ block < next)) =>
                 \E i \in DOMAIN forks :
                    under(block, i) /\ (forks[i].block = own \/ forks[i].ttd # Unset)
<1> DEFINE own   == forks[at].block
           next  == NextHardforkBlock(forks, forks[at].name)
           later == {i \in DOMAIN forks : /\ forks[i].block # Unset /\ forks[i].ttd = Unset
                                          /\ forks[i].block > own}
           top(block) == LastOf(ReachedBy(forks, block))
<1>1. DOMAIN forks = 1 .. Len(forks) /\ Len(forks) \in Nat
  OBVIOUS
<1>2. own \in Nat /\ \A k \in DOMAIN forks : forks[k].block \in Nat \cup {Unset}
  BY DEF Scheduled
<1>3. next = IF later = {} THEN Unset ELSE forks[FirstOf(later)].block
  <2>1. Position(forks, forks[at].name) = at /\ at # 0
    BY <1>1, PositionIs
  <2>2. HardforkBlock(forks, forks[at].name) = own
    BY <2>1 DEF HardforkBlock
  <2>3. QED
    BY <2>2 DEF NextHardforkBlock
<1> HIDE DEF next
<1>4. ASSUME NEW block \in Nat, block >= own
      PROVE  /\ HardforkByBlock(forks, block, Unset, Unset) = forks[top(block)].name
             /\ top(block) \in DOMAIN forks
             /\ forks[top(block)].block \in Nat /\ forks[top(block)].block <= block
             /\ \A i \in DOMAIN forks : (forks[i].block # Unset /\ forks[i].block <= block) =>
                   forks[i].block <= forks[top(block)].block
  <2> DEFINE u == top(block)
  <2>1. /\ HardforkByBlock(forks, block, Unset, Unset) = forks[u].name
        /\ u \in DOMAIN forks /\ InTime(forks, u, block) /\ u \in ReachedBy(forks, block)
        /\ \A i \in DOMAIN forks : i \in ReachedBy(forks, block) => i <= u
    BY ForkByNumber
  <2> HIDE DEF u
  <2>2. Begun(forks[u], block, Unset, Unset)
    BY <2>1 DEF ReachedBy, Reached
  <2>3. forks[u].block \in Nat /\ forks[u].block <= block
    BY <1>2, <2>1, <2>2 DEF Begun
  <2>4. ASSUME NEW i \in DOMAIN forks, forks[i].block # Unset, forks[i].block <= block
        PROVE  forks[i].block <= forks[u].block
    <3>1. forks[i].block \in Nat /\ block >= forks[i].block
      BY <1>2, <2>4
    <3>2. i \in ReachedBy(forks, block)
      BY <2>4, <3>1, ReachedFrom
    <3>3. i <= u
      BY <2>1, <3>2
    <3>4. CASE i = u
      BY <2>3, <3>4
    <3>5. CASE i < u
      BY <2>1, <2>3, <2>4, <3>5 DEF Scheduled
    <3>6. QED
      BY <1>1, <2>1, <3>3, <3>4, <3>5
  <2>5. QED
    BY <2>1, <2>3, <2>4 DEF u
<1> HIDE DEF top
<1>5. ASSUME next # Unset
      PROVE  /\ next \in Nat /\ next > own
             /\ \E i \in DOMAIN forks : /\ HardforkByBlock(forks, next, Unset, Unset) = forks[i].name
                                        /\ forks[i].block = next
  <2> DEFINE f == FirstOf(later)
  <2>1. next = forks[f].block /\ f \in later
    <3>1. later # {} /\ later \in SUBSET (1 .. Len(forks))
      BY <1>1, <1>3, <1>5
    <3> HIDE DEF later
    <3>2. QED
      BY <1>1, <1>3, <3>1, FirstIsLeast
  <2> HIDE DEF f
  <2>2. next \in Nat /\ next > own /\ next >= own /\ next <= next
    BY <1>2, <2>1
  <2>3. forks[top(next)].block = next
    <3>1. forks[f].block <= forks[top(next)].block
      BY <1>4, <2>1, <2>2
    <3>2. forks[top(next)].block \in Nat /\ forks[top(next)].block <= next
      BY <1>4, <2>2
    <3>3. QED
      BY <2>1, <2>2, <3>1, <3>2
  <2>4. QED
    BY <1>4, <2>2, <2>3
<1>6. ASSUME NEW block \in Nat, block >= own, next = Unset \/ block < next
      PROVE  \E i \in DOMAIN forks :
                /\ HardforkByBlock(forks, block, Unset, Unset) = forks[i].name
                /\ forks[i].block = own \/ forks[i].ttd # Unset
  <2> DEFINE u == top(block)
  <2>1. /\ HardforkByBlock(forks, block, Unset, Unset) = forks[u].name
        /\ u \in DOMAIN forks /\ forks[u].block \in Nat /\ forks[u].block <= block
    BY <1>4, <1>6
  <2>2. own <= forks[u].block
    <3>1. own <= block
      BY <1>2, <1>6
    <3>2. QED
      BY <1>4, <1>6, <3>1
  <2> HIDE DEF u
  <2>3. u \notin later
    <3> SUFFICES ASSUME u \in later
                 PROVE  FALSE
      OBVIOUS
    <3> DEFINE f == FirstOf(later)
    <3>1. next = forks[f].block /\ f \in later /\ f <= u /\ block < next
      <4>1. later # {} /\ later \in SUBSET (1 .. Len(forks))
        BY <1>1
      <4>2. \A k \in later : forks[k].block # Unset
        OBVIOUS
      <4> HIDE DEF later
      <4>3. f \in later /\ f <= u /\ next = forks[f].block
        BY <1>1, <1>3, <4>1, FirstIsLeast
      <4>4. QED
        BY <1>6, <4>2, <4>3
    <3> HIDE DEF f
    <3>2. forks[f].block <= forks[u].block
      <4>1. CASE f = u
        BY <2>1, <4>1
      <4>2. CASE f < u
        BY <2>1, <3>1, <4>2 DEF Scheduled
      <4>3. QED
        BY <1>1, <2>1, <3>1, <4>1, <4>2
    <3>3. forks[f].block \in Nat
      BY <1>2, <3>1
    <3>4. QED
      BY <2>1, <3>1, <3>2, <3>3
  <2>4. forks[u].block = own \/ forks[u].ttd # Unset
    BY <1>2, <2>1, <2>2, <2>3
  <2>5. QED
    BY <2>1, <2>4
<1>7. QED
  BY <1>5, <1>6 DEF next

(* The chains that come with the library are in order.                     *)
THEOREM KnownChainsAreScheduled ==
    ASSUME Unset \notin Nat, NEW name \in DOMAIN Chains
    PROVE  Scheduled(Chains[name])
<1>1. Scheduled(mainnet)
  BY DEF Scheduled, mainnet, At, TheMerge
<1>2. Scheduled(goerli)
  BY DEF Scheduled, goerli, At, TheMerge
<1>3. Scheduled(sepolia)
  BY DEF Scheduled, sepolia, At, TheMerge
<1>4. Chains[name] \in {mainnet, goerli, sepolia}
  BY DEF Chains
<1>5. QED
  BY <1>1, <1>2, <1>3, <1>4

---------------------------------------------------------------------------
(* Keys and signed messages *)

(* A program asks about keys, or anything else.                            *)
AskElse  == question'.topic \notin {"message", "key", "store"}
KeysSpec == Unasked /\ [][AskMessage \/ AskKey \/ AskKeyStore \/ AskElse]_<<question, answer>>

Padded(bytes, core) == core \in Seq(Nat) /\ \E b1, b2 \in Nulls : bytes = (b1 \o core) \o b2

LEMMA NullsCommute ==
    ASSUME NEW a \in Nulls, NEW b \in Nulls
    PROVE  a \in Seq(Nat) /\ a \o b = b \o a
<1>1. <<>> \in Seq(Nat) /\ <<0>> \in Seq(Nat)
  OBVIOUS
<1>2. CASE a = b
  BY <1>1, <1>2 DEF Nulls
<1>3. CASE a = <<>>
  BY <1>1, <1>3, ConcatEmptySeq DEF Nulls
<1>4. CASE b = <<>>
  BY <1>1, <1>4, ConcatEmptySeq DEF Nulls
<1>5. QED
  BY <1>2, <1>3, <1>4 DEF Nulls

LEMMA BytesAssociate ==
    \A s, t, u \in Seq(Nat) : s \o t \in Seq(Nat) /\ (s \o t) \o u = s \o (t \o u)
BY ConcatAssociative, ConcatProperties

LEMMA FrontOf ==
    ASSUME NEW s \in Seq(Nat), s # <<>>, NEW x, s[Len(s)] = x
    PROVE  /\ SubSeq(s, 1, Len(s) - 1) \in Seq(Nat)
           /\ SubSeq(s, 1, Len(s) - 1) \o <<x>> = s
<1> DEFINE n == Len(s)
           m == n - 1
           front == SubSeq(s, 1, m)
           joined == front \o <<x>>
<1>1. n \in Nat \ {0} /\ m \in Nat /\ n = m + 1
  BY EmptySeq
<1>2. x \in Nat
  BY <1>1, ElementOfSeq
<1>3. \A i \in 1..m : s[i] \in Nat
  BY <1>1, ElementOfSeq
<1> HIDE DEF m
<1>4. front \in Seq(Nat) /\ Len(front) = m /\ \A i \in 1..m : front[i] = s[i]
  <2>1. SubSeq(s, 1, m) \in Seq(Nat)
    BY <1>1, <1>3, SubSeqProperties
  <2>2. Len(SubSeq(s, 1, m)) = m
    BY <1>1, <1>3, SubSeqProperties
  <2>3. \A i \in 1..m : SubSeq(s, 1, m)[i] = s[i]
    BY <1>1, <1>3, SubSeqProperties
  <2>4. QED
    BY <2>1, <2>2, <2>3
<1>5. <<x>> \in Seq(Nat) /\ Len(<<x>>) = 1 /\ <<x>>[1] = x
  BY <1>2
<1> HIDE DEF front
<1>6. /\ joined \in Seq(Nat)
      /\ Len(joined) = n
      /\ \A i \in 1..n : joined[i] = IF i <= m THEN front[i] ELSE <<x>>[i - m]
  BY <1>1, <1>4, <1>5, ConcatProperties
<1> HIDE DEF joined
<1>7. ASSUME NEW i \in 1..n
      PROVE  joined[i] = s[i]
  <2>1. CASE i <= m
    BY <1>1, <1>4, <1>6, <2>1
  <2>2. CASE i = n
    BY <1>1, <1>5, <1>6, <2>2
  <2>3. i <= m \/ i = n
    BY <1>1
  <2>4. QED
    BY <2>1, <2>2, <2>3
<1>8. joined = s
  BY <1>6, <1>7, SeqEqual
<1>9. QED
  BY <1>4, <1>8 DEF front, m, joined

(* What is trimmed is a null at most at each end.                          *)
LEMMA TrimmedIsPadded ==
    ASSUME NEW bytes \in Seq(Nat)
    PROVE  Padded(bytes, Ac!TrimNull(bytes))
<1> DEFINE start == IF bytes # <<>> /\ Head(bytes) = 0 THEN Tail(bytes) ELSE bytes
           core  == IF start # <<>> /\ start[Len(start)] = 0 THEN SubSeq(start, 1, Len(start) - 1) ELSE start
<1>1. PICK b1 \in Nulls : start \in Seq(Nat) /\ bytes = b1 \o start
  <2>1. CASE bytes # <<>> /\ Head(bytes) = 0
    <3>1. Tail(bytes) \in Seq(Nat) /\ bytes = <<0>> \o Tail(bytes)
      BY <2>1, HeadTailProperties
    <3>2. QED
      BY <2>1, <3>1 DEF Nulls
  <2>2. CASE ~ (bytes # <<>> /\ Head(bytes) = 0)
    BY <2>2, ConcatEmptySeq DEF Nulls
  <2>3. QED
    BY <2>1, <2>2
<1> HIDE DEF start
<1>2. PICK b2 \in Nulls : core \in Seq(Nat) /\ start = core \o b2
  <2>1. CASE start # <<>> /\ start[Len(start)] = 0
    BY <1>1, <2>1, FrontOf DEF Nulls
  <2>2. CASE ~ (start # <<>> /\ start[Len(start)] = 0)
    BY <1>1, <2>2, ConcatEmptySeq DEF Nulls
  <2>3. QED
    BY <2>1, <2>2
<1>3. Ac!TrimNull(bytes) = core
  BY DEF Ac!TrimNull, start
<1> HIDE DEF core
<1>4. bytes = (b1 \o core) \o b2
  <2> DEFINE Bytes == Seq(Nat)
             join(s, t) == s \o t
  <2>1. b1 \in Bytes /\ core \in Bytes /\ b2 \in Bytes
    BY <1>2, NullsCommute
  <2>2. \A s, t, u \in Bytes : join(join(s, t), u) = join(s, join(t, u))
    BY BytesAssociate
  <2>3. bytes = join(b1, join(core, b2))
    BY <1>1, <1>2
  <2> SUFFICES bytes = join(join(b1, core), b2)
    OBVIOUS
  <2> HIDE DEF Bytes, join
  <2>4. QED
    BY <2>1, <2>2, <2>3
<1>5. QED
  BY <1>2, <1>3, <1>4 DEF Padded

LEMMA PaddedAlike ==
    ASSUME NEW one, NEW other, NEW core, Padded(one, core), Padded(other, core)
    PROVE  AlikeButForNulls(one, other)
<1> DEFINE Bytes == Seq(Nat)
           join(s, t) == s \o t
<1>1. PICK a1, a2 \in Nulls : one = join(join(a1, core), a2)
  BY DEF Padded
<1>2. PICK b1, b2 \in Nulls : other = join(join(b1, core), b2)
  BY DEF Padded
<1>3. {core, a1, a2, b1, b2} \subseteq Bytes
  BY NullsCommute DEF Padded
<1>4. join(b1, a1) = join(a1, b1) /\ join(a2, b2) = join(b2, a2)
  BY NullsCommute
<1>5. \A s, t, u \in Bytes : join(s, t) \in Bytes /\ join(join(s, t), u) = join(s, join(t, u))
  BY BytesAssociate
<1>6. SUFFICES join(join(b1, one), b2) = join(join(a1, other), a2)
  <2>1. \E c1, c2, c3, c4 \in Nulls : (c1 \o one) \o c2 = (c3 \o other) \o c4
    <3> WITNESS b1 \in Nulls, b2 \in Nulls, a1 \in Nulls, a2 \in Nulls
    <3> QED
      BY <1>6
  <2>2. QED
    BY <2>1 DEF AlikeButForNulls
<1> HIDE DEF Bytes, join
<1>7. ASSUME NEW a \in Bytes, NEW b \in Bytes, NEW c \in Bytes, NEW d \in Bytes
      PROVE  join(join(a, join(join(b, core), c)), d) = join(join(join(a, b), core), join(c, d))
  <2>1. join(a, join(join(b, core), c)) = join(join(a, join(b, core)), c)
    BY <1>3, <1>5
  <2>2. join(a, join(b, core)) = join(join(a, b), core)
    BY <1>3, <1>5
  <2> DEFINE start == join(join(a, b), core)
  <2>3. start \in Bytes
    BY <1>3, <1>5
  <2> HIDE DEF start
  <2>4. join(join(start, c), d) = join(start, join(c, d))
    BY <1>5, <2>3
  <2>5. QED
    BY <2>1, <2>2, <2>4 DEF start
<1>8. join(join(b1, one), b2) = join(join(join(b1, a1), core), join(a2, b2))
  BY <1>1, <1>3, <1>7
<1>9. join(join(a1, other), a2) = join(join(join(a1, b1), core), join(b2, a2))
  BY <1>2, <1>3, <1>7
<1>10. QED
  BY <1>4, <1>8, <1>9

(* Two messages of one hash have the same bytes, and a message has its     *)
(* bytes but for nulls at its ends.                                        *)
LEMMA HashTellsBytes ==
    ASSUME NEW one \in Messages, NEW other \in Messages
    PROVE  /\ (Ac!HashMessage(one) = Ac!HashMessage(other)) <=> Ac!MessageBytes(one) = Ac!MessageBytes(other)
           /\ Ac!MessageBytes(one) = Ac!MessageBytes(other) => AlikeButForNulls(one.bytes, other.bytes)
<1>1. (Ac!HashMessage(one) = Ac!HashMessage(other)) <=> Ac!MessageBytes(one) = Ac!MessageBytes(other)
  BY DEF Ac!HashMessage
<1>2. ASSUME NEW m \in Messages
      PROVE  Padded(m.bytes, Ac!MessageBytes(m))
  <2>1. m.bytes \in Seq(Nat)
    BY MessagesAssumption
  <2>2. CASE m.form = "hex"
    <3>1. Ac!MessageBytes(m) = m.bytes
      BY <2>2 DEF Ac!MessageBytes
    <3>2. m.bytes = (<<>> \o m.bytes) \o <<>>
      BY <2>1, ConcatEmptySeq
    <3>3. \E b1, b2 \in Nulls : m.bytes = (b1 \o m.bytes) \o b2
      BY <3>2 DEF Nulls
    <3>4. QED
      BY <2>1, <3>1, <3>3 DEF Padded
  <2>3. CASE m.form # "hex"
    BY <2>1, <2>3, TrimmedIsPadded DEF Ac!MessageBytes
  <2>4. QED
    BY <2>2, <2>3
<1>3. QED
  BY <1>1, <1>2, PaddedAlike

LEMMA MessagesAnswered ==
    ASSUME AskMessage
    PROVE  MessagesRecovered'
<1>1. PICK message \in Messages, other \in Messages, key \in Signers, bit \in {0, 1} :
          LET signed == Ac!Sign(message, key, bit) IN
          Question([topic |-> "message", message |-> message, other |-> other, key |-> key],
                   [message |-> Ac!Recover(message, signed.signature, FALSE),
                    other   |-> Ac!Recover(other, signed.signature, FALSE),
                    hash    |-> Ac!Recover(signed.messageHash, signed.signature, TRUE),
                    object  |-> Ac!RecoverObject(signed, TRUE)])
  BY DEF AskMessage
<1> DEFINE signed == Ac!Sign(message, key, bit)
           h == Ac!HashMessage(message)
<1>2. signed.messageHash = h /\ signed.signature = <<key, h, bit + 27>>
  BY DEF Ac!Sign
<1>3. ASSUME NEW m, NEW prefixed \in BOOLEAN
      PROVE  LET hash == IF prefixed THEN m ELSE Ac!HashMessage(m)
             IN Ac!Recover(m, signed.signature, prefixed) = IF hash = h THEN key ELSE "another"
  BY <1>2 DEF Ac!Recover
<1>4. Ac!RecoverObject(signed, TRUE) = key
  BY <1>2, <1>3 DEF Ac!RecoverObject
<1>5. key # "another"
  BY SignersAssumption
<1> HIDE DEF signed
<1>6. /\ question' = [topic |-> "message", message |-> message, other |-> other, key |-> key]
      /\ answer'.message = Ac!Recover(message, signed.signature, FALSE)
      /\ answer'.other = Ac!Recover(other, signed.signature, FALSE)
      /\ answer'.hash = Ac!Recover(signed.messageHash, signed.signature, TRUE)
      /\ answer'.object = Ac!RecoverObject(signed, TRUE)
  BY <1>1 DEF Question, signed
<1>7. answer'.message = key /\ answer'.hash = key /\ answer'.object = key
  BY <1>2, <1>3, <1>4, <1>6
<1>8. answer'.other = key <=> Ac!HashMessage(other) = h
  BY <1>3, <1>5, <1>6
<1>9. answer'.other = key => AlikeButForNulls(message.bytes, other.bytes)
  BY <1>8, HashTellsBytes
<1>10. message.form = "hex" /\ other.form = "hex" => (answer'.other = key <=> message.bytes = other.bytes)
  BY <1>8, HashTellsBytes DEF Ac!MessageBytes
<1>11. message = other => answer'.other = key
  BY <1>8
<1>12. question'.message = message /\ question'.other = other /\ question'.key = key
  BY <1>6
<1>13. QED
  BY <1>7, <1>9, <1>10, <1>11, <1>12 DEF MessagesRecovered

LEMMA KeysAnswered ==
    ASSUME AskKey
    PROVE  KeysMeasured'
<1>1. PICK input \in KeyInputs, ignore \in BOOLEAN :
          /\ question' = [topic |-> "key", input |-> input, ignore |-> ignore]
          /\ answer' = Ac!PrivateKeyToAccount(input, ignore)
  BY DEF AskKey, Question
<1>2. question'.input = input /\ question'.ignore = ignore
  BY <1>1
<1>3. CASE Ac!ParsePrivateKey(input, ignore) # "ok"
  <2>1. answer' = [error |-> Ac!ParsePrivateKey(input, ignore)]
    BY <1>1, <1>3 DEF Ac!PrivateKeyToAccount, Ac!Thrown
  <2>2. QED
    BY <2>1 DEF KeysMeasured, Ac!Fails
<1>4. CASE Ac!ParsePrivateKey(input, ignore) = "ok"
  <2>1. answer' = [address |-> input.key, privateKey |-> input.key]
    BY <1>1, <1>4 DEF Ac!PrivateKeyToAccount
  <2>2. ignore \/ input.nibbles = 64
    BY <1>4 DEF Ac!ParsePrivateKey, Ac!KeyNibbles
  <2>3. QED
    BY <1>2, <2>1, <2>2 DEF KeysMeasured
<1>5. QED
  BY <1>3, <1>4

(* The MAC of a store whose derived key has more than 16 bytes names the   *)
(* password.                                                               *)
LEMMA MacsTellPasswords ==
    ASSUME NEW kdf, NEW params, params.dklen \in Nat, NEW password, NEW other, NEW cipher
    PROVE  LET one == Ac!DerivedKey(kdf, password, params)
               two == Ac!DerivedKey(kdf, other, params)
           IN /\ params.dklen > 16 => (Ac!Mac(one, cipher) = Ac!Mac(two, cipher) <=> password = other)
              /\ params.dklen = 16 => Ac!Mac(one, cipher) = Ac!Mac(two, cipher)
              /\ params.dklen >= 16 => (Ac!AesKey(one) = Ac!AesKey(two) <=> password = other)
<1> DEFINE one == Ac!DerivedKey(kdf, password, params)
           two == Ac!DerivedKey(kdf, other, params)
<1>1. one[4] = params /\ two[4] = params /\ (one = two <=> password = other)
  BY DEF Ac!DerivedKey
<1> HIDE DEF one, two
<1>2. params.dklen > 16 => \E end : Ac!Slice(one, 16, 32) = <<one, 16, end>> /\ Ac!Slice(two, 16, 32) = <<two, 16, end>>
  BY <1>1 DEF Ac!Slice
<1>3. params.dklen = 16 => Ac!Slice(one, 16, 32) = "empty" /\ Ac!Slice(two, 16, 32) = "empty"
  BY <1>1 DEF Ac!Slice
<1>4. params.dklen >= 16 => Ac!Slice(one, 0, 16) = <<one, 0, 16>> /\ Ac!Slice(two, 0, 16) = <<two, 0, 16>>
  BY <1>1 DEF Ac!Slice
<1>5. params.dklen > 16 => (Ac!Mac(one, cipher) = Ac!Mac(two, cipher) <=> password = other)
  BY <1>1, <1>2 DEF Ac!Mac
<1>6. params.dklen = 16 => Ac!Mac(one, cipher) = Ac!Mac(two, cipher)
  BY <1>3 DEF Ac!Mac
<1>7. params.dklen >= 16 => (Ac!AesKey(one) = Ac!AesKey(two) <=> password = other)
  BY <1>1, <1>4 DEF Ac!AesKey
<1>8. QED
  BY <1>5, <1>6, <1>7 DEF one, two

LEMMA AnyKeyIsAnAccount ==
    \A k : Ac!PrivateKeyToAccount([form |-> "hex", nibbles |-> 64, key |-> k], FALSE)
               = [address |-> k, privateKey |-> k]
BY DEF Ac!PrivateKeyToAccount, Ac!ParsePrivateKey, Ac!KeyNibbles

(* A store whose options are good opens, unless its MAC is another.        *)
LEMMA StoreOpens ==
    ASSUME NEW store, store.version = 3, store.kdf \in {"scrypt", "pbkdf2"}, NEW password,
           NEW derived, derived = Ac!DerivedKey(store.kdf, password, store.kdfparams),
           ~ Ac!AesRefuses(derived)
    PROVE  Ac!DecryptKey(store, password) =
               IF Ac!Mac(derived, store.ciphertext) # store.mac THEN [error |-> "KeyDerivationError"]
               ELSE LET k == IF store.ciphertext[3] = Ac!AesKey(derived)
                             THEN store.ciphertext[2] ELSE "another"
                    IN [address |-> k, privateKey |-> k]
<1> DEFINE k == IF store.ciphertext[3] = Ac!AesKey(derived) THEN store.ciphertext[2] ELSE "another"
           opened == Ac!PrivateKeyToAccount([form |-> "hex", nibbles |-> Ac!KeyNibbles, key |-> k], FALSE)
<1>1. opened = [address |-> k, privateKey |-> k]
  <2>1. Ac!KeyNibbles = 64
    BY DEF Ac!KeyNibbles
  <2> HIDE DEF k
  <2>2. QED
    BY <2>1, AnyKeyIsAnAccount
<1>2. Ac!DecryptKey(store, password) =
          IF Ac!Mac(derived, store.ciphertext) # store.mac THEN Ac!Thrown("KeyDerivationError")
          ELSE opened
  <2> HIDE DEF k
  <2>1. opened = Ac!PrivateKeyToAccount([form |-> "hex", nibbles |-> Ac!KeyNibbles, key |-> k], FALSE)
    OBVIOUS
  <2>2. Ac!DecryptKey(store, password) =
            IF Ac!Mac(derived, store.ciphertext) # store.mac THEN Ac!Thrown("KeyDerivationError")
            ELSE Ac!PrivateKeyToAccount([form |-> "hex", nibbles |-> Ac!KeyNibbles, key |-> k], FALSE)
    BY DEF Ac!DecryptKey, k
  <2>3. QED
    BY <2>1, <2>2
<1>3. Ac!Thrown("KeyDerivationError") = [error |-> "KeyDerivationError"]
  BY DEF Ac!Thrown
<1> HIDE DEF opened
<1>4. QED
  BY <1>1, <1>2, <1>3

LEMMA StoresAnswered ==
    ASSUME AskKeyStore
    PROVE  StoresGuarded'
<1> DEFINE given(key) == [form |-> "hex", nibbles |-> 64, key |-> key]
<1>1. PICK key \in Signers, options \in StoreOptions, password \in StoreWords, other \in StoreWords :
          LET store == Ac!EncryptKey(given(key), password, options, 1) IN
          Question([topic |-> "store", key |-> key, options |-> options,
                    password |-> password, other |-> other],
                   IF Ac!Fails(store) THEN store ELSE [opened |-> Ac!DecryptKey(store, other)])
  BY DEF AskKeyStore
<1> DEFINE store   == Ac!EncryptKey(given(key), password, options, 1)
           kdf     == Ac!Or(options.kdf, "scrypt")
           params  == [dklen |-> Ac!Or(options.dklen, 32), salt |-> 1,
                       c |-> IF kdf = "pbkdf2" THEN Ac!Or(options.c, 262144) ELSE 0]
           derived == Ac!DerivedKey(kdf, password, params)
           again   == Ac!DerivedKey(kdf, other, params)
           cipher  == <<"aes", key, Ac!AesKey(derived)>>
           error   == Ac!EncryptError(given(key), password, options)
<1>2. /\ question'.topic = "store" /\ question'.key = key /\ question'.options = options
      /\ question'.password = password /\ question'.other = other
      /\ answer' = IF Ac!Fails(store) THEN store ELSE [opened |-> Ac!DecryptKey(store, other)]
  BY <1>1 DEF Question
<1>3. /\ options.dklen \in Nat \cup {NotGiven} /\ options.c \in Nat \cup {NotGiven}
      /\ NotGiven \notin Nat /\ NotGiven # "scrypt" /\ NotGiven # "pbkdf2" /\ password # NotGiven
  BY StoreAssumption DEF StoreNames
<1>4. /\ params.dklen \in Nat
      /\ params.dklen = 16 <=> options.dklen = 16
      /\ params.dklen < 16 <=> options.dklen # NotGiven /\ options.dklen < 16
  <2>1. params.dklen = Ac!Or(options.dklen, 32)
    OBVIOUS
  <2> HIDE DEF params
  <2>2. params.dklen = IF options.dklen # NotGiven THEN options.dklen ELSE 32
    BY <2>1 DEF Ac!Or
  <2>3. QED
    BY <1>3, <2>2
<1>5. error = NotGiven <=> GoodOptions(options)
  <2>1. Ac!ParsePrivateKey(given(key), FALSE) = "ok"
    BY DEF Ac!ParsePrivateKey, Ac!KeyNibbles
  <2> DEFINE input == given(key)
  <2> HIDE DEF kdf, params, input
  <2>2. /\ kdf = IF options.kdf # NotGiven THEN options.kdf ELSE "scrypt"
        /\ Ac!Or(options.dklen, 32) = IF options.dklen # NotGiven THEN options.dklen ELSE 32
        /\ Ac!Or(options.c, 262144) = IF options.c # NotGiven THEN options.c ELSE 262144
    BY DEF Ac!Or, kdf
  <2>3. Ac!EncryptError(input, password, options) = NotGiven
            <=> /\ options.iv \in {NotGiven, 16}
                /\ ~ (kdf = "pbkdf2" /\ Ac!Or(options.c, 262144) < 1000)
                /\ kdf \in {"pbkdf2", "scrypt"}
                /\ ~ (Ac!Or(options.dklen, 32) < 16)
    <3>1. Ac!ParsePrivateKey(input, FALSE) = "ok"
      BY <2>1 DEF input
    <3>2. \A class \in {"IVLengthError", "PBKDF2IterationsError", "InvalidKdfError", "CipherKeyError"} :
              class # NotGiven
      BY StoreAssumption DEF StoreNames
    <3>3. kdf = Ac!Or(options.kdf, "scrypt")
      BY DEF kdf
    <3>4. QED
      BY <1>3, <3>1, <3>2, <3>3 DEF Ac!EncryptError
  <2>4. QED
    BY <1>3, <2>2, <2>3 DEF GoodOptions, input
<1>6. CASE ~ GoodOptions(options)
  <2>1. store = [error |-> error]
    BY <1>5, <1>6 DEF Ac!EncryptKey, Ac!Thrown
  <2>2. Ac!Fails(store)
    BY <2>1 DEF Ac!Fails
  <2>3. QED
    BY <1>2, <1>6, <2>2 DEF StoresGuarded
<1>7. CASE GoodOptions(options)
  <2>1. store = [version |-> 3, address |-> key, kdf |-> kdf, kdfparams |-> params,
                 ciphertext |-> cipher, mac |-> Ac!Mac(derived, cipher)]
    BY <1>5, <1>7 DEF Ac!EncryptKey
  <2>2. ~ Ac!Fails(store)
    BY <2>1 DEF Ac!Fails
  <2>3. kdf \in {"scrypt", "pbkdf2"} /\ params.dklen >= 16
    BY <1>3, <1>4, <1>7 DEF GoodOptions, Ac!Or
  <2>4. /\ params.dklen > 16 => (Ac!Mac(derived, cipher) = Ac!Mac(again, cipher) <=> password = other)
        /\ params.dklen = 16 => Ac!Mac(derived, cipher) = Ac!Mac(again, cipher)
        /\ Ac!AesKey(derived) = Ac!AesKey(again) <=> password = other
    BY <1>4, <2>3, MacsTellPasswords
  <2>5. ~ Ac!AesRefuses(again)
    BY <1>4, <2>3 DEF Ac!AesRefuses, Ac!DerivedKey
  <2> DEFINE opened == Ac!DecryptKey(store, other)
  <2>6. answer' = [opened |-> opened]
    BY <1>2, <2>2
  <2> HIDE DEF store, params, derived, cipher, kdf, error
  <2>7. /\ store.version = 3 /\ store.kdf \in {"scrypt", "pbkdf2"} /\ store.mac = Ac!Mac(derived, cipher)
        /\ store.ciphertext = cipher /\ again = Ac!DerivedKey(store.kdf, other, store.kdfparams)
    BY <2>1, <2>3
  <2> HIDE DEF again
  <2>8. opened = IF Ac!Mac(again, cipher) # Ac!Mac(derived, cipher) THEN [error |-> "KeyDerivationError"]
                 ELSE LET k == IF cipher[3] = Ac!AesKey(again) THEN cipher[2] ELSE "another"
                      IN [address |-> k, privateKey |-> k]
    BY <2>5, <2>7, StoreOpens
  <2> HIDE DEF opened, given
  <2>9. key # "another"
    BY SignersAssumption
  <2>10. cipher[2] = key /\ cipher[3] = Ac!AesKey(derived)
    BY DEF cipher
  <2>11. ~ Ac!Fails(answer') /\ answer'.opened = opened
    BY <2>6 DEF Ac!Fails
  <2>12. CASE options.dklen = 16
    <3>1. opened = [address |-> IF password = other THEN key ELSE "another",
                    privateKey |-> IF password = other THEN key ELSE "another"]
      BY <1>4, <2>4, <2>8, <2>12, <2>10
    <3>2. ~ Ac!Fails(opened) /\ (opened.privateKey = key <=> password = other)
      BY <2>9, <3>1 DEF Ac!Fails
    <3>3. QED
      BY <1>2, <1>7, <2>11, <2>12, <3>2 DEF StoresGuarded
  <2>13. CASE options.dklen # 16 /\ password = other
    <3>1. opened = [address |-> key, privateKey |-> key]
      BY <1>4, <2>3, <2>4, <2>8, <2>13, <2>10
    <3>2. QED
      BY <1>2, <1>7, <2>11, <2>13, <3>1 DEF StoresGuarded
  <2>14. CASE options.dklen # 16 /\ password # other
    <3>1. opened = [error |-> "KeyDerivationError"]
      BY <1>4, <2>3, <2>4, <2>8, <2>14
    <3>2. Ac!Fails(opened)
      BY <3>1 DEF Ac!Fails
    <3>3. QED
      BY <1>2, <1>7, <2>11, <2>14, <3>2 DEF StoresGuarded
  <2>15. QED
    BY <2>12, <2>13, <2>14
<1>8. QED
  BY <1>6, <1>7

(* SignersRecovered, for any messages, keys, passwords and options, and    *)
(* whatever else is asked in between: a signature leads from its message   *)
(* to its signer, and from no other message but one that differs by nulls  *)
(* at its ends; and a key store opens to its password only, or, where its  *)
(* MAC is of nothing, yields its key to no other (account.ts).             *)
THEOREM SignersAreRecovered == KeysSpec => []SignersRecovered
<1>1. Unasked => SignersRecovered
  BY DEF Unasked, SignersRecovered, MessagesRecovered, KeysMeasured, StoresGuarded
<1>2. ASSUME SignersRecovered, [AskMessage \/ AskKey \/ AskKeyStore \/ AskElse]_<<question, answer>>
      PROVE  SignersRecovered'
  <2>1. CASE AskMessage
    <3>1. question'.topic = "message"
      BY <2>1 DEF AskMessage, Question
    <3>2. QED
      BY <2>1, <3>1, MessagesAnswered DEF SignersRecovered, KeysMeasured, StoresGuarded
  <2>2. CASE AskKey
    <3>1. question'.topic = "key"
      BY <2>2 DEF AskKey, Question
    <3>2. QED
      BY <2>2, <3>1, KeysAnswered DEF SignersRecovered, MessagesRecovered, StoresGuarded
  <2>3. CASE AskKeyStore
    <3>1. question'.topic = "store"
      BY <2>3 DEF AskKeyStore, Question
    <3>2. QED
      BY <2>3, <3>1, StoresAnswered DEF SignersRecovered, MessagesRecovered, KeysMeasured
  <2>4. CASE AskElse
    BY <2>4 DEF AskElse, SignersRecovered, MessagesRecovered, KeysMeasured, StoresGuarded
  <2>5. CASE UNCHANGED <<question, answer>>
    BY <1>2, <2>5 DEF SignersRecovered, MessagesRecovered, KeysMeasured, StoresGuarded
  <2>6. QED
    BY <1>2, <2>1, <2>2, <2>3, <2>4, <2>5
<1>3. QED
  BY <1>1, <1>2, PTL DEF KeysSpec

===============================================================================
