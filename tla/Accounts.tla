------------------------------- MODULE Accounts -------------------------------
(***************************************************************************)
(* Keys, signed messages and key stores (web3-eth-accounts/src/account.ts).*)
(*                                                                         *)
(* Cryptography is perfect and symbolic: a hash, a derived key, a cipher   *)
(* text and a signature are terms that show what they were made from.  The *)
(* address of a key is the key itself.  A result is a record; one that is   *)
(* thrown has an `error`, the name of its class.                           *)
(***************************************************************************)
EXTENDS Integers, Sequences, FiniteSetsExt

CONSTANT Absent  \* undefined or null

Or(value, other) == IF value # Absent THEN value ELSE other  \* value ?? other

Thrown(class) == [error |-> class]
Fails(result) == "error" \in DOMAIN result

---------------------------------------------------------------------------
(* Private keys.  `data` is [form, nibbles, key]: a hex string with its    *)
(* number of digits, bytes, or a text that is neither.                     *)

KeyNibbles == 64

ParsePrivateKey(data, ignoreLength) ==
    LET wrongLength == ~ ignoreLength /\ data.nibbles # KeyNibbles IN
    IF data.form = "hex" /\ wrongLength THEN "PrivateKeyLengthError"
    ELSE IF data.form = "text" \/ data.nibbles % 2 = 1 THEN "InvalidPrivateKeyError"
    ELSE IF wrongLength THEN "PrivateKeyLengthError"
    ELSE "ok"

PrivateKeyToAccount(data, ignoreLength) ==
    LET parsed == ParsePrivateKey(data, ignoreLength) IN
    IF parsed # "ok" THEN Thrown(parsed) ELSE [address |-> data.key, privateKey |-> data.key]

---------------------------------------------------------------------------
(* Messages.  A message is [form, bytes]; utf8ToHex takes a null character *)
(* off either end of a text.                                               *)

TrimNull(bytes) ==
    LET start == IF bytes # <<>> /\ Head(bytes) = 0 THEN Tail(bytes) ELSE bytes IN
    IF start # <<>> /\ start[Len(start)] = 0 THEN SubSeq(start, 1, Len(start) - 1) ELSE start

MessageBytes(message) ==
    IF message.form = "hex" THEN message.bytes ELSE TrimNull(message.bytes)

FaultHashMessage(message) == <<"keccak", "EthereumSignedMessage", Len(MessageBytes(message))>>
HashMessage(message) == <<"keccak", "EthereumSignedMessage", Len(MessageBytes(message)),
                          MessageBytes(message)>>
\* A hash that is hashed as a message: it is a hex string like any other.
AsMessage(hash) == [form |-> "hex", bytes |-> <<hash>>]

\* r and s bind key and hash, v carries the recovery bit.
Sign(message, key, bit) ==
    LET h == HashMessage(message) IN
    [message |-> message, messageHash |-> h, v |-> bit + 27, signature |-> <<key, h, bit + 27>>]

\* recover, in its form for a signature string; the other two join r, s and v
\* to one.  Another hash or another bit yields another address.
Recover(data, signature, prefixed) ==
    LET hash == IF prefixed THEN data ELSE HashMessage(data)
        v    == IF signature[3] > 26 THEN signature[3] - 27 ELSE signature[3]
    IN
    IF v \notin 0..3 THEN "RecoveryIdInvalid"
    ELSE IF hash = signature[2] /\ v \in {0, 1} THEN signature[1]
    ELSE "another"

\* recover(signatureObject, ...): the third parameter is `prefixed` here.
RecoverObject(signed, prefixed) ==
    Recover(IF prefixed THEN signed.messageHash ELSE AsMessage(signed.messageHash),
            signed.signature, prefixed)

---------------------------------------------------------------------------
(* Key stores.  Options are [kdf, dklen, c, iv]; salt and cost parameters  *)
(* of scrypt change the derived key only and are the store's `salt`.       *)

DerivedKey(kdf, password, params) == <<"derived", kdf, password, params>>
\* Bytes `first`+1 to `last` of a derived key: nothing beyond its length.
Slice(derived, first, last) ==
    LET end == IF derived[4].dklen < last THEN derived[4].dklen ELSE last IN
    IF end <= first THEN "empty" ELSE <<derived, first, end>>
FaultMac(derived, ciphertext) == <<"keccak", "empty", ciphertext>>
Mac(derived, ciphertext) == <<"keccak", Slice(derived, 16, 32), ciphertext>>
\* aes-128-ctr wants a key of 16 bytes.
AesKey(derived) == Slice(derived, 0, 16)
AesRefuses(derived) == derived[4].dklen < 16

EncryptError(data, password, options) ==
    LET kdf == Or(options.kdf, "scrypt") IN
    IF ParsePrivateKey(data, FALSE) # "ok" THEN ParsePrivateKey(data, FALSE)
    ELSE IF password = Absent THEN "InvalidPasswordError"
    ELSE IF options.iv \notin {Absent, 16} THEN "IVLengthError"
    ELSE IF kdf = "pbkdf2" /\ Or(options.c, 262144) < 1000 THEN "PBKDF2IterationsError"
    ELSE IF kdf \notin {"pbkdf2", "scrypt"} THEN "InvalidKdfError"
    ELSE IF Or(options.dklen, 32) < 16 THEN "CipherKeyError"
    ELSE Absent

EncryptKey(data, password, options, salt) ==
    LET kdf     == Or(options.kdf, "scrypt")
        params  == [dklen |-> Or(options.dklen, 32), salt |-> salt,
                    c |-> IF kdf = "pbkdf2" THEN Or(options.c, 262144) ELSE 0]
        derived == DerivedKey(kdf, password, params)
        cipher  == <<"aes", data.key, AesKey(derived)>>
    IN
    IF EncryptError(data, password, options) # Absent
    THEN Thrown(EncryptError(data, password, options))
    ELSE [version |-> 3, address |-> data.key, kdf |-> kdf, kdfparams |-> params,
          ciphertext |-> cipher, mac |-> Mac(derived, cipher)]

\* Deciphering with another key yields other bytes: a key all the same.
DecryptKey(store, password) ==
    LET derived == DerivedKey(store.kdf, password, store.kdfparams) IN
    IF store.version # 3 THEN Thrown("KeyStoreVersionError")
    ELSE IF store.kdf \notin {"scrypt", "pbkdf2"} THEN Thrown("InvalidKdfError")
    ELSE IF Mac(derived, store.ciphertext) # store.mac THEN Thrown("KeyDerivationError")
    ELSE IF AesRefuses(derived) THEN Thrown("CipherKeyError")
    ELSE LET key == IF store.ciphertext[3] = AesKey(derived) THEN store.ciphertext[2]
                    ELSE "another" IN
         PrivateKeyToAccount([form |-> "hex", nibbles |-> KeyNibbles, key |-> key], FALSE)
==============================================================================
