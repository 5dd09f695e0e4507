--------------------------- MODULE SignedMessages ---------------------------
(***************************************************************************)
(* What a program does with private keys but keeping them: it signs a      *)
(* message and recovers the signer, makes an account of a key, and puts a  *)
(* key into a key store and takes it out again (account.ts of              *)
(* web3-eth-accounts).  One question is asked at a time, and the answer is *)
(* compared with what was asked.                                           *)
(***************************************************************************)
EXTENDS Integers, Sequences

CONSTANTS
    NotGiven,     \* undefined or null
    Messages,     \* [form, bytes]: texts and hex strings
    Signers,      \* private keys that sign and are stored
    KeyInputs,    \* what is given for a private key: [form, nibbles, key]
    StoreWords,   \* passwords of key stores
    StoreOptions  \* options of a key store: [kdf, dklen, c, iv]

ASSUME MessagesAssumption ==
    \A m \in Messages : m.form \in {"text", "hex"} /\ m.bytes \in Seq(Nat)
\* The model calls any address and key but those it knows by this name.
ASSUME SignersAssumption == "another" \notin Signers
\* Names of derivations, and of errors, which are something.
StoreNames == {"scrypt", "pbkdf2", "IVLengthError", "PBKDF2IterationsError", "InvalidKdfError",
               "CipherKeyError"}
ASSUME StoreAssumption ==
    /\ NotGiven \notin Nat \cup StoreNames \cup StoreWords
    /\ \A o \in StoreOptions : {o.dklen, o.c} \subseteq Nat \cup {NotGiven}

Ac == INSTANCE Accounts WITH Absent <- NotGiven

VARIABLES question, answer

Unasked == question = [topic |-> "none"] /\ answer = NotGiven

Question(asked, told) == question' = asked /\ answer' = told

---------------------------------------------------------------------------
(* Messages and their signers *)

AskMessage ==
    \E message, other \in Messages, key \in Signers, bit \in {0, 1} :
        LET signed == Ac!Sign(message, key, bit) IN
        Question([topic |-> "message", message |-> message, other |-> other, key |-> key],
                 [message |-> Ac!Recover(message, signed.signature, FALSE),
                  other   |-> Ac!Recover(other, signed.signature, FALSE),
                  hash    |-> Ac!Recover(signed.messageHash, signed.signature, TRUE),
                  object  |-> Ac!RecoverObject(signed, TRUE)])

\* The same but for nulls at their ends, of which each has one at most.
Nulls == {<<>>, <<0>>}
AlikeButForNulls(bytes, others) ==
    \E b1, b2, b3, b4 \in Nulls : b1 \o bytes \o b2 = b3 \o others \o b4

MessagesRecovered ==
    question.topic = "message" =>
        LET meant == question.message  other == question.other IN
        /\ {answer.message, answer.hash, answer.object} = {question.key}
        /\ meant = other => answer.other = question.key
        /\ answer.other = question.key => AlikeButForNulls(meant.bytes, other.bytes)
        /\ (meant.form = "hex" /\ other.form = "hex") =>
              (answer.other = question.key <=> meant.bytes = other.bytes)

---------------------------------------------------------------------------
(* Keys *)

AskKey ==
    \E input \in KeyInputs, ignore \in BOOLEAN :
        Question([topic |-> "key", input |-> input, ignore |-> ignore],
                 Ac!PrivateKeyToAccount(input, ignore))

KeysMeasured ==
    question.topic = "key" =>
        \/ Ac!Fails(answer)
        \/ /\ question.ignore \/ question.input.nibbles = 64
           /\ {answer.address, answer.privateKey} = {question.input.key}

---------------------------------------------------------------------------
(* Key stores *)

AskKeyStore ==
    \E key \in Signers, options \in StoreOptions, password, other \in StoreWords :
        LET store == Ac!EncryptKey([form |-> "hex", nibbles |-> 64, key |-> key], password, options, 1) IN
        Question([topic |-> "store", key |-> key, options |-> options,
                  password |-> password, other |-> other],
                 IF Ac!Fails(store) THEN store ELSE [opened |-> Ac!DecryptKey(store, other)])

\* A derivation that is known, with iterations enough, and 16 bytes at least for
\* the key of the cipher, and for its first block.
GoodOptions(o) ==
    /\ o.kdf \in {NotGiven, "scrypt", "pbkdf2"}
    /\ o.dklen = NotGiven \/ o.dklen >= 16
    /\ o.iv \in {NotGiven, 16}
    /\ o.kdf = "pbkdf2" => o.c = NotGiven \/ o.c >= 1000

StoresGuarded ==
    question.topic = "store" =>
        LET key == question.key IN
        /\ Ac!Fails(answer) <=> ~ GoodOptions(question.options)
        /\ GoodOptions(question.options) =>
              IF question.options.dklen = 16
              THEN ~ Ac!Fails(answer.opened)
                   /\ (answer.opened.privateKey = key <=> question.password = question.other)
              ELSE IF question.password = question.other
              THEN answer.opened = [address |-> key, privateKey |-> key]
              ELSE Ac!Fails(answer.opened)

---------------------------------------------------------------------------

\* Whoever has a message and its signature finds who signed it, and whoever has
\* another message does not, be it only as long or in another form; messages of
\* the same bytes are the same, and a null at an end of a text is no part of
\* it.  An account has a key of 32 bytes.  A key store is made of good options
\* only, and opens with its password and no other; with a derived key of 16
\* bytes, which leaves none for the MAC, any password opens it, to another key
\* (account.ts `sign`, `recover`, `privateKeyToAccount`, `encrypt`, `decrypt`).
SignersRecovered == MessagesRecovered /\ KeysMeasured /\ StoresGuarded
==============================================================================
