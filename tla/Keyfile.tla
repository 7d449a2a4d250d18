------------------------------ MODULE Keyfile ------------------------------
(***************************************************************************)
(* Identity files: how a passphrase is read, what a keyfile holds and when *)
(* its private keys come out (Identity in core/qcap-cli/src/main.rs).      *)
(*                                                                         *)
(* A key stands for the signing and the encryption key pair of one         *)
(* identity and for its name.  Encryption is ideal: a ciphertext opens     *)
(* under the passphrase and the associated data it was made with, and      *)
(* under nothing else.                                                     *)
(***************************************************************************)
EXTENDS Integers, FiniteSets

CONSTANTS
    Keys,    \* key pairs
    Texts,   \* passphrases, less a trailing line end
    NoText,  \* the empty one
    Absent,  \* no file, no value
    Empty,   \* a file that has been truncated and not written yet
    Torn     \* a file whose bytes are not the JSON of any value

ASSUME TextsAssumption == NoText \in Texts

\* How a command is given its passphrase: by --passphrase-file, in
\* QCAP_KEY_PASSPHRASE, at the prompt, or not at all without a terminal;
\* newline: a line end follows the text.
Given == [source : {"file", "env", "prompt", "none"}, text : Texts, newline : BOOLEAN]

Passphrase == [text : Texts, newline : BOOLEAN]
Plain(text) == [text |-> text, newline |-> FALSE]

\* Mutant of ReadPassphrase: the line end of a file is kept.
ReadUntrimmed(given) ==
    IF given.source = "none" THEN Absent
    ELSE [text |-> given.text, newline |-> given.newline]

\* read_passphrase: the line end of a file is trimmed, that of the environment
\* is not, the prompt has none; an empty passphrase is an error (Absent).
ReadPassphrase(given) ==
    LET value == [text |-> given.text,
                  newline |-> given.newline /\ given.source = "env"]
    IN  IF given.source = "none" \/ value = Plain(NoText) THEN Absent ELSE value

\* A keyfile: its public keys, the private keys in it, and for an encrypted
\* one the passphrase and the associated data (format, name, public keys) they
\* were encrypted with; sound: no field is missing, out of range or in the
\* way (kdf limits, algorithms, lengths, plaintext beside ciphertext).  A seed
\* is a file with nothing but a signing seed, which only pack takes.
Identity == [format : {"encrypted", "legacy", "other", "seed"}, public : Keys, secret : Keys,
             lock : Passphrase, bound : Keys, sound : BOOLEAN]

\* Identity::generate.
Generated(key, passphrase) ==
    [format |-> "encrypted", public |-> key, secret |-> key,
     lock |-> passphrase, bound |-> key, sound |-> TRUE]

\* validate_private_keys.
Matching(identity) == identity.secret = identity.public

\* derive_identity_key: the key that the private keys are encrypted with.
Derives(identity, passphrase) == identity.sound /\ passphrase = identity.lock

\* associated_data: the public half is what they were encrypted with.
Bound(identity) == identity.bound = identity.public

\* private_key_material: an encrypted identity needs its passphrase, a legacy
\* one none; the keys inside must be those of the public half.
Unlocks(identity, passphrase) ==
    /\ \/ identity.format = "legacy" /\ identity.sound
       \/ identity.format = "encrypted" /\ Derives(identity, passphrase) /\ Bound(identity)
    /\ Matching(identity)

\* What read_json takes for an identity.
Parses(file) == file \in Identity /\ file.format # "seed"

\* identity_passphrase: it is read only for an encrypted identity, and must
\* be there then.
PassphraseRead(identity, given) ==
    identity.format = "encrypted" => ReadPassphrase(given) # Absent

\* Identity::signing_key.
SigningKey(identity, given) ==
    IF Unlocks(identity, ReadPassphrase(given)) THEN identity.secret ELSE Absent

\* signing_key_from_file.
PackKey(file, given) ==
    IF Parses(file) /\ PassphraseRead(file, given) THEN SigningKey(file, given)
    ELSE IF file \in Identity /\ file.format = "seed" /\ file.sound THEN file.secret
    ELSE Absent
=============================================================================
