--------------------------- MODULE RevocationList ---------------------------
(***************************************************************************)
(* Revocation lists as the command line handles them                       *)
(* (core/qcap-cli/src/main.rs): a list names the key of its issuer, its    *)
(* signature verifies or does not, and it holds a set of capabilities.     *)
(*                                                                         *)
(* A key and a capability are texts.  Verification decodes the hex digits  *)
(* of the signature of a capability and the list is searched for the       *)
(* digits as they are written, so that a token is one spelling: a          *)
(* signature in capitals is another token that verifies as well.           *)
(*                                                                         *)
(* That a list is signed says no more than that the signature in it is one *)
(* of its key over the text signing_payload makes of the list.  Several    *)
(* lists have one text: fields and entries are joined with "|" and line    *)
(* ends that they may contain, and are not checked otherwise.  So a signed *)
(* list may hold other entries than its issuer put there.                  *)
(***************************************************************************)
EXTENDS Integers, FiniteSets

CONSTANTS
    Issuers,  \* signing keys
    Tokens,   \* the texts of cap_root and signature
    Absent,   \* no file, nothing in the registry's slot
    Empty,    \* a file that has been truncated and not written yet
    Torn      \* a file whose bytes are not the JSON of any list

Capability == [public_key : Issuers, token : Tokens, genuine : BOOLEAN]
List == [public_key : Issuers, signed : BOOLEAN, revoked : SUBSET Capability]
Content == List \cup {Absent, Empty, Torn}

\* RevocationList::empty, signed by the issuer it names.
NewList(issuer) == [public_key |-> issuer, signed |-> TRUE, revoked |-> {}]

\* read_json followed by RevocationList::verify: anything else is an error.
Verifies(content) == content \in List /\ content.signed

\* RevocationList::revokes, which compares texts.
Revokes(list, cap) == cap \in list.revoked

\* Mutant of Admits: the signature of the list is not checked.
AdmitsUnverified(content, signer, cap) ==
    /\ content \in List
    /\ content.public_key = signer
    /\ ~ Revokes(content, cap)

\* What qcap open does with the list it was given: it goes on only if the
\* list verifies, is signed by the signer of the archive and does not
\* revoke the capability.
Admits(content, signer, cap) ==
    /\ Verifies(content)
    /\ content.public_key = signer
    /\ ~ Revokes(content, cap)

\* fs::write of a list over what the file holds by then: bytes that another
\* writer put there after the truncation remain behind the new ones unless
\* these cover them.  Which text is longer is open: entries give reasons of
\* any length.
Overwritten(old, list) == IF old = Empty THEN {list} ELSE {list, Torn}
=============================================================================
