------------------------------ MODULE License ------------------------------
(***************************************************************************)
(* The license document of an LCP publication and the keys that hang on it *)
(* (crates/lcp-core/src/license/lcp_license.rs, crypto/key.rs and          *)
(* crypto/signature.rs).  Cryptography is symbolic: what was enciphered    *)
(* under a key carries that key, a signature carries the body it signs and *)
(* the private key that made it.                                           *)
(***************************************************************************)
EXTENDS Naturals

CONSTANTS
    Passphrases,    \* what users type
    Profiles,       \* encryption profile URIs
    Supported,      \* the profiles the resolver knows
    PrivateKeys,    \* RSA private keys, each standing for its key pair
    Roots,          \* certificate authorities
    Root,           \* the one whose certificate the reader embeds
    Credentials     \* the provider credentials encrypt_epub is given

ContentKeys == Nat

\* A content key that opens nothing: what decrypting an encrypted content key
\* with the wrong user key yields.
GarbageKey == 0

UserKeys == [passphrase: Passphrases, profile: Profiles]
Certificates == [public: PrivateKeys, issuer: Roots]

(***************************************************************************)
(* SHA-256 of the passphrase, then the profile's transform.                *)
(***************************************************************************)
UserEncryptionKey(passphrase, profile) ==
    [passphrase |-> passphrase, profile |-> profile]

(***************************************************************************)
(* A license without its signature: what canonical_json serialises, and so *)
(* what sign signs and verify_signature_and_provider checks.               *)
(***************************************************************************)
Bodies ==
    [id: Nat,
     profile: Profiles,
     content_key: [key: ContentKeys, under: UserKeys],
     key_check: [id: Nat, under: UserKeys]]

NoSignature == [by |-> "nobody"]
Signatures == [over: Bodies, by: PrivateKeys, certificate: Certificates]

Licenses == [body: Bodies, signature: Signatures \cup {NoSignature}]

(***************************************************************************)
(* LicenseBuilder: new() draws a fresh id, encryption() fills in the two   *)
(* enciphered values, sign() signs the canonical JSON of the result with   *)
(* the private key and attaches the certificate, whoever it belongs to.    *)
(***************************************************************************)
WithEncryption(id, content_key, user_key) ==
    [id |-> id,
     profile |-> user_key.profile,
     content_key |-> [key |-> content_key, under |-> user_key],
     key_check |-> [id |-> id, under |-> user_key]]

Sign(body, creds) ==
    [body |-> body,
     signature |-> [over |-> body,
                    by |-> creds.private_key,
                    certificate |-> creds.certificate]]

(***************************************************************************)
(* The validity conditions the reader checks.                              *)
(***************************************************************************)
KeyCheck(license, user_key) ==
    /\ license.body.key_check.under = user_key
    /\ license.body.key_check.id = license.body.id

VerifySignatureAndProvider(license) ==
    /\ license.signature # NoSignature
    /\ license.signature.certificate.issuer = Root
    /\ license.signature.by = license.signature.certificate.public
    /\ license.signature.over = license.body

DecryptContentKey(license, user_key) ==
    IF license.body.content_key.under = user_key
    THEN license.body.content_key.key
    ELSE GarbageKey

----------------------------------------------------------------------------
(***************************************************************************)
(* Credentials: `loads' is FALSE for bytes that are not DER at all, which  *)
(* load_private_key_from_der and load_certificate_from_der reject.         *)
(***************************************************************************)
AllCredentials ==
    [loads: BOOLEAN, private_key: PrivateKeys, certificate: Certificates]

ASSUME LicenseAssumption ==
    /\ Supported \subseteq Profiles
    /\ Root \in Roots
    /\ Credentials \subseteq AllCredentials
=============================================================================
