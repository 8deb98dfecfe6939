-------------------------- MODULE LicenseBuilder --------------------------
(***************************************************************************)
(* A license from the builder to the reader: LicenseBuilder's calls in any *)
(* order, or a document made elsewhere, and what key_check,                *)
(* verify_signature_and_provider and decrypt_content_key                   *)
(* (crates/lcp-core/src/license/lcp_license.rs) and then the first         *)
(* resource make of it, with the lengths of Cipher and in either build.    *)
(* The archive is not the license's: its resource may be this              *)
(* publication's, another's, or bytes that were never enciphered.          *)
(***************************************************************************)
EXTENDS Cipher, Sequences

CONSTANTS
    ContentKey, \* the key the publication's resources are enciphered with
    OtherKey,   \* the content key of another publication
    Lengths,    \* lengths of resources, and lengths that are listed
    Sizes,      \* sizes of malformed values in documents and archives
    MaxCalls    \* bound on the builder's calls

VARIABLES
    license,    \* the License being built, or as the reader parsed it
    calls,      \* the builder's calls so far
    origin,     \* where the license comes from; "none" until build() succeeds
    reader,     \* who reads what with it, with which user key, in which build
    step,       \* the reader's next step
    key,        \* the content key as deciphered
    shown       \* the resource as deciphered

vars == << license, calls, origin, reader, step, key, shown >>

IdLength == 36
ContentKeyLength == 32
EncryptedKeySize == 64

UserKeys == Keys \ {ContentKey, OtherKey}

ASSUME BuilderAssumption ==
    /\ ContentKey \in Keys /\ OtherKey \in Keys /\ OtherKey # ContentKey
    /\ Lengths \subseteq Nat /\ Sizes \subseteq Nat
    /\ MaxCalls \in Nat

\* An empty string decodes to no bytes.
Unset == Malformed(0)

(***************************************************************************)
(* What is signed is the canonical JSON of the License as parsed, where    *)
(* dates are written anew, with a numeric offset.  A document made         *)
(* elsewhere is signed as it was written, perhaps with "Z".                *)
(***************************************************************************)
DateFormats == {"offset", "Z"}

\* iv stands for the random initialization vector of key_check.
Texts ==
    [key_check: Ciphertexts, iv: Nat, encrypted_value: Ciphertexts, dates: DateFormats]

\* Mutant: dates are written back as they were read.
CanonicalAsWritten(l) ==
    [key_check |-> l.key_check, iv |-> l.iv, encrypted_value |-> l.encrypted_value,
     dates |-> l.dates]

CanonicalJson(l) ==
    [key_check |-> l.key_check, iv |-> l.iv, encrypted_value |-> l.encrypted_value,
     dates |-> "offset"]

\* The signature, if there is one, says what it is over, whether the private key was the
\* certificate's, and whether the root certificate's key signed that certificate.
NoSignature == {}
SignatureOver(text, own_key, chained) ==
    {[over |-> text, own_key |-> own_key, chained |-> chained]}

Signatures == [over: Texts, own_key: BOOLEAN, chained: BOOLEAN]

Licenses ==
    [key_check: Ciphertexts, iv: Nat, encrypted_value: Ciphertexts, dates: DateFormats,
     signature: SUBSET Signatures]

Calls ==
         [call: {"encryption"}, wrapped: UserKeys, checked: UserKeys]
    \cup [call: {"sign"}, own_key: BOOLEAN, chained: BOOLEAN]

\* A resource as it lies in the archive.
Resource(n, k) == WithIv(Encrypt("resource", n, k))
Resources ==
    {Resource(n, k) : n \in Lengths, k \in {ContentKey, OtherKey}}
    \cup {Malformed(n) : n \in Sizes}

\* length is what encryption.xml lists; nothing ties it to the resource.
Readers ==
    [front: {"lib", "ffi"}, user_key: UserKeys, build: Builds,
     length: Lengths, resource: Resources]
NoReader == [front |-> "nobody"]

Endings ==
    {"incorrect", "missing signature", "signature", "key length", "cipher",
     "panic", "length", "shown"}
Steps == {"none", "key_check", "verify", "content_key", "resource"} \cup Endings

TypeOK ==
    /\ license \in Licenses
    /\ calls \in Seq(Calls) /\ Len(calls) <= MaxCalls
    /\ origin \in {"none", "built", "elsewhere"}
    /\ reader \in Readers \cup {NoReader}
    /\ step \in Steps
    /\ key \in {ContentKey, NoKey}
    /\ shown \in {"nothing", "resource", "noise"}
    /\ step # "none" <=> reader \in Readers
    /\ step # "none" => origin # "none"
    /\ origin # "none" => license.signature # NoSignature

\* LicenseBuilder::new.
Init ==
    /\ license = [key_check |-> Unset, iv |-> 0, encrypted_value |-> Unset,
                  dates |-> "offset", signature |-> NoSignature]
    /\ calls = << >>
    /\ origin = "none"
    /\ reader = NoReader
    /\ step = "none"
    /\ key = NoKey
    /\ shown = "nothing"

----------------------------------------------------------------------------
(***************************************************************************)
(* Building.                                                               *)
(***************************************************************************)
Calling(call) ==
    /\ origin = "none"
    /\ Len(calls) < MaxCalls
    /\ calls' = Append(calls, call)
    /\ UNCHANGED << origin, reader, step, key, shown >>

\* The content key comes enciphered already, under `wrapped'; the id is
\* enciphered here, under `checked'.  Nothing compares the two, and a signature
\* that is there stays.
Encryption(wrapped, checked) ==
    /\ Calling([call |-> "encryption", wrapped |-> wrapped, checked |-> checked])
    /\ license' = [license EXCEPT
          !.key_check = WithIv(Encrypt("id", IdLength, checked)),
          !.iv = Len(calls) + 1,
          !.encrypted_value = WithIv(Encrypt("content_key", ContentKeyLength, wrapped))]

SignWith(own_key, chained) ==
    /\ Calling([call |-> "sign", own_key |-> own_key, chained |-> chained])
    /\ license' = [license EXCEPT
          !.signature = SignatureOver(CanonicalJson(license), own_key, chained)]

\* Mutant: build() does not ask for a signature.
BuildUnsigned ==
    /\ origin = "none"
    /\ origin' = "built"
    /\ UNCHANGED << license, calls, reader, step, key, shown >>

\* build() asks for a signature and for nothing else.
Build ==
    /\ origin = "none"
    /\ license.signature # NoSignature
    /\ origin' = "built"
    /\ UNCHANGED << license, calls, reader, step, key, shown >>

\* A document made elsewhere, well formed or not, and signed by its provider as it
\* is written.
ValuesOf(of, n) ==
    {WithIv(Encrypt(of, n, k)) : k \in UserKeys} \cup {Malformed(n2) : n2 \in Sizes}

Document(c, e, d) ==
    [key_check |-> c, iv |-> 0, encrypted_value |-> e, dates |-> d,
     signature |-> SignatureOver([key_check |-> c, iv |-> 0, encrypted_value |-> e,
                                  dates |-> d], TRUE, TRUE)]

Receive ==
    /\ origin = "none"
    /\ calls = << >>
    /\ \E c \in ValuesOf("id", IdLength), e \in ValuesOf("content_key", ContentKeyLength),
          d \in DateFormats : license' = Document(c, e, d)
    /\ origin' = "elsewhere"
    /\ UNCHANGED << calls, reader, step, key, shown >>

----------------------------------------------------------------------------
(***************************************************************************)
(* Reading.  decrypt_epub checks the key, then the signature, then         *)
(* deciphers the content key; lcp_decrypt_epub leaves the signature out.   *)
(***************************************************************************)
Open(r) ==
    /\ origin # "none"
    /\ step = "none"
    /\ reader' = r
    /\ step' = "key_check"
    /\ UNCHANGED << license, calls, origin, key, shown >>

Goto(next) == step' = next /\ UNCHANGED << license, calls, origin, reader >>

\* Where a step ends that gets no bytes.
WithoutBytes(r) == IF r.how = "panic" THEN "panic" ELSE "cipher"

\* Mutant: the plugin's path takes any passphrase.
KeyCheckLax ==
    /\ step = "key_check"
    /\ \E r \in DecryptWithIv(license.key_check, reader.user_key, reader.build) :
          Goto(IF r.how # "bytes" THEN WithoutBytes(r)
               ELSE IF reader.front = "ffi" THEN "content_key"
               ELSE IF r.of # "id" THEN "incorrect"
               ELSE "verify")
    /\ UNCHANGED << key, shown >>

\* The deciphered bytes are compared with the id.  lcp_decrypt_epub returns 1 for
\* every error of key_check, decrypt_epub the error itself.
KeyCheck ==
    /\ step = "key_check"
    /\ \E r \in DecryptWithIv(license.key_check, reader.user_key, reader.build) :
          Goto(IF r.how = "panic" THEN "panic"
               ELSE IF r.how = "error" /\ reader.front = "lib" THEN "cipher"
               ELSE IF r.of # "id" THEN "incorrect"
               ELSE IF reader.front = "lib" THEN "verify"
               ELSE "content_key")
    /\ UNCHANGED << key, shown >>

\* Mutant: the signature is taken for one over this license.
VerifiedWithoutText(l) == \A s \in l.signature : s.chained /\ s.own_key

\* The certificate against the root's, then the signature over the canonical JSON.
Verified(l) ==
    \A s \in l.signature : s.chained /\ s.own_key /\ s.over = CanonicalJson(l)

VerifySignatureAndProvider ==
    /\ step = "verify"
    /\ Goto(IF license.signature = NoSignature THEN "missing signature"
            ELSE IF ~ Verified(license) THEN "signature"
            ELSE "content_key")
    /\ UNCHANGED << key, shown >>

\* copy_from_slice panics unless there are 32 bytes; 32 bytes of noise are a key
\* like any other.
DecryptContentKey ==
    /\ step = "content_key"
    /\ IF license.encrypted_value.size # EncryptedKeySize
       THEN Goto("key length") /\ UNCHANGED key
       ELSE \E r \in Decrypt(AfterIv(license.encrypted_value), reader.user_key,
                             reader.build) :
               /\ Goto(IF r.how = "bytes" /\ r.len = ContentKeyLength THEN "resource"
                       ELSE "panic")
               /\ key' = IF r.of = "content_key" THEN ContentKey ELSE NoKey
    /\ UNCHANGED shown

\* A resource that is listed as not compressed; the length of what is deciphered is
\* compared with the one listed.
DecryptResource ==
    /\ step = "resource"
    /\ \E r \in DecryptWithIv(reader.resource, key, reader.build) :
          /\ Goto(IF r.how # "bytes" THEN WithoutBytes(r)
                  ELSE IF r.len # reader.length THEN "length"
                  ELSE "shown")
          /\ shown' = r.of
    /\ UNCHANGED key

Next ==
    \/ \E wrapped, checked \in UserKeys : Encryption(wrapped, checked)
    \/ \E own_key, chained \in BOOLEAN : SignWith(own_key, chained)
    \/ Build
    \/ Receive
    \/ \E r \in Readers : Open(r)
    \/ KeyCheck \/ VerifySignatureAndProvider \/ DecryptContentKey \/ DecryptResource

Spec == Init /\ [][Next]_vars

----------------------------------------------------------------------------
(***************************************************************************)
(* Properties.                                                             *)
(***************************************************************************)
\* The license gives the right passphrase the content key.
Consistent(user_key) ==
    license.key_check.key = user_key /\ license.encrypted_value.key = user_key

\* The builder's last call is a signature that a reader can verify.
SignedLast ==
    /\ calls # << >>
    /\ calls[Len(calls)] = [call |-> "sign", own_key |-> TRUE, chained |-> TRUE]

\* A license whose encryption() got the content key wrapped for the passphrase and
\* the key made from it, and that was signed after it, is read with that passphrase
\* by every front and build, whatever the length of the publication's resource: no
\* error, no panic, no noise.
RightPassphraseReads ==
    /\ origin = "built" /\ SignedLast
    /\ step # "none" /\ Consistent(reader.user_key)
    /\ reader.resource = Resource(reader.length, ContentKey)
    => /\ step \notin Endings \ {"shown"}
       /\ step = "shown" => shown = "resource"

\* A passphrase that is not the license's never gets past the key check, in any
\* license; in a release build the check does not panic on a value of two blocks or
\* more, and the cipher's own error is for the library's callers and for a value that
\* nobody enciphered (lcp_license.rs:284, ffi.rs:193).
WrongPassphraseStops ==
    /\ step # "none"
    /\ license.key_check.key # reader.user_key
    => /\ step \in {"key_check", "incorrect", "cipher", "panic"}
       /\ step = "cipher" => reader.front = "lib" /\ license.key_check.key = NoKey
       /\ step = "panic" => reader.build = "debug" \/ license.key_check.size <= Block

\* "`1` if the passphrase is incorrect" (ffi.rs:95): for a license whose key check
\* is another passphrase's, lcp_decrypt_epub says so.
IncorrectIsReported ==
    /\ step # "none" /\ reader.front = "ffi"
    /\ license.key_check.key \in UserKeys \ {reader.user_key}
    => step \in {"key_check", "incorrect"}

\* encryption() after sign() is not noticed by build() (lcp_license.rs:438); what
\* the library then reads was signed after the last change all the same, with the
\* certificate's own key.
LibReadsWhatWasSigned ==
    /\ origin = "built"
    /\ step \in {"content_key", "resource", "key length", "length", "shown"}
    /\ reader.front = "lib"
    => SignedLast

\* Noise is shown only with the key check's own passphrase, and only when the content
\* key is wrapped for another (32 bytes of noise pass for a key, key.rs:102) or the
\* resource is not of the license's publication: another's, or never enciphered.
NoiseNeedsMismatch ==
    step = "shown" /\ shown = "noise"
    => /\ license.key_check.key = reader.user_key
       /\ \/ license.encrypted_value.key # reader.user_key
          \/ reader.resource.key # ContentKey

\* Reading panics only on a key check or resource without two blocks (cipher.rs:59,
\* 68), on a content key that the checked passphrase does not decipher (key.rs:103),
\* or, in a debug build, on noise: a wrong passphrase, or a resource that is not
\* of the license's publication.
PanicNeedsMalformed ==
    step = "panic"
    => \/ license.key_check.size <= Block
       \/ reader.resource.size <= Block
       \/ /\ license.key_check.key = reader.user_key
          /\ license.encrypted_value.key # reader.user_key
       \/ /\ reader.build = "debug"
          /\ \/ license.key_check.key # reader.user_key
             \/ reader.resource.key # ContentKey

\* "Verify that the signature against the provider certificate in the license file"
\* (lcp_license.rs:322): a document its provider signed verifies.
GenuineVerifies == origin = "elsewhere" => step # "signature"
=============================================================================
