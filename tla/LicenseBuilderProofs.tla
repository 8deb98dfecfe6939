------------------------ MODULE LicenseBuilderProofs ------------------------
(***************************************************************************)
(* What LicenseBuilder promises, for any keys, resource lengths, malformed *)
(* sizes and number of calls: first what deciphering gives, then an        *)
(* inductive invariant, its preservation by each action, and the theorems. *)
(***************************************************************************)
EXTENDS LicenseBuilder, TLAPS

\* PKCS#7 fills up to a whole block and always adds a byte.
LEMMA PadLengthBounds ==
    ASSUME NEW n \in Nat
    PROVE  /\ PadLength(n) \in 1..Block
           /\ (n + PadLength(n)) % Block = 0
<1>1. n % Block \in 0..15
    BY DEF Block
<1>2. PadLength(n) \in 1..Block
    BY <1>1 DEF PadLength, Block
<1>3. (n + PadLength(n)) % Block = 0
  <2>. DEFINE q == n \div 16  r == n % 16
  <2>1. n = 16 * q + r /\ r \in 0..15 /\ q \in Nat
    BY SMT
  <2>. HIDE DEF q, r
  <2>2. n + (16 - r) = 16 * (q + 1)
    BY <2>1
  <2>3. (16 * (q + 1)) % 16 = 0
    BY <2>1
  <2>. QED  BY <2>2, <2>3 DEF PadLength, Block, r
<1>. QED  BY <1>2, <1>3

LEMMA IdPad == PadLength(IdLength) = 12
    BY SMT DEF PadLength, Block, IdLength
LEMMA KeyPad == PadLength(ContentKeyLength) = 16 /\ 48 % Block = 0
    BY SMT DEF PadLength, Block, ContentKeyLength

(***************************************************************************)
(* What deciphering gives.                                                 *)
(***************************************************************************)
LEMMA MinusType ==
    ASSUME NEW a \in Nat, NEW b \in ByteValues
    PROVE  Minus(a, b) \in Nat
BY CipherAssumption DEF Minus, ByteValues

LEMMA DecryptType ==
    ASSUME NEW c \in Ciphertexts, NEW k, NEW build \in Builds
    PROVE  \A r \in Decrypt(c, k, build) :
              /\ r \in Results
              /\ r.of \in {c.of, "noise", "nothing"}
<1>1. LastBytes(c, k) \subseteq ByteValues
  <2>1. c.plain \in Nat
      BY DEF Ciphertexts
  <2>2. PadLength(c.plain) \in ByteValues
      BY <2>1, PadLengthBounds DEF Block, ByteValues
  <2>. QED  BY <2>2 DEF LastBytes
<1>2. ASSUME NEW last \in ByteValues
      PROVE  /\ Strip(c, k, last, build) \in Results
             /\ Strip(c, k, last, build).of \in {c.of, "noise", "nothing"}
  <2>1. c.size \in Nat /\ c.of \in {"id", "content_key", "resource", "nothing"}
      BY DEF Ciphertexts
  <2>2. Truncated(c.size, Minus(c.size, last)) \in Nat
      BY <2>1, MinusType DEF Truncated
  <2>. QED  BY <2>1, <2>2 DEF Strip, Result, Results, Panicked
<1>. QED  BY <1>1, <1>2 DEF Decrypt, Failed, Result, Results

\* With its key, what was enciphered comes back at its length, in every build.
LEMMA DecryptsBack ==
    ASSUME NEW of, NEW n \in Nat, NEW k, k # NoKey, NEW build \in Builds
    PROVE  Decrypt(Encrypt(of, n, k), k, build) = {Result("bytes", of, n)}
<1>. DEFINE c == Encrypt(of, n, k)
<1>1. c.of = of /\ c.plain = n /\ c.key = k /\ c.size = n + PadLength(n)
    BY DEF Encrypt
<1>2. PadLength(n) \in 1..16 /\ c.size % Block = 0
    BY <1>1, PadLengthBounds DEF Block
<1>. HIDE DEF c
<1>3. LastBytes(c, k) = {PadLength(n)}
    BY <1>1 DEF LastBytes, Unlocks
<1>4. Minus(c.size, PadLength(n)) = n
    BY <1>1, <1>2 DEF Minus
<1>5. Truncated(c.size, n) = n
    BY <1>1, <1>2 DEF Truncated
<1>6. Strip(c, k, PadLength(n), build) = Result("bytes", of, n)
    BY <1>1, <1>2, <1>4, <1>5 DEF Strip, Unlocks
<1>. QED  BY <1>2, <1>3, <1>6 DEF Decrypt, c

LEMMA IvComesOff ==
    ASSUME NEW of, NEW n \in Nat, NEW k
    PROVE  /\ AfterIv(WithIv(Encrypt(of, n, k))) = Encrypt(of, n, k)
           /\ WithIv(Encrypt(of, n, k)).size >= Block
           /\ WithIv(Encrypt(of, n, k)).size = n + PadLength(n) + Block
           /\ WithIv(Encrypt(of, n, k)).key = k
           /\ WithIv(Encrypt(of, n, k)).of = of
<1>. DEFINE c == Encrypt(of, n, k)
<1>1. PadLength(n) \in 1..16
    BY PadLengthBounds DEF Block
<1>2. /\ c = [of |-> of, plain |-> n, key |-> k, size |-> n + PadLength(n)]
      /\ c.size = n + PadLength(n)
    BY DEF Encrypt
<1>3. WithIv(c) = [of |-> of, plain |-> n, key |-> k, size |-> n + PadLength(n) + 16]
    BY <1>2 DEF WithIv, Block
<1>4. n + PadLength(n) + 16 - 16 = n + PadLength(n) /\ n + PadLength(n) + 16 >= 16
    BY <1>1
<1>5. AfterIv(WithIv(c)) = c
  <2>. DEFINE w == WithIv(c)
  <2>1. /\ w = [of |-> of, plain |-> n, key |-> k, size |-> n + PadLength(n) + 16]
        /\ w.size - 16 = n + PadLength(n)
      BY <1>1, <1>3, <1>4
  <2>. HIDE DEF w
  <2>2. [w EXCEPT !.size = @ - 16] =
            [of |-> of, plain |-> n, key |-> k, size |-> n + PadLength(n)]
      BY <2>1
  <2>. QED  BY <1>2, <2>2 DEF AfterIv, Block, w
<1>. HIDE DEF c
<1>6. /\ WithIv(c).size = n + PadLength(n) + 16
      /\ WithIv(c).key = k /\ WithIv(c).of = of
    BY <1>3
<1>. QED  BY <1>1, <1>4, <1>5, <1>6 DEF Block, c

\* With another key there are bytes of noise, or a panic in a debug build.
LEMMA DecryptsToNoise ==
    ASSUME NEW of, NEW n \in Nat, NEW k, NEW other, other # k, NEW build \in Builds,
           NEW r \in Decrypt(Encrypt(of, n, k), other, build)
    PROVE  \/ r.how = "bytes" /\ r.of = "noise"
           \/ r.how = "panic" /\ r.of = "nothing" /\ build = "debug"
<1>. DEFINE c == Encrypt(of, n, k)
<1>1. c.key = k /\ c.size = n + PadLength(n)
    BY DEF Encrypt
<1>2. c.size # 0 /\ c.size % Block = 0
    BY <1>1, PadLengthBounds DEF Block
<1>. HIDE DEF c
<1>3. PICK last \in LastBytes(c, other) : r = Strip(c, other, last, build)
    BY <1>2 DEF Decrypt, c
<1>. QED  BY <1>1, <1>2, <1>3 DEF Strip, Unlocks, Result, Panicked

----------------------------------------------------------------------------
(***************************************************************************)
(* The inductive invariant.                                                *)
(***************************************************************************)
\* A value that has a key was enciphered with it, and the builder sets no other.
ValuesWellFormed ==
    /\ license.key_check.key # NoKey
       => license.key_check = WithIv(Encrypt("id", IdLength, license.key_check.key))
    /\ license.encrypted_value.key # NoKey
       => license.encrypted_value =
              WithIv(Encrypt("content_key", ContentKeyLength, license.encrypted_value.key))
    /\ origin # "elsewhere" /\ license.key_check.size # 0 => license.key_check.key # NoKey

\* A signature over the license's last key check was made by the builder's last
\* call: encryption() makes a new one every time.
SignatureIsLastCall ==
    origin # "elsewhere"
    => /\ license.dates = "offset"
       /\ license.iv <= Len(calls)
       /\ \A s \in license.signature :
             /\ s.over.iv <= license.iv
             /\ s.over.iv = license.iv
                => /\ calls # << >>
                   /\ calls[Len(calls)] = [call |-> "sign", own_key |-> s.own_key,
                                           chained |-> s.chained]
       /\ SignedLast => license.signature = SignatureOver(CanonicalJson(license), TRUE, TRUE)

\* What a reader past the key check knows.
PastKeyCheck == {"verify", "content_key", "key length", "resource", "length", "shown"}

ReadingKeys ==
    /\ step \in PastKeyCheck => license.key_check.key = reader.user_key
    /\ step \in {"resource", "length", "shown"}
       /\ license.encrypted_value.key = reader.user_key
       => key = ContentKey
    /\ step = "shown" /\ key = ContentKey /\ reader.resource.key = ContentKey
       => shown = "resource"

IInv ==
    /\ TypeOK /\ ValuesWellFormed /\ SignatureIsLastCall /\ ReadingKeys
    /\ RightPassphraseReads /\ WrongPassphraseStops /\ LibReadsWhatWasSigned
    /\ PanicNeedsMalformed

LEMMA CiphertextType ==
    ASSUME NEW of \in {"id", "content_key", "resource", "nothing"}, NEW n \in Nat,
           NEW k \in Keys \cup {NoKey}
    PROVE  /\ Encrypt(of, n, k) \in Ciphertexts
           /\ WithIv(Encrypt(of, n, k)) \in Ciphertexts
BY PadLengthBounds DEF Encrypt, WithIv, Ciphertexts, Block

LEMMA MalformedType == \A n \in Nat : Malformed(n) \in Ciphertexts
BY DEF Malformed, Ciphertexts

LEMMA CanonicalType == \A l \in Licenses : CanonicalJson(l) \in Texts
BY DEF Licenses, CanonicalJson, Texts, DateFormats

LEMMA InitIInv == Init => IInv
<1>. SUFFICES ASSUME Init PROVE IInv
    OBVIOUS
<1>1. TypeOK
  <2>1. license \in Licenses
      BY MalformedType DEF Init, Licenses, Unset, DateFormats, NoSignature
  <2>. QED  BY <2>1, BuilderAssumption DEF Init, TypeOK, Steps, Calls, NoReader, Readers
<1>. QED
    BY <1>1 DEF Init, IInv, ValuesWellFormed, SignatureIsLastCall, ReadingKeys, PastKeyCheck,
        RightPassphraseReads, WrongPassphraseStops, LibReadsWhatWasSigned,
        PanicNeedsMalformed, Unset, Malformed, NoSignature, SignedLast

----------------------------------------------------------------------------
(***************************************************************************)
(* Building.  Nobody reads yet, so what is left to show is about the       *)
(* license.                                                                *)
(***************************************************************************)
LEMMA BeforeReading ==
    ASSUME step' = "none"
    PROVE  ReadingKeys' /\ RightPassphraseReads' /\ WrongPassphraseStops'
           /\ LibReadsWhatWasSigned' /\ PanicNeedsMalformed'
BY DEF ReadingKeys, PastKeyCheck, RightPassphraseReads, WrongPassphraseStops,
    LibReadsWhatWasSigned, PanicNeedsMalformed

LEMMA EncryptionKeeps ==
    ASSUME IInv, NEW wrapped \in UserKeys, NEW checked \in UserKeys,
           Encryption(wrapped, checked)
    PROVE  IInv'
<1>. USE DEF IInv
<1>. DEFINE call == [call |-> "encryption", wrapped |-> wrapped, checked |-> checked]
            c == WithIv(Encrypt("id", IdLength, checked))
            e == WithIv(Encrypt("content_key", ContentKeyLength, wrapped))
<1>1. /\ origin = "none" /\ origin' = "none" /\ step' = step /\ reader' = reader
      /\ key' = key /\ shown' = shown /\ Len(calls) < MaxCalls
      /\ calls' = Append(calls, call)
      /\ license' = [license EXCEPT !.key_check = c, !.iv = Len(calls) + 1,
                                    !.encrypted_value = e]
    BY DEF Encryption, Calling
<1>2. step = "none"
    BY <1>1 DEF TypeOK
<1>3. c \in Ciphertexts /\ e \in Ciphertexts /\ c.key = checked /\ e.key = wrapped
    BY CiphertextType, IvComesOff DEF UserKeys, IdLength, ContentKeyLength
<1>4. checked # NoKey /\ wrapped # NoKey
    BY CipherAssumption DEF UserKeys
<1>5. call \in Calls /\ calls \in Seq(Calls) /\ Len(calls') = Len(calls) + 1
    BY <1>1 DEF TypeOK, Calls
<1>. HIDE DEF c, e, call
<1>6. license \in Licenses /\ license' \in Licenses
  <2>1. license \in Licenses /\ Len(calls) + 1 \in Nat
      BY <1>5 DEF TypeOK
  <2>. QED  BY <1>1, <1>3, <2>1 DEF Licenses
<1>7. /\ license'.key_check = c /\ license'.encrypted_value = e
      /\ license'.iv = Len(calls) + 1 /\ license'.signature = license.signature
      /\ license'.dates = license.dates
    BY <1>1, <1>6 DEF Licenses
<1>8. TypeOK'
    BY <1>1, <1>5, <1>6, BuilderAssumption DEF TypeOK
<1>9. ValuesWellFormed'
    BY <1>3, <1>4, <1>7 DEF ValuesWellFormed, c, e
<1>10. SignatureIsLastCall'
  <2>1. \A s \in license.signature : s.over.iv \in Nat /\ s.over.iv < Len(calls) + 1
    <3>. SUFFICES ASSUME NEW s \in license.signature
                  PROVE  s.over.iv \in Nat /\ s.over.iv < Len(calls) + 1
        OBVIOUS
    <3>1. s.over.iv \in Nat /\ license.iv \in Nat /\ Len(calls) \in Nat
        BY <1>5, <1>6 DEF Licenses, Signatures, Texts
    <3>2. s.over.iv <= license.iv /\ license.iv <= Len(calls)
        BY <1>1 DEF SignatureIsLastCall
    <3>. QED  BY <3>1, <3>2
  <2>2. ~ SignedLast'
      BY <1>1, <1>5 DEF SignedLast, call
  <2>3. license'.dates = "offset"
      BY <1>1, <1>7 DEF SignatureIsLastCall
  <2>4. Len(calls) \in Nat
      BY <1>5
  <2>5. /\ license'.iv <= Len(calls')
        /\ \A s \in license'.signature : s.over.iv <= license'.iv /\ s.over.iv # license'.iv
      BY <1>5, <1>7, <2>1, <2>4
  <2>. QED  BY <2>2, <2>3, <2>5 DEF SignatureIsLastCall
<1>. QED  BY <1>1, <1>2, <1>8, <1>9, <1>10, BeforeReading

LEMMA SignKeeps ==
    ASSUME IInv, NEW own_key \in BOOLEAN, NEW chained \in BOOLEAN,
           SignWith(own_key, chained)
    PROVE  IInv'
<1>. USE DEF IInv
<1>. DEFINE call == [call |-> "sign", own_key |-> own_key, chained |-> chained]
            s0 == [over |-> CanonicalJson(license), own_key |-> own_key, chained |-> chained]
<1>1. /\ origin = "none" /\ origin' = "none" /\ step' = step /\ reader' = reader
      /\ key' = key /\ shown' = shown /\ Len(calls) < MaxCalls
      /\ calls' = Append(calls, call)
      /\ license' = [license EXCEPT !.signature = {s0}]
    BY DEF SignWith, Calling, SignatureOver
<1>2. step = "none" /\ license \in Licenses
    BY <1>1 DEF TypeOK
<1>3. s0 \in Signatures /\ s0.over.iv = license.iv
    BY <1>2, CanonicalType DEF Signatures, CanonicalJson
<1>4. /\ call \in Calls /\ calls \in Seq(Calls) /\ Len(calls') = Len(calls) + 1
      /\ calls'[Len(calls')] = call /\ calls' # << >>
    BY <1>1 DEF TypeOK, Calls
<1>5. /\ license'.key_check = license.key_check
      /\ license'.encrypted_value = license.encrypted_value
      /\ license'.iv = license.iv /\ license'.signature = {s0}
      /\ license'.dates = license.dates
    BY <1>1, <1>2 DEF Licenses
<1>6. license' \in Licenses
    BY <1>1, <1>2, <1>3 DEF Licenses
<1>7. TypeOK'
    BY <1>1, <1>4, <1>6, BuilderAssumption DEF TypeOK
<1>8. ValuesWellFormed'
    BY <1>1, <1>5 DEF ValuesWellFormed
<1>9. SignatureIsLastCall'
  <2>1. license.iv \in Nat /\ Len(calls) \in Nat /\ license.iv <= Len(calls)
      BY <1>1, <1>2, <1>4 DEF Licenses, SignatureIsLastCall
  <2>2. CanonicalJson(license') = CanonicalJson(license)
      BY <1>5 DEF CanonicalJson
  <2>3. SignedLast' => own_key = TRUE /\ chained = TRUE
      BY <1>4 DEF SignedLast
  <2>4. SignedLast' => license'.signature = SignatureOver(CanonicalJson(license'), TRUE, TRUE)
      BY <1>5, <2>2, <2>3 DEF SignatureOver
  <2>5. license'.dates = "offset"
      BY <1>1, <1>5 DEF SignatureIsLastCall
  <2>6. license'.iv <= Len(calls')
      BY <1>4, <1>5, <2>1
  <2>7. ASSUME NEW s \in license'.signature
        PROVE  /\ s.over.iv <= license'.iv
               /\ calls' # << >>
               /\ calls'[Len(calls')] = [call |-> "sign", own_key |-> s.own_key,
                                         chained |-> s.chained]
    <3>1. s = s0
        BY <1>5, <2>7
    <3>2. s.own_key = own_key /\ s.chained = chained /\ s.over.iv = license.iv
        BY <1>3, <3>1
    <3>. QED  BY <1>4, <1>5, <2>1, <3>2
  <2>. QED  BY <2>4, <2>5, <2>6, <2>7 DEF SignatureIsLastCall
<1>. QED  BY <1>1, <1>2, <1>7, <1>8, <1>9, BeforeReading

LEMMA BuildKeeps == ASSUME IInv, Build PROVE IInv'
<1>1. step' = "none" /\ TypeOK'
    BY DEF IInv, TypeOK, Build
<1>2. ValuesWellFormed' /\ SignatureIsLastCall'
    BY DEF IInv, Build, ValuesWellFormed, SignatureIsLastCall, SignedLast
<1>. QED  BY <1>1, <1>2, BeforeReading DEF IInv

LEMMA ReceiveKeeps == ASSUME IInv, Receive PROVE IInv'
<1>1. PICK c \in ValuesOf("id", IdLength), e \in ValuesOf("content_key", ContentKeyLength),
           d \in DateFormats : license' = Document(c, e, d)
    BY DEF Receive
<1>2. origin' = "elsewhere" /\ UNCHANGED << calls, reader, step, key, shown >>
      /\ step = "none"
    BY DEF Receive, IInv, TypeOK
<1>3. c \in Ciphertexts /\ e \in Ciphertexts
    BY CiphertextType, MalformedType, BuilderAssumption
    DEF ValuesOf, UserKeys, IdLength, ContentKeyLength
<1>4. /\ c.key # NoKey => c = WithIv(Encrypt("id", IdLength, c.key))
      /\ e.key # NoKey => e = WithIv(Encrypt("content_key", ContentKeyLength, e.key))
    BY IvComesOff DEF ValuesOf, Malformed, IdLength, ContentKeyLength
<1>5. license' \in Licenses /\ license'.signature # NoSignature
  <2>. DEFINE t == [key_check |-> c, iv |-> 0, encrypted_value |-> e, dates |-> d]
  <2>1. t \in Texts
      BY <1>3 DEF Texts
  <2>2. [over |-> t, own_key |-> TRUE, chained |-> TRUE] \in Signatures
      BY <2>1 DEF Signatures
  <2>3. /\ SignatureOver(t, TRUE, TRUE) \in SUBSET Signatures
        /\ SignatureOver(t, TRUE, TRUE) # NoSignature
      BY <2>2 DEF SignatureOver, NoSignature
  <2>4. license' = [key_check |-> c, iv |-> 0, encrypted_value |-> e, dates |-> d,
                    signature |-> SignatureOver(t, TRUE, TRUE)]
      BY <1>1 DEF Document
  <2>. HIDE DEF t
  <2>. QED  BY <1>3, <2>3, <2>4 DEF Licenses
<1>6. TypeOK'
    BY <1>2, <1>5 DEF IInv, TypeOK
<1>7. ValuesWellFormed' /\ SignatureIsLastCall'
    BY <1>1, <1>2, <1>4 DEF ValuesWellFormed, SignatureIsLastCall, Document
<1>. QED  BY <1>2, <1>6, <1>7, BeforeReading DEF IInv

----------------------------------------------------------------------------
(***************************************************************************)
(* Reading.  The license stays as it is.                                   *)
(***************************************************************************)
LEMMA LicenseStays ==
    ASSUME ValuesWellFormed, SignatureIsLastCall, UNCHANGED << license, calls, origin >>
    PROVE  ValuesWellFormed' /\ SignatureIsLastCall'
BY DEF ValuesWellFormed, SignatureIsLastCall, SignedLast

LEMMA OpenKeeps == ASSUME IInv, NEW r \in Readers, Open(r) PROVE IInv'
<1>1. /\ reader' = r /\ step' = "key_check" /\ origin # "none"
      /\ UNCHANGED << license, calls, origin, key, shown >>
    BY DEF Open
<1>2. TypeOK'
    BY <1>1 DEF IInv, TypeOK, Steps
<1>3. ValuesWellFormed' /\ SignatureIsLastCall'
    BY <1>1, LicenseStays DEF IInv
<1>. QED
    BY <1>1, <1>2, <1>3 DEF IInv, ReadingKeys, PastKeyCheck, RightPassphraseReads, Endings,
        WrongPassphraseStops, LibReadsWhatWasSigned, PanicNeedsMalformed

\* A reader at work.
LEMMA ReaderType ==
    ASSUME TypeOK, step # "none"
    PROVE  /\ reader \in Readers /\ reader.user_key \in UserKeys
           /\ reader.user_key # NoKey /\ reader.build \in Builds
           /\ reader.length \in Nat /\ reader.resource \in Resources
           /\ origin # "none" /\ license \in Licenses
           /\ reader.front \in {"lib", "ffi"}
BY CipherAssumption, BuilderAssumption DEF TypeOK, Readers, UserKeys

\* What the key check gives.
LEMMA KeyCheckResult ==
    ASSUME IInv, step = "key_check",
           NEW r \in DecryptWithIv(license.key_check, reader.user_key, reader.build)
    PROVE  /\ r.how \in {"bytes", "error", "panic"}
           /\ license.key_check.key = reader.user_key => r.how = "bytes" /\ r.of = "id"
           /\ license.key_check.key # reader.user_key => r.of # "id"
           /\ license.key_check.key # NoKey /\ license.key_check.key # reader.user_key
              => r.how = "bytes" \/ (r.how = "panic" /\ reader.build = "debug")
           /\ r.how = "panic" /\ reader.build = "release"
              => license.key_check.size <= Block
<1>. DEFINE c == license.key_check  u == reader.user_key  b == reader.build
<1>1. c \in Ciphertexts /\ b \in Builds /\ u # NoKey /\ c.size \in Nat
    BY ReaderType DEF IInv, Licenses, Ciphertexts
<1>2. c.key # NoKey => c = WithIv(Encrypt("id", IdLength, c.key))
    BY DEF IInv, ValuesWellFormed
<1>3. CASE c.key # NoKey
  <2>. DEFINE p == Encrypt("id", IdLength, c.key)
  <2>1. c.size >= Block /\ AfterIv(c) = p /\ c.size = IdLength + 12 + Block
      BY <1>2, <1>3, IvComesOff, IdPad DEF IdLength
  <2>2. r \in Decrypt(p, u, b)
      BY <1>1, <2>1 DEF DecryptWithIv, Block
  <2>3. CASE c.key = u
      BY <1>1, <2>2, <2>3, DecryptsBack DEF IdLength, Result
  <2>4. CASE c.key # u
      BY <1>1, <2>2, <2>4, DecryptsToNoise DEF IdLength
  <2>. QED  BY <1>3, <2>3, <2>4 DEF Builds
<1>4. CASE c.key = NoKey
  <2>1. CASE c.size < Block
      BY <1>1, <1>4, <2>1 DEF DecryptWithIv, Panicked, Result, Block
  <2>2. CASE c.size >= Block
    <3>. DEFINE a == AfterIv(c)
    <3>1. a.key = NoKey /\ a.size = c.size - Block
        BY <1>1, <1>4 DEF AfterIv, Ciphertexts
    <3>2. r \in Decrypt(a, u, b)
        BY <1>1, <2>2 DEF DecryptWithIv, Block
    <3>. HIDE DEF a
    <3>3. CASE r = Failed
        BY <1>1, <1>4, <3>3 DEF Failed, Result
    <3>4. CASE \E last \in LastBytes(a, u) : r = Strip(a, u, last, b)
      <4>1. PICK last \in LastBytes(a, u) : r = Strip(a, u, last, b)
          BY <3>4
      <4>2. r = Panicked \/ (r.how = "bytes" /\ r.of = "noise")
          BY <1>1, <3>1, <4>1 DEF Strip, Unlocks, Result
      <4>3. r = Panicked /\ b = "release" => a.size = 0
          BY <4>1 DEF Strip, Panicked, Result
      <4>. QED
          BY <1>1, <1>4, <2>2, <3>1, <4>2, <4>3 DEF Panicked, Result, Block
    <3>. QED  BY <3>2, <3>3, <3>4 DEF Decrypt
  <2>. QED  BY <1>1, <2>1, <2>2 DEF Block
<1>. QED  BY <1>3, <1>4

LEMMA KeyCheckKeeps == ASSUME IInv, KeyCheck PROVE IInv'
<1>. USE DEF IInv
<1>1. step = "key_check" /\ UNCHANGED << license, calls, origin, reader, key, shown >>
    BY DEF KeyCheck, Goto
<1>2. PICK r \in DecryptWithIv(license.key_check, reader.user_key, reader.build) :
          step' = IF r.how = "panic" THEN "panic"
                  ELSE IF r.how = "error" /\ reader.front = "lib" THEN "cipher"
                  ELSE IF r.of # "id" THEN "incorrect"
                  ELSE IF reader.front = "lib" THEN "verify"
                  ELSE "content_key"
    BY DEF KeyCheck, Goto
<1>3. /\ reader \in Readers /\ reader.user_key # NoKey /\ origin # "none"
      /\ reader.build \in Builds
    BY <1>1, ReaderType
<1>4. step' \in {"panic", "cipher", "incorrect", "verify", "content_key"}
    BY <1>2
<1>5. TypeOK'
    BY <1>1, <1>3, <1>4 DEF TypeOK, Steps, Endings
<1>6. ValuesWellFormed' /\ SignatureIsLastCall'
    BY <1>1, LicenseStays
<1>7. step' \in {"verify", "content_key"} => license.key_check.key = reader.user_key
    BY <1>1, <1>2, KeyCheckResult
<1>8. ReadingKeys'
    BY <1>1, <1>4, <1>7 DEF ReadingKeys, PastKeyCheck
<1>9. license.key_check.key = reader.user_key => step' \in {"verify", "content_key"}
    BY <1>1, <1>2, KeyCheckResult
<1>10. RightPassphraseReads'
    BY <1>1, <1>9 DEF RightPassphraseReads, SignedLast, Consistent, Endings
<1>11. WrongPassphraseStops'
  <2>. SUFFICES ASSUME license.key_check.key # reader.user_key
                PROVE  /\ step' = "cipher" => reader.front = "lib"
                                              /\ license.key_check.key = NoKey
                       /\ step' = "panic" => reader.build = "debug"
                                             \/ license.key_check.size <= Block
      BY <1>1, <1>4, <1>7 DEF WrongPassphraseStops
  <2>1. step' = "cipher" => r.how = "error" /\ reader.front = "lib"
      BY <1>2
  <2>2. step' = "panic" => r.how = "panic"
      BY <1>2
  <2>. QED  BY <1>1, <1>3, <2>1, <2>2, KeyCheckResult DEF Builds
<1>12. LibReadsWhatWasSigned'
    BY <1>1, <1>2, <1>4 DEF LibReadsWhatWasSigned
<1>13. PanicNeedsMalformed'
  <2>. SUFFICES ASSUME step' = "panic"
                PROVE  \/ license.key_check.size <= Block
                       \/ reader.build = "debug" /\ license.key_check.key # reader.user_key
      BY <1>1 DEF PanicNeedsMalformed
  <2>1. r.how = "panic"
      BY <1>2
  <2>. QED  BY <1>1, <1>3, <2>1, KeyCheckResult DEF Builds
<1>. QED  BY <1>5, <1>6, <1>8, <1>10, <1>11, <1>12, <1>13

LEMMA VerifyKeeps == ASSUME IInv, VerifySignatureAndProvider PROVE IInv'
<1>. USE DEF IInv
<1>1. /\ step = "verify" /\ UNCHANGED << license, calls, origin, reader, key, shown >>
      /\ step' \in {"missing signature", "signature", "content_key"}
      /\ step' = "missing signature" => license.signature = NoSignature
      /\ step' = "signature" => ~ Verified(license)
      /\ step' = "content_key" => license.signature # NoSignature /\ Verified(license)
    BY DEF VerifySignatureAndProvider, Goto
<1>2. reader \in Readers /\ origin # "none" /\ license \in Licenses
    BY <1>1, ReaderType
<1>3. TypeOK'
    BY <1>1, <1>2 DEF TypeOK, Steps, Endings
<1>4. ValuesWellFormed' /\ SignatureIsLastCall'
    BY <1>1, LicenseStays
<1>5. ReadingKeys' /\ WrongPassphraseStops' /\ PanicNeedsMalformed'
    BY <1>1 DEF ReadingKeys, PastKeyCheck, WrongPassphraseStops, PanicNeedsMalformed
<1>6. ASSUME origin = "built", SignedLast PROVE step' = "content_key"
  <2>1. license.signature = SignatureOver(CanonicalJson(license), TRUE, TRUE)
      BY <1>6 DEF SignatureIsLastCall
  <2>2. Verified(license)
      BY <2>1 DEF SignatureOver, Verified
  <2>3. license.signature # NoSignature
      BY <1>2 DEF TypeOK
  <2>. QED  BY <1>1, <2>2, <2>3
<1>7. RightPassphraseReads'
    BY <1>1, <1>6 DEF RightPassphraseReads, SignedLast, Consistent, Endings
<1>8. LibReadsWhatWasSigned'
  <2>. SUFFICES ASSUME origin = "built", step' = "content_key" PROVE SignedLast
      BY <1>1 DEF LibReadsWhatWasSigned, SignedLast
  <2>1. PICK s \in license.signature :
            s.chained /\ s.own_key /\ s.over = CanonicalJson(license)
      BY <1>1 DEF Verified, NoSignature
  <2>2. s \in Signatures /\ s.over.iv = license.iv
      BY <1>2, <2>1 DEF Licenses, CanonicalJson
  <2>3. s.chained = TRUE /\ s.own_key = TRUE
      BY <2>1, <2>2 DEF Signatures
  <2>. QED  BY <2>1, <2>2, <2>3 DEF SignatureIsLastCall, SignedLast
<1>. QED  BY <1>3, <1>4, <1>5, <1>7, <1>8

LEMMA ContentKeyKeeps == ASSUME IInv, DecryptContentKey PROVE IInv'
<1>. USE DEF IInv
<1>. DEFINE e == license.encrypted_value  u == reader.user_key
<1>1. step = "content_key" /\ UNCHANGED << license, calls, origin, reader, shown >>
    BY DEF DecryptContentKey, Goto
<1>2. /\ reader \in Readers /\ u # NoKey /\ origin # "none"
      /\ reader.build \in Builds /\ license \in Licenses
    BY <1>1, ReaderType
<1>3. ValuesWellFormed' /\ SignatureIsLastCall'
    BY <1>1, LicenseStays
<1>4. license.key_check.key = u
    BY <1>1 DEF ReadingKeys, PastKeyCheck
<1>5. CASE e.size # EncryptedKeySize
  <2>1. step' = "key length" /\ key' = key
      BY <1>5 DEF DecryptContentKey, Goto
  <2>2. e.key # u
    <3>. SUFFICES ASSUME e.key = u PROVE FALSE
        OBVIOUS
    <3>1. e = WithIv(Encrypt("content_key", ContentKeyLength, u))
        BY <1>2 DEF ValuesWellFormed
    <3>2. e.size = ContentKeyLength + PadLength(ContentKeyLength) + Block
        BY <3>1, IvComesOff DEF ContentKeyLength
    <3>. QED  BY <1>5, <3>2, KeyPad DEF ContentKeyLength, EncryptedKeySize, Block
  <2>3. TypeOK'
      BY <1>1, <1>2, <2>1 DEF TypeOK, Steps, Endings
  <2>4. RightPassphraseReads'
      BY <1>1, <2>2 DEF RightPassphraseReads, Consistent
  <2>5. LibReadsWhatWasSigned'
      BY <1>1, <2>1 DEF LibReadsWhatWasSigned, SignedLast
  <2>. QED
      BY <1>1, <1>3, <1>4, <2>1, <2>3, <2>4, <2>5
      DEF ReadingKeys, PastKeyCheck, WrongPassphraseStops, PanicNeedsMalformed
<1>6. CASE e.size = EncryptedKeySize
  <2>1. PICK r \in Decrypt(AfterIv(e), u, reader.build) :
            /\ step' = IF r.how = "bytes" /\ r.len = ContentKeyLength THEN "resource"
                       ELSE "panic"
            /\ key' = IF r.of = "content_key" THEN ContentKey ELSE NoKey
      BY <1>6 DEF DecryptContentKey, Goto
  <2>2. step' \in {"resource", "panic"} /\ key' \in {ContentKey, NoKey}
      BY <2>1
  <2>3. e.key = u => step' = "resource" /\ key' = ContentKey
    <3>. SUFFICES ASSUME e.key = u PROVE step' = "resource" /\ key' = ContentKey
        OBVIOUS
    <3>1. e = WithIv(Encrypt("content_key", ContentKeyLength, u))
        BY <1>2 DEF ValuesWellFormed
    <3>2. AfterIv(e) = Encrypt("content_key", ContentKeyLength, u)
        BY <3>1, IvComesOff DEF ContentKeyLength
    <3>3. r = Result("bytes", "content_key", ContentKeyLength)
        BY <1>2, <2>1, <3>2, DecryptsBack DEF ContentKeyLength
    <3>. QED  BY <2>1, <3>3 DEF Result
  <2>4. TypeOK'
      BY <1>1, <1>2, <2>2 DEF TypeOK, Steps, Endings
  <2>5. ReadingKeys'
      BY <1>1, <1>4, <2>2, <2>3 DEF ReadingKeys, PastKeyCheck
  <2>6. RightPassphraseReads'
      BY <1>1, <2>3 DEF RightPassphraseReads, Consistent, Endings
  <2>7. PanicNeedsMalformed'
      BY <1>1, <1>4, <2>3 DEF PanicNeedsMalformed
  <2>8. LibReadsWhatWasSigned'
      BY <1>1 DEF LibReadsWhatWasSigned, SignedLast
  <2>. QED
      BY <1>1, <1>3, <1>4, <2>4, <2>5, <2>6, <2>7, <2>8 DEF WrongPassphraseStops
<1>. QED  BY <1>5, <1>6

LEMMA ResourceShape ==
    ASSUME NEW n \in Lengths, NEW k
    PROVE  /\ AfterIv(Resource(n, k)) = Encrypt("resource", n, k)
           /\ Resource(n, k).size = n + PadLength(n) + Block
           /\ Resource(n, k).key = k
           /\ Resource(n, k).of = "resource"
           /\ Resource(n, k).plain = n
<1>1. n \in Nat
    BY BuilderAssumption
<1>2. /\ AfterIv(Resource(n, k)) = Encrypt("resource", n, k)
      /\ Resource(n, k).size = n + PadLength(n) + Block
      /\ Resource(n, k).key = k
      /\ Resource(n, k).of = "resource"
    BY <1>1, IvComesOff DEF Resource
<1>3. Resource(n, k).plain = n
    BY DEF Resource, WithIv, Encrypt
<1>. QED  BY <1>2, <1>3

\* What the first resource gives: itself with its own key; otherwise noise, an error
\* or a panic, in a release build only if there are not two blocks.
LEMMA ResourceResult ==
    ASSUME NEW c \in Resources, NEW k \in {ContentKey, NoKey}, NEW build \in Builds,
           NEW r \in DecryptWithIv(c, k, build)
    PROVE  /\ r.how \in {"bytes", "error", "panic"}
           /\ r.of \in {"resource", "noise", "nothing"}
           /\ r.how = "panic" => \/ c.size <= Block
                                 \/ build = "debug" /\ (k = NoKey \/ c.key # ContentKey)
           /\ k = ContentKey => \A n \in Lengths :
                 c = Resource(n, ContentKey) => r = Result("bytes", "resource", n)
           /\ k = ContentKey /\ c.key = ContentKey => r.of = "resource"
<1>. USE BuilderAssumption, CipherAssumption
<1>1. CASE \E n \in Lengths, k2 \in {ContentKey, OtherKey} : c = Resource(n, k2)
  <2>1. PICK n \in Lengths, k2 \in {ContentKey, OtherKey} : c = Resource(n, k2)
      BY <1>1
  <2>. DEFINE p == Encrypt("resource", n, k2)
  <2>2. n \in Nat /\ PadLength(n) \in 1..16
      BY PadLengthBounds DEF Block
  <2>3. /\ AfterIv(c) = p /\ c.key = k2
        /\ c.size = n + PadLength(n) + Block /\ c.size >= Block
      BY <2>1, <2>2, ResourceShape DEF Block
  <2>4. r \in Decrypt(p, k, build)
      BY <2>2, <2>3 DEF DecryptWithIv, Block
  <2>. HIDE DEF p
  <2>5. CASE k = k2
    <3>1. r = Result("bytes", "resource", n)
        BY <2>2, <2>4, <2>5, DecryptsBack DEF p
    <3>2. \A m \in Lengths : c = Resource(m, ContentKey) => m = n
      <4>. SUFFICES ASSUME NEW m \in Lengths, c = Resource(m, ContentKey) PROVE m = n
          OBVIOUS
      <4>1. c.plain = m
          BY ResourceShape
      <4>2. c.plain = n
          BY <2>1, ResourceShape
      <4>. QED  BY <4>1, <4>2
    <3>. QED  BY <3>1, <3>2 DEF Result
  <2>6. CASE k # k2
    <3>1. \/ r.how = "bytes" /\ r.of = "noise"
          \/ r.how = "panic" /\ r.of = "nothing" /\ build = "debug"
        BY <2>2, <2>4, <2>6, DecryptsToNoise DEF p
    <3>2. ASSUME NEW m \in Lengths, k = ContentKey PROVE c # Resource(m, ContentKey)
        BY <2>3, <2>6, <3>2, ResourceShape
    <3>. QED  BY <2>3, <2>6, <3>1, <3>2
  <2>. QED  BY <2>5, <2>6
<1>2. CASE \E n \in Sizes : c = Malformed(n)
  <2>1. PICK n \in Sizes : c = Malformed(n)
      BY <1>2
  <2>2. n \in Nat /\ c.size = n /\ c.key = NoKey /\ c \in Ciphertexts
      BY <2>1, MalformedType DEF Malformed
  <2>3. \A m \in Lengths : c # Resource(m, ContentKey)
    <3>. SUFFICES ASSUME NEW m \in Lengths, c = Resource(m, ContentKey) PROVE FALSE
        OBVIOUS
    <3>. QED  BY <2>2, ResourceShape
  <2>4. r = Panicked => n <= Block \/ build = "debug"
    <3>1. CASE n < Block
        BY <2>2, <3>1 DEF Block
    <3>2. CASE n >= Block
      <4>. DEFINE a == AfterIv(c)
      <4>1. a.size = n - Block /\ r \in Decrypt(a, k, build)
          BY <2>2, <3>2 DEF AfterIv, Ciphertexts, DecryptWithIv, Block
      <4>. HIDE DEF a
      <4>2. r = Panicked => a.size = 0 \/ build = "debug"
          BY <4>1 DEF Decrypt, Strip, Panicked, Failed, Result
      <4>. QED  BY <2>2, <4>1, <4>2 DEF Block
    <3>. QED  BY <2>2, <3>1, <3>2 DEF Block
  <2>5. r \in {Panicked, Failed} \/ (r.how = "bytes" /\ r.of = "noise")
    <3>1. CASE n < Block
        BY <2>2, <3>1 DEF DecryptWithIv
    <3>2. CASE n >= Block
      <4>. DEFINE a == AfterIv(c)
      <4>1. a.key = NoKey /\ r \in Decrypt(a, k, build)
          BY <2>2, <3>2 DEF AfterIv, Ciphertexts, DecryptWithIv, Block
      <4>. HIDE DEF a
      <4>. QED  BY <4>1 DEF Decrypt, Strip, Unlocks, Result
    <3>. QED  BY <2>2, <3>1, <3>2 DEF Block
  <2>6. CASE r = Panicked
    <3>1. r.how = "panic" /\ r.of = "nothing"
        BY <2>6 DEF Panicked, Result
    <3>2. c.key # ContentKey
        BY <2>2
    <3>. QED  BY <2>2, <2>3, <2>4, <2>6, <3>1, <3>2
  <2>7. CASE r = Failed
      BY <2>2, <2>3, <2>7 DEF Failed, Result
  <2>8. CASE r.how = "bytes" /\ r.of = "noise"
      BY <2>2, <2>3, <2>8
  <2>. QED  BY <2>5, <2>6, <2>7, <2>8
<1>. QED  BY <1>1, <1>2 DEF Resources

LEMMA ResourceKeeps == ASSUME IInv, DecryptResource PROVE IInv'
<1>. USE DEF IInv
<1>. DEFINE u == reader.user_key  n == reader.length  c == reader.resource
<1>1. step = "resource" /\ UNCHANGED << license, calls, origin, reader, key >>
    BY DEF DecryptResource, Goto
<1>2. PICK r \in DecryptWithIv(c, key, reader.build) :
          /\ step' = IF r.how # "bytes" THEN WithoutBytes(r)
                     ELSE IF r.len # n THEN "length"
                     ELSE "shown"
          /\ shown' = r.of
    BY DEF DecryptResource, Goto
<1>3. /\ reader \in Readers /\ reader.build \in Builds /\ n \in Nat /\ n \in Lengths
      /\ origin # "none" /\ license \in Licenses /\ c \in Resources
      /\ key \in {ContentKey, NoKey}
    BY <1>1, ReaderType DEF TypeOK, Readers
<1>4. ValuesWellFormed' /\ SignatureIsLastCall'
    BY <1>1, LicenseStays
<1>5. /\ license.key_check.key = u
      /\ license.encrypted_value.key = u => key = ContentKey
    BY <1>1 DEF ReadingKeys, PastKeyCheck
<1>6. /\ r.how \in {"bytes", "error", "panic"}
      /\ r.of \in {"resource", "noise", "nothing"}
      /\ r.how = "panic" => \/ c.size <= Block
                            \/ /\ reader.build = "debug"
                               /\ key = NoKey \/ c.key # ContentKey
      /\ key = ContentKey /\ c = Resource(n, ContentKey) => r = Result("bytes", "resource", n)
      /\ key = ContentKey /\ c.key = ContentKey => r.of = "resource"
    BY <1>2, <1>3, ResourceResult
<1>7. /\ step' \in {"panic", "cipher", "length", "shown"}
      /\ shown' \in {"resource", "noise", "nothing"}
      /\ step' = "panic" => r.how = "panic"
    BY <1>2, <1>6 DEF WithoutBytes
<1>8. TypeOK'
    BY <1>1, <1>3, <1>7 DEF TypeOK, Steps, Endings
<1>9. ReadingKeys'
    BY <1>1, <1>2, <1>5, <1>6, <1>7 DEF ReadingKeys, PastKeyCheck
<1>10. RightPassphraseReads'
  <2>1. key = ContentKey /\ c = Resource(n, ContentKey) => step' = "shown" /\ shown' = "resource"
      BY <1>2, <1>6 DEF Result
  <2>. QED
      BY <1>1, <1>5, <2>1 DEF RightPassphraseReads, Consistent, Endings, SignedLast
<1>11. PanicNeedsMalformed'
  <2>1. key = NoKey => license.encrypted_value.key # u
      BY <1>5, CipherAssumption, BuilderAssumption
  <2>. QED  BY <1>1, <1>5, <1>6, <1>7, <2>1 DEF PanicNeedsMalformed
<1>12. LibReadsWhatWasSigned'
    BY <1>1 DEF LibReadsWhatWasSigned, SignedLast
<1>. QED
    BY <1>1, <1>4, <1>5, <1>8, <1>9, <1>10, <1>11, <1>12 DEF WrongPassphraseStops

----------------------------------------------------------------------------
LEMMA NextIInv == IInv /\ [Next]_vars => IInv'
<1>. SUFFICES ASSUME IInv, [Next]_vars PROVE IInv'
    OBVIOUS
<1>1. CASE UNCHANGED vars
  <2>. USE <1>1 DEF vars, IInv
  <2>1. TypeOK'
      BY DEF TypeOK
  <2>2. ValuesWellFormed' /\ SignatureIsLastCall'
      BY LicenseStays
  <2>3. ReadingKeys' /\ WrongPassphraseStops' /\ PanicNeedsMalformed'
      BY DEF ReadingKeys, WrongPassphraseStops, PanicNeedsMalformed
  <2>4. RightPassphraseReads' /\ LibReadsWhatWasSigned'
      BY DEF RightPassphraseReads, LibReadsWhatWasSigned, Consistent, SignedLast
  <2>. QED  BY <2>1, <2>2, <2>3, <2>4
<1>2. CASE \E wrapped, checked \in UserKeys : Encryption(wrapped, checked)
    BY <1>2, EncryptionKeeps
<1>3. CASE \E own_key, chained \in BOOLEAN : SignWith(own_key, chained)
    BY <1>3, SignKeeps
<1>4. CASE Build
    BY <1>4, BuildKeeps
<1>5. CASE Receive
    BY <1>5, ReceiveKeeps
<1>6. CASE \E r \in Readers : Open(r)
    BY <1>6, OpenKeeps
<1>7. CASE KeyCheck
    BY <1>7, KeyCheckKeeps
<1>8. CASE VerifySignatureAndProvider
    BY <1>8, VerifyKeeps
<1>9. CASE DecryptContentKey
    BY <1>9, ContentKeyKeeps
<1>10. CASE DecryptResource
    BY <1>10, ResourceKeeps
<1>. QED
    BY <1>1, <1>2, <1>3, <1>4, <1>5, <1>6, <1>7, <1>8, <1>9, <1>10 DEF Next

LEMMA Invariant == Spec => []IInv
BY InitIInv, NextIInv, PTL DEF Spec

\* The state of builder and reader is well typed: every length stays a natural
\* number, and what is built is signed.
THEOREM TypeCorrectLicense == Spec => []TypeOK
<1>1. IInv => TypeOK
    BY DEF IInv
<1>. QED  BY <1>1, Invariant, PTL

\* What the builder makes in the right order is read with its passphrase, whatever the
\* length of the publication's resource, the build and the number of calls.
THEOREM RightPassphraseAlwaysReads == Spec => []RightPassphraseReads
<1>1. IInv => RightPassphraseReads
    BY DEF IInv
<1>. QED  BY <1>1, Invariant, PTL

\* Another passphrase never gets past the key check, and in a release build it gets
\* its answer whenever there are two blocks to decipher.
THEOREM WrongPassphraseAlwaysStops == Spec => []WrongPassphraseStops
<1>1. IInv => WrongPassphraseStops
    BY DEF IInv
<1>. QED  BY <1>1, Invariant, PTL

\* What the library reads of a license that was built was signed after the last
\* change to it.
THEOREM LibAlwaysReadsWhatWasSigned == Spec => []LibReadsWhatWasSigned
<1>1. IInv => LibReadsWhatWasSigned
    BY DEF IInv
<1>. QED  BY <1>1, Invariant, PTL

\* Whatever the license and the archive, reading panics only on values without two
\* blocks, on a content key of another passphrase, or on noise in a debug build.
THEOREM PanicAlwaysNeedsMalformed == Spec => []PanicNeedsMalformed
<1>1. IInv => PanicNeedsMalformed
    BY DEF IInv
<1>. QED  BY <1>1, Invariant, PTL

\* Whatever the license and the archive, noise is shown only with a content key of
\* another passphrase or for a resource of another publication or of none.
THEOREM NoiseAlwaysNeedsMismatch == Spec => []NoiseNeedsMismatch
<1>1. IInv => NoiseNeedsMismatch
    BY CipherAssumption, BuilderAssumption
    DEF IInv, ReadingKeys, PastKeyCheck, NoiseNeedsMismatch
<1>. QED  BY <1>1, Invariant, PTL
=============================================================================
