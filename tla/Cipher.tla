------------------------------- MODULE Cipher -------------------------------
(***************************************************************************)
(* AES-256-CBC as crypto/cipher.rs and crypto/key.rs use it, down to the   *)
(* lengths they compute.  What is enciphered is symbolic, and so is what a *)
(* wrong key gives: noise, whose last byte may be any.  Lengths are usize  *)
(* arithmetic, which panics on overflow in a debug build and wraps in a    *)
(* release build.                                                          *)
(***************************************************************************)
EXTENDS Naturals

CONSTANTS
    Keys,       \* AES keys
    NoKey,      \* a key nobody enciphered anything with
    UsizeMax    \* the largest usize

Block == 16
Builds == {"debug", "release"}
ByteValues == 0..255

\* No length in memory is near the largest usize.
ASSUME CipherAssumption ==
    /\ NoKey \notin Keys
    /\ UsizeMax \in Nat /\ UsizeMax > 1023

(***************************************************************************)
(* size is the number of bytes there are; plain the length of what was     *)
(* enciphered.  PKCS#7 always adds a byte.                                 *)
(***************************************************************************)
\* Mutant: no padding after whole blocks.
PadLengthOfRest(n) == (Block - (n % Block)) % Block

PadLength(n) == Block - (n % Block)

Ciphertexts ==
    [of: {"id", "content_key", "resource", "nothing"}, plain: Nat,
     key: Keys \cup {NoKey}, size: Nat]

Encrypt(of, n, key) == [of |-> of, plain |-> n, key |-> key, size |-> n + PadLength(n)]

\* Bytes that nobody enciphered.
Malformed(size) == [of |-> "nothing", plain |-> 0, key |-> NoKey, size |-> size]

WithIv(c) == [c EXCEPT !.size = @ + Block]
AfterIv(c) == [c EXCEPT !.size = @ - Block]

----------------------------------------------------------------------------
(***************************************************************************)
(* Deciphering ends in bytes, in an error or in a panic.                   *)
(***************************************************************************)
Result(how, of, len) == [how |-> how, of |-> of, len |-> len]
Panicked == Result("panic", "nothing", 0)
Failed == Result("error", "nothing", 0)

Results ==
    [how: {"bytes", "error", "panic"},
     of: {"id", "content_key", "resource", "nothing", "noise"}, len: Nat]

Minus(a, b) == IF b <= a THEN a - b ELSE a + (UsizeMax + 1) - b

\* Vec::truncate does nothing when the vector is shorter already.
Truncated(size, len) == IF len < size THEN len ELSE size

\* Any other key gives noise, and so does every key on bytes that nobody enciphered.
Unlocks(key, c) == c.key # NoKey /\ key = c.key

\* The last byte of what the cipher gives back.
LastBytes(c, key) == IF Unlocks(key, c) THEN {PadLength(c.plain)} ELSE ByteValues

\* Mutant: a padding length that is too large panics in release builds as well.
StripChecked(c, key, last, build) ==
    IF last > c.size THEN Panicked
    ELSE Result("bytes", IF Unlocks(key, c) THEN c.of ELSE "noise",
                Truncated(c.size, Minus(c.size, last)))

Strip(c, key, last, build) ==
    IF c.size = 0 \/ (build = "debug" /\ last > c.size) THEN Panicked
    ELSE Result("bytes", IF Unlocks(key, c) THEN c.of ELSE "noise",
                Truncated(c.size, Minus(c.size, last)))

Decrypt(c, key, build) ==
    IF c.size % Block # 0 THEN {Failed}
    ELSE {Strip(c, key, last, build) : last \in LastBytes(c, key)}

\* The first 16 bytes are the initialization vector, if there are 16.
DecryptWithIv(c, key, build) ==
    IF c.size < Block THEN {Panicked} ELSE Decrypt(AfterIv(c), key, build)
=============================================================================
