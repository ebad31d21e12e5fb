-------------------------------- MODULE Crypto --------------------------------
(***************************************************************************)
(* core/crypto.py: what is done around the block cipher.  A byte is a bit, *)
(* a block Size of them, and the cipher under a key any permutation of the *)
(* blocks; the checksum is ideal, the text itself with the key.  A message *)
(* is encrypted, may be altered or cut on its way, and is decrypted.  The  *)
(* n-fold of RFC 3961 works on whole bytes, of 8 bits.                     *)
(***************************************************************************)
EXTENDS Naturals, Sequences, FiniteSets, FiniteSetsExt

CONSTANTS Nothing,         \* no such thing yet
          InvalidToken, \* what decrypt raises
          Size,         \* bytes in a block
          MaxData,      \* bound of the bytes of a message
          Keys,         \* permutations of the blocks
          FoldInput,    \* byte strings to fold
          FoldLength    \* lengths to fold them to

ASSUME SizeAssumption == Size \in Nat \ {0} /\ MaxData \in Nat
\* nfold refuses an empty input, and the length is that of a key.
ASSUME FoldAssumption ==
    FoldInput \subseteq Seq(0..255) \ {<<>>} /\ FoldLength \subseteq Nat \ {0}

VARIABLES key,      \* the keys of the two ends
          text,     \* what was encrypted, with its confounder
          sealed,   \* the bytes on the way: ciphertext and checksum
          altered,  \* they are not those of the sender (history)
          opened,   \* what decrypt returned, or InvalidToken
          fold      \* an n-fold: input, length, result

cryptoVars == <<key, text, sealed, altered, opened, fold>>

Bit == {0, 1}
Block == [1..Size -> Bit]
Text == UNION {[1..n -> Bit] : n \in Size..(Size + MaxData)}
Zeros(n) == [i \in 1..n |-> 0]
IV == Zeros(Size)

\* The cipher of a block is a permutation, for every key.
ASSUME KeysAssumption ==
    /\ Nothing \notin Keys
    /\ \A k \in Keys :
           /\ k \in [Block -> Block]
           /\ \A c \in Block : \E p \in Block : k[p] = c
           /\ \A p, q \in Block : k[p] = k[q] => p = q

Xor(a, b) ==
    LET n == IF Len(a) < Len(b) THEN Len(a) ELSE Len(b)
    IN  [i \in 1..n |-> (a[i] + b[i]) % 2]
From(s, i) == SubSeq(s, i + 1, Len(s))      \* s[i:]
To(s, i) == SubSeq(s, 1, i)                 \* s[:i]
Chunk(s, i) == SubSeq(s, Size * (i - 1) + 1, Size * i)
Inverted(k) == [c \in Block |-> CHOOSE p \in Block : k[p] = c]

\* MODE_CBC over whole blocks.
CbcBlocks(k, s) ==
    LET c[i \in 0..(Len(s) \div Size)] ==
            IF i = 0 THEN IV ELSE k[Xor(Chunk(s, i), c[i - 1])]
    IN  c
Joined(c, n) == [j \in 1..(n * Size) |-> c[(j - 1) \div Size + 1][((j - 1) % Size) + 1]]
CbcEncrypt(k, s) == Joined(CbcBlocks(k, s), Len(s) \div Size)
CbcDecrypt(k, s) ==
    LET p == [i \in 1..(Len(s) \div Size) |->
                 Xor(Inverted(k)[Chunk(s, i)], IF i = 1 THEN IV ELSE Chunk(s, i - 1))]
    IN  Joined(p, Len(s) \div Size)

\* The bytes of the last block and those before the last two.
Rest(n) == IF n % Size = 0 THEN Size ELSE n % Size
Prefix(n) == ((n + Size - 1) \div Size - 2) * Size
LastBlock(s) == IF s = <<>> THEN IV ELSE From(s, Len(s) - Size)

EncryptAesCts(k, s) ==
    IF Len(s) <= Size THEN CbcEncrypt(k, s \o Zeros(Size - Len(s)))
    ELSE LET d == Rest(Len(s))
             prefix == CbcEncrypt(k, To(s, Prefix(Len(s))))
             rest == From(s, Prefix(Len(s)))
             previous == k[Xor(To(rest, Size), LastBlock(prefix))]
             last == k[Xor(From(rest, Size) \o Zeros(Size - d), previous)]
         IN  prefix \o last \o To(previous, d)

\* The mutant completes the stolen block with the wrong end of the other.
DecryptAesCtsHead(k, c) ==
    IF Len(c) = Size THEN CbcDecrypt(k, c)
    ELSE LET d == Rest(Len(c))
             before == To(c, Prefix(Len(c)))
             rest == From(c, Prefix(Len(c)))
             prime == Inverted(k)[To(rest, Size)]
             previous == From(rest, Size) \o To(prime, Size - d)
         IN  CbcDecrypt(k, before)
             \o Xor(Inverted(k)[previous], LastBlock(before))
             \o Xor(To(prime, d), From(rest, Size))
DecryptAesCts(k, c) ==
    IF Len(c) = Size THEN CbcDecrypt(k, c)
    ELSE LET d == Rest(Len(c))
             before == To(c, Prefix(Len(c)))
             rest == From(c, Prefix(Len(c)))
             prime == Inverted(k)[To(rest, Size)]
             previous == From(rest, Size) \o From(prime, d)
         IN  CbcDecrypt(k, before)
             \o Xor(Inverted(k)[previous], LastBlock(before))
             \o Xor(To(prime, d), From(rest, Size))

\* HMAC: no two texts or keys share one.
Checksum(k, s) == <<k, s>>
Encrypt(k, s) == [cipher |-> EncryptAesCts(k, s), mac |-> Checksum(k, s)]
\* Too short, or not the checksum of what it decrypts to; without the confounder.
Decrypt(k, e) ==
    IF Len(e.cipher) < Size THEN InvalidToken
    ELSE LET s == DecryptAesCts(k, e.cipher)
         IN  IF e.mac = Checksum(k, s) THEN From(s, Size) ELSE InvalidToken

-----------------------------------------------------------------------------
(* n-fold *)

Gcd(a, b) == Max({d \in 1..a : a % d = 0 /\ b % d = 0})
Lcm(a, b) == (a * b) \div Gcd(a, b)
Pow2[n \in Nat] == IF n = 0 THEN 1 ELSE 2 * Pow2[n - 1]
BitsOf(bytes) ==
    [i \in 1..(8 * Len(bytes)) |->
        (bytes[(i - 1) \div 8 + 1] \div Pow2[7 - ((i - 1) % 8)]) % 2]
\* input[-rotation:] + input[:-rotation]
Rotated(bits, rotation) ==
    From(bits, Len(bits) - rotation) \o To(bits, Len(bits) - rotation)
FoldedBits(bytes, n) ==
    LET bits == BitsOf(bytes)
        in == Len(bits)
        turn == [r \in 0..(Lcm(in, 8 * n) \div in - 1) |-> Rotated(bits, (13 * r) % in)]
    IN  [j \in 1..Lcm(in, 8 * n) |-> turn[(j - 1) \div in][((j - 1) % in) + 1]]
Number(bits, offset, width) ==
    LET value[i \in 0..width] ==
            IF i = 0 THEN 0 ELSE 2 * value[i - 1] + bits[offset + i]
    IN  value[width]
Carried(total, width) == (total % Pow2[width]) + (total \div Pow2[width])
Chunks(bytes, n) ==
    LET bits == FoldedBits(bytes, n)
    IN  [i \in 1..(Len(bits) \div (8 * n)) |-> Number(bits, 8 * n * (i - 1), 8 * n)]
\* The mutant carries at the end only.
NfoldLate(bytes, n) ==
    LET chunk == Chunks(bytes, n)
        total[i \in 0..Len(chunk)] == IF i = 0 THEN 0 ELSE total[i - 1] + chunk[i]
    IN  Carried(total[Len(chunk)], 8 * n)
Nfold(bytes, n) ==
    LET chunk == Chunks(bytes, n)
        total[i \in 0..Len(chunk)] ==
            IF i = 0 THEN 0 ELSE Carried(total[i - 1] + chunk[i], 8 * n)
    IN  Carried(total[Len(chunk)], 8 * n)

-----------------------------------------------------------------------------
CryptoInit ==
    /\ key = Nothing /\ text = Nothing /\ sealed = Nothing /\ opened = Nothing
    /\ altered = FALSE /\ fold = Nothing

Seal(k, s) ==
    /\ key = Nothing /\ fold = Nothing
    /\ key' = k
    /\ text' = s
    /\ sealed' = Encrypt(k, s)
    /\ UNCHANGED <<altered, opened, fold>>

\* A byte is flipped, or the last ones are lost.
Flipped(c) == {[c EXCEPT ![i] = 1 - @] : i \in DOMAIN c}
Cut(c) == {To(c, n) : n \in 1..(Len(c) - 1)}
Alter ==
    /\ sealed # Nothing /\ opened = Nothing /\ ~altered
    /\ \E c \in Flipped(sealed.cipher) \cup Cut(sealed.cipher) :
           sealed' = [sealed EXCEPT !.cipher = c]
    /\ altered' = TRUE
    /\ UNCHANGED <<key, text, opened, fold>>

Open ==
    /\ sealed # Nothing /\ opened = Nothing
    /\ opened' = Decrypt(key, sealed)
    /\ UNCHANGED <<key, text, sealed, altered, fold>>

Fold(bytes, n) ==
    /\ fold = Nothing /\ key = Nothing
    /\ fold' = [bytes |-> bytes, length |-> n, result |-> Nfold(bytes, n)]
    /\ UNCHANGED <<key, text, sealed, altered, opened>>

CryptoNext ==
    \/ key = Nothing /\ \E k \in Keys, s \in Text : Seal(k, s)
    \/ Alter
    \/ Open
    \/ fold = Nothing /\ \E bytes \in FoldInput, n \in FoldLength : Fold(bytes, n)

-----------------------------------------------------------------------------
(* Properties *)

\* What decrypt returns is what was encrypted, whatever its length: one block, a
\* whole number of them, or a last one that steals from its neighbour.  And what
\* was altered or cut on the way is refused: the stealing never lets two
\* ciphertexts stand for one text.
OpensWhole ==
    opened # Nothing => opened = IF altered THEN InvalidToken ELSE From(text, Size)

\* The n-fold is the sum of its pieces with the carry brought round: it fits in
\* the bytes asked for, keeps the sum modulo 2^width - 1, and is zero only for a
\* zero input.
PieceSum(bytes, n) ==
    LET chunk == Chunks(bytes, n)
        sum[i \in 0..Len(chunk)] == IF i = 0 THEN 0 ELSE sum[i - 1] + chunk[i]
    IN  sum[Len(chunk)]
FoldIsSum ==
    fold # Nothing =>
        LET modulus == Pow2[8 * fold.length] - 1
            sum == PieceSum(fold.bytes, fold.length)
        IN  fold.result = IF sum = 0 THEN 0 ELSE ((sum - 1) % modulus) + 1
=============================================================================
