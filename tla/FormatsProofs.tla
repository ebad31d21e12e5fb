---------------------------- MODULE FormatsProofs ----------------------------
(***************************************************************************)
(* Proofs about Formats, for every size of a block and of a message and    *)
(* every set of keys that permute the blocks; and for any clients, realms  *)
(* and services, lifetimes, fineness of the clock, and numbers of ticks,   *)
(* tickets and key versions.                                               *)
(*                                                                         *)
(* Crypto: CBC decryption undoes encryption block by block, and no two     *)
(* ciphertexts decrypt to one text; both by counting the blocks.  A        *)
(* message whose last block is not whole is cut into the same three pieces *)
(* by either side: the blocks before the last two, the last but one, and   *)
(* what the last one left of its neighbour, whose rest comes back with it. *)
(* So what is on the way (OnTheWay) decrypts to what was encrypted, and    *)
(* anything else of its length to something else, which the checksum       *)
(* refuses.                                                                *)
(*                                                                         *)
(* The n-fold: what its recursive functions compute is found by counting   *)
(* (Iterate), and that each is one.  Carrying round keeps the sum but for  *)
(* a multiple of 2^w - 1, is at most 2^w, and never makes nothing of       *)
(* something (Keeps); the carry after the last piece takes the 2^w away.   *)
(*                                                                         *)
(* Wire: a credential is Sound if its labels, key and times are those of   *)
(* its ticket, for a server whose keys have its version.  What a message   *)
(* becomes by encoding and decoding is said once for each message; then a  *)
(* grant gives a sound credential, the file gives it back sound, and time  *)
(* and new keys leave it so.  What is in flight is either the request that *)
(* the client remembers (Requested) or an answer with its cause, its       *)
(* sound credential or the client's own stamp (Answered).                  *)
(***************************************************************************)
EXTENDS Formats, FiniteSetTheorems, SequenceTheorems, TLAPS

-----------------------------------------------------------------------------
(* Numbers, bits and bytes *)

\* A set of numbers with zero and each successor is all of them.
LEMMA Counting ==
    ASSUME NEW S \in SUBSET Nat, 0 \in S, \A n \in S : n + 1 \in S
    PROVE  \A n \in Nat : n \in S
<1> SUFFICES ASSUME NEW n \in Nat, n \notin S
             PROVE  FALSE
  OBVIOUS
<1> DEFINE T == Nat \ S
<1>1. PICK x \in T : \A y \in T : ~(<<y, x>> \in OpToRel(<, Nat))
  <2>1. T \subseteq Nat /\ T # {}
    OBVIOUS
  <2>2. QED
    BY <2>1, NatLessThanWellFounded, WFMin
<1>2. x # 0 /\ x - 1 \in Nat
  OBVIOUS
<1>3. x - 1 \in S
  <2> SUFFICES ASSUME x - 1 \in T
               PROVE  FALSE
    BY <1>2
  <2>1. <<x - 1, x>> \in OpToRel(<, Nat)
    BY <1>2 DEF OpToRel
  <2>2. QED
    BY <1>1, <2>1
<1> DEFINE y == x - 1
<1>4. y + 1 \in S
  <2>1. y \in S
    BY <1>3
  <2> HIDE DEF y
  <2>2. QED
    BY <2>1
<1>5. y + 1 = x /\ x \notin S
  BY <1>2
<1>6. QED
  BY <1>4, <1>5

\* What a number is made of, divided by d.
LEMMA DivMod ==
    ASSUME NEW d \in Nat \ {0}, NEW q \in Nat, NEW r \in 0..(d - 1)
    PROVE  (q * d + r) \div d = q /\ (q * d + r) % d = r
OBVIOUS

\* Every number is.
LEMMA Division ==
    ASSUME NEW d \in Nat \ {0}, NEW x \in Nat
    PROVE  \E q \in Nat, r \in 0..(d - 1) :
               x = q * d + r /\ x \div d = q /\ x % d = r
<1> DEFINE S == {y \in Nat : \E q \in Nat, r \in 0..(d - 1) : y = q * d + r}
<1>1. 0 \in S
  <2>1. 0 = 0 * d + 0 /\ 0 \in 0..(d - 1)
    OBVIOUS
  <2>2. QED
    BY <2>1
<1>2. ASSUME NEW y \in S
      PROVE  y + 1 \in S
  <2>1. PICK q \in Nat, r \in 0..(d - 1) : y = q * d + r
    OBVIOUS
  <2>2. CASE r = d - 1
    <3>1. (q + 1) * d = q * d + d
      OBVIOUS
    <3>2. y + 1 = (q + 1) * d + 0 /\ q + 1 \in Nat /\ 0 \in 0..(d - 1)
      BY <2>1, <2>2, <3>1
    <3>3. \E p \in Nat, t \in 0..(d - 1) : y + 1 = p * d + t
      <4> WITNESS q + 1 \in Nat, 0 \in 0..(d - 1)
      <4> QED
        BY <3>2
    <3>4. QED
      BY <3>3
  <2>3. CASE r # d - 1
    <3>1. q * d \in Nat
      OBVIOUS
    <3>2. y + 1 = q * d + (r + 1) /\ r + 1 \in 0..(d - 1)
      BY <2>1, <2>3, <3>1
    <3>3. QED
      BY <3>2
  <2>4. QED
    BY <2>2, <2>3
<1>3. x \in S
  <2> HIDE DEF S
  <2>1. S \in SUBSET Nat
    BY DEF S
  <2>2. QED
    BY <1>1, <1>2, <2>1, Counting
<1>4. QED
  BY <1>3, DivMod

\* A function on 1..n is a sequence.
LEMMA LenB ==
    ASSUME NEW n \in Nat, NEW a \in [1..n -> Bit]
    PROVE  a \in Seq(Bit) /\ Len(a) = n
OBVIOUS

\* Two strings of one length, xored ...
LEMMA XorIs ==
    ASSUME NEW n \in Nat, NEW a \in [1..n -> Bit], NEW b \in [1..n -> Bit]
    PROVE  Xor(a, b) = [i \in 1..n |-> (a[i] + b[i]) % 2]
<1>1. Len(a) = n /\ Len(b) = n
  BY LenB
<1>2. QED
  BY <1>1 DEF Xor

\* A bit xored twice.
LEMMA XorBit ==
    ASSUME NEW x \in Bit, NEW y \in Bit
    PROVE  (x + y) % 2 \in Bit /\ (((x+y)%2) + y) % 2 = x
BY DEF Bit

\* ... and xored again.
LEMMA XorBlock ==
    ASSUME NEW n \in Nat, NEW a \in [1..n -> Bit], NEW b \in [1..n -> Bit]
    PROVE  /\ Xor(a, b) \in [1..n -> Bit]
        /\ Xor(Xor(a,b),b) = a
<1>1. Xor(a, b) \in [1..n -> Bit]
  BY XorIs, XorBit
<1>2. Xor(Xor(a, b), b) = [i \in 1..n |-> (Xor(a, b)[i] + b[i]) % 2]
  BY <1>1, XorIs
<1>3. \A i \in 1..n : (Xor(a, b)[i] + b[i]) % 2 = a[i]
  BY XorIs, XorBit
<1>4. [i \in 1..n |-> (Xor(a, b)[i] + b[i]) % 2] = [i \in 1..n |-> a[i]]
  BY <1>3
<1>5. QED
  BY <1>1, <1>2, <1>4

\* s[i:] and its bytes.
LEMMA FromSeq ==
    ASSUME NEW s \in Seq(Bit), NEW i \in 0..Len(s)
    PROVE  /\ From(s,i) \in Seq(Bit) /\ Len(From(s,i)) = Len(s) - i
           /\ \A j \in 1..(Len(s)-i) : From(s,i)[j] = s[i+j]
BY DEF From

\* s[:i] and its bytes.
LEMMA ToSeq ==
    ASSUME NEW s \in Seq(Bit), NEW i \in 0..Len(s)
    PROVE  /\ To(s,i) \in Seq(Bit) /\ Len(To(s,i)) = i
           /\ \A j \in 1..i : To(s,i)[j] = s[j]
BY DEF To

\* Two strings put together.
LEMMA CatSeq ==
    ASSUME NEW s \in Seq(Bit), NEW t \in Seq(Bit)
    PROVE  /\ s \o t \in Seq(Bit) /\ Len(s \o t) = Len(s) + Len(t)
           /\ \A j \in 1..Len(s) : (s \o t)[j] = s[j]
           /\ \A j \in 1..Len(t) : (s \o t)[Len(s) + j] = t[j]
OBVIOUS

\* Strings that agree everywhere are the same ...
LEMMA SeqEq ==
    ASSUME NEW s \in Seq(Bit), NEW t \in Seq(Bit), Len(s) = Len(t),
           \A i \in 1..Len(s) : s[i] = t[i]
    PROVE  s = t
OBVIOUS

\* A string is a function of its positions.
LEMMA SeqFcn ==
    ASSUME NEW s \in Seq(Bit)
    PROVE  s \in [1..Len(s) -> Bit]
OBVIOUS

\* n bytes from the middle.
LEMMA SubIs ==
    ASSUME NEW s \in Seq(Bit), NEW a \in Nat, NEW n \in Nat, a + n <= Len(s)
    PROVE  /\ SubSeq(s, a+1, a+n) \in [1..n -> Bit]
           /\ \A r \in 1..n : SubSeq(s,a+1,a+n)[r] = s[a+r]
<1> DEFINE t == SubSeq(s, a + 1, a + n)
<1>1. \A i \in (a + 1)..(a + n) : s[i] \in Bit
  OBVIOUS
<1>2. /\ t \in Seq(Bit)
      /\ Len(t) = IF a + 1 <= a + n THEN (a + n) - (a + 1) + 1 ELSE 0
      /\ \A i \in 1..((a + n) - (a + 1) + 1) : t[i] = s[(a + 1) + i - 1]
  BY <1>1, SubSeqProperties
<1> HIDE DEF t
<1>3. (a + n) - (a + 1) + 1 = n /\ \A i \in 1..n : (a + 1) + i - 1 = a + i
  OBVIOUS
<1>4. Len(t) = n /\ \A i \in 1..n : t[i] = s[a + i]
  BY <1>2, <1>3
<1>5. t \in [1..n -> Bit]
  BY <1>2, <1>4
<1>6. QED
  BY <1>4, <1>5 DEF t

\* More blocks, more bytes.
LEMMA MulMono ==
    ASSUME NEW a \in Nat, NEW b \in Nat, NEW d \in Nat, a <= b
    PROVE  a * d <= b * d
OBVIOUS

\* ... and so are functions.
LEMMA SameFunction ==
    ASSUME NEW D, NEW f \in [D -> Bit], NEW g \in [D -> Bit], \A x \in D : f[x] = g[x]
    PROVE  f = g
OBVIOUS

\* s cut and put together.
LEMMA Parts ==
    ASSUME NEW s \in Seq(Bit), NEW i \in 0..Len(s)
    PROVE  To(s,i) \o From(s,i) = s
<1>1. 1 \in 1..(Len(s) + 1) /\ i \in (1 - 1)..Len(s) /\ Len(s) \in i..Len(s)
  OBVIOUS
<1>2. SubSeq(s, 1, i) \o SubSeq(s, i + 1, Len(s)) = SubSeq(s, 1, Len(s))
  BY <1>1, ConcatAdjacentSubSeq
<1>3. SubSeq(s, 1, Len(s)) = s
  BY SubSeqFull
<1>4. QED
  BY <1>2, <1>3 DEF To, From

\* ... and put together and cut.
LEMMA Cuts ==
    ASSUME NEW a \in Seq(Bit), NEW b \in Seq(Bit)
    PROVE  To(a \o b, Len(a)) = a /\ From(a \o b, Len(a)) = b
<1> DEFINE s == a \o b
<1>1. s \in Seq(Bit) /\ Len(s) = Len(a) + Len(b) /\ (\A j \in 1..Len(a) : s[j] = a[j])
       /\ \A j \in 1..Len(b) : s[Len(a) + j] = b[j]
  BY CatSeq
<1> HIDE DEF s
<1>2. Len(a) \in 0..Len(s) /\ Len(s) - Len(a) = Len(b)
  BY <1>1
<1>3. To(s, Len(a)) = a
  <2> DEFINE t == To(s, Len(a))
  <2>1. t \in Seq(Bit) /\ Len(t) = Len(a) /\ \A j \in 1..Len(a) : t[j] = s[j]
    BY <1>1, <1>2, ToSeq
  <2> HIDE DEF t
  <2>2. t = a
    BY <1>1, <2>1, SeqEq
  <2>3. QED
    BY <2>2 DEF t
<1>4. From(s, Len(a)) = b
  <2> DEFINE t == From(s, Len(a))
  <2>1. /\ t \in Seq(Bit) /\ Len(t) = Len(b)
        /\ \A j \in 1..Len(b) : t[j] = s[Len(a) + j]
    BY <1>1, <1>2, FromSeq
  <2> HIDE DEF t
  <2>2. t = b
    BY <1>1, <2>1, SeqEq
  <2>3. QED
    BY <2>2 DEF t
<1>5. QED
  BY <1>3, <1>4 DEF s

\* The bytes of a block of s.
LEMMA ChunkIs ==
    ASSUME NEW m \in Nat, NEW s \in [1..(m * Size) -> Bit], NEW i \in 1..m
    PROVE  /\ Chunk(s, i) \in Block
           /\ \A r \in 1..Size : Chunk(s, i)[r] = s[Size * (i - 1) + r]
<1> DEFINE a == Size * (i - 1)
<1>1. a \in Nat /\ Size * i = a + Size
  BY SizeAssumption
<1>2. a + Size <= m * Size
  <2>1. i * Size <= m * Size
    BY SizeAssumption, MulMono
  <2>2. i * Size = Size * i
    BY SizeAssumption
  <2> HIDE DEF a
  <2>3. QED
    BY <1>1, <2>1, <2>2
<1>3. s \in Seq(Bit) /\ Len(s) = m * Size
  BY LenB, SizeAssumption
<1>4. Chunk(s, i) = SubSeq(s, a + 1, a + Size)
  BY <1>1 DEF Chunk
<1> HIDE DEF a
<1>5. QED
  <2> DEFINE t == SubSeq(s, a + 1, a + Size)
  <2>0. a + Size <= Len(s) /\ Size \in Nat
    BY <1>2, <1>3, SizeAssumption
  <2>1. t \in [1..Size -> Bit] /\ \A r \in 1..Size : t[r] = s[a + r]
    BY <2>0, <1>1, <1>3, SubIs
  <2>3. Chunk(s, i) \in Block /\ \A r \in 1..Size : Chunk(s, i)[r] = s[a + r]
    BY <1>4, <2>1 DEF Block
  <2>2. QED
    BY <2>3 DEF a

\* Where a byte lies.
LEMMA Position ==
    ASSUME NEW m \in Nat, NEW j \in 1..(m * Size)
    PROVE  \E i \in 1..m, r \in 1..Size :
              /\ j = Size * (i - 1) + r
              /\ (j - 1) \div Size + 1 = i
              /\ ((j - 1) % Size) + 1 = r
<1>1. j - 1 \in Nat
  OBVIOUS
<1>2. PICK q \in Nat, t \in 0..(Size - 1) :
         j - 1 = q * Size + t /\ (j - 1) \div Size = q /\ (j - 1) % Size = t
  BY <1>1, Division, SizeAssumption
<1>3. q < m
  <2> SUFFICES ASSUME m <= q
               PROVE  FALSE
    OBVIOUS
  <2>1. m * Size <= q * Size
    BY MulMono, SizeAssumption
  <2>2. QED
    BY <1>2, <2>1, SizeAssumption
<1>4. j = Size * ((q + 1) - 1) + (t + 1)
  <2>1. Size * ((q + 1) - 1) = q * Size
    BY SizeAssumption
  <2>2. QED
    BY <2>1, <1>2, SizeAssumption
<1>5. q + 1 \in 1..m /\ t + 1 \in 1..Size
  BY <1>3, SizeAssumption
<1> DEFINE i == q + 1
           r == t + 1
<1>6. i \in 1..m /\ r \in 1..Size
  BY <1>5
<1>7. /\ j = Size * (i - 1) + r /\ (j - 1) \div Size + 1 = i
      /\ ((j - 1) % Size) + 1 = r
  BY <1>2, <1>4
<1> HIDE DEF i, r
<1>8. QED
  BY <1>6, <1>7

\* j is the place of the r-th bit of the i-th of m blocks.
IsPlace(m, i, r, j) ==
    /\ j \in 1..(m * Size)
    /\ (j - 1) \div Size + 1 = i
    /\ ((j - 1) % Size) + 1 = r

\* ... and which byte that is.
LEMMA Place ==
    ASSUME NEW m \in Nat, NEW i \in 1..m, NEW r \in 1..Size
    PROVE  IsPlace(m, i, r, Size * (i - 1) + r)
<1> DEFINE j == Size * (i - 1) + r
<1>1. Size * (i - 1) \in Nat /\ Size * (i - 1) = (i - 1) * Size /\ i - 1 \in Nat
  BY SizeAssumption
<1>2. j - 1 = (i - 1) * Size + (r - 1) /\ r - 1 \in 0..(Size - 1)
  BY <1>1, SizeAssumption
<1>3. (j - 1) \div Size = i - 1 /\ (j - 1) % Size = r - 1
  <2> DEFINE q == i - 1
             t == r - 1
  <2>1. q \in Nat /\ t \in 0..(Size - 1) /\ j - 1 = q * Size + t
    BY <1>1, <1>2
  <2> HIDE DEF q, t, j
  <2>2. (j - 1) \div Size = q /\ (j - 1) % Size = t
    BY <2>1, DivMod, SizeAssumption
  <2>3. QED
    BY <2>2 DEF q, t
<1>4. Size * (i - 1) + Size <= m * Size
  <2>1. i * Size <= m * Size
    BY MulMono, SizeAssumption
  <2>2. i * Size = (i - 1) * Size + Size
    BY SizeAssumption
  <2>3. QED
    BY <1>1, <2>1, <2>2
<1>5. j \in 1..(m * Size)
  BY <1>1, <1>4, SizeAssumption
<1>6. QED
  BY <1>3, <1>5 DEF IsPlace

\* The blocks of what was joined.
LEMMA JoinedIs ==
    ASSUME NEW m \in Nat, NEW c, \A i \in 1..m : c[i] \in Block
    PROVE  /\ Joined(c, m) \in [1..(m * Size) -> Bit]
           /\ \A i \in 1..m : Chunk(Joined(c, m), i) = c[i]
<1> DEFINE s == Joined(c, m)
<1>1. ASSUME NEW j \in 1..(m * Size)
      PROVE  s[j] = c[(j - 1) \div Size + 1][((j - 1) % Size) + 1] /\ s[j] \in Bit
  <2>1. PICK i \in 1..m, r \in 1..Size :
              /\ j = Size * (i - 1) + r
              /\ (j - 1) \div Size + 1 = i
              /\ ((j - 1) % Size) + 1 = r
    BY Position
  <2>2. c[i][r] \in Bit
    BY DEF Block
  <2>3. s[j] = c[(j - 1) \div Size + 1][((j - 1) % Size) + 1]
    BY DEF Joined
  <2>4. QED
    BY <2>1, <2>2, <2>3
<1>2. s \in [1..(m * Size) -> Bit]
  BY <1>1 DEF Joined
<1>3. ASSUME NEW i \in 1..m
      PROVE  Chunk(s, i) = c[i]
  <2>1. /\ Chunk(s, i) \in Block
        /\ \A r \in 1..Size : Chunk(s, i)[r] = s[Size * (i - 1) + r]
    BY <1>2, ChunkIs
  <2>2. ASSUME NEW r \in 1..Size
        PROVE  Chunk(s, i)[r] = c[i][r]
    <3> DEFINE j == Size * (i - 1) + r
    <3>1. IsPlace(m, i, r, j)
      BY Place
    <3> HIDE DEF j, s
    <3>2. /\ j \in 1..(m * Size) /\ (j - 1) \div Size + 1 = i
          /\ ((j - 1) % Size) + 1 = r
      BY <3>1 DEF IsPlace
    <3>3. s[j] = c[i][r]
      BY <1>1, <3>2
    <3>4. QED
      BY <2>1, <3>3 DEF j
  <2>3. c[i] \in Block
    OBVIOUS
  <2> HIDE DEF s
  <2>4. QED
    <3> DEFINE f == Chunk(s, i)
               g == c[i]
    <3>1. /\ f \in [1..Size -> Bit] /\ g \in [1..Size -> Bit]
          /\ \A x \in 1..Size : f[x] = g[x]
      BY <2>1, <2>2, <2>3 DEF Block
    <3> HIDE DEF f, g
    <3>2. f = g
      BY <3>1, SameFunction
    <3>3. QED
      BY <3>2 DEF f, g
<1>4. QED
  BY <1>2, <1>3

\* Strings of the same blocks are the same.
LEMMA SameChunks ==
    ASSUME NEW m \in Nat, NEW s \in [1..(m * Size) -> Bit], NEW t \in [1..(m * Size) -> Bit],
           \A i \in 1..m : Chunk(s, i) = Chunk(t, i)
    PROVE  s = t
<1>1. ASSUME NEW j \in 1..(m * Size)
      PROVE  s[j] = t[j]
  <2>1. PICK i \in 1..m, r \in 1..Size : j = Size * (i - 1) + r
    BY Position
  <2>2. Chunk(s, i)[r] = s[j] /\ Chunk(t, i)[r] = t[j]
    BY <2>1, ChunkIs
  <2>3. QED
    BY <2>2
<1> DEFINE D == 1..(m * Size)
<1>2. s \in [D -> Bit] /\ t \in [D -> Bit] /\ \A j \in D : s[j] = t[j]
  BY <1>1
<1> HIDE DEF D
<1>3. QED
  BY <1>2, SameFunction

-----------------------------------------------------------------------------
(* CBC *)

Permuting(k) ==
    /\ k \in [Block -> Block]
    /\ \A c \in Block : \E p \in Block : k[p] = c
    /\ \A p, q \in Block : k[p] = k[q] => p = q

\* Inverted undoes the cipher, and the cipher Inverted.
LEMMA InverseIs ==
    ASSUME NEW k, Permuting(k)
    PROVE  /\ \A c \in Block : Inverted(k)[c] \in Block /\ k[Inverted(k)[c]] = c
           /\ \A p \in Block : k[p] \in Block /\ Inverted(k)[k[p]] = p
<1>1. ASSUME NEW c \in Block
      PROVE  Inverted(k)[c] \in Block /\ k[Inverted(k)[c]] = c
  <2>1. Inverted(k)[c] = CHOOSE p \in Block : k[p] = c
    BY DEF Inverted
  <2>2. QED
    BY <2>1 DEF Permuting
<1>2. ASSUME NEW p \in Block
      PROVE  k[p] \in Block /\ Inverted(k)[k[p]] = p
  <2>1. k[p] \in Block
    BY DEF Permuting
  <2>2. Inverted(k)[k[p]] \in Block /\ k[Inverted(k)[k[p]]] = k[p]
    BY <1>1, <2>1
  <2>3. QED
    BY <2>1, <2>2 DEF Permuting
<1>3. QED
  BY <1>1, <1>2

\* The initial vector is a block.
LEMMA InitialBlock == IV \in Block
BY SizeAssumption DEF IV, Zeros, Block, Bit

\* The same of blocks.
LEMMA XorBlocks ==
    ASSUME NEW a \in Block, NEW b \in Block
    PROVE  Xor(a, b) \in Block /\ Xor(Xor(a, b), b) = a
BY XorBlock, SizeAssumption DEF Block

\* What MODE_CBC computes over m blocks.
Chained(k, s, m, f) ==
    f = [i \in 0..m |-> IF i = 0 THEN IV ELSE k[Xor(Chunk(s, i), f[i - 1])]]

\* There is such a function, for any number of blocks.
LEMMA ChainExists ==
    ASSUME NEW k, NEW s, NEW m \in Nat
    PROVE  \E f : Chained(k, s, m, f)
<1> DEFINE S == {n \in Nat : \E f : Chained(k, s, n, f)}
<1>1. 0 \in S
  <2> DEFINE f == [i \in 0..0 |-> IV]
  <2>1. f = [i \in 0..0 |-> IF i = 0 THEN IV ELSE k[Xor(Chunk(s, i), f[i - 1])]]
    OBVIOUS
  <2> HIDE DEF f
  <2>2. Chained(k, s, 0, f)
    BY <2>1 DEF Chained
  <2>3. QED
    BY <2>2
<1>2. ASSUME NEW n \in S
      PROVE  n + 1 \in S
  <2>1. PICK f : Chained(k, s, n, f)
    OBVIOUS
  <2> DEFINE g == [i \in 0..(n + 1) |-> IF i = 0 THEN IV ELSE k[Xor(Chunk(s, i), f[i - 1])]]
  <2>2. f = [i \in 0..n |-> IF i = 0 THEN IV ELSE k[Xor(Chunk(s, i), f[i - 1])]]
    BY <2>1 DEF Chained
  <2>3. \A i \in 0..n : g[i] = f[i]
    <3>1. ASSUME NEW i \in 0..n
          PROVE  g[i] = f[i]
      <4>1. f[i] = IF i = 0 THEN IV ELSE k[Xor(Chunk(s, i), f[i - 1])]
        BY <2>2
      <4>2. i \in 0..(n + 1)
        OBVIOUS
      <4>3. QED
        BY <4>1, <4>2
    <3>2. QED
      BY <3>1
  <2>4. ASSUME NEW i \in 0..(n + 1)
        PROVE  (IF i = 0 THEN IV ELSE k[Xor(Chunk(s, i), f[i - 1])])
               = IF i = 0 THEN IV ELSE k[Xor(Chunk(s, i), g[i - 1])]
    <3>1. CASE i = 0
      BY <3>1
    <3>2. CASE i # 0
      <4> DEFINE j == i - 1
      <4>1. j \in 0..n
        BY <3>2
      <4> HIDE DEF j, g
      <4>2. g[j] = f[j]
        BY <4>1, <2>3
      <4>3. QED
        BY <4>2, <3>2 DEF j
    <3>3. QED
      BY <3>1, <3>2
  <2>5. g = [i \in 0..(n + 1) |-> IF i = 0 THEN IV ELSE k[Xor(Chunk(s, i), g[i - 1])]]
    <3> DEFINE a(i) == IF i = 0 THEN IV ELSE k[Xor(Chunk(s, i), f[i - 1])]
               b(i) == IF i = 0 THEN IV ELSE k[Xor(Chunk(s, i), g[i - 1])]
    <3>1. g = [i \in 0..(n + 1) |-> a(i)]
      OBVIOUS
    <3>2. \A i \in 0..(n + 1) : a(i) = b(i)
      BY <2>4
    <3> HIDE DEF a, b, g
    <3>3. g = [i \in 0..(n + 1) |-> b(i)]
      BY <3>1, <3>2
    <3>4. QED
      BY <3>3 DEF b
  <2> HIDE DEF g
  <2>6. Chained(k, s, n + 1, g)
    BY <2>5 DEF Chained
  <2>7. n + 1 \in Nat
    OBVIOUS
  <2>8. QED
    BY <2>6, <2>7
<1>3. m \in S
  <2> HIDE DEF S
  <2>1. S \in SUBSET Nat
    BY DEF S
  <2>2. QED
    BY <1>1, <1>2, <2>1, Counting
<1>4. QED
  BY <1>3

\* Its first block, its others, and their type.
LEMMA ChainIs ==
    ASSUME NEW k, Permuting(k), NEW m \in Nat, NEW s \in [1..(m * Size) -> Bit],
           NEW c, Chained(k, s, m, c)
    PROVE  /\ c[0] = IV
           /\ \A i \in 1..m : c[i] = k[Xor(Chunk(s, i), c[i - 1])]
           /\ \A i \in 0..m : c[i] \in Block
<1>1. c[0] = IV
  BY DEF Chained
<1>2. ASSUME NEW i \in 1..m
      PROVE  c[i] = k[Xor(Chunk(s, i), c[i - 1])]
  <2>1. i \in 0..m /\ i # 0
    OBVIOUS
  <2>2. c = [j \in 0..m |-> IF j = 0 THEN IV ELSE k[Xor(Chunk(s, j), c[j - 1])]]
    BY DEF Chained
  <2>3. c[i] = IF i = 0 THEN IV ELSE k[Xor(Chunk(s, i), c[i - 1])]
    BY <2>1, <2>2
  <2>4. QED
    BY <2>1, <2>3
<1> DEFINE S == {n \in Nat : n \in 0..m => c[n] \in Block}
<1>3. 0 \in S
  BY <1>1, InitialBlock
<1>4. ASSUME NEW n \in S
      PROVE  n + 1 \in S
  <2> SUFFICES ASSUME n + 1 \in 0..m
               PROVE  c[n + 1] \in Block
    OBVIOUS
  <2> DEFINE i == n + 1
  <2>1. i \in 1..m /\ i - 1 = n /\ c[n] \in Block
    OBVIOUS
  <2> HIDE DEF i, S
  <2>2. Chunk(s, i) \in Block
    BY <2>1, ChunkIs
  <2>3. c[i] = k[Xor(Chunk(s, i), c[n])]
    BY <1>2, <2>1
  <2>4. Xor(Chunk(s, i), c[n]) \in Block
    BY <2>1, <2>2, XorBlocks
  <2>5. QED
    BY <2>3, <2>4 DEF Permuting, i
<1>5. \A n \in Nat : n \in S
  <2> HIDE DEF S
  <2>1. S \in SUBSET Nat
    BY DEF S
  <2>2. QED
    BY <1>3, <1>4, <2>1, Counting
<1>6. QED
  BY <1>1, <1>2, <1>5

\* The block before the i-th of t.
Before(t, i) == IF i = 1 THEN IV ELSE Chunk(t, i - 1)

\* That is one too.
LEMMA BeforeIs ==
    ASSUME NEW m \in Nat, NEW t \in [1..(m * Size) -> Bit], NEW i \in 1..m
    PROVE  Before(t, i) \in Block
<1>1. CASE i = 1
  BY <1>1, InitialBlock DEF Before
<1>2. CASE i # 1
  <2> DEFINE j == i - 1
  <2>1. j \in 1..m
    BY <1>2
  <2> HIDE DEF j
  <2>2. Chunk(t, j) \in Block
    BY <2>1, ChunkIs
  <2>3. QED
    BY <1>2, <2>2 DEF Before, j
<1>3. QED
  BY <1>1, <1>2

\* The number of blocks of whole blocks.
LEMMA WholeBlocks ==
    ASSUME NEW m \in Nat, NEW s \in [1..(m * Size) -> Bit]
    PROVE  Len(s) = m * Size /\ Len(s) \div Size = m
<1>1. Len(s) = m * Size
  BY LenB, SizeAssumption
<1>2. m * Size + 0 = m * Size /\ 0 \in 0..(Size - 1)
  BY SizeAssumption
<1>3. (m * Size + 0) \div Size = m
  BY <1>2, DivMod, SizeAssumption
<1>4. QED
  BY <1>1, <1>2, <1>3

\* CBC encryption, block by block ...
LEMMA CbcEncryptIs ==
    ASSUME NEW k, Permuting(k), NEW m \in Nat, NEW s \in [1..(m * Size) -> Bit]
    PROVE  LET t == CbcEncrypt(k, s)
           IN  /\ t \in [1..(m * Size) -> Bit]
               /\ \A i \in 1..m : Chunk(t, i) = k[Xor(Chunk(s, i), Before(t, i))]
<1> DEFINE c == CbcBlocks(k, s)
           t == Joined(c, m)
<1>1. Len(s) \div Size = m
  BY WholeBlocks
<1>2. Chained(k, s, m, c)
  <2>1. c = CHOOSE f : Chained(k, s, m, f)
    BY <1>1 DEF CbcBlocks, Chained
  <2> HIDE DEF c
  <2>2. QED
    BY <2>1, ChainExists
<1> HIDE DEF c
<1>3. /\ c[0] = IV
      /\ \A i \in 1..m : c[i] = k[Xor(Chunk(s, i), c[i - 1])]
      /\ \A i \in 0..m : c[i] \in Block
  BY <1>2, ChainIs
<1>4. t \in [1..(m * Size) -> Bit] /\ \A i \in 1..m : Chunk(t, i) = c[i]
  BY <1>3, JoinedIs
<1>5. t = CbcEncrypt(k, s)
  BY <1>1 DEF CbcEncrypt, c
<1> HIDE DEF t
<1>6. ASSUME NEW i \in 1..m
      PROVE  Chunk(t, i) = k[Xor(Chunk(s, i), Before(t, i))]
  <2>1. Before(t, i) = c[i - 1]
    <3>1. CASE i = 1
      BY <3>1, <1>3 DEF Before
    <3>2. CASE i # 1
      <4> DEFINE j == i - 1
      <4>1. j \in 1..m
        BY <3>2
      <4> HIDE DEF j
      <4>2. Chunk(t, j) = c[j]
        BY <4>1, <1>4
      <4>3. QED
        BY <3>2, <4>2 DEF Before, j
    <3>3. QED
      BY <3>1, <3>2
  <2>2. QED
    BY <2>1, <1>3, <1>4
<1>7. QED
  BY <1>4, <1>5, <1>6

\* ... and decryption.
LEMMA CbcDecryptIs ==
    ASSUME NEW k, Permuting(k), NEW m \in Nat, NEW t \in [1..(m * Size) -> Bit]
    PROVE  LET s == CbcDecrypt(k, t)
           IN  /\ s \in [1..(m * Size) -> Bit]
               /\ \A i \in 1..m : Chunk(s, i) = Xor(Inverted(k)[Chunk(t, i)], Before(t, i))
<1> DEFINE p == [i \in 1..m |-> Xor(Inverted(k)[Chunk(t, i)], Before(t, i))]
           s == Joined(p, m)
<1>1. s = CbcDecrypt(k, t)
  BY WholeBlocks DEF CbcDecrypt, Before
<1>2. ASSUME NEW i \in 1..m
      PROVE  p[i] = Xor(Inverted(k)[Chunk(t, i)], Before(t, i)) /\ p[i] \in Block
  <2>1. Chunk(t, i) \in Block
    BY ChunkIs
  <2>2. Inverted(k)[Chunk(t, i)] \in Block
    BY <2>1, InverseIs
  <2>3. Before(t, i) \in Block
    BY BeforeIs
  <2>4. Xor(Inverted(k)[Chunk(t, i)], Before(t, i)) \in Block
    BY <2>2, <2>3, XorBlocks
  <2>5. QED
    BY <2>4
<1> HIDE DEF p
<1>3. s \in [1..(m * Size) -> Bit] /\ \A i \in 1..m : Chunk(s, i) = p[i]
  BY <1>2, JoinedIs
<1> HIDE DEF s
<1>4. QED
  BY <1>1, <1>2, <1>3

\* CBC decryption undoes encryption.
LEMMA CbcUndone ==
    ASSUME NEW k, Permuting(k), NEW m \in Nat, NEW s \in [1..(m * Size) -> Bit]
    PROVE  CbcDecrypt(k, CbcEncrypt(k, s)) = s
<1> DEFINE t == CbcEncrypt(k, s)
           r == CbcDecrypt(k, t)
<1>1. /\ t \in [1..(m * Size) -> Bit]
      /\ \A i \in 1..m : Chunk(t, i) = k[Xor(Chunk(s, i), Before(t, i))]
  BY CbcEncryptIs
<1> HIDE DEF t
<1>2. /\ r \in [1..(m * Size) -> Bit]
      /\ \A i \in 1..m : Chunk(r, i) = Xor(Inverted(k)[Chunk(t, i)], Before(t, i))
  BY <1>1, CbcDecryptIs
<1> HIDE DEF r
<1>3. ASSUME NEW i \in 1..m
      PROVE  Chunk(r, i) = Chunk(s, i)
  <2>1. Chunk(s, i) \in Block /\ Before(t, i) \in Block
    BY <1>1, ChunkIs, BeforeIs
  <2> DEFINE x == Xor(Chunk(s, i), Before(t, i))
  <2>2. x \in Block /\ Xor(x, Before(t, i)) = Chunk(s, i)
    BY <2>1, XorBlocks
  <2>3. Chunk(t, i) = k[x]
    BY <1>1
  <2> HIDE DEF x
  <2>4. Inverted(k)[Chunk(t, i)] = x
    BY <2>2, <2>3, InverseIs
  <2>5. QED
    BY <1>2, <2>2, <2>4
<1>4. r = s
  BY <1>2, <1>3, SameChunks
<1>5. QED
  BY <1>4 DEF r, t

\* An inverted block determines the block.
LEMMA InverseInjective ==
    ASSUME NEW k, Permuting(k), NEW a \in Block, NEW b \in Block, NEW x \in Block,
           Xor(Inverted(k)[a], x) = Xor(Inverted(k)[b], x)
    PROVE  a = b
<1>1. Inverted(k)[a] \in Block /\ Inverted(k)[b] \in Block
  BY InverseIs
<1>2. /\ Xor(Xor(Inverted(k)[a], x), x) = Inverted(k)[a]
      /\ Xor(Xor(Inverted(k)[b], x), x) = Inverted(k)[b]
  BY <1>1, XorBlocks
<1>3. Inverted(k)[a] = Inverted(k)[b]
  BY <1>2
<1>4. k[Inverted(k)[a]] = a /\ k[Inverted(k)[b]] = b
  BY InverseIs
<1>5. QED
  BY <1>3, <1>4

\* No two strings of blocks decrypt to one.
LEMMA CbcInjective ==
    ASSUME NEW k, Permuting(k), NEW m \in Nat,
           NEW t \in [1..(m * Size) -> Bit], NEW u \in [1..(m * Size) -> Bit],
           CbcDecrypt(k, t) = CbcDecrypt(k, u)
    PROVE  t = u
<1> DEFINE s == CbcDecrypt(k, t)
<1>1. \A i \in 1..m : Chunk(s, i) = Xor(Inverted(k)[Chunk(t, i)], Before(t, i))
  BY CbcDecryptIs
<1>2. \A i \in 1..m : Chunk(s, i) = Xor(Inverted(k)[Chunk(u, i)], Before(u, i))
  <2>1. s = CbcDecrypt(k, u)
    OBVIOUS
  <2> HIDE DEF s
  <2>2. QED
    BY <2>1, CbcDecryptIs
<1> HIDE DEF s
<1> DEFINE S == {n \in Nat : n \in 1..m => Chunk(t, n) = Chunk(u, n)}
<1>3. 0 \in S
  OBVIOUS
<1>4. ASSUME NEW n \in S
      PROVE  n + 1 \in S
  <2> DEFINE i == n + 1
  <2>1. n \in Nat /\ i \in Nat /\ i - 1 = n /\ (n \in 1..m => Chunk(t, n) = Chunk(u, n))
    OBVIOUS
  <2> HIDE DEF i, S
  <2> SUFFICES ASSUME i \in 1..m
               PROVE  Chunk(t, i) = Chunk(u, i)
    BY <2>1 DEF S, i
  <2>2. Before(t, i) = Before(u, i) /\ Before(t, i) \in Block
    <3>1. Before(t, i) = Before(u, i)
      <4>1. CASE i = 1
        BY <4>1 DEF Before
      <4>2. CASE i # 1
        <5>1. n \in 1..m
          BY <4>2, <2>1
        <5>2. QED
          BY <4>2, <5>1, <2>1 DEF Before
      <4>3. QED
        BY <4>1, <4>2
    <3>2. QED
      BY <3>1, BeforeIs
  <2>3. Xor(Inverted(k)[Chunk(t, i)], Before(t, i)) = Xor(Inverted(k)[Chunk(u, i)], Before(t, i))
    BY <1>1, <1>2, <2>2
  <2>4. Chunk(t, i) \in Block /\ Chunk(u, i) \in Block
    BY ChunkIs
  <2>5. QED
    BY <2>2, <2>3, <2>4, InverseInjective
<1>5. \A n \in Nat : n \in S
  <2> HIDE DEF S
  <2>1. S \in SUBSET Nat
    BY DEF S
  <2>2. QED
    BY <1>3, <1>4, <2>1, Counting
<1>6. \A i \in 1..m : Chunk(t, i) = Chunk(u, i)
  BY <1>5
<1>7. QED
  BY <1>6, SameChunks

-----------------------------------------------------------------------------
(* Ciphertext stealing *)

\* The whole blocks before the last two, and what is left of the last.
LEMMA Shape ==
    ASSUME NEW n \in Nat, n > Size
    PROVE  /\ \E m \in Nat : Prefix(n) = m * Size
           /\ Prefix(n) \in Nat
           /\ Rest(n) \in 1..Size
           /\ n = Prefix(n) + Size + Rest(n)
<1>1. n - 1 \in Nat
  BY SizeAssumption
<1>2. PICK q \in Nat, t \in 0..(Size - 1) : n - 1 = q * Size + t
  BY <1>1, Division, SizeAssumption
<1>3. q >= 1
  <2> SUFFICES ASSUME q = 0
               PROVE  FALSE
    OBVIOUS
  <2>1. q * Size = 0
    BY SizeAssumption
  <2>2. QED
    BY <2>1, <1>2, SizeAssumption
<1> DEFINE m == q - 1
<1>4. m \in Nat /\ q = m + 1
  BY <1>3
<1> HIDE DEF m
<1>5. /\ q * Size = m * Size + Size /\ (q + 1) * Size = q * Size + Size
      /\ m * Size \in Nat /\ q * Size \in Nat
  <2>1. (m + 1) * Size = m * Size + Size
    BY <1>4, SizeAssumption
  <2>2. QED
    BY <2>1, <1>4, SizeAssumption
<1>6. Prefix(n) = m * Size
  <2>1. n + Size - 1 = (q + 1) * Size + t /\ q + 1 \in Nat
    BY <1>2, <1>5, SizeAssumption
  <2>2. (n + Size - 1) \div Size = q + 1
    BY <2>1, DivMod, SizeAssumption
  <2>3. (q + 1) - 2 = m
    BY <1>4
  <2>4. QED
    BY <2>2, <2>3 DEF Prefix
<1>7. Rest(n) = t + 1
  <2>1. CASE t + 1 = Size
    <3>1. n = (q + 1) * Size + 0 /\ 0 \in 0..(Size - 1) /\ q + 1 \in Nat
      BY <1>2, <1>5, <2>1, SizeAssumption
    <3>2. n % Size = 0
      BY <3>1, DivMod, SizeAssumption
    <3>3. QED
      BY <3>2, <2>1 DEF Rest
  <2>2. CASE t + 1 # Size
    <3>1. n = q * Size + (t + 1) /\ t + 1 \in 0..(Size - 1)
      BY <1>2, <1>5, <2>2, SizeAssumption
    <3>2. n % Size = t + 1
      BY <3>1, DivMod, SizeAssumption
    <3>3. QED
      BY <3>2 DEF Rest
  <2>3. QED
    BY <2>1, <2>2
<1>8. n = m * Size + Size + (t + 1)
  BY <1>2, <1>5, SizeAssumption
<1>9. t + 1 \in 1..Size
  BY SizeAssumption
<1>10. \E x \in Nat : Prefix(n) = x * Size
  BY <1>4, <1>6
<1>11. QED
  BY <1>5, <1>6, <1>7, <1>8, <1>9, <1>10

\* Three pieces put together and taken apart.
LEMMA Taken ==
    ASSUME NEW q \in Seq(Bit), NEW r \in Seq(Bit), NEW t \in Seq(Bit)
    PROVE  LET w == q \o r \o t
           IN  /\ w \in Seq(Bit) /\ Len(w) = Len(q) + Len(r) + Len(t)
               /\ To(w, Len(q)) = q
               /\ To(From(w, Len(q)), Len(r)) = r
               /\ From(From(w, Len(q)), Len(r)) = t
<1> DEFINE v == r \o t
<1>1. q \o r \o t = q \o v
  BY ConcatAssociative
<1>2. /\ v \in Seq(Bit) /\ Len(v) = Len(r) + Len(t) /\ To(v, Len(r)) = r
      /\ From(v, Len(r)) = t
  BY CatSeq, Cuts
<1> HIDE DEF v
<1>3. q \o v \in Seq(Bit) /\ Len(q \o v) = Len(q) + Len(v)
      /\ To(q \o v, Len(q)) = q /\ From(q \o v, Len(q)) = v
  BY <1>2, CatSeq, Cuts
<1>4. Len(q) + (Len(r) + Len(t)) = Len(q) + Len(r) + Len(t)
  OBVIOUS
<1>5. QED
  BY <1>1, <1>2, <1>3, <1>4

\* Its length alone.
LEMMA LenJoined ==
    ASSUME NEW q \in Seq(Bit), NEW r \in Seq(Bit), NEW t \in Seq(Bit)
    PROVE  Len(q \o r \o t) = Len(q) + Len(r) + Len(t)
BY Taken

LEMMA Associative ==
    ASSUME NEW x \in Seq(Bit), NEW y \in Seq(Bit), NEW z \in Seq(Bit)
    PROVE  (x \o y) \o z = x \o (y \o z)
BY ConcatAssociative

\* What a string is cut into.
LEMMA Pieces ==
    ASSUME NEW w \in Seq(Bit), NEW p \in 0..Len(w), NEW e \in 0..(Len(w) - p)
    PROVE  /\ To(w, p) \in [1..p -> Bit]
           /\ To(From(w, p), e) \in [1..e -> Bit]
           /\ From(From(w, p), e) \in [1..(Len(w) - p - e) -> Bit]
           /\ w = To(w, p) \o To(From(w, p), e) \o From(From(w, p), e)
<1> DEFINE x == To(w, p)
           v == From(w, p)
           y == To(v, e)
           z == From(v, e)
<1>1. p \in 0..Len(w) /\ Len(w) - p \in Nat
  OBVIOUS
<1>2. x \in Seq(Bit) /\ Len(x) = p
  BY <1>1, ToSeq
<1>3. v \in Seq(Bit) /\ Len(v) = Len(w) - p
  BY <1>1, FromSeq
<1>4. w = x \o v
  BY <1>1, Parts
<1> HIDE DEF x, v
<1>5. e \in 0..Len(v) /\ Len(v) - e = Len(w) - p - e
  BY <1>3
<1>6. y \in Seq(Bit) /\ Len(y) = e
  BY <1>3, <1>5, ToSeq
<1>7. z \in Seq(Bit) /\ Len(z) = Len(w) - p - e
  BY <1>3, <1>5, FromSeq
<1>8. v = y \o z
  BY <1>3, <1>5, Parts
<1> HIDE DEF y, z
<1>9. w = x \o y \o z
  <2>1. x \o y \o z = x \o (y \o z)
    <3>1. x \in Seq(Bit) /\ y \in Seq(Bit) /\ z \in Seq(Bit)
      BY <1>2, <1>6, <1>7
    <3>2. QED
      BY <3>1, Associative
  <2>2. QED
    BY <1>4, <1>8, <2>1
<1>10. /\ x \in [1..p -> Bit] /\ y \in [1..e -> Bit]
       /\ z \in [1..(Len(w) - p - e) -> Bit]
  <2>1. x \in [1..p -> Bit]
    BY <1>2, SeqFcn
  <2>2. y \in [1..e -> Bit]
    BY <1>6, SeqFcn
  <2> DEFINE n == Len(w) - p - e
  <2>3. z \in Seq(Bit) /\ Len(z) = n
    BY <1>7
  <2> HIDE DEF n
  <2>4. z \in [1..n -> Bit]
    <3>1. z \in [1..Len(z) -> Bit]
      BY <2>3, SeqFcn
    <3>2. QED
      BY <2>3, <3>1
  <2>5. QED
    BY <2>1, <2>2, <2>4 DEF n
<1>11. QED
  BY <1>9, <1>10 DEF x, y, z, v

\* The last block of whole blocks, or the initial one.
LEMMA LastIs ==
    ASSUME NEW m \in Nat, NEW s \in [1..(m * Size) -> Bit]
    PROVE  LastBlock(s) \in Block
<1>1. CASE s = << >>
  BY <1>1, InitialBlock DEF LastBlock
<1>2. CASE s # << >>
  <2>1. s \in Seq(Bit) /\ Len(s) = m * Size
    BY LenB, SizeAssumption
  <2>2. Len(s) # 0
    BY <1>2, <2>1, EmptySeq
  <2>3. m # 0
    BY <2>1, <2>2, SizeAssumption
  <2>4. 1 * Size <= m * Size
    BY <2>3, MulMono, SizeAssumption
  <2> DEFINE i == Len(s) - Size
  <2>5. i \in 0..Len(s) /\ Len(s) - i = Size
    BY <2>1, <2>4, SizeAssumption
  <2> HIDE DEF i
  <2>6. From(s, i) \in Seq(Bit) /\ Len(From(s, i)) = Size
    BY <2>1, <2>5, FromSeq
  <2>7. From(s, i) \in [1..Size -> Bit]
    BY <2>6, SeqFcn
  <2>8. QED
    BY <1>2, <2>7 DEF LastBlock, Block, i
<1>3. QED
  BY <1>1, <1>2

\* The two ends of a block.
LEMMA Ends ==
    ASSUME NEW d \in 1..Size, NEW b \in Block
    PROVE  /\ To(b, d) \in [1..d -> Bit] /\ \A j \in 1..d : To(b, d)[j] = b[j]
           /\ From(b, d) \in [1..(Size - d) -> Bit]
           /\ \A j \in 1..(Size - d) : From(b, d)[j] = b[d + j]
           /\ To(b, d) \o From(b, d) = b
<1>1. b \in Seq(Bit) /\ Len(b) = Size
  BY LenB, SizeAssumption DEF Block
<1>2. d \in 0..Len(b)
  BY <1>1, SizeAssumption
<1>3. /\ To(b, d) \in Seq(Bit) /\ Len(To(b, d)) = d
      /\ \A j \in 1..d : To(b, d)[j] = b[j]
  BY <1>1, <1>2, ToSeq
<1>4. /\ From(b, d) \in Seq(Bit) /\ Len(From(b, d)) = Size - d
      /\ \A j \in 1..(Size - d) : From(b, d)[j] = b[d + j]
  BY <1>1, <1>2, FromSeq
<1>5. To(b, d) \o From(b, d) = b
  BY <1>1, <1>2, Parts
<1>6. To(b, d) \in [1..d -> Bit] /\ From(b, d) \in [1..(Size - d) -> Bit]
  BY <1>3, <1>4, SeqFcn
<1>7. QED
  BY <1>3, <1>4, <1>5, <1>6

\* ... put together.
LEMMA Whole ==
    ASSUME NEW d \in 1..Size, NEW a \in [1..d -> Bit], NEW z \in [1..(Size - d) -> Bit]
    PROVE  /\ a \o z \in Block
           /\ \A j \in 1..d : (a \o z)[j] = a[j]
           /\ \A j \in 1..(Size - d) : (a \o z)[d + j] = z[j]
           /\ To(a \o z, d) = a /\ From(a \o z, d) = z
<1>1. d \in Nat /\ Size - d \in Nat
  BY SizeAssumption
<1>2. a \in Seq(Bit) /\ Len(a) = d /\ z \in Seq(Bit) /\ Len(z) = Size - d
  BY <1>1, LenB
<1>3. a \o z \in Seq(Bit) /\ Len(a \o z) = d + (Size - d)
      /\ /\ (\A j \in 1..d : (a \o z)[j] = a[j])
         /\ \A j \in 1..(Size - d) : (a \o z)[d + j] = z[j]
  <2>1. a \o z \in Seq(Bit) /\ Len(a \o z) = Len(a) + Len(z)
        /\ (\A j \in 1..Len(a) : (a \o z)[j] = a[j])
        /\ \A j \in 1..Len(z) : (a \o z)[Len(a) + j] = z[j]
    BY <1>2, CatSeq
  <2>2. QED
    BY <2>1, <1>2
<1>4. To(a \o z, d) = a /\ From(a \o z, d) = z
  BY <1>2, Cuts
<1>5. d + (Size - d) = Size
  BY <1>1, SizeAssumption
<1>6. a \o z \in Block
  BY <1>3, <1>5, SeqFcn DEF Block
<1>7. QED
  BY <1>3, <1>4, <1>6

\* A part of a block and the rest of it.
LEMMA SubBlock ==
    ASSUME NEW d \in 1..Size
    PROVE  d \in Nat /\ Size \in Nat /\ Size - d \in Nat /\ d + (Size - d) = Size
BY SizeAssumption

\* The zeros a last block is filled with.
LEMMA PaddingIs ==
    ASSUME NEW d \in 1..Size
    PROVE  /\ Zeros(Size - d) \in [1..(Size - d) -> Bit]
           /\ \A j \in 1..(Size - d) : Zeros(Size - d)[j] = 0
BY DEF Zeros, Bit

\* Encryption by its pieces: whole blocks, the last of them, what it did not lend.
LEMMA CtsEncryptIs ==
    ASSUME NEW k, Permuting(k), NEW s \in Seq(Bit), Len(s) > Size
    PROVE  LET p == Prefix(Len(s))
               d == Rest(Len(s))
               a == To(From(s, p), Size)
               b == From(From(s, p), Size)
               x == CbcEncrypt(k, To(s, p))
               y == k[Xor(a, LastBlock(x))]
               z == k[Xor(b \o Zeros(Size - d), y)]
           IN  /\ EncryptAesCts(k, s) = x \o z \o To(y, d)
               /\ x \in [1..p -> Bit] /\ CbcDecrypt(k, x) = To(s, p)
               /\ LastBlock(x) \in Block
               /\ a \in Block /\ b \in [1..d -> Bit]
               /\ y \in Block /\ z \in Block
               /\ s = To(s, p) \o a \o b
<1> DEFINE p == Prefix(Len(s))
           d == Rest(Len(s))
           a == To(From(s, p), Size)
           b == From(From(s, p), Size)
           x == CbcEncrypt(k, To(s, p))
           l == LastBlock(x)
           y == k[Xor(a, l)]
           z == k[Xor(b \o Zeros(Size - d), y)]
<1>1. Len(s) \in Nat /\ ~(Len(s) <= Size)
  BY SizeAssumption
<1>2. EncryptAesCts(k, s) = x \o z \o To(y, d)
  BY <1>1 DEF EncryptAesCts
<1>3. /\ (\E m \in Nat : p = m * Size) /\ p \in Nat /\ d \in 1..Size
      /\ Len(s) = p + Size + d
  BY <1>1, Shape
<1> HIDE DEF p, d
<1>4. To(s, p) \in [1..p -> Bit] /\ a \in [1..Size -> Bit] /\ b \in [1..d -> Bit]
      /\ s = To(s, p) \o a \o b
  <2>1. p \in 0..Len(s) /\ Size \in 0..(Len(s) - p) /\ Len(s) - p - Size = d
    <3>1. p \in Nat /\ d \in Nat /\ Size \in Nat /\ Len(s) = p + Size + d
      BY <1>3, SubBlock
    <3>2. QED
      BY <3>1
  <2>2. QED
    BY <2>1, Pieces
<1>5. x \in [1..p -> Bit] /\ CbcDecrypt(k, x) = To(s, p) /\ l \in Block
  <2>1. PICK m \in Nat : p = m * Size
    BY <1>3
  <2>2. To(s, p) \in [1..(m * Size) -> Bit]
    BY <1>4, <2>1
  <2>3. x \in [1..(m * Size) -> Bit] /\ CbcDecrypt(k, x) = To(s, p)
    BY <2>2, CbcEncryptIs, CbcUndone
  <2>4. l \in Block
    BY <2>3, LastIs
  <2>5. QED
    BY <2>1, <2>3, <2>4
<1> HIDE DEF a, b, x, l
<1>6. a \in Block
  BY <1>4 DEF Block
<1>7. y \in Block
  <2>1. Xor(a, l) \in Block
    BY <1>5, <1>6, XorBlocks
  <2>2. QED
    BY <2>1, InverseIs
<1> HIDE DEF y
<1>8. z \in Block
  <2>1. b \o Zeros(Size - d) \in Block
    BY <1>3, <1>4, PaddingIs, Whole
  <2>2. Xor(b \o Zeros(Size - d), y) \in Block
    BY <1>7, <2>1, XorBlocks
  <2>3. QED
    BY <2>2, InverseIs
<1> HIDE DEF z
<1>9. QED
  BY <1>2, <1>4, <1>5, <1>6, <1>7, <1>8 DEF p, d, a, b, x, l, y, z

\* What decryption makes of the pieces of c.
Unstolen(k, c, p, d) ==
    LET x == To(c, p)
        z == To(From(c, p), Size)
        f == From(From(c, p), Size)
        g == Inverted(k)[z]
        y == f \o From(g, d)
    IN  /\ DecryptAesCts(k, c)
               = CbcDecrypt(k, x) \o Xor(Inverted(k)[y], LastBlock(x)) \o Xor(To(g, d), f)
        /\ CbcDecrypt(k, x) \in [1..p -> Bit]
        /\ Xor(Inverted(k)[y], LastBlock(x)) \in [1..Size -> Bit]
        /\ Xor(To(g, d), f) \in [1..d -> Bit]
        /\ x \in [1..p -> Bit] /\ z \in Block /\ f \in [1..d -> Bit]
        /\ g \in Block /\ y \in Block /\ LastBlock(x) \in Block
        /\ To(g, d) \in [1..d -> Bit]
        /\ c = x \o z \o f

\* Those pieces are what it is made from.
LEMMA CtsDecryptIs ==
    ASSUME NEW k, Permuting(k), NEW c \in Seq(Bit), Len(c) > Size
    PROVE  Unstolen(k, c, Prefix(Len(c)), Rest(Len(c)))
<1> DEFINE p == Prefix(Len(c))
           d == Rest(Len(c))
           x == To(c, p)
           z == To(From(c, p), Size)
           f == From(From(c, p), Size)
           g == Inverted(k)[z]
           y == f \o From(g, d)
<1>1. Len(c) \in Nat /\ Len(c) # Size
  BY SizeAssumption
<1>2. DecryptAesCts(k, c)
          = CbcDecrypt(k, x) \o Xor(Inverted(k)[y], LastBlock(x)) \o Xor(To(g, d), f)
  BY <1>1 DEF DecryptAesCts
<1>3. /\ (\E m \in Nat : p = m * Size) /\ p \in Nat /\ d \in 1..Size
      /\ Len(c) = p + Size + d
  BY <1>1, Shape
<1> HIDE DEF p, d
<1>4. /\ x \in [1..p -> Bit] /\ z \in [1..Size -> Bit] /\ f \in [1..d -> Bit]
      /\ c = x \o z \o f
  <2>1. p \in 0..Len(c) /\ Size \in 0..(Len(c) - p) /\ Len(c) - p - Size = d
    <3>1. p \in Nat /\ d \in Nat /\ Size \in Nat /\ Len(c) = p + Size + d
      BY <1>3, SubBlock
    <3>2. QED
      BY <3>1
  <2>2. QED
    BY <2>1, Pieces
<1> HIDE DEF x, z, f
<1>5. CbcDecrypt(k, x) \in [1..p -> Bit] /\ LastBlock(x) \in Block
  <2>1. PICK m \in Nat : p = m * Size
    BY <1>3
  <2>2. x \in [1..(m * Size) -> Bit]
    BY <1>4, <2>1
  <2>3. CbcDecrypt(k, x) \in [1..(m * Size) -> Bit] /\ LastBlock(x) \in Block
    BY <2>2, CbcDecryptIs, LastIs
  <2>4. QED
    BY <2>1, <2>3
<1>6. z \in Block
  BY <1>4 DEF Block
<1>7. g \in Block
  BY <1>6, InverseIs
<1> HIDE DEF g
<1>8. To(g, d) \in [1..d -> Bit] /\ From(g, d) \in [1..(Size - d) -> Bit]
  BY <1>3, <1>7, Ends
<1>9. y \in Block
  BY <1>3, <1>4, <1>8, Whole
<1> HIDE DEF y
<1>10. Inverted(k)[y] \in Block
  BY <1>9, InverseIs
<1>11. Xor(Inverted(k)[y], LastBlock(x)) \in [1..Size -> Bit]
  BY <1>5, <1>10, XorBlocks DEF Block
<1>12. Xor(To(g, d), f) \in [1..d -> Bit]
  BY <1>3, <1>4, <1>8, SubBlock, XorBlock
<1>13. QED
  BY <1>2, <1>4, <1>5, <1>6, <1>7, <1>8, <1>9, <1>11, <1>12 DEF Unstolen, p, d, x, z, f, g, y

\* What the last block steals comes back.
LEMMA StolenBack ==
    ASSUME NEW d \in 1..Size, NEW b \in [1..d -> Bit], NEW y \in Block
    PROVE  LET g == Xor(b \o Zeros(Size - d), y)
           IN  /\ From(g, d) = From(y, d)
               /\ Xor(To(g, d), To(y, d)) = b
<1> DEFINE w == b \o Zeros(Size - d)
           g == Xor(w, y)
<1>1. /\ w \in Block
      /\ \A j \in 1..d : w[j] = b[j]
      /\ \A j \in 1..(Size - d) : w[d + j] = 0
  <2> DEFINE n == Zeros(Size - d)
  <2>1. n \in [1..(Size - d) -> Bit] /\ \A j \in 1..(Size - d) : n[j] = 0
    BY PaddingIs
  <2> HIDE DEF n
  <2>2. /\ b \o n \in Block
        /\ \A j \in 1..d : (b \o n)[j] = b[j]
        /\ \A j \in 1..(Size - d) : (b \o n)[d + j] = n[j]
    BY <2>1, Whole
  <2>3. QED
    BY <2>1, <2>2 DEF n
<1> HIDE DEF w
<1>2. g \in Block /\ \A i \in 1..Size : g[i] = (w[i] + y[i]) % 2
  <2>1. w \in [1..Size -> Bit] /\ y \in [1..Size -> Bit] /\ Size \in Nat
    BY <1>1, SizeAssumption DEF Block
  <2>2. g = [i \in 1..Size |-> (w[i] + y[i]) % 2]
    BY <2>1, XorIs
  <2>3. g \in Block
    BY <1>1, XorBlocks
  <2>4. QED
    BY <2>2, <2>3
<1> HIDE DEF g
<1>3. /\ To(g, d) \in [1..d -> Bit] /\ \A j \in 1..d : To(g, d)[j] = g[j]
      /\ From(g, d) \in [1..(Size - d) -> Bit]
      /\ \A j \in 1..(Size - d) : From(g, d)[j] = g[d + j]
  BY <1>2, Ends
<1>4. /\ To(y, d) \in [1..d -> Bit] /\ \A j \in 1..d : To(y, d)[j] = y[j]
      /\ From(y, d) \in [1..(Size - d) -> Bit]
      /\ \A j \in 1..(Size - d) : From(y, d)[j] = y[d + j]
  BY Ends
<1>5. From(g, d) = From(y, d)
  <2>1. ASSUME NEW j \in 1..(Size - d)
        PROVE  From(g, d)[j] = From(y, d)[j]
    <3> DEFINE i == d + j
    <3>1. i \in 1..Size /\ w[i] = 0
      BY <1>1, SizeAssumption
    <3>2. y[i] \in Bit
      BY <3>1 DEF Block
    <3> HIDE DEF i
    <3>3. g[i] = y[i]
      BY <1>2, <3>1, <3>2 DEF Bit
    <3>4. QED
      BY <1>3, <1>4, <3>3 DEF i
  <2> DEFINE D == 1..(Size - d)
             q == From(g, d)
             t == From(y, d)
  <2>2. q \in [D -> Bit] /\ t \in [D -> Bit] /\ \A j \in D : q[j] = t[j]
    BY <1>3, <1>4, <2>1
  <2> HIDE DEF D, q, t
  <2>3. q = t
    BY <2>2, SameFunction
  <2>4. QED
    BY <2>3 DEF q, t
<1>6. To(g, d) = Xor(b, To(y, d))
  <2>1. Xor(b, To(y, d)) = [j \in 1..d |-> (b[j] + To(y, d)[j]) % 2]
    BY <1>4, SubBlock, XorIs
  <2>2. Xor(b, To(y, d)) \in [1..d -> Bit]
    BY <1>4, SubBlock, XorBlock
  <2>3. ASSUME NEW j \in 1..d
        PROVE  To(g, d)[j] = Xor(b, To(y, d))[j]
    <3>1. j \in 1..Size
      BY SizeAssumption
    <3>2. g[j] = (b[j] + y[j]) % 2
      BY <1>1, <1>2, <3>1
    <3>3. QED
      BY <1>3, <1>4, <2>1, <3>2
  <2>4. QED
    BY <1>3, <2>2, <2>3, SameFunction
<1>7. Xor(Xor(b, To(y, d)), To(y, d)) = b
  BY <1>4, SubBlock, XorBlock
<1>8. QED
  BY <1>5, <1>6, <1>7 DEF g, w

\* A message of one block is not padded.
LEMMA OneBlock ==
    ASSUME NEW s \in Seq(Bit), Len(s) = Size
    PROVE  s \in [1..(1 * Size) -> Bit] /\ s \o Zeros(Size - Len(s)) = s
<1>1. 1 * Size = Size /\ Size - Len(s) = 0
  BY SizeAssumption
<1>2. s \in [1..(1 * Size) -> Bit]
  BY <1>1, SeqFcn
<1>3. Zeros(0) = << >>
  <2>1. Zeros(0) \in Seq(Bit) /\ Len(Zeros(0)) = 0
    <3>1. Zeros(0) \in [1..0 -> Bit]
      BY DEF Zeros, Bit
    <3>2. QED
      BY <3>1, LenB
  <2>2. QED
    BY <2>1, EmptySeq
<1>4. s \o << >> = s
  BY ConcatEmptySeq
<1>5. QED
  BY <1>1, <1>2, <1>3, <1>4

\* Decryption undoes encryption.
LEMMA CtsUndone ==
    ASSUME NEW k, Permuting(k), NEW s \in Seq(Bit), Len(s) >= Size
    PROVE  LET c == EncryptAesCts(k, s)
           IN  c \in Seq(Bit) /\ Len(c) = Len(s) /\ DecryptAesCts(k, c) = s
<1>1. CASE Len(s) = Size
  <2> DEFINE c == CbcEncrypt(k, s)
  <2>1. s \in [1..(1 * Size) -> Bit] /\ s \o Zeros(Size - Len(s)) = s
    BY <1>1, OneBlock
  <2>2. EncryptAesCts(k, s) = c
    BY <1>1, <2>1, SizeAssumption DEF EncryptAesCts
  <2>3. c \in [1..(1 * Size) -> Bit] /\ CbcDecrypt(k, c) = s
    BY <2>1, CbcEncryptIs, CbcUndone
  <2>4. c \in Seq(Bit) /\ Len(c) = Size
    <3>1. 1 * Size = Size /\ Size \in Nat
      BY SizeAssumption
    <3>2. QED
      BY <2>3, <3>1, LenB
  <2> HIDE DEF c
  <2>5. DecryptAesCts(k, c) = s
    BY <2>3, <2>4 DEF DecryptAesCts
  <2>6. QED
    BY <1>1, <2>2, <2>4, <2>5
<1>2. CASE Len(s) > Size
  <2> DEFINE p == Prefix(Len(s))
             d == Rest(Len(s))
             a == To(From(s, p), Size)
             b == From(From(s, p), Size)
             x == CbcEncrypt(k, To(s, p))
             y == k[Xor(a, LastBlock(x))]
             z == k[Xor(b \o Zeros(Size - d), y)]
             c == x \o z \o To(y, d)
  <2>1. /\ EncryptAesCts(k, s) = c
        /\ x \in [1..p -> Bit] /\ CbcDecrypt(k, x) = To(s, p)
        /\ LastBlock(x) \in Block
        /\ a \in Block /\ b \in [1..d -> Bit]
        /\ y \in Block /\ z \in Block
        /\ s = To(s, p) \o a \o b
    BY <1>2, CtsEncryptIs
  <2>2. p \in Nat /\ d \in 1..Size /\ Len(s) = p + Size + d
    BY <1>2, Shape
  <2>3. y = k[Xor(a, LastBlock(x))] /\ z = k[Xor(b \o Zeros(Size - d), y)]
    OBVIOUS
  <2> DEFINE f == To(y, d)
  <2>4. f \in [1..d -> Bit]
    BY <2>1, <2>2, Ends
  <2> HIDE DEF p, d, a, b, x, y, z
  <2>5. c \in Seq(Bit) /\ Len(c) = p + Size + d /\ To(c, p) = x
        /\ To(From(c, p), Size) = z /\ From(From(c, p), Size) = f
    <3>1. p \in Nat /\ d \in Nat /\ Size \in Nat
      BY <2>2, SubBlock
    <3>2. z \in [1..Size -> Bit]
      BY <2>1 DEF Block
    <3>3. /\ x \in Seq(Bit) /\ Len(x) = p /\ z \in Seq(Bit) /\ Len(z) = Size
          /\ f \in Seq(Bit) /\ Len(f) = d
      BY <2>1, <2>4, <3>1, <3>2, LenB
    <3> HIDE DEF f
    <3>4. c = x \o z \o f
      BY DEF f
    <3> HIDE DEF c
    <3>5. c \in Seq(Bit) /\ Len(c) = Len(x) + Len(z) + Len(f) /\ To(c, Len(x)) = x
          /\ To(From(c, Len(x)), Len(z)) = z /\ From(From(c, Len(x)), Len(z)) = f
      <4>1. x \in Seq(Bit) /\ z \in Seq(Bit) /\ f \in Seq(Bit)
        BY <3>3
      <4>2. c \in Seq(Bit) /\ Len(c) = Len(x) + Len(z) + Len(f)
        BY <3>4, <4>1, Taken
      <4>3. To(c, Len(x)) = x
        BY <3>4, <4>1, Taken
      <4>4. To(From(c, Len(x)), Len(z)) = z /\ From(From(c, Len(x)), Len(z)) = f
        BY <3>4, <4>1, Taken
      <4> QED
        BY <4>2, <4>3, <4>4
    <3>6. QED
      BY <3>3, <3>5
  <2> HIDE DEF c, f
  <2>6. Len(c) = Len(s)
    BY <2>2, <2>5
  <2> DEFINE g == Inverted(k)[z]
  <2>7. g = Xor(b \o Zeros(Size - d), y)
    <3>1. b \o Zeros(Size - d) \in Block
      BY <2>1, <2>2, PaddingIs, Whole
    <3>2. Xor(b \o Zeros(Size - d), y) \in Block
      BY <2>1, <3>1, XorBlocks
    <3>3. QED
      BY <2>3, <3>2, InverseIs
  <2>8. From(g, d) = From(y, d) /\ Xor(To(g, d), f) = b
    <3> DEFINE h == Xor(b \o Zeros(Size - d), y)
    <3>1. From(h, d) = From(y, d) /\ Xor(To(h, d), To(y, d)) = b
      <4>1. d \in 1..Size /\ b \in [1..d -> Bit] /\ y \in Block
        BY <2>1, <2>2
      <4>2. QED
        BY <4>1, StolenBack
    <3> HIDE DEF h, g
    <3>2. g = h
      BY <2>7 DEF h
    <3>3. QED
      BY <3>1, <3>2 DEF f
  <2>9. f \o From(g, d) = y
    BY <2>1, <2>2, <2>8, Ends DEF f
  <2>10. Xor(Inverted(k)[y], LastBlock(x)) = a
    <3>1. /\ Xor(a, LastBlock(x)) \in Block
          /\ Xor(Xor(a, LastBlock(x)), LastBlock(x)) = a
      BY <2>1, XorBlocks
    <3>2. QED
      BY <2>3, <3>1, InverseIs
  <2>11. DecryptAesCts(k, c)
           = CbcDecrypt(k, x) \o Xor(Inverted(k)[f \o From(g, d)], LastBlock(x)) \o Xor(To(g, d), f)
    <3>1. Len(c) > Size
      BY <1>2, <2>6
    <3>2. Prefix(Len(c)) = p /\ Rest(Len(c)) = d
      BY <2>6 DEF p, d
    <3>3. Unstolen(k, c, p, d)
      BY <2>5, <3>1, <3>2, CtsDecryptIs
    <3>4. QED
      BY <2>5, <3>3 DEF Unstolen
  <2>12. DecryptAesCts(k, c) = s
    BY <2>1, <2>8, <2>9, <2>10, <2>11
  <2>13. QED
    BY <2>1, <2>5, <2>6, <2>12
<1>3. Len(s) \in Nat /\ Size \in Nat
  BY SizeAssumption
<1>4. QED
  BY <1>1, <1>2, <1>3

\* Decryption keeps the length.
LEMMA CtsLength ==
    ASSUME NEW k, Permuting(k), NEW c \in Seq(Bit), Len(c) >= Size
    PROVE  Len(DecryptAesCts(k, c)) = Len(c)
<1>1. CASE Len(c) = Size
  <2>1. c \in [1..(1 * Size) -> Bit]
    BY <1>1, OneBlock
  <2>2. CbcDecrypt(k, c) \in [1..(1 * Size) -> Bit]
    BY <2>1, CbcDecryptIs
  <2>3. 1 * Size = Size /\ Size \in Nat
    BY SizeAssumption
  <2>4. Len(CbcDecrypt(k, c)) = Size
    BY <2>2, <2>3, LenB
  <2>5. QED
    BY <1>1, <2>4 DEF DecryptAesCts
<1>2. CASE Len(c) > Size
  <2> DEFINE p == Prefix(Len(c))
             d == Rest(Len(c))
             x == To(c, p)
             z == To(From(c, p), Size)
             f == From(From(c, p), Size)
             g == Inverted(k)[z]
             y == f \o From(g, d)
             u == CbcDecrypt(k, x)
             v == Xor(Inverted(k)[y], LastBlock(x))
             w == Xor(To(g, d), f)
  <2>1. /\ DecryptAesCts(k, c) = u \o v \o w
        /\ u \in [1..p -> Bit] /\ v \in [1..Size -> Bit] /\ w \in [1..d -> Bit]
    BY <1>2, CtsDecryptIs DEF Unstolen
  <2>2. p \in Nat /\ d \in 1..Size /\ Len(c) = p + Size + d
    BY <1>2, Shape
  <2> HIDE DEF p, d, u, v, w
  <2>3. d \in Nat /\ Size \in Nat
    BY <2>2, SubBlock
  <2>4. Len(u \o v \o w) = p + Size + d
    <3>1. /\ u \in Seq(Bit) /\ Len(u) = p /\ v \in Seq(Bit) /\ Len(v) = Size
          /\ w \in Seq(Bit) /\ Len(w) = d
      BY <2>1, <2>2, <2>3, LenB
    <3>2. Len(u \o v \o w) = Len(u) + Len(v) + Len(w)
      BY <3>1, LenJoined
    <3>3. QED
      BY <3>1, <3>2
  <2>5. QED
    BY <2>1, <2>2, <2>4
<1>3. Len(c) \in Nat /\ Size \in Nat
  BY SizeAssumption
<1>4. QED
  BY <1>1, <1>2, <1>3

\* No two ciphertexts of one length decrypt to one text.
LEMMA CtsInjective ==
    ASSUME NEW k, Permuting(k), NEW c1 \in Seq(Bit), NEW c2 \in Seq(Bit),
           Len(c1) >= Size, Len(c2) = Len(c1),
           DecryptAesCts(k, c1) = DecryptAesCts(k, c2)
    PROVE  c1 = c2
<1>1. CASE Len(c1) = Size
  <2>1. c1 \in [1..(1 * Size) -> Bit] /\ c2 \in [1..(1 * Size) -> Bit]
    BY <1>1, OneBlock
  <2>2. CbcDecrypt(k, c1) = CbcDecrypt(k, c2)
    BY <1>1 DEF DecryptAesCts
  <2>3. QED
    BY <2>1, <2>2, CbcInjective
<1>2. CASE Len(c1) > Size
  <2> DEFINE p == Prefix(Len(c1))
             d == Rest(Len(c1))
             x(c) == To(c, p)
             z(c) == To(From(c, p), Size)
             f(c) == From(From(c, p), Size)
             g(c) == Inverted(k)[z(c)]
             y(c) == f(c) \o From(g(c), d)
             u(c) == CbcDecrypt(k, x(c))
             v(c) == Xor(Inverted(k)[y(c)], LastBlock(x(c)))
             w(c) == Xor(To(g(c), d), f(c))
             Split(c) ==
                 /\ DecryptAesCts(k, c) = u(c) \o v(c) \o w(c)
                 /\ u(c) \in [1..p -> Bit] /\ v(c) \in [1..Size -> Bit] /\ w(c) \in [1..d -> Bit]
                 /\ x(c) \in [1..p -> Bit] /\ z(c) \in Block /\ f(c) \in [1..d -> Bit]
                 /\ g(c) \in Block /\ y(c) \in Block /\ LastBlock(x(c)) \in Block
                 /\ To(g(c), d) \in [1..d -> Bit]
                 /\ c = x(c) \o z(c) \o f(c)
  <2>1. Split(c1)
    BY <1>2, CtsDecryptIs DEF Unstolen
  <2>2. Split(c2)
    <3>1. Len(c2) > Size /\ p = Prefix(Len(c2)) /\ d = Rest(Len(c2))
      BY <1>2
    <3> HIDE DEF p, d
    <3>2. Unstolen(k, c2, p, d)
      BY <3>1, CtsDecryptIs
    <3>3. QED
      BY <3>2 DEF Unstolen
  <2>3. (\E m \in Nat : p = m * Size) /\ p \in Nat /\ d \in 1..Size
    BY <1>2, Shape
  <2>4. d \in Nat /\ Size \in Nat
    BY <2>3, SubBlock
  <2> HIDE DEF p, d
  <2>5. u(c1) = u(c2) /\ v(c1) = v(c2) /\ w(c1) = w(c2)
    <3> HIDE DEF u, v, w, x, z, f, g, y
    <3> DEFINE s == DecryptAesCts(k, c1)
    <3>1. s = u(c1) \o v(c1) \o w(c1) /\ s = u(c2) \o v(c2) \o w(c2)
      BY <2>1, <2>2
    <3> HIDE DEF s
    <3>2. ASSUME NEW c, Split(c), s = u(c) \o v(c) \o w(c)
          PROVE  /\ To(s, p) = u(c) /\ To(From(s, p), Size) = v(c)
                 /\ From(From(s, p), Size) = w(c)
      <4>1. /\ u(c) \in Seq(Bit) /\ Len(u(c)) = p /\ v(c) \in Seq(Bit) /\ Len(v(c)) = Size
            /\ w(c) \in Seq(Bit) /\ Len(w(c)) = d
        BY <2>3, <2>4, <3>2, LenB
      <4>2. QED
        BY <3>2, <4>1, Taken
    <3> HIDE DEF Split
    <3>3. /\ To(s, p) = u(c1) /\ To(From(s, p), Size) = v(c1)
          /\ From(From(s, p), Size) = w(c1)
      BY <2>1, <3>1, <3>2
    <3>4. /\ To(s, p) = u(c2) /\ To(From(s, p), Size) = v(c2)
          /\ From(From(s, p), Size) = w(c2)
      BY <2>2, <3>1, <3>2
    <3>5. QED
      BY <3>3, <3>4
  <2>6. x(c1) = x(c2)
    <3>1. PICK m \in Nat : p = m * Size
      BY <2>3
    <3>2. CbcDecrypt(k, x(c1)) = CbcDecrypt(k, x(c2))
      BY <2>5
    <3>3. x(c1) \in [1..(m * Size) -> Bit] /\ x(c2) \in [1..(m * Size) -> Bit]
      BY <2>1, <2>2, <3>1
    <3> HIDE DEF x
    <3>4. QED
      BY <3>2, <3>3, CbcInjective
  <2>7. y(c1) = y(c2)
    <3>1. Xor(Inverted(k)[y(c1)], LastBlock(x(c1))) = Xor(Inverted(k)[y(c2)], LastBlock(x(c1)))
      BY <2>5, <2>6
    <3>2. y(c1) \in Block /\ y(c2) \in Block /\ LastBlock(x(c1)) \in Block
      BY <2>1, <2>2
    <3> HIDE DEF x, y
    <3>3. QED
      BY <3>1, <3>2, InverseInjective
  <2>8. f(c1) = f(c2) /\ From(g(c1), d) = From(g(c2), d)
    <3>1. y(c1) = f(c1) \o From(g(c1), d) /\ y(c2) = f(c2) \o From(g(c2), d)
      OBVIOUS
    <3>2. /\ f(c1) \in [1..d -> Bit] /\ g(c1) \in Block
          /\ f(c2) \in [1..d -> Bit] /\ g(c2) \in Block
      BY <2>1, <2>2
    <3> HIDE DEF f, g, y
    <3>3. /\ From(g(c1), d) \in [1..(Size - d) -> Bit]
          /\ From(g(c2), d) \in [1..(Size - d) -> Bit]
      BY <2>3, <3>2, Ends
    <3>4. To(y(c1), d) = f(c1) /\ From(y(c1), d) = From(g(c1), d)
      BY <2>3, <3>1, <3>2, <3>3, Whole
    <3>5. To(y(c2), d) = f(c2) /\ From(y(c2), d) = From(g(c2), d)
      BY <2>3, <3>1, <3>2, <3>3, Whole
    <3>6. QED
      BY <2>7, <3>4, <3>5
  <2>9. To(g(c1), d) = To(g(c2), d)
    <3>1. Xor(To(g(c1), d), f(c1)) = Xor(To(g(c2), d), f(c1))
      BY <2>5, <2>8
    <3>2. /\ f(c1) \in [1..d -> Bit] /\ To(g(c1), d) \in [1..d -> Bit]
          /\ To(g(c2), d) \in [1..d -> Bit]
      BY <2>1, <2>2
    <3> HIDE DEF f, g
    <3>3. Xor(Xor(To(g(c1), d), f(c1)), f(c1)) = To(g(c1), d)
      BY <2>4, <3>2, XorBlock
    <3>4. Xor(Xor(To(g(c2), d), f(c1)), f(c1)) = To(g(c2), d)
      BY <2>4, <3>2, XorBlock
    <3>5. QED
      BY <3>1, <3>3, <3>4
  <2>10. z(c1) = z(c2)
    <3>1. g(c1) \in Block /\ g(c2) \in Block
      BY <2>1, <2>2
    <3>2. g(c1) = Inverted(k)[z(c1)] /\ g(c2) = Inverted(k)[z(c2)]
      OBVIOUS
    <3>3. z(c1) \in Block /\ z(c2) \in Block
      BY <2>1, <2>2
    <3> HIDE DEF g, z
    <3>4. /\ g(c1) = To(g(c1), d) \o From(g(c1), d)
          /\ g(c2) = To(g(c2), d) \o From(g(c2), d)
      BY <2>3, <3>1, Ends
    <3>5. g(c1) = g(c2)
      BY <2>8, <2>9, <3>4
    <3>6. k[g(c1)] = z(c1) /\ k[g(c2)] = z(c2)
      BY <3>2, <3>3, InverseIs
    <3>7. QED
      BY <3>5, <3>6
  <2>11. c1 = x(c1) \o z(c1) \o f(c1) /\ c2 = x(c2) \o z(c2) \o f(c2)
    BY <2>1, <2>2
  <2> HIDE DEF x, z, f
  <2>12. QED
    BY <2>6, <2>8, <2>10, <2>11
<1>3. Len(c1) \in Nat /\ Size \in Nat
  BY SizeAssumption
<1>4. QED
  BY <1>1, <1>2, <1>3

-----------------------------------------------------------------------------
(* Sealing and opening *)

\* What is on the way is what was encrypted, or that with a byte flipped or its end
\* cut.
OnTheWay(k, s, e, a) ==
    /\ k \in Keys /\ s \in Text
    /\ LET c == EncryptAesCts(k, s)
       IN  \E u \in IF a THEN Flipped(c) \cup Cut(c) ELSE {c} :
              e = [cipher |-> u, mac |-> Checksum(k, s)]

Sealing ==
    /\ altered \in BOOLEAN
    /\ sealed = Nothing => opened = Nothing
    /\ key = Nothing => sealed = Nothing /\ ~altered
    /\ key # Nothing /\ (altered \/ sealed # Nothing) =>
           OnTheWay(key, text, sealed, altered)
    /\ OpensWhole

\* Every key of the model does.
LEMMA KeyPermutes ==
    ASSUME NEW k \in Keys
    PROVE  Permuting(k)
BY KeysAssumption DEF Permuting

\* What is encrypted has its confounder.
LEMMA TextIs ==
    ASSUME NEW s \in Text
    PROVE  s \in Seq(Bit) /\ Len(s) >= Size
<1>1. PICK n \in Size..(Size + MaxData) : s \in [1..n -> Bit]
  BY DEF Text
<1>2. n \in Nat /\ n >= Size
  BY SizeAssumption
<1>3. QED
  BY <1>1, <1>2, LenB

\* What was altered has another length or other bytes.
LEMMA AlteredIs ==
    ASSUME NEW c \in Seq(Bit), NEW u \in Flipped(c) \cup Cut(c)
    PROVE  u \in Seq(Bit) /\ (Len(u) # Len(c) \/ (Len(u) = Len(c) /\ u # c))
<1>1. CASE u \in Flipped(c)
  <2>1. PICK i \in DOMAIN c : u = [c EXCEPT ![i] = 1 - @]
    BY <1>1 DEF Flipped
  <2>2. c \in [1..Len(c) -> Bit] /\ DOMAIN c = 1..Len(c)
    BY SeqFcn
  <2>3. c[i] \in Bit /\ u[i] = 1 - c[i]
    BY <2>1, <2>2
  <2>4. u[i] \in Bit /\ u[i] # c[i]
    BY <2>3 DEF Bit
  <2>5. u \in [1..Len(c) -> Bit]
    BY <2>1, <2>2, <2>3, <2>4
  <2>6. u \in Seq(Bit) /\ Len(u) = Len(c)
    <3>1. Len(c) \in Nat
      OBVIOUS
    <3>2. QED
      BY <2>5, <3>1, LenB
  <2>7. QED
    BY <2>4, <2>6
<1>2. CASE u \in Cut(c)
  <2>1. PICK n \in 1..(Len(c) - 1) : u = To(c, n)
    BY <1>2 DEF Cut
  <2>2. n \in 0..Len(c) /\ n # Len(c)
    OBVIOUS
  <2>3. QED
    BY <2>1, <2>2, ToSeq
<1>3. QED
  BY <1>1, <1>2

\* What was altered is refused, and nothing else.
LEMMA DecryptIs ==
    ASSUME NEW k, NEW s, NEW e, NEW a \in BOOLEAN, OnTheWay(k, s, e, a)
    PROVE  Decrypt(k, e) = IF a THEN InvalidToken ELSE From(s, Size)
<1> DEFINE c == EncryptAesCts(k, s)
           u == e.cipher
<1>1. Permuting(k) /\ s \in Seq(Bit) /\ Len(s) >= Size
  BY KeyPermutes, TextIs DEF OnTheWay
<1>2. c \in Seq(Bit) /\ Len(c) = Len(s) /\ DecryptAesCts(k, c) = s
  BY <1>1, CtsUndone
<1>3. e.mac = Checksum(k, s) /\ IF a THEN u \in Flipped(c) \cup Cut(c) ELSE u = c
  BY DEF OnTheWay
<1> HIDE DEF c, u
<1>4. CASE ~a
  <2>1. u = c
    BY <1>3, <1>4
  <2>2. ~(Len(u) < Size) /\ DecryptAesCts(k, u) = s
    BY <1>1, <1>2, <2>1, SizeAssumption
  <2>3. QED
    BY <1>3, <1>4, <2>2 DEF Decrypt, u
<1>5. CASE a
  <2>1. CASE Len(u) < Size
    BY <1>5, <2>1 DEF Decrypt, u
  <2>2. CASE ~(Len(u) < Size)
    <3>1. u \in Seq(Bit) /\ (Len(u) # Len(c) \/ (Len(u) = Len(c) /\ u # c))
      BY <1>2, <1>3, <1>5, AlteredIs
    <3>2. Len(u) >= Size
      BY <2>2, <3>1, SizeAssumption
    <3>3. Len(DecryptAesCts(k, u)) = Len(u)
      BY <1>1, <3>1, <3>2, CtsLength
    <3>4. DecryptAesCts(k, u) # s
      <4>1. CASE Len(u) # Len(c)
        BY <1>2, <3>3, <4>1
      <4>2. CASE Len(u) = Len(c) /\ u # c
        BY <1>1, <1>2, <3>1, <3>2, <4>2, CtsInjective
      <4>3. QED
        BY <3>1, <4>1, <4>2
    <3>5. e.mac # Checksum(k, DecryptAesCts(k, u))
      BY <1>3, <3>4 DEF Checksum
    <3>6. QED
      BY <1>5, <2>2, <3>5 DEF Decrypt, u
  <2>3. QED
    BY <2>1, <2>2
<1>6. QED
  BY <1>4, <1>5

\* There is nothing yet.
LEMMA SealingInit == CryptoInit => Sealing
BY DEF CryptoInit, Sealing, OpensWhole

\* What leaves is what was encrypted.
LEMMA SealingSeal ==
    ASSUME Sealing, NEW k \in Keys, NEW s \in Text, Seal(k, s)
    PROVE  Sealing'
<1>1. /\ key = Nothing /\ sealed = Nothing /\ ~altered /\ opened = Nothing
      /\ opened' = Nothing /\ altered' = FALSE
  <2>1. ~altered /\ altered \in BOOLEAN /\ altered' = altered
    BY DEF Sealing, Seal
  <2>2. QED
    BY <2>1 DEF Sealing, Seal
<1>2. key' = k /\ text' = s /\ sealed' = Encrypt(k, s)
  BY DEF Seal
<1>3. OnTheWay(key', text', sealed', altered')
  BY <1>1, <1>2 DEF OnTheWay, Encrypt
<1>4. key' # Nothing
  BY <1>2, KeysAssumption
<1>5. QED
  BY <1>1, <1>3, <1>4 DEF Sealing, OpensWhole

\* It is altered once.
LEMMA SealingAlter ==
    ASSUME Sealing, Alter
    PROVE  Sealing'
<1>1. /\ sealed # Nothing /\ opened = Nothing /\ ~altered
      /\ altered' = TRUE /\ key' = key /\ text' = text /\ opened' = opened
  BY DEF Alter
<1>2. key # Nothing /\ OnTheWay(key, text, sealed, altered)
  BY <1>1 DEF Sealing
<1>3. PICK u \in Flipped(sealed.cipher) \cup Cut(sealed.cipher) :
          sealed' = [sealed EXCEPT !.cipher = u]
  BY DEF Alter
<1> DEFINE c == EncryptAesCts(key, text)
<1>4. OnTheWay(key, text, sealed', TRUE)
  <2>1. sealed = [cipher |-> c, mac |-> Checksum(key, text)]
    BY <1>1, <1>2 DEF OnTheWay
  <2>2. /\ u \in Flipped(c) \cup Cut(c)
        /\ sealed' = [cipher |-> u, mac |-> Checksum(key, text)]
    BY <1>3, <2>1
  <2>3. QED
    BY <1>2, <2>2 DEF OnTheWay
<1>5. QED
  BY <1>1, <1>2, <1>4 DEF Sealing, OpensWhole

\* It is opened as it came.
LEMMA SealingOpen ==
    ASSUME Sealing, Open
    PROVE  Sealing'
<1>1. /\ sealed # Nothing /\ opened = Nothing /\ opened' = Decrypt(key, sealed)
      /\ key' = key /\ text' = text /\ sealed' = sealed /\ altered' = altered
  BY DEF Open
<1>2. /\ key # Nothing /\ OnTheWay(key, text, sealed, altered)
      /\ altered \in BOOLEAN
  BY <1>1 DEF Sealing
<1>3. opened' = IF altered THEN InvalidToken ELSE From(text, Size)
  BY <1>1, <1>2, DecryptIs
<1>4. OpensWhole'
  BY <1>1, <1>3 DEF OpensWhole
<1>5. QED
  BY <1>1, <1>2, <1>4 DEF Sealing

\* Nothing but a fold.
LEMMA SealingSame ==
    ASSUME Sealing, UNCHANGED <<key, text, sealed, altered, opened>>
    PROVE  Sealing'
BY DEF Sealing, OpensWhole

\* What the messages do has nothing to do with it.
LEMMA SealingNext ==
    ASSUME Sealing, [Next]_vars
    PROVE  Sealing'
<1>1. CASE layer = "wire" /\ WireNext /\ UNCHANGED <<layer, cryptoVars>>
  BY <1>1, SealingSame DEF cryptoVars
<1>2. CASE layer = "crypto" /\ CryptoNext
  <2>1. CASE \E k \in Keys, s \in Text : Seal(k, s)
    BY <2>1, SealingSeal
  <2>2. CASE Alter
    BY <2>2, SealingAlter
  <2>3. CASE Open
    BY <2>3, SealingOpen
  <2>4. CASE \E bytes \in FoldInput, n \in FoldLength : Fold(bytes, n)
    BY <2>4, SealingSame DEF Fold
  <2>5. QED
    BY <1>2, <2>1, <2>2, <2>3, <2>4 DEF CryptoNext
<1>3. CASE UNCHANGED vars
  BY <1>3, SealingSame DEF vars, cryptoVars
<1>4. QED
  BY <1>1, <1>2, <1>3 DEF Next

\* Whatever the length of a message and of a block, and whatever permutations the
\* keys are: what is decrypted is what was encrypted, and what was altered or cut on
\* the way is refused (encrypt and decrypt of core/crypto.py).
THEOREM WholeOrRefused == Spec => []OpensWhole
<1>1. Init => Sealing
  BY SealingInit DEF Init
<1>2. Sealing /\ [Next]_vars => Sealing'
  BY SealingNext
<1>3. Sealing => OpensWhole
  BY DEF Sealing
<1>4. QED
  BY <1>1, <1>2, <1>3, PTL DEF Spec

-----------------------------------------------------------------------------
(* Functions defined by recursion *)

\* f is what g makes of b, step by step ...
Iterate(f, b, g, D) == f = [i \in D |-> IF i = 0 THEN b ELSE g[i][f[i - 1]]]

\* ... and the same by its values.
Stepwise(f, b, g, m) == f[0] = b /\ \A i \in 1..m : f[i] = g[i][f[i - 1]]

\* The one says the other.
LEMMA IterateIs ==
    ASSUME NEW b, NEW g, NEW m \in Nat, NEW f, Iterate(f, b, g, 0..m)
    PROVE  Stepwise(f, b, g, m)
<1>1. f = [i \in 0..m |-> IF i = 0 THEN b ELSE g[i][f[i - 1]]]
  BY DEF Iterate
<1>2. \A i \in 0..m : f[i] = IF i = 0 THEN b ELSE g[i][f[i - 1]]
  BY <1>1
<1>3. 0 \in 0..m /\ \A i \in 1..m : i \in 0..m /\ i # 0
  OBVIOUS
<1>4. QED
  BY <1>2, <1>3 DEF Stepwise

\* There is such a function, as far as one likes.
LEMMA IterateExists ==
    ASSUME NEW b, NEW g, NEW m \in Nat
    PROVE  \E f : Iterate(f, b, g, 0..m)
<1> DEFINE S == {n \in Nat : \E f : Iterate(f, b, g, 0..n)}
<1>1. 0 \in S
  <2> DEFINE f == [i \in 0..0 |-> b]
  <2>1. f = [i \in 0..0 |-> IF i = 0 THEN b ELSE g[i][f[i - 1]]]
    OBVIOUS
  <2> HIDE DEF f
  <2>2. Iterate(f, b, g, 0..0)
    BY <2>1 DEF Iterate
  <2>3. QED
    BY <2>2
<1>2. ASSUME NEW n \in S
      PROVE  n + 1 \in S
  <2>1. PICK f : Iterate(f, b, g, 0..n)
    OBVIOUS
  <2> DEFINE h == [i \in 0..(n + 1) |-> IF i = 0 THEN b ELSE g[i][f[i - 1]]]
  <2>2. f = [i \in 0..n |-> IF i = 0 THEN b ELSE g[i][f[i - 1]]]
    BY <2>1 DEF Iterate
  <2>3. ASSUME NEW i \in 0..n
        PROVE  h[i] = f[i]
    <3>1. f[i] = IF i = 0 THEN b ELSE g[i][f[i - 1]]
      BY <2>2
    <3>2. i \in 0..(n + 1)
      OBVIOUS
    <3>3. QED
      BY <3>1, <3>2
  <2>4. ASSUME NEW i \in 0..(n + 1)
        PROVE  (IF i = 0 THEN b ELSE g[i][f[i - 1]])
               = IF i = 0 THEN b ELSE g[i][h[i - 1]]
    <3>1. CASE i = 0
      BY <3>1
    <3>2. CASE i # 0
      <4> DEFINE j == i - 1
      <4>1. j \in 0..n
        BY <3>2
      <4> HIDE DEF j, h
      <4>2. h[j] = f[j]
        BY <4>1, <2>3
      <4>3. QED
        BY <4>2, <3>2 DEF j
    <3>3. QED
      BY <3>1, <3>2
  <2>5. h = [i \in 0..(n + 1) |-> IF i = 0 THEN b ELSE g[i][h[i - 1]]]
    <3> DEFINE p(i) == IF i = 0 THEN b ELSE g[i][f[i - 1]]
               q(i) == IF i = 0 THEN b ELSE g[i][h[i - 1]]
    <3>1. h = [i \in 0..(n + 1) |-> p(i)]
      OBVIOUS
    <3>2. \A i \in 0..(n + 1) : p(i) = q(i)
      BY <2>4
    <3> HIDE DEF p, q, h
    <3>3. h = [i \in 0..(n + 1) |-> q(i)]
      BY <3>1, <3>2
    <3>4. QED
      BY <3>3 DEF q
  <2> HIDE DEF h
  <2>6. Iterate(h, b, g, 0..(n + 1))
    BY <2>5 DEF Iterate
  <2>7. n + 1 \in Nat
    OBVIOUS
  <2>8. QED
    BY <2>6, <2>7
<1>3. m \in S
  <2> HIDE DEF S
  <2>1. S \in SUBSET Nat
    BY DEF S
  <2>2. QED
    BY <1>1, <1>2, <2>1, Counting
<1>4. QED
  BY <1>3

\* Two of them agree as far as both go.
LEMMA IteratesAgree ==
    ASSUME NEW b, NEW g, NEW m \in Nat, NEW n \in Nat,
           NEW f, Iterate(f, b, g, 0..m), NEW h, Iterate(h, b, g, 0..n),
           NEW j \in Nat, j <= m, j <= n
    PROVE  f[j] = h[j]
<1> DEFINE S == {i \in Nat : i <= m /\ i <= n => f[i] = h[i]}
<1>0. f[0] = b /\ \A i \in 1..m : f[i] = g[i][f[i - 1]]
  BY IterateIs DEF Stepwise
<1>1. h[0] = b /\ \A i \in 1..n : h[i] = g[i][h[i - 1]]
  BY IterateIs DEF Stepwise
<1>2. 0 \in S
  BY <1>0, <1>1
<1>3. ASSUME NEW i \in S
      PROVE  i + 1 \in S
  <2> SUFFICES ASSUME i + 1 <= m, i + 1 <= n
               PROVE  f[i + 1] = h[i + 1]
    OBVIOUS
  <2>1. i + 1 \in 1..m /\ i + 1 \in 1..n /\ (i + 1) - 1 = i
    OBVIOUS
  <2>2. f[i] = h[i]
    OBVIOUS
  <2> DEFINE k == i + 1
  <2>3. k \in 1..m /\ k \in 1..n /\ k - 1 = i
    BY <2>1
  <2> HIDE DEF k, S
  <2>4. f[k] = g[k][f[k - 1]] /\ h[k] = g[k][h[k - 1]]
    BY <1>0, <1>1, <2>3
  <2>5. QED
    BY <2>2, <2>3, <2>4 DEF k
<1>4. j \in S
  <2> HIDE DEF S
  <2>1. S \in SUBSET Nat
    BY DEF S
  <2>2. QED
    BY <1>2, <1>3, <2>1, Counting
<1>5. QED
  BY <1>4

\* So there is one for all numbers.
LEMMA IterateForever ==
    ASSUME NEW b, NEW g
    PROVE  \E f : Iterate(f, b, g, Nat)
<1> DEFINE part(n) == CHOOSE f : Iterate(f, b, g, 0..n)
           f == [n \in Nat |-> part(n)[n]]
<1>1. \A n \in Nat : Iterate(part(n), b, g, 0..n)
  BY IterateExists
<1> HIDE DEF part
<1>2. ASSUME NEW n \in Nat
      PROVE  part(n)[n] = IF n = 0 THEN b ELSE g[n][f[n - 1]]
  <2> DEFINE p == part(n)
  <2>1. Iterate(p, b, g, 0..n)
    BY <1>1
  <2>2. p[0] = b /\ \A i \in 1..n : p[i] = g[i][p[i - 1]]
    <3> HIDE DEF p
    <3>1. Stepwise(p, b, g, n)
      BY <2>1, IterateIs
    <3>2. QED
      BY <3>1 DEF Stepwise
  <2>3. CASE n = 0
    BY <2>2, <2>3
  <2>4. CASE n # 0
    <3> DEFINE j == n - 1
               q == part(j)
    <3>1. j \in Nat /\ n \in 1..n /\ j <= n /\ j <= j
      BY <2>4
    <3>2. Iterate(q, b, g, 0..j)
      BY <1>1, <3>1
    <3>3. f[j] = q[j]
      BY <3>1
    <3>4. p[n] = g[n][p[j]]
      BY <2>2, <3>1
    <3> HIDE DEF p, q, j
    <3>5. p[j] = q[j]
      BY <2>1, <3>1, <3>2, IteratesAgree
    <3>6. p[n] = g[n][f[j]]
      BY <3>3, <3>4, <3>5
    <3>7. p[n] = IF n = 0 THEN b ELSE g[n][f[j]]
      BY <2>4, <3>6
    <3> HIDE DEF f
    <3>8. QED
      BY <3>7 DEF j, p
  <2>5. QED
    BY <2>3, <2>4
<1>3. f = [n \in Nat |-> IF n = 0 THEN b ELSE g[n][f[n - 1]]]
  <2> DEFINE p(n) == part(n)[n]
             q(n) == IF n = 0 THEN b ELSE g[n][f[n - 1]]
  <2>1. f = [n \in Nat |-> p(n)]
    OBVIOUS
  <2>2. \A n \in Nat : p(n) = q(n)
    BY <1>2
  <2> HIDE DEF p, q, f
  <2>3. f = [n \in Nat |-> q(n)]
    BY <2>1, <2>2
  <2>4. QED
    BY <2>3 DEF q
<1> HIDE DEF f
<1>4. QED
  BY <1>3 DEF Iterate

-----------------------------------------------------------------------------
(* The n-fold *)

\* The powers of two (1 << out_bits).
LEMMA Pow2Is ==
    /\ Pow2[0] = 1
    /\ \A n \in Nat : Pow2[n] \in Nat \ {0} /\ Pow2[n + 1] = 2 * Pow2[n]
<1> DEFINE g == [i \in Nat |-> [x \in Nat |-> 2 * x]]
           Doubling(f) == f = [n \in Nat |-> IF n = 0 THEN 1 ELSE 2 * f[n - 1]]
<1>1. \E f : Doubling(f)
  <2>1. PICK f : Iterate(f, 1, g, Nat)
    <3> HIDE DEF g
    <3>1. QED
      BY IterateForever
  <2>2. f = [i \in Nat |-> IF i = 0 THEN 1 ELSE g[i][f[i - 1]]]
    <3> HIDE DEF g
    <3>1. QED
      BY <2>1 DEF Iterate
  <2>3. f[0] = 1
    BY <2>2
  <2>4. \A n \in Nat : f[n] \in Nat
    <3> DEFINE S == {n \in Nat : f[n] \in Nat}
    <3>1. 0 \in S
      BY <2>3
    <3>2. ASSUME NEW n \in S
          PROVE  n + 1 \in S
      <4>1. f[n + 1] = g[n + 1][f[n]] /\ f[n] \in Nat
        <5> HIDE DEF g
        <5>1. n + 1 \in Nat /\ n + 1 # 0 /\ (n + 1) - 1 = n
          OBVIOUS
        <5>2. QED
          BY <2>2, <5>1
      <4>2. g[n + 1][f[n]] = 2 * f[n]
        BY <4>1
      <4>3. QED
        BY <4>1, <4>2
    <3> HIDE DEF S
    <3>3. S \in SUBSET Nat
      BY DEF S
    <3>4. \A n \in Nat : n \in S
      BY <3>1, <3>2, <3>3, Counting
    <3>5. QED
      BY <3>4 DEF S
  <2>5. ASSUME NEW n \in Nat
        PROVE  (IF n = 0 THEN 1 ELSE g[n][f[n - 1]])
               = IF n = 0 THEN 1 ELSE 2 * f[n - 1]
    <3>1. CASE n # 0
      <4>1. n - 1 \in Nat
        BY <3>1
      <4>2. f[n - 1] \in Nat
        BY <2>4, <4>1
      <4>3. g[n][f[n - 1]] = 2 * f[n - 1]
        BY <4>2
      <4>4. QED
        BY <4>3
    <3>2. QED
      BY <3>1
  <2>6. f = [n \in Nat |-> IF n = 0 THEN 1 ELSE 2 * f[n - 1]]
    <3> DEFINE p(n) == IF n = 0 THEN 1 ELSE g[n][f[n - 1]]
               q(n) == IF n = 0 THEN 1 ELSE 2 * f[n - 1]
    <3>1. f = [n \in Nat |-> p(n)]
      BY <2>2
    <3>2. \A n \in Nat : p(n) = q(n)
      BY <2>5
    <3> HIDE DEF p, q
    <3>3. f = [n \in Nat |-> q(n)]
      BY <3>1, <3>2
    <3>4. QED
      BY <3>3 DEF q
  <2>7. QED
    BY <2>6
<1>2. Doubling(Pow2)
  <2>1. Pow2 = CHOOSE f : Doubling(f)
    BY DEF Pow2
  <2> HIDE DEF Doubling
  <2>2. QED
    BY <1>1, <2>1
<1>3. Pow2[0] = 1 /\ \A n \in Nat : Pow2[n + 1] = 2 * Pow2[n]
  <2>1. \A n \in Nat : Pow2[n] = IF n = 0 THEN 1 ELSE 2 * Pow2[n - 1]
    BY <1>2
  <2>2. \A n \in Nat : n + 1 \in Nat /\ n + 1 # 0 /\ (n + 1) - 1 = n
    OBVIOUS
  <2>3. QED
    BY <2>1, <2>2
<1> DEFINE S == {n \in Nat : Pow2[n] \in Nat \ {0}}
<1>4. 0 \in S
  BY <1>3
<1>5. ASSUME NEW n \in S
      PROVE  n + 1 \in S
  BY <1>3
<1>6. \A n \in Nat : n \in S
  <2> HIDE DEF S
  <2>1. S \in SUBSET Nat
    BY DEF S
  <2>2. QED
    BY <1>4, <1>5, <2>1, Counting
<1>7. QED
  BY <1>3, <1>6

\* A positive power is two at least.
LEMMA Pow2Positive ==
    ASSUME NEW w \in Nat \ {0}
    PROVE  Pow2[w] \in Nat /\ Pow2[w] >= 2
<1> DEFINE v == w - 1
<1>1. v \in Nat /\ v + 1 = w
  OBVIOUS
<1> HIDE DEF v
<1>2. Pow2[v] \in Nat \ {0} /\ Pow2[v + 1] = 2 * Pow2[v] /\ Pow2[v + 1] \in Nat
  BY <1>1, Pow2Is
<1> DEFINE p == Pow2[v]
           q == Pow2[v + 1]
<1>3. p \in Nat \ {0} /\ q = 2 * p /\ q \in Nat
  BY <1>2
<1> HIDE DEF p, q
<1>4. q >= 2
  BY <1>3
<1>5. QED
  BY <1>1, <1>3, <1>4 DEF q

\* A set of numbers up to a has a largest.
LEMMA MaxIs ==
    ASSUME NEW a \in Nat, NEW D \in SUBSET (1..a), D # {}
    PROVE  Max(D) \in D
<1>1. \E x \in D : \A y \in D : x >= y
  <2> SUFFICES ASSUME \A x \in D : \E y \in D : ~(x >= y)
               PROVE  FALSE
    OBVIOUS
  <2> DEFINE S == {n \in Nat : \E y \in D : n <= y}
  <2>1. 0 \in S
    <3>1. PICK y \in D : TRUE
      OBVIOUS
    <3>2. y \in Nat /\ 0 <= y
      BY <3>1
    <3>3. QED
      BY <3>2
  <2>2. ASSUME NEW n \in S
        PROVE  n + 1 \in S
    <3>1. PICK y \in D : n <= y
      OBVIOUS
    <3>2. PICK z \in D : ~(y >= z)
      OBVIOUS
    <3>3. n + 1 <= z
      BY <3>1, <3>2
    <3>4. QED
      BY <3>3
  <2>3. a + 1 \in S
    <3> HIDE DEF S
    <3>1. S \in SUBSET Nat /\ a + 1 \in Nat
      BY DEF S
    <3>2. QED
      BY <2>1, <2>2, <3>1, Counting
  <2>4. QED
    BY <2>3
<1>2. QED
  BY <1>1 DEF Max

\* The least common multiple of a and b is one of a.
LEMMA LcmIs ==
    ASSUME NEW a \in Nat \ {0}, NEW b \in Nat \ {0}
    PROVE  \E q \in Nat : Lcm(a, b) = q * a
<1> DEFINE D == {d \in 1..a : a % d = 0 /\ b % d = 0}
           g == Max(D)
<1>1. 1 \in D
  <2>1. a = a * 1 + 0 /\ b = b * 1 + 0 /\ 0 \in 0..(1 - 1)
    OBVIOUS
  <2>2. (a * 1 + 0) % 1 = 0 /\ (b * 1 + 0) % 1 = 0
    BY <2>1, DivMod
  <2>3. QED
    BY <2>1, <2>2
<1>2. g \in D
  <2> HIDE DEF D
  <2>1. D \in SUBSET (1..a) /\ D # {}
    BY <1>1 DEF D
  <2>2. QED
    BY <2>1, MaxIs
<1>4. Lcm(a, b) = (a * b) \div g
  BY DEF Lcm, Gcd
<1> HIDE DEF g
<1>3. g \in Nat \ {0} /\ b % g = 0
  BY <1>2
<1>5. PICK q \in Nat, r \in 0..(g - 1) : b = q * g + r /\ b % g = r
  BY <1>3, Division
<1>6. b = q * g
  BY <1>3, <1>5
<1>7. a * b = (q * a) * g + 0
  <2>1. a * (q * g) = (q * a) * g
    BY <1>3
  <2>2. (q * a) * g \in Nat
    BY <1>3
  <2>3. QED
    BY <1>6, <2>1, <2>2
<1>8. q * a \in Nat /\ 0 \in 0..(g - 1)
  BY <1>3
<1> DEFINE p == q * a
<1> HIDE DEF p
<1>9. (p * g + 0) \div g = p
  BY <1>3, <1>8, DivMod DEF p
<1>10. QED
  BY <1>4, <1>7, <1>9 DEF p

\* The bits of bytes.
LEMMA BitsOfIs ==
    ASSUME NEW bytes \in Seq(0..255)
    PROVE  BitsOf(bytes) \in [1..(8 * Len(bytes)) -> Bit]
<1> DEFINE bit(i) == (bytes[(i - 1) \div 8 + 1] \div Pow2[7 - ((i - 1) % 8)]) % 2
<1>1. ASSUME NEW i \in 1..(8 * Len(bytes))
      PROVE  bit(i) \in Bit
  <2> DEFINE j == i - 1
  <2>1. j \in Nat /\ j < 8 * Len(bytes)
    OBVIOUS
  <2> HIDE DEF j
  <2>2. PICK q \in Nat, r \in 0..(8 - 1) :
           j = q * 8 + r /\ j \div 8 = q /\ j % 8 = r
    <3> DEFINE e == 8
    <3>1. e \in Nat \ {0}
      OBVIOUS
    <3> HIDE DEF e
    <3>2. \E q \in Nat, r \in 0..(e - 1) :
             j = q * e + r /\ j \div e = q /\ j % e = r
      BY <2>1, <3>1, Division
    <3>3. QED
      BY <3>2 DEF e
  <2>3. q + 1 \in 1..Len(bytes) /\ 7 - r \in Nat
    BY <2>1, <2>2
  <2> DEFINE x == bytes[q + 1]
             d == Pow2[7 - r]
  <2>4. x \in Nat /\ d \in Nat \ {0}
    <3>1. x \in Nat
      <4> DEFINE B == 0..255
      <4>1. bytes \in Seq(B) /\ B \subseteq Nat
        OBVIOUS
      <4> HIDE DEF B
      <4>2. bytes[q + 1] \in B
        BY <2>3, <4>1
      <4>3. QED
        BY <4>1, <4>2
    <3> DEFINE e == 7 - r
    <3>2. e \in Nat
      BY <2>3
    <3> HIDE DEF e, x
    <3>3. Pow2[e] \in Nat \ {0}
      BY <3>2, Pow2Is
    <3>4. QED
      BY <3>1, <3>3 DEF e
  <2>5. bit(i) = (x \div d) % 2
    BY <2>2 DEF j
  <2> HIDE DEF x, d, bit
  <2>6. x \div d \in Nat
    BY <2>4, Division
  <2>7. (x \div d) % 2 \in 0..(2 - 1)
    <3> DEFINE y == x \div d
    <3> HIDE DEF y
    <3>1. y \in Nat
      BY <2>6 DEF y
    <3>2. y % 2 \in 0..(2 - 1)
      BY <3>1, Division
    <3>3. QED
      BY <3>2 DEF y
  <2>8. QED
    BY <2>5, <2>7 DEF Bit
<1>2. BitsOf(bytes) = [i \in 1..(8 * Len(bytes)) |-> bit(i)]
  BY DEF BitsOf
<1> HIDE DEF bit
<1>3. QED
  BY <1>1, <1>2

\* Bits turned are bits.
LEMMA RotatedIs ==
    ASSUME NEW s \in Seq(Bit), NEW r \in 0..Len(s)
    PROVE  Rotated(s, r) \in [1..Len(s) -> Bit]
<1> DEFINE i == Len(s) - r
           a == From(s, i)
           b == To(s, i)
<1>1. i \in 0..Len(s) /\ Len(s) - i = r
  OBVIOUS
<1> HIDE DEF i
<1>2. a \in Seq(Bit) /\ Len(a) = r /\ b \in Seq(Bit) /\ Len(b) = i
  BY <1>1, FromSeq, ToSeq
<1>3. Rotated(s, r) = a \o b
  BY DEF Rotated, i
<1> HIDE DEF a, b
<1>4. a \o b \in Seq(Bit) /\ Len(a \o b) = r + i
  BY <1>2, CatSeq
<1>5. r + i = Len(s)
  BY DEF i
<1> DEFINE c == a \o b
<1> HIDE DEF c
<1>6. c \in [1..Len(c) -> Bit]
  BY <1>4, SeqFcn DEF c
<1>7. QED
  BY <1>3, <1>4, <1>5, <1>6 DEF c

\* So are those that are added.
LEMMA FoldedBitsIs ==
    ASSUME NEW bytes \in Seq(0..255) \ {<<>>}, NEW n \in Nat \ {0}
    PROVE  \E l \in Nat : FoldedBits(bytes, n) \in [1..l -> Bit]
<1> DEFINE bits == BitsOf(bytes)
           in == 8 * Len(bytes)
           lcm == Lcm(in, 8 * n)
           turn == [r \in 0..(lcm \div in - 1) |-> Rotated(bits, (13 * r) % in)]
           f == [j \in 1..lcm |-> turn[(j - 1) \div in][((j - 1) % in) + 1]]
<1>1. in \in Nat \ {0} /\ 8 * n \in Nat \ {0}
  OBVIOUS
<1>2. bits \in Seq(Bit) /\ Len(bits) = in
  BY <1>1, BitsOfIs, LenB
<1>3. FoldedBits(bytes, n) = f
  BY <1>2 DEF FoldedBits
<1> HIDE DEF bits, in
<1>4. PICK q \in Nat : lcm = q * in
  BY <1>1, LcmIs
<1> HIDE DEF lcm
<1>5. lcm \in Nat /\ lcm \div in = q
  <2>1. q * in \in Nat /\ lcm = q * in + 0 /\ 0 \in 0..(in - 1)
    BY <1>1, <1>4
  <2>2. (q * in + 0) \div in = q
    BY <1>1, <2>1, DivMod
  <2>3. QED
    BY <2>1, <2>2, <1>4
<1>6. ASSUME NEW r \in 0..(q - 1)
      PROVE  turn[r] \in [1..in -> Bit]
  <2> DEFINE x == 13 * r
  <2>1. x \in Nat
    OBVIOUS
  <2>2. turn[r] = Rotated(bits, x % in)
    BY <1>5
  <2> HIDE DEF x, turn
  <2>3. x % in \in 0..(in - 1)
    BY <2>1, <1>1, Division
  <2>4. x % in \in 0..Len(bits)
    BY <2>3, <1>1, <1>2
  <2> DEFINE y == x % in
  <2> HIDE DEF y
  <2>5. Rotated(bits, y) \in [1..in -> Bit]
    BY <2>4, <1>2, RotatedIs DEF y
  <2>6. QED
    BY <2>2, <2>5 DEF y
<1>7. ASSUME NEW j \in 1..lcm
      PROVE  turn[(j - 1) \div in][((j - 1) % in) + 1] \in Bit
  <2> DEFINE i == j - 1
  <2>1. i \in Nat /\ i < lcm
    BY <1>5
  <2> HIDE DEF i, turn
  <2>2. PICK p \in Nat, r \in 0..(in - 1) :
           i = p * in + r /\ i \div in = p /\ i % in = r
    BY <2>1, <1>1, Division
  <2>3. p < q
    <3> SUFFICES ASSUME q <= p
                 PROVE  FALSE
      OBVIOUS
    <3>1. q * in <= p * in
      BY <1>1, MulMono
    <3>2. q * in \in Nat /\ p * in \in Nat
      BY <1>1
    <3>3. QED
      BY <1>1, <1>4, <2>1, <2>2, <3>1, <3>2
  <2>4. p \in 0..(q - 1) /\ r + 1 \in 1..in
    BY <1>1, <2>3
  <2>5. turn[p] \in [1..in -> Bit]
    BY <1>6, <2>4
  <2>6. turn[p][r + 1] \in Bit
    BY <2>4, <2>5
  <2>7. QED
    BY <2>2, <2>6 DEF i
<1>8. f \in [1..lcm -> Bit]
  <2> DEFINE b(j) == turn[(j - 1) \div in][((j - 1) % in) + 1]
  <2>1. \A j \in 1..lcm : b(j) \in Bit
    BY <1>7
  <2>2. f = [j \in 1..lcm |-> b(j)]
    OBVIOUS
  <2> HIDE DEF b, f
  <2>3. QED
    BY <2>1, <2>2
<1>9. QED
  BY <1>3, <1>5, <1>8

\* What bits say as a number fits its width.
LEMMA NumberIs ==
    ASSUME NEW bits, NEW offset \in Nat, NEW width \in Nat,
           \A i \in 1..width : bits[offset + i] \in Bit
    PROVE  Number(bits, offset, width) \in 0..(Pow2[width] - 1)
<1> DEFINE g == [i \in Nat |-> [x \in Nat |-> 2 * x + bits[offset + i]]]
           Reading(f) == f = [i \in 0..width |->
                                IF i = 0 THEN 0 ELSE 2 * f[i - 1] + bits[offset + i]]
           value == CHOOSE f : Reading(f)
           Fits(f, i) == f[i] \in Nat /\ f[i] < Pow2[i]
<1>1. Number(bits, offset, width) = value[width]
  BY DEF Number
<1>2. ASSUME NEW f, NEW b, f[0] = 0,
             \A i \in 1..width : f[i - 1] \in Nat => f[i] = 2 * f[i - 1] + bits[offset + i]
      PROVE  \A i \in 0..width : Fits(f, i)
  <2> DEFINE S == {n \in Nat : n <= width => Fits(f, n)}
  <2>1. 0 \in S
    BY <1>2, Pow2Is
  <2>2. ASSUME NEW n \in S
        PROVE  n + 1 \in S
    <3> SUFFICES ASSUME n + 1 <= width
                 PROVE  Fits(f, n + 1)
      OBVIOUS
    <3> DEFINE k == n + 1
               x == f[n]
               p == Pow2[n]
               d == bits[offset + k]
    <3>1. k \in 1..width /\ k - 1 = n
      OBVIOUS
    <3>2. x \in Nat /\ x < p
      OBVIOUS
    <3>3. p \in Nat /\ Pow2[k] = 2 * p
      BY Pow2Is
    <3>4. d \in Bit
      BY <3>1
    <3>5. f[k] = 2 * x + d
      BY <1>2, <3>1, <3>2
    <3> HIDE DEF k, x, p, d
    <3>6. 2 * x + d \in Nat /\ 2 * x + d < 2 * p
      BY <3>2, <3>3, <3>4 DEF Bit
    <3>7. QED
      BY <3>3, <3>5, <3>6 DEF k
  <2>3. \A n \in Nat : n \in S
    <3> HIDE DEF S
    <3>1. S \in SUBSET Nat
      BY DEF S
    <3>2. QED
      BY <2>1, <2>2, <3>1, Counting
  <2>4. QED
    BY <2>3
<1>3. \E f : Reading(f)
  <2>1. PICK f : Iterate(f, 0, g, 0..width)
    <3> HIDE DEF g
    <3>1. QED
      BY IterateExists
  <2>2. Stepwise(f, 0, g, width)
    <3> HIDE DEF g
    <3>1. QED
      BY <2>1, IterateIs
  <2>3. f[0] = 0 /\ \A i \in 1..width : f[i] = g[i][f[i - 1]]
    <3> HIDE DEF g
    <3>1. QED
      BY <2>2 DEF Stepwise
  <2>4. ASSUME NEW i \in 1..width, f[i - 1] \in Nat
        PROVE  f[i] = 2 * f[i - 1] + bits[offset + i]
    <3> DEFINE x == f[i - 1]
    <3>1. i \in Nat /\ x \in Nat /\ f[i] = g[i][x]
      <4> HIDE DEF g
      <4>1. QED
        BY <2>3, <2>4
    <3> HIDE DEF x
    <3>2. g[i][x] = 2 * x + bits[offset + i]
      BY <3>1
    <3> HIDE DEF g
    <3>3. QED
      BY <3>1, <3>2 DEF x
  <2>5. \A i \in 0..width : Fits(f, i)
    <3> HIDE DEF Fits, g
    <3>1. QED
      BY <1>2, <2>3, <2>4
  <2> DEFINE p(i) == IF i = 0 THEN 0 ELSE g[i][f[i - 1]]
             q(i) == IF i = 0 THEN 0 ELSE 2 * f[i - 1] + bits[offset + i]
  <2>6. ASSUME NEW i \in 0..width
        PROVE  p(i) = q(i)
    <3>1. CASE i # 0
      <4>1. i \in Nat /\ i - 1 \in 0..width
        BY <3>1
      <4>2. f[i - 1] \in Nat
        BY <2>5, <4>1
      <4>3. g[i][f[i - 1]] = 2 * f[i - 1] + bits[offset + i]
        BY <4>1, <4>2
      <4>4. QED
        BY <4>3
    <3>2. QED
      BY <3>1
  <2>7. f = [i \in 0..width |-> p(i)]
    <3> HIDE DEF g
    <3>1. QED
      BY <2>1 DEF Iterate
  <2> HIDE DEF p
  <2>8. Reading(f)
    <3> HIDE DEF q
    <3>1. f = [i \in 0..width |-> q(i)]
      BY <2>6, <2>7
    <3>2. QED
      BY <3>1 DEF q
  <2>9. QED
    <3> HIDE DEF Reading
    <3>1. QED
      BY <2>8
<1>4. Reading(value)
  <2> HIDE DEF Reading
  <2>1. QED
    BY <1>3
<1> HIDE DEF value
<1>5. \A i \in 0..width : value[i] = IF i = 0 THEN 0 ELSE 2 * value[i - 1] + bits[offset + i]
  BY <1>4
<1>6. value[0] = 0 /\ \A i \in 1..width : value[i] = 2 * value[i - 1] + bits[offset + i]
  <2>1. 0 \in 0..width /\ \A i \in 1..width : i \in 0..width /\ i # 0
    OBVIOUS
  <2>2. QED
    BY <1>5, <2>1
<1>7. Fits(value, width)
  <2> HIDE DEF Fits
  <2>1. width \in 0..width
    OBVIOUS
  <2>2. QED
    BY <1>2, <1>6, <2>1
<1>8. Pow2[width] \in Nat
  BY Pow2Is
<1>9. QED
  BY <1>1, <1>7, <1>8

\* The pieces that are added: each fits in the bytes asked for.
LEMMA ChunksAre ==
    ASSUME NEW bytes \in Seq(0..255) \ {<<>>}, NEW n \in Nat \ {0}
    PROVE  \E k \in Nat : Chunks(bytes, n) \in [1..k -> 0..(Pow2[8 * n] - 1)]
<1> DEFINE w == 8 * n
           bits == FoldedBits(bytes, n)
           k == Len(bits) \div w
<1>1. w \in Nat \ {0}
  OBVIOUS
<1>2. PICK l \in Nat : bits \in [1..l -> Bit]
  BY FoldedBitsIs
<1>3. Chunks(bytes, n) = [i \in 1..k |-> Number(bits, w * (i - 1), w)]
  BY DEF Chunks
<1> HIDE DEF w, bits
<1>4. Len(bits) = l
  BY <1>2, LenB
<1>5. PICK q \in Nat, r \in 0..(w - 1) : l = q * w + r /\ l \div w = q
  BY <1>1, Division
<1>6. k = q
  BY <1>4, <1>5
<1> HIDE DEF k
<1>7. ASSUME NEW i \in 1..k
      PROVE  Number(bits, w * (i - 1), w) \in 0..(Pow2[w] - 1)
  <2> DEFINE o == w * (i - 1)
             j == i - 1
  <2>1. o \in Nat
    BY <1>1, <1>6
  <2>2. i * w <= q * w
    BY <1>1, <1>6, MulMono
  <2>3. i * w = o + w
    BY <1>1, <1>6
  <2>4. o + w <= l
    <3> DEFINE a == q * w
    <3>1. a \in Nat /\ l = a + r
      BY <1>1, <1>5
    <3>2. o + w <= a
      BY <2>2, <2>3
    <3> HIDE DEF o, a
    <3>3. QED
      BY <1>1, <2>1, <3>1, <3>2
  <2> HIDE DEF o
  <2>5. \A a \in 1..w : bits[o + a] \in Bit
    <3>1. \A a \in 1..w : o + a \in 1..l
      BY <1>1, <2>1, <2>4
    <3>2. QED
      BY <1>2, <3>1
  <2>6. Number(bits, o, w) \in 0..(Pow2[w] - 1)
    BY <1>1, <2>1, <2>5, NumberIs
  <2>7. QED
    BY <2>6 DEF o
<1>8. [i \in 1..k |-> Number(bits, w * (i - 1), w)] \in [1..k -> 0..(Pow2[w] - 1)]
  BY <1>7
<1>9. QED
  BY <1>3, <1>6, <1>8 DEF w

\* One carry brought round.
LEMMA CarriedIs ==
    ASSUME NEW w \in Nat \ {0}, NEW x \in Nat
    PROVE  /\ Carried(x, w) \in Nat
           /\ x < Pow2[w] => Carried(x, w) = x
           /\ (Pow2[w] <= x /\ x < 2 * Pow2[w]) => Carried(x, w) = x - Pow2[w] + 1
<1> DEFINE m == Pow2[w]
<1>1. m \in Nat /\ m >= 2
  BY Pow2Positive
<1>2. Carried(x, w) = (x % m) + (x \div m)
  BY DEF Carried
<1> HIDE DEF m
<1>3. m \in Nat \ {0}
  BY <1>1
<1>4. Carried(x, w) \in Nat
  <2>1. PICK q \in Nat, r \in 0..(m - 1) : x = q * m + r /\ x \div m = q /\ x % m = r
    BY <1>3, Division
  <2>2. QED
    BY <1>2, <2>1
<1>5. ASSUME x < m
      PROVE  Carried(x, w) = x
  <2>1. x = 0 * m + x /\ x \in 0..(m - 1)
    BY <1>3, <1>5
  <2>2. (0 * m + x) \div m = 0 /\ (0 * m + x) % m = x
    BY <1>3, <2>1, DivMod
  <2>3. QED
    BY <1>2, <2>1, <2>2
<1>6. ASSUME m <= x, x < 2 * m
      PROVE  Carried(x, w) = x - m + 1
  <2> DEFINE r == x - m
  <2>1. x = 1 * m + r /\ r \in 0..(m - 1)
    BY <1>3, <1>6
  <2> HIDE DEF r
  <2>2. (1 * m + r) \div m = 1 /\ (1 * m + r) % m = r
    BY <1>3, <2>1, DivMod
  <2>3. Carried(x, w) = r + 1
    BY <1>2, <2>1, <2>2
  <2>4. QED
    BY <2>3 DEF r
<1>7. QED
  BY <1>4, <1>5, <1>6 DEF m

\* What nfold keeps of the sum s: as much but for a multiple of the modulus, at most
\* 2^w, and nothing only of nothing.
Keeps(t, s, w) ==
    /\ t \in 0..Pow2[w] /\ s \in Nat /\ (t = 0 <=> s = 0)
    /\ \E c \in Nat : s = t + c * (Pow2[w] - 1)

\* It still does with another piece.
LEMMA KeepsAdding ==
    ASSUME NEW w \in Nat \ {0}, NEW t, NEW s, Keeps(t, s, w), NEW d \in 0..(Pow2[w] - 1)
    PROVE  Keeps(Carried(t + d, w), s + d, w)
<1> DEFINE m == Pow2[w]
           u == Carried(t + d, w)
<1>1. m \in Nat /\ m >= 2
  BY Pow2Positive
<1>2. PICK c \in Nat : s = t + c * (m - 1)
  BY DEF Keeps
<1>3. t \in 0..m /\ s \in Nat /\ (t = 0 <=> s = 0) /\ d \in 0..(m - 1)
  BY DEF Keeps
<1> DEFINE x == t + d
<1>4. x \in Nat
  BY <1>1, <1>3
<1>5. /\ x < m => u = x
      /\ (m <= x /\ x < 2 * m) => u = x - m + 1
  <2> HIDE DEF x
  <2>1. QED
    BY <1>4, CarriedIs DEF x
<1> HIDE DEF m
<1> DEFINE k == m - 1
           e == c * k
<1>6. e \in Nat /\ (c + 1) * k = e + k
  <2>1. k \in Nat
    BY <1>1
  <2> HIDE DEF k
  <2>2. QED
    BY <2>1
<1>7. s = t + e
  BY <1>2
<1> HIDE DEF u, e
<1>8. CASE x < m
  <2>1. u = t + d /\ u \in 0..m /\ s + d \in Nat /\ (u = 0 <=> s + d = 0)
    BY <1>1, <1>3, <1>5, <1>8
  <2>2. s + d = u + e
    BY <1>1, <1>3, <1>6, <1>7, <2>1
  <2>3. s + d = u + c * (m - 1)
    BY <2>2 DEF e
  <2>4. QED
    BY <2>1, <2>3 DEF Keeps, m, u
<1>9. CASE m <= x
  <2>1. x < 2 * m
    BY <1>1, <1>3
  <2>2. /\ u = t + d - m + 1 /\ u \in 0..m /\ s + d \in Nat /\ u # 0 /\ s + d # 0
    BY <1>1, <1>3, <1>5, <1>6, <1>7, <1>9, <2>1
  <2>3. s + d = u + (e + k)
    BY <1>1, <1>3, <1>6, <1>7, <2>2
  <2>4. s + d = u + (c + 1) * k /\ c + 1 \in Nat
    BY <1>6, <2>3
  <2>5. \E b \in Nat : s + d = u + b * (m - 1)
    BY <2>4
  <2>6. QED
    BY <2>2, <2>5 DEF Keeps, m, u
<1>10. QED
  BY <1>1, <1>3, <1>8, <1>9

\* The last carry, and what it leaves.
LEMMA KeepsAtLast ==
    ASSUME NEW w \in Nat \ {0}, NEW t, NEW s, Keeps(t, s, w)
    PROVE  Carried(t, w) = IF s = 0 THEN 0 ELSE ((s - 1) % (Pow2[w] - 1)) + 1
<1> DEFINE m == Pow2[w]
           k == m - 1
<1>1. m \in Nat /\ m >= 2
  BY Pow2Positive
<1>2. PICK c \in Nat : s = t + c * k
  BY DEF Keeps
<1>3. t \in 0..m /\ s \in Nat /\ (t = 0 <=> s = 0)
  BY DEF Keeps
<1>4. /\ t < m => Carried(t, w) = t
      /\ (m <= t /\ t < 2 * m) => Carried(t, w) = t - m + 1
  <2>1. t \in Nat
    BY <1>1, <1>3
  <2>2. QED
    BY <2>1, CarriedIs
<1> HIDE DEF m
<1>5. k \in Nat \ {0} /\ m = k + 1
  BY <1>1
<1> HIDE DEF k
<1> DEFINE r == Carried(t, w)
<1> HIDE DEF r
<1>6. CASE t = 0
  BY <1>1, <1>3, <1>4, <1>6
<1>7. CASE t \in 1..k
  <2> DEFINE j == t - 1
  <2>1. Carried(t, w) = t /\ s # 0
    BY <1>3, <1>4, <1>5, <1>7
  <2>2. j \in 0..(k - 1) /\ t = j + 1
    BY <1>5, <1>7
  <2>3. s - 1 = c * k + j
    <3>1. c * k \in Nat
      BY <1>5
    <3>2. QED
      BY <1>2, <1>3, <2>2, <3>1
  <2> HIDE DEF j
  <2>4. (c * k + j) % k = j
    BY <1>5, <2>2, DivMod
  <2>5. QED
    BY <2>1, <2>2, <2>3, <2>4 DEF k, m
<1>8. CASE t = m
  <2>1. Carried(t, w) = 1 /\ s # 0
    BY <1>1, <1>3, <1>4, <1>8
  <2>2. s - 1 = (c + 1) * k + 0
    <3>1. c * k \in Nat /\ (c + 1) * k = c * k + k
      BY <1>5
    <3>2. QED
      BY <1>2, <1>3, <1>5, <1>8, <3>1
  <2>3. c + 1 \in Nat /\ 0 \in 0..(k - 1)
    BY <1>5
  <2> DEFINE b == c + 1
  <2> HIDE DEF b
  <2>4. (b * k + 0) % k = 0
    BY <1>5, <2>3, DivMod DEF b
  <2>5. QED
    BY <2>1, <2>2, <2>4 DEF k, m, b
<1>9. QED
  BY <1>3, <1>5, <1>6, <1>7, <1>8

\* Numbers made of numbers, step by step.
LEMMA IterateNat ==
    ASSUME NEW m \in Nat, NEW g, \A i \in 1..m, x \in Nat : g[i][x] \in Nat
    PROVE  \E f \in [0..m -> Nat] : Iterate(f, 0, g, 0..m)
<1>1. PICK f : Iterate(f, 0, g, 0..m)
  BY IterateExists
<1>2. Stepwise(f, 0, g, m)
  BY <1>1, IterateIs
<1>3. f[0] = 0 /\ \A i \in 1..m : f[i] = g[i][f[i - 1]]
  BY <1>2 DEF Stepwise
<1> DEFINE S == {n \in Nat : n <= m => f[n] \in Nat}
<1>4. 0 \in S
  BY <1>3
<1>5. ASSUME NEW n \in S
      PROVE  n + 1 \in S
  <2> SUFFICES ASSUME n + 1 <= m
               PROVE  f[n + 1] \in Nat
    OBVIOUS
  <2> DEFINE k == n + 1
  <2>1. k \in 1..m /\ k - 1 = n /\ f[n] \in Nat
    OBVIOUS
  <2> HIDE DEF k
  <2>2. f[k] = g[k][f[n]]
    BY <1>3, <2>1
  <2>3. QED
    BY <2>1, <2>2 DEF k
<1>6. \A n \in Nat : n \in S
  <2> HIDE DEF S
  <2>1. S \in SUBSET Nat
    BY DEF S
  <2>2. QED
    BY <1>4, <1>5, <2>1, Counting
<1>7. f \in [0..m -> Nat]
  <2>1. \A i \in 0..m : f[i] \in Nat
    BY <1>6
  <2>2. f = [i \in 0..m |-> IF i = 0 THEN 0 ELSE g[i][f[i - 1]]]
    BY <1>1 DEF Iterate
  <2>3. QED
    BY <2>1, <2>2
<1>8. QED
  BY <1>1, <1>7

\* The pieces added with the carry brought round (total).
Adding(f, chunk, k, w) == f = [i \in 0..k |-> IF i = 0 THEN 0 ELSE Carried(f[i - 1] + chunk[i], w)]

\* There is such a function.
LEMMA AddingExists ==
    ASSUME NEW k \in Nat, NEW w \in Nat \ {0}, NEW chunk \in [1..k -> Nat]
    PROVE  \E f : Adding(f, chunk, k, w)
<1> DEFINE g == [i \in Nat |-> [x \in Nat |-> Carried(x + chunk[i], w)]]
<1>1. ASSUME NEW i \in 1..k, NEW x \in Nat
      PROVE  g[i][x] = Carried(x + chunk[i], w) /\ g[i][x] \in Nat
  <2>1. i \in Nat /\ chunk[i] \in Nat
    OBVIOUS
  <2>2. g[i][x] = Carried(x + chunk[i], w)
    BY <2>1
  <2>3. x + chunk[i] \in Nat
    BY <2>1
  <2> HIDE DEF g
  <2>4. QED
    BY <2>2, <2>3, CarriedIs
<1> HIDE DEF g
<1>2. PICK f \in [0..k -> Nat] : Iterate(f, 0, g, 0..k)
  BY <1>1, IterateNat
<1> DEFINE p(i) == IF i = 0 THEN 0 ELSE g[i][f[i - 1]]
           q(i) == IF i = 0 THEN 0 ELSE Carried(f[i - 1] + chunk[i], w)
<1>3. ASSUME NEW i \in 0..k
      PROVE  p(i) = q(i)
  <2>1. CASE i # 0
    <3> DEFINE x == f[i - 1]
    <3>1. i \in 1..k /\ i - 1 \in 0..k
      BY <2>1
    <3>2. x \in Nat
      BY <3>1
    <3> HIDE DEF x
    <3>3. g[i][x] = Carried(x + chunk[i], w)
      BY <1>1, <3>1, <3>2
    <3>4. QED
      BY <3>3 DEF x
  <2>2. QED
    BY <2>1
<1>4. f = [i \in 0..k |-> p(i)]
  BY <1>2 DEF Iterate
<1> HIDE DEF p, q
<1>5. f = [i \in 0..k |-> q(i)]
  BY <1>3, <1>4
<1>6. QED
  BY <1>5 DEF q, Adding

\* The pieces added without it.
Summing(f, chunk, k, w) == f = [i \in 0..k |-> IF i = 0 THEN 0 ELSE f[i - 1] + chunk[i]]

\* And such.
LEMMA SummingExists ==
    ASSUME NEW k \in Nat, NEW w \in Nat \ {0}, NEW chunk \in [1..k -> Nat]
    PROVE  \E f : Summing(f, chunk, k, w)
<1> DEFINE g == [i \in Nat |-> [x \in Nat |-> x + chunk[i]]]
<1>1. ASSUME NEW i \in 1..k, NEW x \in Nat
      PROVE  g[i][x] = x + chunk[i] /\ g[i][x] \in Nat
  <2>1. i \in Nat /\ chunk[i] \in Nat
    OBVIOUS
  <2>2. g[i][x] = x + chunk[i]
    BY <2>1
  <2>3. x + chunk[i] \in Nat
    BY <2>1
  <2> HIDE DEF g
  <2>4. QED
    BY <2>2, <2>3
<1> HIDE DEF g
<1>2. PICK f \in [0..k -> Nat] : Iterate(f, 0, g, 0..k)
  BY <1>1, IterateNat
<1> DEFINE p(i) == IF i = 0 THEN 0 ELSE g[i][f[i - 1]]
           q(i) == IF i = 0 THEN 0 ELSE f[i - 1] + chunk[i]
<1>3. ASSUME NEW i \in 0..k
      PROVE  p(i) = q(i)
  <2>1. CASE i # 0
    <3> DEFINE x == f[i - 1]
    <3>1. i \in 1..k /\ i - 1 \in 0..k
      BY <2>1
    <3>2. x \in Nat
      BY <3>1
    <3> HIDE DEF x
    <3>3. g[i][x] = x + chunk[i]
      BY <1>1, <3>1, <3>2
    <3>4. QED
      BY <3>3 DEF x
  <2>2. QED
    BY <2>1
<1>4. f = [i \in 0..k |-> p(i)]
  BY <1>2 DEF Iterate
<1> HIDE DEF p, q
<1>5. f = [i \in 0..k |-> q(i)]
  BY <1>3, <1>4
<1>6. QED
  BY <1>5 DEF q, Summing

\* The two agree but for the modulus, after each piece.
LEMMA NfoldIs ==
    ASSUME NEW bytes \in Seq(0..255) \ {<<>>}, NEW n \in Nat \ {0}
    PROVE  Nfold(bytes, n)
           = IF PieceSum(bytes, n) = 0 THEN 0
             ELSE ((PieceSum(bytes, n) - 1) % (Pow2[8 * n] - 1)) + 1
<1> DEFINE w == 8 * n
           chunk == Chunks(bytes, n)
           total == CHOOSE f : Adding(f, chunk, Len(chunk), w)
           sum == CHOOSE f : Summing(f, chunk, Len(chunk), w)
<1>1. Nfold(bytes, n) = Carried(total[Len(chunk)], w)
  BY DEF Nfold, Adding
<1>2. PieceSum(bytes, n) = sum[Len(chunk)]
  BY DEF PieceSum, Summing
<1>3. PICK k \in Nat : chunk \in [1..k -> 0..(Pow2[w] - 1)]
  BY ChunksAre
<1>4. w \in Nat \ {0}
  OBVIOUS
<1> HIDE DEF w, chunk
<1>5. Len(chunk) = k
  <2> DEFINE D == 0..(Pow2[w] - 1)
  <2>1. chunk \in [1..k -> D]
    BY <1>3
  <2> HIDE DEF D
  <2>2. QED
    BY <2>1
<1>6. Pow2[w] \in Nat /\ Pow2[w] >= 2
  BY <1>4, Pow2Positive
<1>7. chunk \in [1..k -> Nat]
  BY <1>3, <1>6
<1>8. Adding(total, chunk, k, w)
  <2>1. \E f : Adding(f, chunk, k, w)
    BY <1>4, <1>7, AddingExists
  <2>2. QED
    BY <1>5, <2>1
<1>9. Summing(sum, chunk, k, w)
  <2>1. \E f : Summing(f, chunk, k, w)
    BY <1>4, <1>7, SummingExists
  <2>2. QED
    BY <1>5, <2>1
<1> HIDE DEF total, sum
<1>10. \A i \in 0..k :
          /\ total[i] = IF i = 0 THEN 0 ELSE Carried(total[i - 1] + chunk[i], w)
          /\ sum[i] = IF i = 0 THEN 0 ELSE sum[i - 1] + chunk[i]
  <2>1. total = [i \in 0..k |-> IF i = 0 THEN 0 ELSE Carried(total[i - 1] + chunk[i], w)]
    BY <1>8 DEF Adding
  <2>2. sum = [i \in 0..k |-> IF i = 0 THEN 0 ELSE sum[i - 1] + chunk[i]]
    BY <1>9 DEF Summing
  <2>3. QED
    BY <2>1, <2>2
<1> DEFINE S == {i \in Nat : i <= k => Keeps(total[i], sum[i], w)}
<1>11. 0 \in S
  <2>1. total[0] = 0 /\ sum[0] = 0
    BY <1>10
  <2>2. Keeps(0, 0, w)
    <3> DEFINE m == Pow2[w] - 1
    <3>1. 0 = 0 + 0 * m
      BY <1>6
    <3>2. \E c \in Nat : 0 = 0 + c * m
      BY <3>1
    <3>3. 0 \in 0..Pow2[w]
      BY <1>6
    <3>4. QED
      BY <3>2, <3>3 DEF Keeps
  <2>3. QED
    BY <2>1, <2>2
<1>12. ASSUME NEW i \in S
       PROVE  i + 1 \in S
  <2> SUFFICES ASSUME i + 1 <= k
               PROVE  Keeps(total[i + 1], sum[i + 1], w)
    OBVIOUS
  <2> DEFINE j == i + 1
             d == chunk[j]
  <2>1. j \in 1..k /\ j \in 0..k /\ j # 0 /\ j - 1 = i /\ Keeps(total[i], sum[i], w)
    OBVIOUS
  <2> HIDE DEF j, S
  <2>2. d \in 0..(Pow2[w] - 1)
    BY <1>3, <2>1
  <2>3. total[j] = Carried(total[i] + d, w) /\ sum[j] = sum[i] + d
    BY <1>10, <2>1
  <2> HIDE DEF d
  <2>4. Keeps(Carried(total[i] + d, w), sum[i] + d, w)
    BY <1>4, <2>1, <2>2, KeepsAdding
  <2>5. QED
    BY <2>3, <2>4 DEF j
<1>13. Keeps(total[k], sum[k], w)
  <2> HIDE DEF S
  <2>1. S \in SUBSET Nat
    BY DEF S
  <2>2. k \in S
    BY <1>11, <1>12, <2>1, Counting
  <2>3. QED
    BY <2>2 DEF S
<1>14. Carried(total[k], w)
       = IF sum[k] = 0 THEN 0 ELSE ((sum[k] - 1) % (Pow2[w] - 1)) + 1
  BY <1>4, <1>13, KeepsAtLast
<1>15. QED
  BY <1>1, <1>2, <1>5, <1>14 DEF w

\* What fold holds is an n-fold of one of the inputs.
Folding ==
    fold # Nothing =>
        \E bytes \in FoldInput, n \in FoldLength :
            fold = [bytes |-> bytes, length |-> n, result |-> Nfold(bytes, n)]

\* So it is the sum.
LEMMA FoldingSafe == Folding => FoldIsSum
<1> SUFFICES ASSUME Folding, fold # Nothing
             PROVE  FoldIsSum
  BY DEF FoldIsSum
<1>1. PICK bytes \in FoldInput, n \in FoldLength :
         fold = [bytes |-> bytes, length |-> n, result |-> Nfold(bytes, n)]
  BY DEF Folding
<1>2. bytes \in Seq(0..255) \ {<<>>} /\ n \in Nat \ {0}
  BY FoldAssumption
<1>3. Nfold(bytes, n)
      = IF PieceSum(bytes, n) = 0 THEN 0
        ELSE ((PieceSum(bytes, n) - 1) % (Pow2[8 * n] - 1)) + 1
  BY <1>2, NfoldIs
<1>4. fold.bytes = bytes /\ fold.length = n /\ fold.result = Nfold(bytes, n)
  BY <1>1
<1>5. QED
  BY <1>3, <1>4 DEF FoldIsSum

\* Every step leaves it so.
LEMMA FoldingNext ==
    ASSUME Folding, [Next]_vars
    PROVE  Folding'
<1>1. CASE UNCHANGED fold
  BY <1>1 DEF Folding
<1>2. ASSUME NEW bytes \in FoldInput, NEW n \in FoldLength, Fold(bytes, n)
      PROVE  Folding'
  BY <1>2 DEF Fold, Folding
<1>3. QED
  BY <1>1, <1>2 DEF Next, CryptoNext, Seal, Alter, Open, vars, cryptoVars

\* For every input and length the result is the sum of the pieces modulo 2^(8n) - 1,
\* with that modulus itself in place of a zero that is none: so it fits in n bytes, as
\* total.to_bytes demands, and no carry is left (nfold of core/crypto.py).
THEOREM FoldAlwaysSum == Spec => []FoldIsSum
<1>1. Init => Folding
  BY DEF Init, CryptoInit, Folding
<1>2. Folding /\ [Next]_vars => Folding'
  BY FoldingNext
<1>3. QED
  BY <1>1, <1>2, FoldingSafe, PTL DEF Spec

-----------------------------------------------------------------------------
(* Times *)

\* A quotient is rounded by at most a half.
LEMMA Halves ==
    ASSUME NEW n \in Nat, NEW d \in Nat \ {0}
    PROVE  /\ Rounded(n, d) \in Nat
           /\ 2 * (Rounded(n, d) * d) <= 2 * n + d
           /\ 2 * n <= 2 * (Rounded(n, d) * d) + d
<1>1. PICK q \in Nat, r \in 0..(d - 1) : n = q * d + r /\ n \div d = q /\ n % d = r
  BY Division
<1>2. q * d \in Nat /\ (q + 1) * d = q * d + d
  OBVIOUS
<1>3. CASE 2 * r < d \/ (2 * r = d /\ q % 2 = 0)
  <2>1. Rounded(n, d) = q
    BY <1>1, <1>3 DEF Rounded
  <2>2. QED
    BY <1>1, <1>2, <1>3, <2>1
<1>4. CASE ~(2 * r < d \/ (2 * r = d /\ q % 2 = 0))
  <2>1. Rounded(n, d) = q + 1
    BY <1>1, <1>4 DEF Rounded
  <2>2. d <= 2 * r
    BY <1>4
  <2>3. QED
    BY <1>1, <1>2, <2>1, <2>2
<1>5. QED
  BY <1>3, <1>4

\* ... and not at all when there is no need.
LEMMA RoundedWhole ==
    ASSUME NEW q \in Nat, NEW d \in Nat \ {0}
    PROVE  Rounded(q * d, d) = q
<1>1. (q * d + 0) \div d = q /\ (q * d + 0) % d = 0
  BY DivMod
<1>2. q * d + 0 = q * d
  OBVIOUS
<1>3. (q * d) \div d = q /\ (q * d) % d = 0
  BY <1>1, <1>2
<1> DEFINE n == q * d
<1> HIDE DEF n
<1>4. n \div d = q /\ n % d = 0
  BY <1>3 DEF n
<1>5. Rounded(n, d) = q
  BY <1>4 DEF Rounded
<1>6. QED
  BY <1>5 DEF n

\* A time on the wire is no more than half a microsecond late.
LEMMA KrbTimeIs ==
    ASSUME NEW t \in Nat
    PROVE  /\ KrbTime(t) \in Nat
           /\ 2 * (Micro * (KrbTime(t) * Fine)) <= 2 * (Micro * t) + Fine
           /\ Fine <= t => KrbTime(t) # 0
<1> USE TimeAssumption
<1>1. t # None /\ t * Micro \in Nat
  BY NoneAssumption
<1> DEFINE R == Rounded(t * Micro, Fine)
<1>2. /\ R \in Nat
      /\ 2 * (R * Fine) <= 2 * (t * Micro) + Fine
      /\ 2 * (t * Micro) <= 2 * (R * Fine) + Fine
  BY <1>1, Halves
<1>3. KrbTime(t) = R \div Micro
  BY <1>1 DEF KrbTime
<1> HIDE DEF R
<1>4. PICK q \in Nat, r \in 0..(Micro - 1) : R = q * Micro + r /\ R \div Micro = q
  BY <1>2, Division
<1>5. q * Micro <= R
  BY <1>4
<1>6. Micro * (q * Fine) <= R * Fine
  <2>1. (q * Micro) * Fine <= R * Fine
    BY <1>2, <1>5, MulMono
  <2>2. (q * Micro) * Fine = Micro * (q * Fine)
    OBVIOUS
  <2>3. QED
    BY <2>1, <2>2
<1>7. ASSUME Fine <= t, q = 0
      PROVE  FALSE
  <2>1. R <= Micro - 1
    BY <1>4, <1>7
  <2>2. R * Fine <= (Micro - 1) * Fine
    BY <1>2, <2>1, MulMono
  <2>3. (Micro - 1) * Fine = Micro * Fine - Fine
    OBVIOUS
  <2>4. Micro * Fine <= t * Micro
    <3>1. Fine * Micro <= t * Micro
      BY <1>7, MulMono
    <3>2. QED
      BY <3>1
  <2>5. QED
    BY <1>1, <1>2, <2>2, <2>3, <2>4
<1>8. t * Micro = Micro * t /\ Micro * t \in Nat /\ Micro * (q * Fine) \in Nat
      /\ R * Fine \in Nat
  BY <1>2
<1>9. QED
  BY <1>2, <1>3, <1>4, <1>6, <1>7, <1>8

\* A whole second stays what it is.
LEMMA KrbTimeExact ==
    ASSUME NEW s \in Nat
    PROVE  KrbTime(s * Fine) = s
<1> USE TimeAssumption
<1>1. s * Fine \in Nat /\ (s * Fine) * Micro = (s * Micro) * Fine /\ s * Micro \in Nat
  OBVIOUS
<1>2. s * Fine # None
  BY <1>1, NoneAssumption
<1>3. KrbTime(s * Fine) = Rounded((s * Micro) * Fine, Fine) \div Micro
  BY <1>1, <1>2 DEF KrbTime
<1>4. Rounded((s * Micro) * Fine, Fine) = s * Micro
  BY <1>1, RoundedWhole
<1>5. (s * Micro) \div Micro = s
  <2>1. (s * Micro + 0) \div Micro = s
    BY DivMod
  <2>2. QED
    BY <2>1, <1>1
<1>6. QED
  BY <1>3, <1>4, <1>5

\* The two parts of a stamp, and the moment that its reader makes of them.
LEMMA StampIs ==
    ASSUME NEW t \in Nat
    PROVE  /\ Stamp(t).ctime \in Nat /\ Stamp(t).cusec \in Nat
           /\ KrbTime(Stamp(t).ctime) \in Nat
           /\ FromKrbTime(KrbTime(Stamp(t).ctime)) = Stamp(t).ctime
           /\ Moment(Stamp(t).ctime, Stamp(t).cusec) \in Nat
           /\ 2 * Micro * Moment(Stamp(t).ctime, Stamp(t).cusec)
                  <= 2 * Micro * t + Fine
           /\ 2 * Micro * t
                  <= 2 * Micro * Moment(Stamp(t).ctime, Stamp(t).cusec) + Fine
<1> USE TimeAssumption
<1>1. PICK s \in Nat, f \in 0..(Fine - 1) : t = s * Fine + f /\ t % Fine = f
  BY Division
<1>2. PICK g \in Nat : Fine = g * Micro /\ Fine \div Micro = g
  <2>1. PICK g \in Nat, r \in 0..(Micro - 1) :
            Fine = g * Micro + r /\ Fine \div Micro = g /\ Fine % Micro = r
    BY Division
  <2>2. QED
    BY <2>1
<1> DEFINE c == s * Fine
           u == Rounded(f * Micro, Fine)
<1>3. f * Micro \in Nat /\ c \in Nat
  OBVIOUS
<1>4. /\ u \in Nat
      /\ 2 * (u * Fine) <= 2 * (f * Micro) + Fine
      /\ 2 * (f * Micro) <= 2 * (u * Fine) + Fine
  BY <1>3, Halves
<1>5. Stamp(t).ctime = c /\ Stamp(t).cusec = u
  BY <1>1, <1>3 DEF Stamp
<1>6. KrbTime(c) = s
  BY KrbTimeExact
<1>7. s # None
  BY NoneAssumption
<1>8. FromKrbTime(KrbTime(c)) = c
  BY <1>6, <1>7 DEF FromKrbTime
<1>9. Moment(c, u) = c + u * g
  BY <1>2 DEF Moment
<1> HIDE DEF u
<1>10. Micro * (u * g) = u * Fine
  <2>1. Micro * (u * g) = u * (g * Micro)
    BY <1>2, <1>4
  <2>2. QED
    BY <1>2, <2>1
<1> HIDE DEF c
<1>11. Micro * (c + u * g) = Micro * c + u * Fine /\ Micro * c \in Nat /\ u * Fine \in Nat
       /\ c + u * g \in Nat
  BY <1>3, <1>4, <1>10
<1>12. Micro * t = Micro * c + f * Micro
  <2>1. t = c + f
    BY <1>1 DEF c
  <2>2. QED
    BY <2>1, <1>3
<1>13. 2 * Micro * t = 2 * (Micro * t)
       /\ 2 * Micro * (c + u * g) = 2 * (Micro * (c + u * g))
  BY <1>3, <1>11
<1>14. /\ 2 * Micro * (c + u * g) <= 2 * Micro * t + Fine
       /\ 2 * Micro * t <= 2 * Micro * (c + u * g) + Fine
  BY <1>3, <1>4, <1>11, <1>12, <1>13
<1>15. QED
  BY <1>3, <1>4, <1>5, <1>6, <1>8, <1>9, <1>11, <1>14

\* A name survives the wire, with its realm.
LEMMA NameIs ==
    ASSUME NEW p \in Name
    PROVE  /\ PrincipalName(p) \in PrincipalNameType
           /\ PrincipalToString(PrincipalName(p), p.realm) = p
           /\ p.realm \in STRING /\ p # None /\ PrincipalName(p).strings = p.parts
<1>1. PrincipalName(p) \in PrincipalNameType
  BY DEF Name, PrincipalName, PrincipalNameType
<1>2. PrincipalToString(PrincipalName(p), p.realm) = p
  BY DEF Name, PrincipalName, PrincipalToString
<1>3. p.realm \in STRING /\ PrincipalName(p).strings = p.parts
  BY DEF Name, PrincipalName
<1>4. QED
  BY <1>1, <1>2, <1>3, NoneAssumption

\* The TGS of a realm is a name of it.
LEMMA TgsIs ==
    ASSUME NEW r \in STRING
    PROVE  TgsOf(r) \in Name /\ TgsOf(r).realm = r
<1>1. <<"krbtgt", r>> \in Seq(STRING)
  BY StringAssumption
<1>2. <<"krbtgt", r>> # <<>>
  <2>1. Len(<<"krbtgt", r>>) = 2 /\ Len(<<>>) = 0
    OBVIOUS
  <2>2. QED
    BY <2>1
<1>3. QED
  BY <1>1, <1>2 DEF TgsOf, Name

\* The names of the database are names; every client's realm has a TGS.
LEMMA Names ==
    /\ \A c \in Client : c \in Name /\ c.realm \in STRING /\ TgsOf(c.realm) \in Principal
    /\ \A s \in Service : s \in Name
    /\ \A s \in Stranger : s \in Name
    /\ Principal \subseteq Name
    /\ TGS_PRINCIPAL \in Name /\ TGS_PRINCIPAL.realm = Home
    /\ None \notin Client
<1>1. \A p \in Client \cup Service \cup Stranger : p \in Name
  BY NamesAssumption
<1>2. \A p \in Name : p.realm \in STRING
  BY DEF Name
<1>3. \A r \in RealmName : r \in STRING
  BY <1>1, <1>2 DEF RealmName
<1>4. Tgs \subseteq Name
  BY <1>3, TgsIs DEF Tgs
<1>5. \A c \in Client : TgsOf(c.realm) \in Tgs
  BY DEF Tgs, RealmName
<1>6. TGS_PRINCIPAL \in Name /\ TGS_PRINCIPAL.realm = Home
  BY TgsIs, StringAssumption DEF TGS_PRINCIPAL
<1>7. QED
  BY <1>1, <1>2, <1>4, <1>5, <1>6, NoneAssumption DEF Principal

\* A realm has a TGS of its own.
LEMMA TgsInjective ==
    ASSUME NEW r, NEW s, TgsOf(r) = TgsOf(s)
    PROVE  r = s
BY DEF TgsOf

\* What is a key; None is not.
LEMMA KeysAre ==
    /\ \A p \in Name : PasswordKey(p) \in Key /\ <<"wrong", p>> \in Key
    /\ \A n \in Nat : SessionKey(n) \in Key /\ <<"subkey", n>> \in Key
                      /\ <<"server", n>> \in Key
    /\ \A p \in Name, n \in Nat : LongTermKey(p, n) \in Key
    /\ None \notin Key
<1>1. None \notin Key
  BY NoneAssumption
<1>2. \A p \in Name : PasswordKey(p) \in Key /\ <<"wrong", p>> \in Key
  BY DEF Key, PasswordKey
<1>3. \A n \in Nat : SessionKey(n) \in Key /\ <<"subkey", n>> \in Key
                      /\ <<"server", n>> \in Key
  BY DEF Key, SessionKey
<1>4. \A p \in Name, n \in Nat : LongTermKey(p, n) \in Key
  BY DEF Key, LongTermKey
<1>5. QED
  BY <1>1, <1>2, <1>3, <1>4

\* A long-term key is one version of one principal's.
LEMMA LongTermKeyInjective ==
    ASSUME NEW p, NEW q, NEW m, NEW n, LongTermKey(p, m) = LongTermKey(q, n)
    PROVE  p = q /\ m = n
BY DEF LongTermKey

\* The flags of a ticket are bits, and back.
LEMMA Flags ==
    /\ \A F : FlagsToBitString(F) \in KerberosFlags
    /\ \A B \in KerberosFlags : BitStringToFlags(B) \in SUBSET Flag
    /\ \A B : 8 \in B => "renewable" \in BitStringToFlags(B)
    /\ \A F : "renewable" \in F => 8 \in FlagsToBitString(F)
    /\ BitStringToFlags(FlagsToBitString({"renew"})) = {"renew"}
    /\ "renew" \notin BitStringToFlags(FlagsToBitString({}))
<1>1. \A F : FlagsToBitString(F) \in KerberosFlags
  <2>1. \A f \in DOMAIN FlagBit : FlagBit[f] \in 0..31
    BY DEF FlagBit
  <2>2. QED
    BY <2>1 DEF FlagsToBitString, KerberosFlags
<1>2. (\A b \in 1..14 : BitFlag[b] \in Flag) /\ "renew" \in Flag
  <2>1. DOMAIN FlagBit =
            {"forwardable", "forwarded", "proxiable", "proxy", "may_postdate",
             "postdated", "invalid", "renewable", "initial", "pre_authent",
             "hw_authent", "transited_policy_checked", "ok_as_delegate",
             "anonymous", "renew"}
    BY DEF FlagBit
  <2>2. QED
    BY <2>1 DEF BitFlag, Flag
<1>3. \A B \in KerberosFlags : BitStringToFlags(B) \in SUBSET Flag
  BY <1>2 DEF BitStringToFlags
<1>4. \A B : 8 \in B => "renewable" \in BitStringToFlags(B)
  <2>1. BitFlag[8] = "renewable"
    BY DEF BitFlag
  <2>2. QED
    BY <2>1 DEF BitStringToFlags
<1>5. \A F : "renewable" \in F => 8 \in FlagsToBitString(F)
  BY DEF FlagsToBitString, FlagBit
<1>6. BitStringToFlags(FlagsToBitString({"renew"})) = {"renew"}
  <2>1. FlagsToBitString({"renew"}) = {21}
    BY DEF FlagsToBitString, FlagBit
  <2>2. QED
    BY <2>1 DEF BitStringToFlags
<1>7. "renew" \notin BitStringToFlags(FlagsToBitString({}))
  BY DEF FlagsToBitString, FlagBit, BitStringToFlags
<1>8. QED
  BY <1>1, <1>3, <1>4, <1>5, <1>6, <1>7

\* A time that may be absent is one, also on the wire and back.
LEMMA OptionalTimeIs ==
    ASSUME NEW t \in Maybe(Nat)
    PROVE  OptionalTime(t) \in Maybe(Nat) /\ FromKrbTime(OptionalTime(t)) \in Maybe(Nat)
<1>1. CASE t \in {None, 0}
  BY <1>1 DEF OptionalTime, Maybe, FromKrbTime
<1>2. CASE t \notin {None, 0}
  <2>1. t \in Nat /\ OptionalTime(t) = KrbTime(t)
    BY <1>2 DEF OptionalTime, Maybe
  <2>2. KrbTime(t) \in Nat /\ KrbTime(t) # None
    BY <2>1, KrbTimeIs, NoneAssumption
  <2>3. FromKrbTime(KrbTime(t)) = KrbTime(t) * Fine
    BY <2>2 DEF FromKrbTime
  <2>4. KrbTime(t) * Fine \in Nat
    BY <2>2, TimeAssumption
  <2>5. QED
    BY <2>1, <2>2, <2>3, <2>4 DEF Maybe
<1>3. QED
  BY <1>1, <1>2

\* A time of the wire that is there comes back, and is nothing only at the start.
LEMMA FromKrbTimeIs ==
    ASSUME NEW s \in Nat
    PROVE  FromKrbTime(s) = s * Fine /\ s * Fine \in Nat /\ s # None /\ s * Fine # None
           /\ (s # 0 => s * Fine # 0)
<1>1. s * Fine \in Nat /\ (s # 0 => s * Fine # 0)
  BY TimeAssumption
<1>2. s # None /\ s * Fine # None
  BY <1>1, NoneAssumption
<1>3. QED
  BY <1>1, <1>2 DEF FromKrbTime

\* A client remembers a time of the ticket to the second.
LEMMA SecondsIs ==
    ASSUME NEW s \in Nat
    PROVE  Seconds(s * Fine) = s
<1>1. s * Fine # None
  BY FromKrbTimeIs
<1>2. (s * Fine + 0) \div Fine = s
  <2>1. 0 \in 0..(Fine - 1)
    BY TimeAssumption
  <2>2. QED
    BY <2>1, DivMod, TimeAssumption
<1>3. s * Fine + 0 = s * Fine
  BY TimeAssumption
<1>4. QED
  BY <1>1, <1>2, <1>3 DEF Seconds

\* The file has whole seconds, also of what is absent.
LEMMA SecondsNat ==
    ASSUME NEW t \in Maybe(Nat)
    PROVE  Seconds(t) \in Nat
<1>1. CASE t = None
  BY <1>1 DEF Seconds
<1>2. CASE t # None
  <2>1. t \in Nat /\ Seconds(t) = t \div Fine
    BY <1>2 DEF Seconds, Maybe
  <2>2. \E q \in Nat, r \in 0..(Fine - 1) : t \div Fine = q
    BY <2>1, Division, TimeAssumption
  <2>3. QED
    BY <2>1, <2>2
<1>3. QED
  BY <1>1, <1>2

-----------------------------------------------------------------------------
(* The cache and its file *)

\* The client of the ticket.
Holder(c) == PrincipalToString(c.ticket.der.cname, c.ticket.der.crealm)

\* A time the client has of a ticket is that of the ticket.
SameTimes(c) ==
    LET d == c.ticket.der
    IN  /\ c.metadata.endtime = d.endtime * Fine /\ d.endtime # 0
        /\ Or(c.metadata.renew_till, 0) = Or(FromKrbTime(d.renew_till), 0)

\* A ticket got at t or before is over in time.
InTime(s, t) ==
    2 * (Micro * (s * Fine)) <= 2 * (Micro * (t + TICKET_LIFETIME * Fine)) + Fine

\* A credential whose labels, key and times are those of its ticket, for a server
\* whose keys have the versions up to v.
Sound(c, server, v, t) ==
    LET d == c.ticket.der
    IN  /\ c \in CredentialType /\ server \in Principal
        /\ c.metadata.ticket_kvno \in 1..v
        /\ c.ticket.key = LongTermKey(server, c.metadata.ticket_kvno)
        /\ c.ticket.usage = 2
        /\ d.key = c.key /\ Holder(c) \in Client
        /\ SameTimes(c) /\ InTime(d.endtime, t)

SoundTgt(c, v, t) ==
    LET d == c.ticket.der
    IN  /\ Sound(c, TgsOf(Holder(c).realm), v[TgsOf(Holder(c).realm)], t)
        /\ c.metadata.client_principal = Holder(c)
        /\ 8 \in d.flags /\ d.renew_till \in Nat \ {0}

SoundCache(m, v, t) ==
    /\ m \in [client : Maybe(Client), tgt : Maybe(CredentialType),
              services : SUBSET CredentialType]
    /\ m.tgt # None => SoundTgt(m.tgt, v, t)
    /\ m.tgt = None => m.services = {}
    /\ \A c \in m.services : Sound(c, c.server, v[c.server], t)

Owned(m) == \A c \in Held(m) : Holder(c) = m.client

LoadedFrom(file) ==
    LET tgt == IF file.tgt = None THEN None ELSE UnpackCredential(file.tgt)
    IN  [client |-> IF tgt = None THEN None ELSE tgt.metadata.client_principal,
         tgt |-> tgt, services |-> {UnpackCredential(r) : r \in file.services}]

\* What a record of the file keeps of its entry's names and versions.
LEMMA MetadataIs ==
    ASSUME NEW m \in [flags : SUBSET Flag, authtime : Nat, starttime : Maybe(Nat),
                      endtime : Nat, renew_till : Maybe(Nat), client_principal : Name,
                      server_principal : Name, ticket_enctype : Nat, ticket_kvno : Nat]
    PROVE  /\ PackMetadata(m) \in [client_principal : Name, server_principal : Name,
                                   ticket_enctype : Nat, ticket_kvno : Nat]
           /\ Get(PackMetadata(m), "client_principal") = m.client_principal
           /\ Get(PackMetadata(m), "server_principal") = m.server_principal
           /\ Get(PackMetadata(m), "ticket_kvno") = m.ticket_kvno
<1> DEFINE D == {"client_principal", "server_principal", "ticket_enctype",
                 "ticket_kvno"}
           a == PackMetadata(m)
<1>0. /\ m.client_principal \in Name /\ m.server_principal \in Name
      /\ m.ticket_enctype \in Nat /\ m.ticket_kvno \in Nat
  OBVIOUS
<1>1. \A g \in D : m[g] # None
  BY <1>0, NoneAssumption
<1>2. {g \in MetadataFields : m[g] # None} = D
  BY <1>1 DEF MetadataFields
<1>3. a = [f \in D |-> m[f]]
  BY <1>2 DEF PackMetadata
<1>4. a = [client_principal |-> m.client_principal,
           server_principal |-> m.server_principal,
           ticket_enctype |-> m.ticket_enctype, ticket_kvno |-> m.ticket_kvno]
  BY <1>3
<1> HIDE DEF a
<1>5. a \in [client_principal : Name, server_principal : Name,
             ticket_enctype : Nat, ticket_kvno : Nat]
  BY <1>0, <1>4
<1>6. /\ Get(a, "client_principal") = m.client_principal
      /\ Get(a, "server_principal") = m.server_principal
      /\ Get(a, "ticket_kvno") = m.ticket_kvno
  BY <1>4 DEF Get
<1>7. QED
  BY <1>5, <1>6 DEF a

\* The file gives a credential back as the client had it, but for its flags, and under
\* the name it was filed.
LEMMA FiledIs ==
    ASSUME NEW c \in CredentialType, NEW name \in Name, SameTimes(c)
    PROVE  LET r == PackCredential(c, name)
               u == UnpackCredential(r)
           IN  /\ r \in FileRecord /\ u \in CredentialType
               /\ u.server = name /\ u.ticket = c.ticket /\ u.key = c.key
               /\ u.metadata.client_principal = c.metadata.client_principal
               /\ u.metadata.ticket_kvno = c.metadata.ticket_kvno
               /\ SameTimes(u)
<1> DEFINE r == PackCredential(c, name)
           u == UnpackCredential(r)
           m == c.metadata
           d == c.ticket.der
<1>1. /\ m \in [flags : SUBSET Flag, authtime : Nat, starttime : Maybe(Nat),
                endtime : Nat, renew_till : Maybe(Nat), client_principal : Name,
                server_principal : Name, ticket_enctype : Nat, ticket_kvno : Nat]
      /\ c.ticket \in SealedTicket /\ c.key \in Key
  BY DEF CredentialType
<1>2. d \in EncTicketPartType(Key)
  BY <1>1 DEF SealedTicket, CipherOf
<1>3. d.endtime \in Nat /\ d.renew_till \in Maybe(Nat)
  BY <1>2 DEF EncTicketPartType, KerberosTime
<1>4. /\ Seconds(m.authtime) \in Nat /\ Seconds(m.starttime) \in Nat
      /\ Seconds(m.endtime) \in Nat /\ Seconds(m.renew_till) \in Nat
  <2>1. /\ m.authtime \in Maybe(Nat) /\ m.starttime \in Maybe(Nat)
        /\ m.endtime \in Maybe(Nat) /\ m.renew_till \in Maybe(Nat)
    BY <1>1 DEF Maybe
  <2>2. QED
    BY <2>1, SecondsNat
<1> DEFINE a == PackMetadata(m)
<1>5. /\ a \in [client_principal : Name, server_principal : Name,
                ticket_enctype : Nat, ticket_kvno : Nat]
      /\ Get(a, "client_principal") = m.client_principal
      /\ Get(a, "server_principal") = m.server_principal
      /\ Get(a, "ticket_kvno") = m.ticket_kvno
  BY <1>1, MetadataIs
<1> HIDE DEF a
<1>6. r = [server |-> name, keytype |-> DEFAULT_ENCTYPE, key |-> c.key,
           times |-> [authtime |-> Seconds(m.authtime),
                      starttime |-> Seconds(m.starttime),
                      endtime |-> Seconds(m.endtime),
                      renew_till |-> Seconds(m.renew_till)],
           ticket |-> c.ticket, authdata |-> a]
  BY DEF PackCredential, a
<1>7. r \in FileRecord
  BY <1>1, <1>4, <1>5, <1>6 DEF FileRecord, DEFAULT_ENCTYPE
<1> DEFINE n == u.metadata
<1> HIDE DEF r
<1>8. /\ u.server = name /\ u.ticket = c.ticket /\ u.key = c.key
      /\ n.flags = {} /\ n.authtime = Seconds(m.authtime) * Fine
      /\ n.starttime = Seconds(m.starttime) * Fine
      /\ n.endtime = Seconds(m.endtime) * Fine
      /\ n.renew_till = Seconds(m.renew_till) * Fine
      /\ n.client_principal = m.client_principal
      /\ n.server_principal = m.server_principal
      /\ n.ticket_enctype = DEFAULT_ENCTYPE
      /\ n.ticket_kvno = m.ticket_kvno
  BY <1>5, <1>6 DEF UnpackCredential, Credential
<1>9. u = [server |-> u.server, ticket |-> u.ticket, key |-> u.key, metadata |-> n]
      /\ n = [flags |-> n.flags, authtime |-> n.authtime, starttime |-> n.starttime,
              endtime |-> n.endtime, renew_till |-> n.renew_till,
              client_principal |-> n.client_principal,
              server_principal |-> n.server_principal,
              ticket_enctype |-> n.ticket_enctype, ticket_kvno |-> n.ticket_kvno]
  BY DEF UnpackCredential, Credential
<1> HIDE DEF u
<1>10. u \in CredentialType
  <2>1. /\ n.authtime \in Nat /\ n.starttime \in Maybe(Nat) /\ n.endtime \in Nat
        /\ n.renew_till \in Maybe(Nat) /\ n.ticket_enctype \in Nat /\ n.ticket_kvno \in Nat
    BY <1>1, <1>4, <1>8, TimeAssumption DEF Maybe, DEFAULT_ENCTYPE
  <2>2. n.flags \in SUBSET Flag /\ n.client_principal \in Name
        /\ n.server_principal \in Name
    BY <1>1, <1>8
  <2> HIDE DEF n
  <2>3. n \in [flags : SUBSET Flag, authtime : Nat, starttime : Maybe(Nat),
               endtime : Nat, renew_till : Maybe(Nat), client_principal : Name,
               server_principal : Name, ticket_enctype : Nat, ticket_kvno : Nat]
    BY <1>9, <2>1, <2>2
  <2>4. QED
    BY <1>1, <1>8, <1>9, <2>3 DEF CredentialType
<1>11. SameTimes(u)
  <2>1. n.endtime = d.endtime * Fine /\ d.endtime # 0
    <3>1. m.endtime = d.endtime * Fine /\ d.endtime # 0
      BY DEF SameTimes
    <3>2. QED
      BY <1>3, <1>8, <3>1, SecondsIs
  <2>2. Or(n.renew_till, 0) = Or(FromKrbTime(d.renew_till), 0)
    <3>1. Or(m.renew_till, 0) = Or(FromKrbTime(d.renew_till), 0)
      BY DEF SameTimes
    <3>2. PICK s \in Nat : Or(FromKrbTime(d.renew_till), 0) = s * Fine
      <4>1. CASE d.renew_till = None
        <5>1. Or(FromKrbTime(d.renew_till), 0) = 0 * Fine
          BY <4>1, TimeAssumption DEF FromKrbTime, Or
        <5>2. QED
          BY <5>1
      <4>2. CASE d.renew_till # None
        <5>1. d.renew_till \in Nat
          BY <1>3, <4>2 DEF Maybe
        <5>2. QED
          BY <5>1, FromKrbTimeIs DEF Or
      <4>3. QED
        BY <4>1, <4>2
    <3>3. Seconds(m.renew_till) = s
      <4>1. CASE m.renew_till = None
        <5>1. s * Fine = 0
          BY <3>1, <3>2, <4>1 DEF Or
        <5>2. s = 0
          BY <5>1, TimeAssumption
        <5>3. QED
          BY <4>1, <5>2 DEF Seconds
      <4>2. CASE m.renew_till # None
        <5>1. m.renew_till = s * Fine
          BY <3>1, <3>2, <4>2 DEF Or
        <5>2. QED
          BY <5>1, SecondsIs
      <4>3. QED
        BY <4>1, <4>2
    <3>4. n.renew_till = s * Fine /\ s * Fine # None
      BY <1>8, <3>3, FromKrbTimeIs
    <3>5. QED
      BY <3>2, <3>4 DEF Or
  <2>3. u.ticket.der = d
    BY <1>8
  <2>4. QED
    BY <2>1, <2>2, <2>3 DEF SameTimes
<1>12. QED
  BY <1>7, <1>8, <1>10, <1>11 DEF u, r

\* Soundness is of the ticket, its labels and its times.
LEMMA SameSound ==
    ASSUME NEW c \in CredentialType, NEW u \in CredentialType, NEW server, NEW v, NEW t,
           Sound(c, server, v, t), SameTimes(u), u.ticket = c.ticket, u.key = c.key,
           u.metadata.ticket_kvno = c.metadata.ticket_kvno
    PROVE  Sound(u, server, v, t) /\ Holder(u) = Holder(c)
BY DEF Sound, Holder

\* The command that starts next finds what the last one left.
LEMMA FileKeeps ==
    ASSUME NEW m, NEW v, NEW t, SoundCache(m, v, t), Owned(m)
    PROVE  LET f == File(m)
               n == LoadedFrom(f)
           IN  /\ f \in [tgt : Maybe(FileRecord), services : SUBSET FileRecord]
               /\ SoundCache(n, v, t) /\ Owned(n)
<1> DEFINE f == File(m)
           n == LoadedFrom(f)
<1>0. /\ m \in [client : Maybe(Client), tgt : Maybe(CredentialType),
                services : SUBSET CredentialType]
      /\ m.tgt # None => SoundTgt(m.tgt, v, t)
      /\ m.tgt = None => m.services = {}
      /\ \A c \in m.services : Sound(c, c.server, v[c.server], t)
  BY DEF SoundCache
<1>1. \A c \in m.services : c \in CredentialType /\ c.server \in Name /\ SameTimes(c)
  <2>1. \A c \in m.services : c \in CredentialType
    BY <1>0
  <2>2. \A c \in m.services : SameTimes(c)
    BY <1>0 DEF Sound
  <2>3. QED
    BY <2>1, <2>2 DEF CredentialType
<1>2. ASSUME NEW c \in m.services
      PROVE  LET r == PackCredential(c, c.server)
                 u == UnpackCredential(r)
             IN  /\ r \in FileRecord /\ u \in CredentialType
                 /\ Sound(u, u.server, v[u.server], t) /\ Holder(u) = Holder(c)
  <2> DEFINE r == PackCredential(c, c.server)
             u == UnpackCredential(r)
  <2>1. /\ r \in FileRecord /\ u \in CredentialType
        /\ u.server = c.server /\ u.ticket = c.ticket /\ u.key = c.key
        /\ u.metadata.ticket_kvno = c.metadata.ticket_kvno /\ SameTimes(u)
    BY <1>1, FiledIs
  <2>2. c \in CredentialType /\ Sound(c, c.server, v[c.server], t)
    BY <1>0, <1>1
  <2> HIDE DEF u, r
  <2>3. Sound(u, c.server, v[c.server], t) /\ Holder(u) = Holder(c)
    BY <2>1, <2>2, SameSound
  <2>4. QED
    BY <2>1, <2>3 DEF u, r
<1>3. f.services = {PackCredential(c, c.server) : c \in m.services}
  BY DEF File
<1>4. f.services \in SUBSET FileRecord
  BY <1>2, <1>3
<1>5. CASE m.tgt = None
  <2>1. f = [tgt |-> None, services |-> {}]
    BY <1>0, <1>5 DEF File
  <2>2. n = [client |-> None, tgt |-> None, services |-> {}]
    <3> HIDE DEF f
    <3>1. QED
      BY <2>1 DEF LoadedFrom
  <2> HIDE DEF n, f
  <2>3. SoundCache(n, v, t)
    BY <2>2 DEF SoundCache, Maybe
  <2>4. Owned(n)
    BY <2>2 DEF Owned, Held
  <2>5. f \in [tgt : Maybe(FileRecord), services : SUBSET FileRecord]
    BY <2>1 DEF Maybe
  <2>6. QED
    BY <2>3, <2>4, <2>5 DEF n, f
<1>6. CASE m.tgt # None
  <2> DEFINE c == m.tgt
             name == TgsOf(m.client.realm)
             r == PackCredential(c, name)
             u == UnpackCredential(r)
  <2>1. c \in CredentialType /\ SoundTgt(c, v, t)
    BY <1>0, <1>6 DEF Maybe
  <2>2. c \in Held(m)
    BY <1>6 DEF Held
  <2>3. m.client = Holder(c)
    BY <2>2 DEF Owned
  <2>4. /\ Sound(c, TgsOf(Holder(c).realm), v[TgsOf(Holder(c).realm)], t)
        /\ c.metadata.client_principal = Holder(c)
        /\ 8 \in c.ticket.der.flags /\ c.ticket.der.renew_till \in Nat \ {0}
    BY <2>1 DEF SoundTgt
  <2>5. Holder(c) \in Client /\ SameTimes(c)
    BY <2>4 DEF Sound
  <2>6. name \in Name
    BY <2>3, <2>5, Names
  <2>7. /\ r \in FileRecord /\ u \in CredentialType
        /\ u.ticket = c.ticket /\ u.key = c.key
        /\ u.metadata.client_principal = c.metadata.client_principal
        /\ u.metadata.ticket_kvno = c.metadata.ticket_kvno /\ SameTimes(u)
    <3> HIDE DEF name, c
    <3>1. QED
      BY <2>1, <2>5, <2>6, FiledIs
  <2>8. f = [tgt |-> r, services |-> {PackCredential(d, d.server) : d \in m.services}]
    BY <1>6 DEF File
  <2>9. r # None /\ u # None
    BY <2>7, NoneAssumption
  <2> DEFINE S == {UnpackCredential(q) : q \in f.services}
  <2>10. n = [client |-> u.metadata.client_principal, tgt |-> u, services |-> S]
    <3> HIDE DEF r, f
    <3>1. f.tgt = r
      BY <2>8
    <3>2. UnpackCredential(f.tgt) = u
      BY <3>1
    <3> HIDE DEF u
    <3>3. QED
      BY <2>9, <3>1, <3>2 DEF LoadedFrom
  <2>11. S \in SUBSET CredentialType
         /\ \A s \in S : Sound(s, s.server, v[s.server], t) /\ Holder(s) = m.client
    <3> SUFFICES ASSUME NEW s \in S
                 PROVE  s \in CredentialType /\ Sound(s, s.server, v[s.server], t)
                        /\ Holder(s) = m.client
      OBVIOUS
    <3>1. PICK d \in m.services : s = UnpackCredential(PackCredential(d, d.server))
      BY <1>3
    <3>2. d \in Held(m)
      BY DEF Held
    <3>3. Holder(d) = m.client
      BY <3>2 DEF Owned
    <3>4. QED
      BY <1>2, <3>1, <3>3
  <2> HIDE DEF S, f, r, n, name
  <2>12. Sound(u, TgsOf(Holder(c).realm), v[TgsOf(Holder(c).realm)], t)
         /\ Holder(u) = Holder(c)
    <3> HIDE DEF u, c
    <3>1. QED
      BY <2>1, <2>4, <2>7, SameSound
  <2> HIDE DEF u, c
  <2>13. SoundTgt(u, v, t)
    BY <2>4, <2>7, <2>12 DEF SoundTgt
  <2>14. u.metadata.client_principal \in Client
         /\ u.metadata.client_principal = m.client /\ Holder(u) = m.client
    BY <2>3, <2>4, <2>5, <2>7, <2>12
  <2>15. SoundCache(n, v, t)
    <3>1. n \in [client : Maybe(Client), tgt : Maybe(CredentialType),
                 services : SUBSET CredentialType]
      BY <2>7, <2>10, <2>11, <2>14 DEF Maybe
    <3>2. n.tgt = u /\ n.services = S
      BY <2>10
    <3>3. QED
      BY <2>9, <2>11, <2>13, <3>1, <3>2 DEF SoundCache
  <2>16. Owned(n)
    <3>1. n.tgt = u /\ n.services = S /\ n.client = m.client
      BY <2>10, <2>14
    <3>2. Held(n) = S \cup {u}
      BY <2>9, <3>1 DEF Held
    <3>3. QED
      BY <2>11, <2>14, <3>1, <3>2 DEF Owned
  <2>17. f \in [tgt : Maybe(FileRecord), services : SUBSET FileRecord]
    <3>1. f = [tgt |-> r, services |-> f.services]
      BY <1>3, <2>8 DEF f
    <3>2. QED
      BY <1>4, <2>7, <3>1 DEF Maybe
  <2>18. QED
    BY <2>15, <2>16, <2>17 DEF n, f
<1>7. QED
  BY <1>5, <1>6

\* What is sound stays so, when time goes by and keys are added.
LEMMA SoundLasts ==
    ASSUME NEW c, NEW server, NEW v \in Nat, NEW w \in Nat, v <= w,
           NEW t \in Nat, NEW s \in Nat, t <= s, Sound(c, server, v, t)
    PROVE  Sound(c, server, w, s)
<1>1. InTime(c.ticket.der.endtime, s)
  <2> DEFINE e == c.ticket.der.endtime
             L == TICKET_LIFETIME * Fine
             a == Micro * (e * Fine)
  <2>1. 2 * a <= 2 * (Micro * (t + L)) + Fine
    BY DEF Sound, InTime
  <2>2. e \in Nat
    <3>1. c.ticket.der \in EncTicketPartType(Key)
      BY DEF Sound, CredentialType, SealedTicket, CipherOf
    <3>2. QED
      BY <3>1 DEF EncTicketPartType, KerberosTime
  <2>3. a \in Nat /\ L \in Nat
    BY <2>2, TimeAssumption, BoundsAssumption
  <2> HIDE DEF a, L
  <2>4. Micro * (t + L) <= Micro * (s + L) /\ Micro * (t + L) \in Nat
        /\ Micro * (s + L) \in Nat
    BY <2>3, TimeAssumption
  <2>5. 2 * a <= 2 * (Micro * (s + L)) + Fine
    BY <2>1, <2>3, <2>4, TimeAssumption
  <2>6. QED
    BY <2>5 DEF InTime, a, L
<1>2. c.metadata.ticket_kvno \in 1..w
  BY DEF Sound
<1>3. QED
  BY <1>1, <1>2 DEF Sound

\* So does a cache, with any later time and any newer keys.
LEMMA SoundCacheLasts ==
    ASSUME NEW m, NEW v \in [Principal -> Nat], NEW w \in [Principal -> Nat],
           \A p \in Principal : v[p] <= w[p],
           NEW t \in Nat, NEW s \in Nat, t <= s
    PROVE  /\ \A c : SoundTgt(c, v, t) => SoundTgt(c, w, s)
           /\ SoundCache(m, v, t) => SoundCache(m, w, s)
<1>1. ASSUME NEW c, NEW server, Sound(c, server, v[server], t)
      PROVE  Sound(c, server, w[server], s)
  <2>1. server \in Principal
    BY <1>1 DEF Sound
  <2>2. v[server] \in Nat /\ w[server] \in Nat /\ v[server] <= w[server]
    BY <2>1
  <2>3. QED
    BY <1>1, <2>2, SoundLasts
<1>2. ASSUME NEW c, SoundTgt(c, v, t)
      PROVE  SoundTgt(c, w, s)
  <2> DEFINE server == TgsOf(Holder(c).realm)
  <2>1. Sound(c, server, v[server], t)
    BY <1>2 DEF SoundTgt
  <2> HIDE DEF server
  <2>2. Sound(c, server, w[server], s)
    BY <1>1, <2>1
  <2>3. QED
    BY <1>2, <2>2 DEF SoundTgt, server
<1>3. ASSUME SoundCache(m, v, t)
      PROVE  SoundCache(m, w, s)
  <2>1. \A c \in m.services : Sound(c, c.server, w[c.server], s)
    <3> SUFFICES ASSUME NEW c \in m.services
                 PROVE  Sound(c, c.server, w[c.server], s)
      OBVIOUS
    <3>1. Sound(c, c.server, v[c.server], t)
      BY <1>3 DEF SoundCache
    <3>2. QED
      BY <1>1, <3>1
  <2>2. m.tgt # None => SoundTgt(m.tgt, w, s)
    BY <1>2, <1>3 DEF SoundCache
  <2>3. QED
    BY <1>3, <2>1, <2>2 DEF SoundCache
<1>4. QED
  BY <1>2, <1>3

-----------------------------------------------------------------------------
(* Messages *)

\* A message that travels as JSON is read as it was; one in DER as what is decoded.
LEMMA SerializeIs ==
    ASSUME NEW m, "json" \notin DOMAIN EncodeMessage(m, now)
    PROVE  \/ Serialize(m) = [json |-> m] /\ Deserialize(Serialize(m)) = m
           \/ /\ Serialize(m) = EncodeMessage(m, now)
              /\ Deserialize(Serialize(m)) = DecodeMessage(EncodeMessage(m, now))
<1>1. "json" \in DOMAIN [json |-> m] /\ [json |-> m].json = m
  OBVIOUS
<1>2. QED
  BY <1>1 DEF Serialize, Deserialize

\* JSON is told by its wrapping.
LEMMA JsonIs ==
    ASSUME NEW m
    PROVE  "json" \in DOMAIN [json |-> m]
OBVIOUS

\* The decoder goes by the tag, the encoder by the type.
LEMMA Decoded ==
    ASSUME NEW d
    PROVE  /\ d.tag = 10 => DecodeMessage(d) = ParseAsReq(d)
           /\ d.tag = 12 => DecodeMessage(d) = ParseTgsReq(d)
           /\ d.tag \in {11, 13} => DecodeMessage(d) = ParseKdcRep(d)
           /\ d.tag = 14 => DecodeMessage(d) = ParseApReq(d)
           /\ d.tag = 15 => DecodeMessage(d) = ParseApRep(d)
           /\ d.tag = 30 => DecodeMessage(d) = ParseKrbError(d)
BY DEF DecodeMessage

\* The encoder goes by msg_type.
LEMMA Encoded ==
    ASSUME NEW m, NEW t
    PROVE  /\ m.msg_type = "AS_REQ" => EncodeMessage(m, t) = BuildAsReq(m)
           /\ m.msg_type = "TGS_REQ" => EncodeMessage(m, t) = BuildTgsReq(m)
           /\ m.msg_type = "AS_REP" => EncodeMessage(m, t) = BuildKdcRep(m, 11)
           /\ m.msg_type = "TGS_REP" => EncodeMessage(m, t) = BuildKdcRep(m, 13)
           /\ m.msg_type = "AP_REQ" => EncodeMessage(m, t) = BuildApReq(m)
           /\ m.msg_type = "AP_REP" => EncodeMessage(m, t) = BuildApRep(m)
           /\ m.msg_type = "KRB_ERROR" => EncodeMessage(m, t) = BuildKrbError(m, t)
BY DEF EncodeMessage

\* An AS-REQ comes as it was sent.
LEMMA AsReqCarried ==
    ASSUME NEW client \in Name, NEW nonce \in Nat,
           NEW preauth \in CipherOf(PaEncTimestampType)
    PROVE  LET m == [msg_type |-> "AS_REQ", client_principal |-> client,
                     realm |-> client.realm, nonce |-> nonce,
                     kdc_options |-> {"renewable"}, preauth |-> preauth,
                     preauth_enctype |-> DEFAULT_ENCTYPE]
               n == Deserialize(Serialize(m))
           IN  /\ n.msg_type = "AS_REQ" /\ n.client_principal = client
               /\ n.realm = client.realm /\ n.nonce = nonce /\ n.preauth = preauth
               /\ n.preauth_enctype = DEFAULT_ENCTYPE
               /\ "json" \in DOMAIN Serialize(m) \/ Serialize(m) \in Der
<1> DEFINE m == [msg_type |-> "AS_REQ", client_principal |-> client,
                 realm |-> client.realm, nonce |-> nonce,
                 kdc_options |-> {"renewable"}, preauth |-> preauth,
                 preauth_enctype |-> DEFAULT_ENCTYPE]
           e == EncodeMessage(m, now)
           pa == [type |-> 2, value |-> EncryptedData(preauth, DEFAULT_ENCTYPE, None)]
           body == [options |-> FlagsToBitString({"renewable"}), realm |-> client.realm,
                    nonce |-> nonce, cname |-> PrincipalName(client),
                    sname |-> PrincipalName(TGS_PRINCIPAL)]
<1>1. client # None /\ client.realm \in STRING /\ PrincipalName(client) \in PrincipalNameType
      /\ PrincipalToString(PrincipalName(client), client.realm) = client
  BY NameIs
<1>2. e = [tag |-> 10, padata |-> pa, body |-> body]
  <2>1. e = BuildAsReq(m)
    BY Encoded
  <2>2. QED
    BY <1>1, <2>1 DEF BuildAsReq, ReqBody
<1>3. "json" \notin DOMAIN e
  BY <1>2
<1> DEFINE n == DecodeMessage(e)
<1>4. /\ n.msg_type = "AS_REQ" /\ n.client_principal = client
      /\ n.realm = client.realm /\ n.nonce = nonce /\ n.preauth = preauth
      /\ n.preauth_enctype = DEFAULT_ENCTYPE
  <2>1. e.tag = 10 /\ e.padata = pa /\ e.body = body
    BY <1>2
  <2> HIDE DEF e
  <2>2. n = ParseAsReq(e)
    BY <2>1, Decoded
  <2>3. /\ pa.value.cipher = preauth /\ pa.value.etype = DEFAULT_ENCTYPE
        /\ body.cname = PrincipalName(client) /\ body.realm = client.realm
        /\ body.nonce = nonce
    BY DEF EncryptedData
  <2> HIDE DEF pa, body
  <2>4. QED
    BY <1>1, <2>1, <2>2, <2>3 DEF ParseAsReq
<1>5. e \in Der
  <2>1. pa \in PADataType(2, EncryptedDataType(CipherOf(PaEncTimestampType)))
    BY DEF PADataType, EncryptedDataType, EncryptedData, DEFAULT_ENCTYPE, Maybe
  <2>2. body \in KDCReqBodyType
    <3>1. PrincipalName(TGS_PRINCIPAL) \in PrincipalNameType
      BY Names, NameIs
    <3>2. FlagsToBitString({"renewable"}) \in KerberosFlags
      BY Flags
    <3>3. QED
      BY <1>1, <3>1, <3>2 DEF KDCReqBodyType, Maybe
  <2> HIDE DEF pa, body
  <2>3. QED
    BY <1>2, <2>1, <2>2 DEF Der, KDCReqType
<1> HIDE DEF e, n
<1>6. CASE Serialize(m) = [json |-> m] /\ Deserialize(Serialize(m)) = m
  BY <1>6, JsonIs
<1>7. CASE Serialize(m) = e /\ Deserialize(Serialize(m)) = DecodeMessage(e)
  BY <1>4, <1>5, <1>7 DEF n
<1>8. QED
  <2> HIDE DEF m
  <2>1. QED
    BY <1>3, <1>6, <1>7, SerializeIs DEF e

\* A TGS-REQ comes as it was sent; left out, the TGS that encrypts the TGT is the home
\* one, as is one the database does not have.
LEMMA TgsReqIs ==
    ASSUME NEW m, m.msg_type = "TGS_REQ", m.realm \in STRING, m.nonce \in Nat,
           m.service_principal \in Name, m.service_principal.realm = m.realm,
           m.tgt \in SealedTicket, m.tgt_kvno \in Nat, m.tgt_enctype \in Nat,
           m.authenticator \in SealedAuthenticator, m.authenticator_enctype \in Nat,
           NEW tgs \in Name, Or(Get(m, "tgt_service_principal"), TGS_PRINCIPAL) = tgs,
           NEW options \in {{}, {"renew"}}, Or(Get(m, "kdc_options"), {}) = options
    PROVE  LET n == Deserialize(Serialize(m))
           IN  /\ n.msg_type = "TGS_REQ" /\ n.realm = m.realm /\ n.nonce = m.nonce
               /\ n.service_principal = m.service_principal
               /\ n.tgt = m.tgt /\ n.tgt_kvno = m.tgt_kvno
               /\ n.authenticator = m.authenticator
               /\ NamedTgs(n) = IF tgs \in Principal THEN tgs ELSE TGS_PRINCIPAL
               /\ IsRenewal(n) <=> "renew" \in options
               /\ "json" \in DOMAIN Serialize(m) \/ Serialize(m) \in Der
<1> DEFINE e == EncodeMessage(m, now)
           ap == ApReq(m.tgt, tgs, m.tgt_enctype, m.tgt_kvno, m.authenticator,
                       m.authenticator_enctype)
           pa == [type |-> 1, value |-> ap]
           body == ReqBody(m.realm, m.nonce, None, m.service_principal, options)
           n == DecodeMessage(e)
<1>1. e = [tag |-> 12, padata |-> pa, body |-> body]
  <2>1. e = BuildTgsReq(m)
    BY Encoded
  <2>2. QED
    BY <2>1 DEF BuildTgsReq
<1>2. "json" \notin DOMAIN e
  BY <1>1
<1>3. /\ PrincipalName(m.service_principal) \in PrincipalNameType
      /\ PrincipalToString(PrincipalName(m.service_principal), m.realm)
             = m.service_principal
      /\ PrincipalName(tgs) \in PrincipalNameType /\ tgs.realm \in STRING /\ tgs # None
      /\ PrincipalToString(PrincipalName(tgs), tgs.realm) = tgs
  <2>1. PrincipalToString(PrincipalName(m.service_principal), m.service_principal.realm)
            = m.service_principal
    BY NameIs
  <2>2. PrincipalName(m.service_principal) \in PrincipalNameType
    BY NameIs
  <2>3. /\ PrincipalName(tgs) \in PrincipalNameType /\ tgs.realm \in STRING /\ tgs # None
        /\ PrincipalToString(PrincipalName(tgs), tgs.realm) = tgs
    BY NameIs
  <2>4. QED
    BY <2>1, <2>2, <2>3
<1>4. body = [options |-> FlagsToBitString(options), realm |-> m.realm,
              nonce |-> m.nonce, cname |-> None,
              sname |-> PrincipalName(m.service_principal)]
  BY DEF ReqBody
<1>5. ap = [tag |-> 14,
            ticket |-> [realm |-> tgs.realm, sname |-> PrincipalName(tgs),
                        enc_part |-> [etype |-> m.tgt_enctype, kvno |-> m.tgt_kvno,
                                      cipher |-> m.tgt]],
            authenticator |-> [etype |-> m.authenticator_enctype, kvno |-> None,
                               cipher |-> m.authenticator]]
  BY DEF ApReq, Ticket, EncryptedData
<1>6. e \in Der
  <2>1. ap \in APReqType(SealedTicket, SealedAuthenticator)
    <3> HIDE DEF ap
    <3>1. QED
      BY <1>3, <1>5 DEF APReqType, TicketType, EncryptedDataType, Maybe
  <2>2. FlagsToBitString(options) \in KerberosFlags
    BY Flags
  <2>3. body \in KDCReqBodyType
    <3> HIDE DEF body
    <3>1. QED
      BY <1>3, <1>4, <2>2 DEF KDCReqBodyType, Maybe
  <2> HIDE DEF ap, body
  <2>4. pa \in PADataType(1, APReqType(SealedTicket, SealedAuthenticator))
    BY <2>1 DEF PADataType
  <2> HIDE DEF pa, e
  <2>5. e \in KDCReqType(12, PADataType(1, APReqType(SealedTicket, SealedAuthenticator)))
    BY <1>1, <2>3, <2>4 DEF KDCReqType
  <2>6. QED
    BY <2>5 DEF Der
<1> HIDE DEF e, body, ap
<1>7. n = [msg_type |-> "TGS_REQ", realm |-> body.realm, nonce |-> body.nonce,
           service_principal |-> PrincipalToString(body.sname, body.realm),
           tgt |-> ap.ticket.enc_part.cipher,
           tgt_service_principal |-> TicketPrincipal(ap.ticket),
           tgt_enctype |-> ap.ticket.enc_part.etype,
           tgt_kvno |-> ap.ticket.enc_part.kvno,
           authenticator |-> ap.authenticator.cipher,
           authenticator_enctype |-> ap.authenticator.etype,
           kdc_options |-> BitStringToFlags(body.options)]
  <2>1. e.tag = 12 /\ e.padata.value = ap /\ e.body = body
    BY <1>1
  <2>2. n = ParseTgsReq(e)
    BY <2>1, Decoded
  <2>3. QED
    BY <2>1, <2>2 DEF ParseTgsReq
<1>8. TicketPrincipal(ap.ticket) = tgs
  <2>1. ap.ticket.sname = PrincipalName(tgs) /\ ap.ticket.realm = tgs.realm
    BY <1>5
  <2>2. QED
    BY <1>3, <2>1 DEF TicketPrincipal
<1>9. /\ ap.ticket.enc_part.cipher = m.tgt /\ ap.ticket.enc_part.kvno = m.tgt_kvno
      /\ ap.authenticator.cipher = m.authenticator
  BY <1>5
<1>10. body.realm = m.realm /\ body.nonce = m.nonce
       /\ body.sname = PrincipalName(m.service_principal)
       /\ body.options = FlagsToBitString(options)
  BY <1>4
<1>11. /\ n.msg_type = "TGS_REQ" /\ n.realm = m.realm /\ n.nonce = m.nonce
       /\ n.service_principal = m.service_principal
       /\ n.tgt = m.tgt /\ n.tgt_kvno = m.tgt_kvno
       /\ n.authenticator = m.authenticator
  <2> HIDE DEF n
  <2>1. QED
    BY <1>3, <1>7, <1>9, <1>10
<1>12. NamedTgs(n) = IF tgs \in Principal THEN tgs ELSE TGS_PRINCIPAL
  <2> HIDE DEF n
  <2>1. Get(n, "tgt_service_principal") = tgs
    BY <1>7, <1>8 DEF Get
  <2>2. QED
    BY <1>3, <2>1 DEF NamedTgs, Or
<1>13. IsRenewal(n) <=> "renew" \in options
  <2> DEFINE O == BitStringToFlags(FlagsToBitString(options))
  <2>1. "renew" \in O <=> "renew" \in options
    BY Flags
  <2>2. "renew" \in O => O # None
    <3> SUFFICES ASSUME "renew" \in O
                 PROVE  O # None
      OBVIOUS
    <3>1. options = {"renew"}
      BY <2>1
    <3>2. O = {"renew"}
      BY <3>1, Flags
    <3>3. QED
      BY <3>2, NoneAssumption
  <2> HIDE DEF n, O
  <2>3. n.kdc_options = O /\ "kdc_options" \in DOMAIN n
    BY <1>7, <1>10 DEF O
  <2>4. Get(n, "kdc_options") = O
    BY <2>3 DEF Get
  <2>5. "renew" \in Or(O, {}) <=> "renew" \in O
    BY <2>2 DEF Or
  <2>6. QED
    BY <2>1, <2>4, <2>5 DEF IsRenewal
<1>14. NamedTgs(m) = IF tgs \in Principal THEN tgs ELSE TGS_PRINCIPAL
  BY DEF NamedTgs
<1>15. IsRenewal(m) <=> "renew" \in options
  BY DEF IsRenewal
<1> HIDE DEF n
<1>16. CASE Serialize(m) = [json |-> m] /\ Deserialize(Serialize(m)) = m
  BY <1>14, <1>15, <1>16, JsonIs
<1>17. CASE Serialize(m) = e /\ Deserialize(Serialize(m)) = n
  BY <1>6, <1>11, <1>12, <1>13, <1>17
<1>18. QED
  BY <1>2, <1>16, <1>17, SerializeIs DEF e, n

\* An AP-REQ comes as it was sent.
LEMMA ApReqIs ==
    ASSUME NEW m, m.msg_type = "AP_REQ", m.service_principal \in Name,
           m.service_ticket \in SealedTicket, m.ticket_kvno \in Nat,
           m.ticket_enctype \in Nat, m.authenticator \in SealedAuthenticator,
           m.authenticator_enctype \in Nat
    PROVE  LET e == EncodeMessage(m, now)
               n == DecodeMessage(e)
           IN  /\ n.msg_type = "AP_REQ" /\ n.service_principal = m.service_principal
               /\ n.service_ticket = m.service_ticket /\ n.ticket_kvno = m.ticket_kvno
               /\ n.ticket_enctype = m.ticket_enctype
               /\ n.authenticator = m.authenticator
               /\ e \in Der
<1> DEFINE e == EncodeMessage(m, now)
           n == DecodeMessage(e)
           server == m.service_principal
<1>1. e = [tag |-> 14,
           ticket |-> [realm |-> server.realm, sname |-> PrincipalName(server),
                       enc_part |-> [etype |-> m.ticket_enctype, kvno |-> m.ticket_kvno,
                                     cipher |-> m.service_ticket]],
           authenticator |-> [etype |-> m.authenticator_enctype, kvno |-> None,
                              cipher |-> m.authenticator]]
  <2>1. e = BuildApReq(m)
    BY Encoded
  <2>2. QED
    BY <2>1 DEF BuildApReq, ApReq, Ticket, EncryptedData
<1>2. /\ PrincipalName(server) \in PrincipalNameType /\ server.realm \in STRING
      /\ PrincipalToString(PrincipalName(server), server.realm) = server
  BY NameIs
<1> HIDE DEF e
<1>3. e \in Der
  <2>1. e \in APReqType(SealedTicket, SealedAuthenticator)
    BY <1>1, <1>2 DEF APReqType, TicketType, EncryptedDataType, Maybe
  <2>2. QED
    BY <2>1 DEF Der
<1>4. n = ParseApReq(e)
  BY <1>1, Decoded
<1>5. TicketPrincipal(e.ticket) = server
  BY <1>1, <1>2 DEF TicketPrincipal
<1>6. QED
  <2> HIDE DEF n
  <2>1. QED
    BY <1>1, <1>3, <1>4, <1>5 DEF ParseApReq, e, n

\* What the client makes of a reply: the credential it would keep.
\* What comes of a grant: the ticket, the inner part of its reply, and what the client
\* that reads the message n keeps of both.
Grants(part, client, data, realm, nonce, server, tag, n) ==
    LET ticket == Sealed(TicketPart(part, client, data), server)
        r == EncodeEncKdcRepPart(ReplyPart(part, realm, nonce, server), tag)
        x == DecodeEncKdcRepPart(r)
        c == Credential(x.service_principal, ticket, x.key,
                 ResponseMetadata(n, x, DEFAULT_ENCTYPE, kvno[server], server))
    IN  /\ ticket \in SealedTicket /\ r \in EncKDCRepPartType(tag, Key)
        /\ Sound(c, server, kvno[server], now) /\ Holder(c) = client
        /\ c.server = server
        /\ c.metadata.client_principal = n.client_principal
        /\ ticket.der.flags = FlagsToBitString(part.flags)
        /\ ticket.der.renew_till = OptionalTime(part.renew_till)

\* A grant makes a sound credential: the part the client reads and the ticket the server
\* reads were encoded apart, and agree.
LEMMA Granted ==
    ASSUME NEW part, NEW client \in Client, NEW data \in SUBSET Nat, NEW realm \in STRING,
           NEW nonce \in Nat, NEW server \in Principal, server.realm = realm, NEW tag,
           NEW n, n.client_principal \in Name,
           kvno \in [Principal -> Nat \ {0}], now \in Nat,
           part.key \in Key, part.realm = client.realm, part.authtime \in Nat,
           part.starttime \in Nat, part.endtime \in Nat, Fine <= part.endtime,
           part.endtime <= now + TICKET_LIFETIME * Fine, part.renew_till \in Maybe(Nat)
    PROVE  Grants(part, client, data, realm, nonce, server, tag, n)
<1> DEFINE ticket == Sealed(TicketPart(part, client, data), server)
           r == EncodeEncKdcRepPart(ReplyPart(part, realm, nonce, server), tag)
           x == DecodeEncKdcRepPart(r)
           v == kvno[server]
           c == Credential(x.service_principal, ticket, x.key,
                    ResponseMetadata(n, x, DEFAULT_ENCTYPE, v, server))
           d == ticket.der
           start == OptionalTime(part.starttime)
           till == OptionalTime(part.renew_till)
           over == KrbTime(part.endtime)
           auth == KrbTime(part.authtime)
           bits == FlagsToBitString(part.flags)
<1>1. /\ PrincipalName(client) \in PrincipalNameType /\ client.realm \in STRING
      /\ PrincipalToString(PrincipalName(client), client.realm) = client
  BY Names, NameIs
<1>2. /\ PrincipalName(server) \in PrincipalNameType /\ server \in Name
      /\ PrincipalToString(PrincipalName(server), realm) = server
  <2>1. server \in Name
    BY Names
  <2>2. QED
    BY <2>1, NameIs
<1>3. v \in Nat \ {0} /\ LongTermKey(server, v) \in Key
  BY <1>2, KeysAre
<1>4. auth \in Nat /\ over \in Nat /\ over # 0
      /\ 2 * (Micro * (over * Fine)) <= 2 * (Micro * part.endtime) + Fine
  BY KrbTimeIs
<1>5. /\ start \in Maybe(Nat) /\ FromKrbTime(start) \in Maybe(Nat)
      /\ till \in Maybe(Nat) /\ FromKrbTime(till) \in Maybe(Nat)
  <2>1. part.starttime \in Maybe(Nat)
    BY DEF Maybe
  <2>2. QED
    BY <2>1, OptionalTimeIs
<1>6. FromKrbTime(auth) \in Nat /\ FromKrbTime(over) = over * Fine /\ over * Fine \in Nat
  BY <1>4, FromKrbTimeIs
<1>7. bits \in KerberosFlags /\ BitStringToFlags(bits) \in SUBSET Flag
  BY Flags
<1>8. ticket = [key |-> LongTermKey(server, v), usage |-> 2, der |-> d]
      /\ d = [tag |-> 3, flags |-> bits, key |-> part.key, crealm |-> client.realm,
              cname |-> PrincipalName(client), authtime |-> auth, starttime |-> start,
              endtime |-> over, renew_till |-> till, authorization_data |-> data]
  BY DEF Sealed, Cipher, EncodeEncTicketPart, TicketPart
<1>9. r = [tag |-> tag, key |-> part.key, last_req |-> auth, nonce |-> nonce,
           flags |-> bits, authtime |-> auth, starttime |-> start, endtime |-> over,
           renew_till |-> till, srealm |-> realm, sname |-> PrincipalName(server)]
  BY DEF EncodeEncKdcRepPart, ReplyPart
<1> HIDE DEF start, till, over, auth, bits, r, ticket, v
<1>10. x = [key |-> part.key, nonce |-> nonce, flags |-> BitStringToFlags(bits),
            authtime |-> FromKrbTime(auth), starttime |-> FromKrbTime(start),
            endtime |-> FromKrbTime(over), renew_till |-> FromKrbTime(till),
            realm |-> realm, service_principal |-> server]
  BY <1>2, <1>9 DEF DecodeEncKdcRepPart
<1> HIDE DEF x
<1> DEFINE m == c.metadata
<1>11. m = [flags |-> BitStringToFlags(bits), authtime |-> FromKrbTime(auth),
            starttime |-> FromKrbTime(start), endtime |-> over * Fine,
            renew_till |-> FromKrbTime(till), client_principal |-> n.client_principal,
            server_principal |-> server, ticket_enctype |-> DEFAULT_ENCTYPE,
            ticket_kvno |-> v]
       /\ c = [server |-> server, ticket |-> ticket, key |-> part.key, metadata |-> m]
  BY <1>6, <1>10 DEF Credential, ResponseMetadata
<1> HIDE DEF c, m
<1>12. d \in EncTicketPartType(Key)
  BY <1>1, <1>4, <1>5, <1>7, <1>8 DEF EncTicketPartType, KerberosTime
<1> HIDE DEF d
<1>13. ticket \in SealedTicket
  BY <1>3, <1>8, <1>12 DEF SealedTicket, CipherOf
<1>14. r \in EncKDCRepPartType(tag, Key)
  BY <1>2, <1>4, <1>5, <1>7, <1>9 DEF EncKDCRepPartType, KerberosTime
<1>15. c \in CredentialType
  <2>1. DEFAULT_ENCTYPE \in Nat
    BY DEF DEFAULT_ENCTYPE
  <2>2. m \in [flags : SUBSET Flag, authtime : Nat, starttime : Maybe(Nat),
               endtime : Nat, renew_till : Maybe(Nat), client_principal : Name,
               server_principal : Name, ticket_enctype : Nat, ticket_kvno : Nat]
    BY <1>2, <1>3, <1>5, <1>6, <1>7, <1>11, <2>1
  <2>3. QED
    BY <1>2, <1>11, <1>13, <2>2 DEF CredentialType
<1>16. /\ c.ticket = ticket /\ c.ticket.der = d /\ c.key = part.key /\ c.server = server
       /\ c.metadata = m
  BY <1>8, <1>11 DEF m, d
<1>17. /\ d.endtime = over /\ d.renew_till = till /\ d.flags = bits /\ d.key = part.key
       /\ d.cname = PrincipalName(client) /\ d.crealm = client.realm
  BY <1>8
<1>18. Holder(c) = client
  BY <1>1, <1>16, <1>17 DEF Holder
<1>19. SameTimes(c)
  BY <1>4, <1>11, <1>16, <1>17 DEF SameTimes
<1>20. InTime(over, now)
  <2> DEFINE L == now + TICKET_LIFETIME * Fine
  <2>1. L \in Nat /\ part.endtime <= L
    BY TimeAssumption, BoundsAssumption
  <2> HIDE DEF L
  <2>2. Micro * part.endtime <= Micro * L /\ Micro * part.endtime \in Nat
        /\ Micro * L \in Nat
    BY <2>1, TimeAssumption
  <2>3. Micro * (over * Fine) \in Nat
    BY <1>4, TimeAssumption
  <2>4. 2 * (Micro * (over * Fine)) <= 2 * (Micro * L) + Fine
    BY <1>4, <2>2, <2>3, TimeAssumption
  <2>5. QED
    BY <2>4 DEF InTime, L
<1>21. Sound(c, server, v, now)
  <2>1. c.metadata.ticket_kvno = v
    BY <1>11, <1>16
  <2>2. c.ticket.key = LongTermKey(server, v) /\ c.ticket.usage = 2
    BY <1>8, <1>16
  <2>3. v \in 1..v
    BY <1>3
  <2>4. QED
    BY <1>15, <1>16, <1>17, <1>18, <1>19, <1>20, <2>1, <2>2, <2>3 DEF Sound
<1>22. c.metadata.client_principal = n.client_principal
  BY <1>11, <1>16
<1>23. QED
  BY <1>13, <1>14, <1>16, <1>17, <1>18, <1>21, <1>22
     DEF Grants, c, d, ticket, r, x, v, till, bits

\* A reply with a ticket, and what of it is left of the names.
LEMMA AsRepIs ==
    ASSUME NEW client \in Name, NEW server \in Name, NEW ticket \in SealedTicket,
           NEW cipher \in CipherOf(EncKDCRepPartType(25, Key)), NEW v \in Nat,
           NEW etype \in Nat
    PROVE  LET m == [msg_type |-> "AS_REP", realm |-> client.realm,
                     client_principal |-> client, server_principal |-> server,
                     encrypted_data |-> cipher, tgt |-> ticket,
                     ticket_enctype |-> DEFAULT_ENCTYPE, ticket_kvno |-> v,
                     tgt_enctype |-> DEFAULT_ENCTYPE, tgt_kvno |-> v,
                     enc_part_enctype |-> etype]
               n == Deserialize(Serialize(m))
           IN  /\ n.msg_type = "AS_REP" /\ n.client_principal = client
               /\ n.server_principal = server /\ n.encrypted_data = cipher
               /\ n.tgt = ticket /\ n.tgt_enctype = DEFAULT_ENCTYPE /\ n.tgt_kvno = v
               /\ "json" \in DOMAIN Serialize(m) \/ Serialize(m) \in Der
<1> DEFINE m == [msg_type |-> "AS_REP", realm |-> client.realm,
                 client_principal |-> client, server_principal |-> server,
                 encrypted_data |-> cipher, tgt |-> ticket,
                 ticket_enctype |-> DEFAULT_ENCTYPE, ticket_kvno |-> v,
                 tgt_enctype |-> DEFAULT_ENCTYPE, tgt_kvno |-> v,
                 enc_part_enctype |-> etype]
           e == EncodeMessage(m, now)
           n == DecodeMessage(e)
           sealedTicket == [realm |-> server.realm, sname |-> PrincipalName(server),
                            enc_part |-> [etype |-> DEFAULT_ENCTYPE, kvno |-> v,
                                          cipher |-> ticket]]
<1>1. /\ PrincipalName(client) \in PrincipalNameType /\ client.realm \in STRING
      /\ PrincipalToString(PrincipalName(client), client.realm) = client
      /\ PrincipalName(server) \in PrincipalNameType /\ server.realm \in STRING
      /\ PrincipalToString(PrincipalName(server), server.realm) = server
  BY NameIs
<1>2. v # None
  BY NoneAssumption
<1>3. e = [tag |-> 11, crealm |-> client.realm, cname |-> PrincipalName(client),
           ticket |-> sealedTicket,
           enc_part |-> [etype |-> etype, kvno |-> None, cipher |-> cipher]]
  <2>1. e = BuildKdcRep(m, 11)
    BY Encoded
  <2>2. /\ Or(Get(m, "service_ticket"), Get(m, "tgt")) = ticket
        /\ Or(Get(m, "service_principal"), Get(m, "server_principal")) = server
        /\ Or(m.ticket_kvno, Or(Get(m, "tgt_kvno"), Get(m, "service_ticket_kvno"))) = v
    BY <1>2 DEF Get, Or
  <2>3. m.realm = client.realm /\ m.client_principal = client
        /\ m.ticket_enctype = DEFAULT_ENCTYPE /\ m.encrypted_data = cipher
        /\ m.enc_part_enctype = etype
    OBVIOUS
  <2> HIDE DEF m, e
  <2>4. QED
    BY <2>1, <2>2, <2>3 DEF BuildKdcRep, Ticket, EncryptedData
<1>4. "json" \notin DOMAIN e
  BY <1>3
<1> HIDE DEF e
<1>5. e \in Der
  <2>1. e \in KDCRepType(11, SealedTicket, CipherOf(EncKDCRepPartType(25, Key)))
    <3>1. sealedTicket \in TicketType(SealedTicket)
      BY <1>1 DEF TicketType, EncryptedDataType, Maybe, DEFAULT_ENCTYPE
    <3> HIDE DEF sealedTicket
    <3>2. QED
      BY <1>1, <1>3, <3>1 DEF KDCRepType, EncryptedDataType, Maybe
  <2>2. QED
    BY <2>1 DEF Der
<1>6. n = ParseKdcRep(e)
  BY <1>3, Decoded
<1>7. /\ n.msg_type = "AS_REP" /\ n.client_principal = client
      /\ n.server_principal = server /\ n.encrypted_data = cipher
      /\ n.tgt = ticket /\ n.tgt_enctype = DEFAULT_ENCTYPE /\ n.tgt_kvno = v
  <2>1. /\ e.tag = 11 /\ e.crealm = client.realm /\ e.cname = PrincipalName(client)
        /\ e.ticket = sealedTicket /\ e.enc_part.cipher = cipher
    BY <1>3
  <2>2. /\ TicketPrincipal(sealedTicket) = server
        /\ sealedTicket.enc_part.cipher = ticket
        /\ sealedTicket.enc_part.etype = DEFAULT_ENCTYPE
        /\ sealedTicket.enc_part.kvno = v
    BY <1>1 DEF TicketPrincipal
  <2> HIDE DEF n, sealedTicket
  <2>3. QED
    BY <1>1, <1>6, <2>1, <2>2 DEF ParseKdcRep
<1> HIDE DEF n
<1>8. CASE Serialize(m) = [json |-> m] /\ Deserialize(Serialize(m)) = m
  BY <1>8, JsonIs
<1>9. CASE Serialize(m) = e /\ Deserialize(Serialize(m)) = n
  BY <1>5, <1>7, <1>9
<1>10. QED
  <2> HIDE DEF m
  <2>1. QED
    BY <1>4, <1>8, <1>9, SerializeIs DEF e, n

\* A TGS-REP loses the client's realm, which is the home one, and no more.
LEMMA TgsRepIs ==
    ASSUME NEW client \in Name, NEW server \in Name, NEW ticket \in SealedTicket,
           NEW cipher \in CipherOf(EncKDCRepPartType(26, Key)), NEW v \in Nat
    PROVE  LET m == [msg_type |-> "TGS_REP", realm |-> Home,
                     client_principal |-> client, service_principal |-> server,
                     encrypted_data |-> cipher, service_ticket |-> ticket,
                     ticket_enctype |-> DEFAULT_ENCTYPE, ticket_kvno |-> v,
                     service_ticket_enctype |-> DEFAULT_ENCTYPE,
                     service_ticket_kvno |-> v,
                     enc_part_enctype |-> DEFAULT_ENCTYPE]
               n == Deserialize(Serialize(m))
           IN  /\ n.msg_type = "TGS_REP" /\ n.client_principal \in Name
               /\ client.realm = Home => n.client_principal = client
               /\ n.service_principal = server /\ n.encrypted_data = cipher
               /\ n.service_ticket = ticket /\ n.service_ticket_kvno = v
               /\ n.service_ticket_enctype = DEFAULT_ENCTYPE
               /\ "json" \in DOMAIN Serialize(m) \/ Serialize(m) \in Der
<1> DEFINE m == [msg_type |-> "TGS_REP", realm |-> Home,
                 client_principal |-> client, service_principal |-> server,
                 encrypted_data |-> cipher, service_ticket |-> ticket,
                 ticket_enctype |-> DEFAULT_ENCTYPE, ticket_kvno |-> v,
                 service_ticket_enctype |-> DEFAULT_ENCTYPE,
                 service_ticket_kvno |-> v,
                 enc_part_enctype |-> DEFAULT_ENCTYPE]
           e == EncodeMessage(m, now)
           n == DecodeMessage(e)
           sealedTicket == [realm |-> server.realm, sname |-> PrincipalName(server),
                            enc_part |-> [etype |-> DEFAULT_ENCTYPE, kvno |-> v,
                                          cipher |-> ticket]]
<1>1. /\ PrincipalName(client) \in PrincipalNameType
      /\ PrincipalToString(PrincipalName(client), client.realm) = client
      /\ PrincipalName(server) \in PrincipalNameType /\ server.realm \in STRING
      /\ PrincipalToString(PrincipalName(server), server.realm) = server
  BY NameIs
<1>2. v # None
  BY NoneAssumption
<1>3. e = [tag |-> 13, crealm |-> Home, cname |-> PrincipalName(client),
           ticket |-> sealedTicket,
           enc_part |-> [etype |-> DEFAULT_ENCTYPE, kvno |-> None, cipher |-> cipher]]
  <2>1. e = BuildKdcRep(m, 13)
    BY Encoded
  <2>2. /\ Or(Get(m, "service_ticket"), Get(m, "tgt")) = ticket
        /\ Or(Get(m, "service_principal"), Get(m, "server_principal")) = server
        /\ Or(m.ticket_kvno, Or(Get(m, "tgt_kvno"), Get(m, "service_ticket_kvno"))) = v
    BY <1>2 DEF Get, Or
  <2>3. m.realm = Home /\ m.client_principal = client
        /\ m.ticket_enctype = DEFAULT_ENCTYPE /\ m.encrypted_data = cipher
        /\ m.enc_part_enctype = DEFAULT_ENCTYPE
    OBVIOUS
  <2> HIDE DEF m, e
  <2>4. QED
    BY <2>1, <2>2, <2>3 DEF BuildKdcRep, Ticket, EncryptedData
<1>4. "json" \notin DOMAIN e
  BY <1>3
<1> HIDE DEF e
<1>5. e \in Der
  <2>1. e \in KDCRepType(13, SealedTicket, CipherOf(EncKDCRepPartType(26, Key)))
    <3>1. sealedTicket \in TicketType(SealedTicket)
      BY <1>1 DEF TicketType, EncryptedDataType, Maybe, DEFAULT_ENCTYPE
    <3>2. [etype |-> DEFAULT_ENCTYPE, kvno |-> None, cipher |-> cipher]
              \in EncryptedDataType(CipherOf(EncKDCRepPartType(26, Key)))
      BY DEF EncryptedDataType, Maybe, DEFAULT_ENCTYPE
    <3> HIDE DEF sealedTicket
    <3>3. QED
      BY <1>1, <1>3, <3>1, <3>2, StringAssumption DEF KDCRepType
  <2>2. QED
    BY <2>1 DEF Der
<1>6. n = ParseKdcRep(e)
  BY <1>3, Decoded
<1>7. PrincipalToString(PrincipalName(client), Home) \in Name
  <2>1. client.parts \in Seq(STRING) \ {<<>>}
    BY DEF Name
  <2>2. PrincipalName(client).strings = client.parts
    BY NameIs
  <2>3. QED
    BY <2>1, <2>2, StringAssumption DEF PrincipalToString, Name
<1>8. /\ n.msg_type = "TGS_REP"
      /\ n.client_principal = PrincipalToString(PrincipalName(client), Home)
      /\ n.service_principal = server /\ n.encrypted_data = cipher
      /\ n.service_ticket = ticket /\ n.service_ticket_enctype = DEFAULT_ENCTYPE
      /\ n.service_ticket_kvno = v
  <2>1. /\ e.tag = 13 /\ e.crealm = Home /\ e.cname = PrincipalName(client)
        /\ e.ticket = sealedTicket /\ e.enc_part.cipher = cipher
    BY <1>3
  <2>2. /\ TicketPrincipal(sealedTicket) = server
        /\ sealedTicket.enc_part.cipher = ticket
        /\ sealedTicket.enc_part.etype = DEFAULT_ENCTYPE
        /\ sealedTicket.enc_part.kvno = v
    BY <1>1 DEF TicketPrincipal
  <2> HIDE DEF n, sealedTicket
  <2>3. QED
    BY <1>6, <2>1, <2>2 DEF ParseKdcRep
<1> HIDE DEF n
<1>9. CASE Serialize(m) = [json |-> m] /\ Deserialize(Serialize(m)) = m
  BY <1>9, JsonIs
<1>10. CASE Serialize(m) = e /\ Deserialize(Serialize(m)) = n
  BY <1>1, <1>5, <1>7, <1>8, <1>10
<1>11. QED
  <2> HIDE DEF m
  <2>1. QED
    BY <1>4, <1>9, <1>10, SerializeIs DEF e, n

\* An error comes as it was sent, in either format.
LEMMA ErrorIs ==
    ASSUME NEW code \in ErrorName, now \in Nat
    PROVE  LET m == Error(code)
               e == EncodeMessage(m, now)
           IN  /\ m.msg_type = "KRB_ERROR" /\ m.error_code = code
               /\ DecodeMessage(e).msg_type = "KRB_ERROR"
               /\ DecodeMessage(e).error_code = code
               /\ e \in Der
               /\ Deserialize(Serialize(m)).msg_type = "KRB_ERROR"
               /\ Deserialize(Serialize(m)).error_code = code
               /\ "json" \in DOMAIN Serialize(m) \/ Serialize(m) \in Der
<1> DEFINE m == Error(code)
           e == EncodeMessage(m, now)
           n == DecodeMessage(e)
<1>1. m.msg_type = "KRB_ERROR" /\ m.error_code = code
  BY DEF Error
<1> HIDE DEF m
<1>2. e = [tag |-> 30, stime |-> KrbTime(now), error_code |-> CodeOf(code),
           realm |-> Home, sname |-> PrincipalName(TGS_PRINCIPAL), e_data |-> code]
  <2>1. e = BuildKrbError(m, now)
    BY <1>1, Encoded
  <2>2. QED
    BY <1>1, <2>1 DEF BuildKrbError
<1> HIDE DEF e
<1>3. "json" \notin DOMAIN e
  BY <1>2
<1>4. e \in Der
  <2>1. CodeOf(code) \in Nat
    <3>1. CodeOf(code) = ErrorToCode[code]
      BY DEF CodeOf, ErrorName
    <3>2. \A x \in DOMAIN ErrorToCode : ErrorToCode[x] \in Nat
      BY DEF ErrorToCode
    <3>3. QED
      BY <3>1, <3>2 DEF ErrorName
  <2>2. KrbTime(now) \in Nat
    BY KrbTimeIs
  <2>3. PrincipalName(TGS_PRINCIPAL) \in PrincipalNameType
    BY Names, NameIs
  <2>4. e \in KRBErrorType
    BY <1>2, <2>1, <2>2, <2>3, StringAssumption DEF KRBErrorType, KerberosTime
  <2>5. QED
    BY <2>4 DEF Der
<1>5. n.msg_type = "KRB_ERROR" /\ n.error_code = code
  <2>1. e.tag = 30 /\ e.e_data = code
    BY <1>2
  <2>2. n = ParseKrbError(e)
    BY <2>1, Decoded
  <2>3. code # None
    BY NoneAssumption
  <2>4. QED
    BY <2>1, <2>2, <2>3 DEF ParseKrbError, Or
<1> HIDE DEF n
<1>6. CASE Serialize(m) = [json |-> m] /\ Deserialize(Serialize(m)) = m
  BY <1>1, <1>4, <1>5, <1>6, JsonIs DEF m, n, e
<1>7. CASE Serialize(m) = e /\ Deserialize(Serialize(m)) = n
  BY <1>1, <1>4, <1>5, <1>7 DEF m, n, e
<1>8. QED
  <2>1. \/ Serialize(m) = [json |-> m] /\ Deserialize(Serialize(m)) = m
        \/ Serialize(m) = e /\ Deserialize(Serialize(m)) = n
    BY <1>3, SerializeIs DEF e, n
  <2>2. QED
    BY <1>6, <1>7, <2>1

\* An AP-REP comes as it was sent.
LEMMA ApRepIs ==
    ASSUME NEW server, NEW cipher \in CipherOf(EncAPRepPartType(Key)), NEW etype \in Nat
    PROVE  LET m == [msg_type |-> "AP_REP", service_principal |-> server,
                     encrypted_data |-> cipher, enctype |-> etype]
               e == EncodeMessage(m, now)
           IN  /\ m.msg_type = "AP_REP"
               /\ DecodeMessage(e).msg_type = "AP_REP"
               /\ DecodeMessage(e).encrypted_data = cipher
               /\ e \in Der
<1> DEFINE m == [msg_type |-> "AP_REP", service_principal |-> server,
                 encrypted_data |-> cipher, enctype |-> etype]
           e == EncodeMessage(m, now)
<1>1. e = [tag |-> 15,
           enc_part |-> [etype |-> etype, kvno |-> None, cipher |-> cipher]]
  <2>1. e = BuildApRep(m)
    BY Encoded
  <2>2. QED
    BY <2>1 DEF BuildApRep, EncryptedData
<1> HIDE DEF e
<1>2. e \in APRepType(CipherOf(EncAPRepPartType(Key)))
  BY <1>1 DEF APRepType, EncryptedDataType, Maybe
<1>3. DecodeMessage(e) = ParseApRep(e)
  BY <1>1, Decoded
<1>4. /\ DecodeMessage(e).msg_type = "AP_REP"
      /\ DecodeMessage(e).encrypted_data = cipher
  BY <1>1, <1>3 DEF ParseApRep
<1>5. e \in Der
  BY <1>2 DEF Der
<1>6. QED
  BY <1>4, <1>5 DEF e

\* The authenticator of a request made at a time.
AuthenticatorAt(client, realm, at, k, usage, subkey) ==
    Cipher(EncodeAuthenticator(
        [client_principal |-> client, realm |-> realm, ctime |-> Stamp(at).ctime,
         cusec |-> Stamp(at).cusec, subkey |-> subkey,
         seq_number |-> IF subkey = None THEN None ELSE at]), k, usage)

\* An authenticator comes as it was sent, with the moment of the stamp.
LEMMA AuthenticatorIs ==
    ASSUME NEW client \in Name, NEW realm \in STRING, NEW at \in Nat, NEW k \in Key,
           NEW usage \in Nat, NEW subkey \in Maybe(Key)
    PROVE  LET a == AuthenticatorAt(client, realm, at, k, usage, subkey)
               x == DecodeAuthenticator(a.der)
           IN  /\ a \in SealedAuthenticator /\ a.key = k /\ a.usage = usage
               /\ x.client_principal = PrincipalToString(PrincipalName(client), realm)
               /\ x.ctime = Stamp(at).ctime /\ x.cusec = Stamp(at).cusec
               /\ x.subkey = subkey
               /\ x.timestamp = Moment(Stamp(at).ctime, Stamp(at).cusec)
<1> DEFINE a == AuthenticatorAt(client, realm, at, k, usage, subkey)
           p == [client_principal |-> client, realm |-> realm,
                 ctime |-> Stamp(at).ctime, cusec |-> Stamp(at).cusec,
                 subkey |-> subkey, seq_number |-> IF subkey = None THEN None ELSE at]
           d == [tag |-> 2, crealm |-> realm, cname |-> PrincipalName(client),
                 cusec |-> Stamp(at).cusec, ctime |-> KrbTime(Stamp(at).ctime),
                 subkey |-> subkey, seq_number |-> IF subkey = None THEN None ELSE at]
           x == DecodeAuthenticator(a.der)
<1>1. EncodeAuthenticator(p) = d
  BY DEF EncodeAuthenticator, Get
<1>2. a = [key |-> k, usage |-> usage, der |-> EncodeAuthenticator(p)]
  BY DEF AuthenticatorAt, Cipher
<1>3. a = [key |-> k, usage |-> usage, der |-> d]
  BY <1>1, <1>2
<1>4. /\ Stamp(at).ctime \in Nat /\ Stamp(at).cusec \in Nat
      /\ KrbTime(Stamp(at).ctime) \in Nat
      /\ FromKrbTime(KrbTime(Stamp(at).ctime)) = Stamp(at).ctime
  BY StampIs
<1> HIDE DEF a, p
<1>5. d \in AuthenticatorType(Key)
  <2>1. PrincipalName(client) \in PrincipalNameType
    BY NameIs
  <2>2. d.seq_number \in Maybe(Nat)
    BY DEF Maybe
  <2>3. QED
    BY <1>4, <2>1, <2>2 DEF AuthenticatorType, KerberosTime
<1>6. a.der = d
  BY <1>3
<1>7. /\ d.crealm = realm /\ d.cname = PrincipalName(client)
      /\ d.cusec = Stamp(at).cusec /\ d.ctime = KrbTime(Stamp(at).ctime)
      /\ d.subkey = subkey
  OBVIOUS
<1> HIDE DEF d
<1>8. /\ x.client_principal = PrincipalToString(PrincipalName(client), realm)
      /\ x.ctime = Stamp(at).ctime /\ x.cusec = Stamp(at).cusec
      /\ x.subkey = subkey
      /\ x.timestamp = Moment(Stamp(at).ctime, Stamp(at).cusec)
  BY <1>4, <1>6, <1>7 DEF DecodeAuthenticator
<1>9. a \in SealedAuthenticator
  BY <1>3, <1>5 DEF SealedAuthenticator, CipherOf
<1>10. a.key = k /\ a.usage = usage
  BY <1>3
<1>11. QED
  BY <1>8, <1>9, <1>10 DEF a, x

\* The pre-authentication of one.
PreauthAt(at, k) == Cipher(EncodePaEncTimestamp(Stamp(at)), k, 1)

\* So does the timestamp of the preauthentication.
LEMMA PreauthIs ==
    ASSUME NEW at \in Nat, NEW k \in Key
    PROVE  LET a == PreauthAt(at, k)
           IN  /\ a \in CipherOf(PaEncTimestampType) /\ a.key = k /\ a.usage = 1
               /\ DecodePaEncTimestamp(a.der).timestamp
                      = Moment(Stamp(at).ctime, Stamp(at).cusec)
<1> DEFINE a == PreauthAt(at, k)
           d == [patimestamp |-> KrbTime(Stamp(at).ctime), pausec |-> Stamp(at).cusec]
<1>1. a = [key |-> k, usage |-> 1, der |-> d]
  BY DEF PreauthAt, Cipher, EncodePaEncTimestamp
<1>2. /\ Stamp(at).cusec \in Nat /\ KrbTime(Stamp(at).ctime) \in Nat
      /\ FromKrbTime(KrbTime(Stamp(at).ctime)) = Stamp(at).ctime
  BY StampIs
<1>3. Stamp(at).cusec # None
  BY <1>2, NoneAssumption
<1>4. d \in PaEncTimestampType
  BY <1>2 DEF PaEncTimestampType, KerberosTime, Maybe
<1>5. DecodePaEncTimestamp(d).timestamp = Moment(Stamp(at).ctime, Stamp(at).cusec)
  <2>1. d.patimestamp = KrbTime(Stamp(at).ctime) /\ d.pausec = Stamp(at).cusec
    OBVIOUS
  <2> HIDE DEF d
  <2>2. QED
    BY <1>2, <1>3, <2>1 DEF DecodePaEncTimestamp, Or
<1> HIDE DEF a, d
<1>6. a.key = k /\ a.usage = 1 /\ a.der = d
  BY <1>1
<1>7. a \in CipherOf(PaEncTimestampType)
  BY <1>1, <1>4 DEF CipherOf
<1>8. QED
  BY <1>5, <1>6, <1>7 DEF a

-----------------------------------------------------------------------------
(* The inductive invariant of the wire *)

PastAt(x, t) == x \notin {None, 0} /\ t > x

\* A request with the TGT, as the KDC reads it: it names the key of the ticket.
TgtSent(a, m, cache, realm) ==
    LET c == cache.tgt
    IN  /\ c # None /\ a.key = c.key
        /\ m.msg_type = "TGS_REQ" /\ m.realm = realm /\ m.nonce \in Nat
        /\ m.service_principal = a.server
        /\ m.tgt = c.ticket /\ m.tgt_kvno = c.metadata.ticket_kvno
        /\ NamedTgs(m) = TgsOf(realm)
        /\ m.authenticator = AuthenticatorAt(cache.client, realm, a.at, a.key, 7, None)

ServiceTicketSent(a, m, cache) ==
    \E c \in cache.services :
        /\ a.key = c.key /\ a.server = c.server
        /\ m.msg_type = "AP_REQ" /\ m.service_principal = c.server
        /\ m.service_ticket = c.ticket /\ m.ticket_kvno = c.metadata.ticket_kvno
        /\ m.ticket_enctype \in Nat
        /\ m.authenticator = AuthenticatorAt(cache.client, cache.client.realm, a.at,
                                             a.key, 11, <<"subkey", a.at>>)

\* The request m is what a client that remembers a would ask for.
Requested(a, m, cache) ==
    LET client == cache.client
    IN  /\ client \in Client /\ a.stamp = Stamp(a.at)
        /\ \/ /\ a.what = "as" /\ m.msg_type = "AS_REQ"
              /\ m.client_principal = client /\ m.realm = client.realm
              /\ m.nonce \in Nat /\ m.preauth = PreauthAt(a.at, a.key)
              /\ m.preauth_enctype \in Nat
           \/ /\ a.what = "tgs" /\ a.server \in Service \cup Stranger
              /\ a.server.realm = client.realm
              /\ ~IsRenewal(m) /\ TgtSent(a, m, cache, client.realm)
           \/ /\ a.what = "renew" /\ a.server = TGS_PRINCIPAL
              /\ IsRenewal(m) /\ TgtSent(a, m, cache, Home)
           \/ a.what = "ap" /\ ServiceTicketSent(a, m, cache)

\* The cause of an error.
Explained(a, code, cache, t) ==
    \/ code = "KDC_ERR_PREAUTH_FAILED" /\ a.key # PasswordKey(cache.client)
    \/ code = "KDC_ERR_S_PRINCIPAL_UNKNOWN" /\ a.server \in Stranger
    \/ code = "KRB_AP_ERR_MODIFIED" /\ a.what = "renew" /\ cache.client.realm # Home
    \/ /\ code = "KRB_AP_ERR_TKT_EXPIRED"
       /\ \/ /\ a.what = "renew" /\ cache.tgt # None
             /\ PastAt(cache.tgt.metadata.renew_till, t)
          \/ /\ a.what = "tgs" /\ cache.tgt # None
             /\ PastAt(cache.tgt.metadata.endtime, t)
          \/ /\ a.what = "ap"
             /\ \E c \in cache.services :
                    c.server = a.server /\ PastAt(c.metadata.endtime, t)

\* What the client keeps of a reply.
AsCredential(n) ==
    LET x == DecodeEncKdcRepPart(n.encrypted_data.der)
    IN  Credential(x.service_principal, n.tgt, x.key,
            ResponseMetadata(n, x, n.tgt_enctype, n.tgt_kvno, n.server_principal))
TgsCredential(n) ==
    LET x == DecodeEncKdcRepPart(n.encrypted_data.der)
    IN  Credential(x.service_principal, n.service_ticket, x.key,
            ResponseMetadata(n, x, n.service_ticket_enctype, n.service_ticket_kvno,
                             n.service_principal))

\* The reply m has its cause, or brings a credential the cache may have, or the
\* client's own stamp.
Answered(a, m, cache, v, t) ==
    \/ m.msg_type = "KRB_ERROR" /\ Explained(a, m.error_code, cache, t)
    \/ LET c == AsCredential(m)
       IN  /\ m.msg_type = "AS_REP" /\ a.what = "as"
           /\ SoundTgt(c, v, t) /\ Holder(c) = cache.client
    \/ LET c == TgsCredential(m)
       IN  /\ m.msg_type = "TGS_REP" /\ Holder(c) = cache.client
           /\ \/ a.what = "renew" /\ SoundTgt(c, v, t)
              \/ a.what = "tgs" /\ cache.tgt # None /\ Sound(c, c.server, v[c.server], t)
    \/ LET x == DecodeEncApRepPart(m.encrypted_data.der)
       IN  /\ m.msg_type = "AP_REP" /\ a.what = "ap"
           /\ x.ctime = a.stamp.ctime /\ x.cusec = a.stamp.cusec

\* What the one who gets the bytes b makes of them.
Heard(what, b) == IF what = "ap" THEN DecodeMessage(b) ELSE Deserialize(b)

Caches ==
    /\ SoundCache(memory, kvno, now)
    /\ SoundCache(LoadedFrom(disk), kvno, now) /\ Owned(LoadedFrom(disk))
    /\ (asked = None \/ asked.what # "as") => Owned(memory)
InFlightWell ==
    asked # None =>
        LET m == Heard(asked.what, net)
        IN  IF asked.answered THEN Answered(asked, m, memory, kvno, now)
                              ELSE Requested(asked, m, memory)

WireIInv == TypeOK /\ Caches /\ InFlightWell /\ outcome # "mismatch"

-----------------------------------------------------------------------------
(* What the invariant says *)

\* The key of a version is there while the version is.
LEMMA KeyOfIs ==
    ASSUME NEW p \in Principal, NEW n \in Nat
    PROVE  /\ n \in 1..kvno[p] => KeyOf(p, n) = LongTermKey(p, n)
           /\ n \notin 1..kvno[p] => KeyOf(p, n) = None
           /\ LongTermKey(p, n) # None
<1>1. n # None
  BY NoneAssumption
<1>2. LongTermKey(p, n) # None
  <2>1. p \in Name
    BY Names
  <2>2. QED
    BY <2>1, KeysAre
<1>3. QED
  BY <1>1, <1>2 DEF KeyOf

\* The key that the labels of a sound credential name opens its ticket.
LEMMA SoundOpens ==
    ASSUME NEW c, NEW server, NEW t, Sound(c, server, kvno[server], t)
    PROVE  LET k == KeyOf(server, c.metadata.ticket_kvno)
           IN  k # None /\ Opens(c.ticket, k, 2)
<1> DEFINE n == c.metadata.ticket_kvno
<1>1. /\ server \in Principal /\ n \in 1..kvno[server]
      /\ c.ticket.key = LongTermKey(server, n) /\ c.ticket.usage = 2
      /\ c \in CredentialType
  BY DEF Sound
<1>2. n \in Nat
  BY <1>1 DEF CredentialType
<1> HIDE DEF n
<1>3. KeyOf(server, n) = LongTermKey(server, n) /\ LongTermKey(server, n) # None
  BY <1>1, <1>2, KeyOfIs
<1>4. QED
  BY <1>1, <1>3 DEF Opens, n

\* What a server reads in a ticket.
LEMMA InsideIs ==
    ASSUME NEW c
    PROVE  LET d == c.ticket.der
               t == Inside(c)
           IN  /\ t.client_principal = Holder(c) /\ t.endtime = FromKrbTime(d.endtime)
               /\ t.renew_till = FromKrbTime(d.renew_till) /\ t.key = d.key
               /\ t.realm = Holder(c).realm
               /\ t.flags = BitStringToFlags(d.flags)
               /\ t.authtime = FromKrbTime(d.authtime)
               /\ t.authorization_data = d.authorization_data
BY DEF Inside, DecodeEncTicketPart, Holder, PrincipalToString

\* Every credential of a sound cache is sound, under the name of the TGS of its
\* client when it is the TGT.
LEMMA HeldIs ==
    ASSUME NEW m, NEW v, NEW t, SoundCache(m, v, t), NEW c \in Held(m)
    PROVE  /\ c \in CredentialType /\ c # None
           /\ \/ c = m.tgt /\ Sound(c, TgsOf(Holder(c).realm), v[TgsOf(Holder(c).realm)], t)
              \/ c \in m.services /\ Sound(c, c.server, v[c.server], t)
<1>1. CASE c \in m.services
  <2>1. c \in CredentialType /\ Sound(c, c.server, v[c.server], t)
    BY <1>1 DEF SoundCache
  <2>2. QED
    BY <1>1, <2>1, NoneAssumption
<1>2. CASE c \notin m.services
  <2>1. m.tgt # None /\ c = m.tgt
    BY <1>2 DEF Held
  <2>2. SoundTgt(c, v, t) /\ c \in CredentialType
    BY <2>1 DEF SoundCache, Maybe
  <2>3. QED
    BY <2>1, <2>2 DEF SoundTgt
<1>3. QED
  BY <1>1, <1>2

\* In sound caches the labels are those of the tickets,
LEMMA LabelsOfCache ==
    ASSUME Caches
    PROVE  LabelsKept
<1> DEFINE L == LoadedFrom(disk)
<1>1. Loaded = L
  BY DEF Loaded, LoadedFrom
<1> HIDE DEF L
<1>2. ASSUME NEW c \in Credentials
      PROVE  LET server == IF c \in {memory.tgt, Loaded.tgt}
                           THEN TgsOf(Inside(c).client_principal.realm) ELSE c.server
                 k == KeyOf(server, c.metadata.ticket_kvno)
             IN  k # None /\ Opens(c.ticket, k, 2)
  <2> DEFINE tgs == TgsOf(Holder(c).realm)
  <2>1. Inside(c).client_principal = Holder(c)
    BY InsideIs
  <2>2. c # None
    <3>1. c \in Held(memory) \/ c \in Held(L)
      BY <1>1 DEF Credentials
    <3>2. QED
      BY <3>1, HeldIs DEF Caches, L
  <2>3. CASE c \in {memory.tgt, Loaded.tgt}
    <3>1. Sound(c, tgs, kvno[tgs], now)
      <4>1. CASE c = memory.tgt
        BY <2>2, <4>1 DEF Caches, SoundCache, SoundTgt
      <4>2. CASE c = Loaded.tgt
        BY <1>1, <2>2, <4>2 DEF Caches, SoundCache, SoundTgt, L
      <4>3. QED
        BY <2>3, <4>1, <4>2
    <3> HIDE DEF tgs
    <3>2. KeyOf(tgs, c.metadata.ticket_kvno) # None
          /\ Opens(c.ticket, KeyOf(tgs, c.metadata.ticket_kvno), 2)
      BY <3>1, SoundOpens
    <3>3. QED
      BY <2>1, <2>3, <3>2 DEF tgs
  <2>4. CASE c \notin {memory.tgt, Loaded.tgt}
    <3>1. Sound(c, c.server, kvno[c.server], now)
      <4>1. c \in Held(memory) \/ c \in Held(L)
        BY <1>1 DEF Credentials
      <4>2. c # memory.tgt /\ c # L.tgt
        BY <1>1, <2>4
      <4>3. QED
        BY <4>1, <4>2, HeldIs DEF Caches, L
    <3>2. KeyOf(c.server, c.metadata.ticket_kvno) # None
          /\ Opens(c.ticket, KeyOf(c.server, c.metadata.ticket_kvno), 2)
      BY <3>1, SoundOpens
    <3>3. QED
      BY <2>4, <3>2
  <2>5. QED
    BY <2>3, <2>4
<1>3. \A c \in Held(Loaded) : Inside(c).client_principal = Loaded.client
  BY <1>1, InsideIs DEF Caches, Owned, L
<1>4. (asked = None \/ asked.what # "as") =>
          \A c \in Held(memory) : Inside(c).client_principal = memory.client
  BY InsideIs DEF Caches, Owned
<1>5. QED
  BY <1>2, <1>3, <1>4 DEF LabelsKept

\* and the times too.
LEMMA TimesOfCache ==
    ASSUME Caches, now \in Nat
    PROVE  TimesKept
<1> DEFINE L == LoadedFrom(disk)
<1>1. Loaded = L
  BY DEF Loaded, LoadedFrom
<1> HIDE DEF L
<1>2. ASSUME NEW c \in Credentials
      PROVE  LET t == Inside(c)
             IN  /\ c.metadata.endtime = t.endtime
                 /\ Or(c.metadata.renew_till, 0) = Or(t.renew_till, 0)
                 /\ 2 * Micro * t.endtime
                        <= 2 * Micro * (now + TICKET_LIFETIME * Fine) + Fine
  <2> DEFINE d == c.ticket.der
             e == d.endtime
             M == now + TICKET_LIFETIME * Fine
  <2>1. c \in Held(memory) \/ c \in Held(L)
    BY <1>1 DEF Credentials
  <2>2. \E server : Sound(c, server, kvno[server], now)
    <3>1. CASE c \in Held(memory)
      BY <3>1, HeldIs DEF Caches
    <3>2. CASE c \in Held(L)
      BY <3>2, HeldIs DEF Caches, L
    <3>3. QED
      BY <2>1, <3>1, <3>2
  <2>3. c \in CredentialType /\ SameTimes(c) /\ InTime(e, now)
    BY <2>2 DEF Sound
  <2>4. e \in Nat
    <3>1. d \in EncTicketPartType(Key)
      BY <2>3 DEF CredentialType, SealedTicket, CipherOf
    <3>2. QED
      BY <3>1 DEF EncTicketPartType, KerberosTime
  <2>5. Inside(c).endtime = e * Fine
        /\ Inside(c).renew_till = FromKrbTime(d.renew_till)
    <3>1. FromKrbTime(e) = e * Fine
      BY <2>4, FromKrbTimeIs
    <3>2. QED
      BY <3>1, InsideIs
  <2>6. c.metadata.endtime = e * Fine
        /\ Or(c.metadata.renew_till, 0) = Or(FromKrbTime(d.renew_till), 0)
    BY <2>3 DEF SameTimes
  <2>7. 2 * (Micro * (e * Fine)) <= 2 * (Micro * M) + Fine
    BY <2>3 DEF InTime
  <2>8. M \in Nat /\ e * Fine \in Nat
    BY <2>4, TimeAssumption, BoundsAssumption
  <2> HIDE DEF M, e, d
  <2>9. 2 * Micro * (e * Fine) = 2 * (Micro * (e * Fine))
        /\ 2 * Micro * M = 2 * (Micro * M)
    <3> DEFINE x == e * Fine
    <3> HIDE DEF x
    <3>1. x \in Nat
      BY <2>8 DEF x
    <3>2. 2 * Micro * x = 2 * (Micro * x) /\ 2 * Micro * M = 2 * (Micro * M)
      BY <2>8, <3>1, TimeAssumption
    <3>3. QED
      BY <3>2 DEF x
  <2>10. QED
    BY <2>5, <2>6, <2>7, <2>9 DEF M
<1>3. QED
  BY <1>2 DEF TimesKept

\* A request in flight has the stamp that was meant,
LEMMA StampsOfRequest ==
    ASSUME InFlightWell, asked \in Maybe(LocalsType), memory.client \in Name
    PROVE  StampKept
<1> SUFFICES ASSUME asked # None, ~asked.answered
             PROVE  LET m == IF asked.what = "ap" THEN DecodeMessage(net)
                             ELSE Deserialize(net)
                        t == IF m.msg_type = "AS_REQ"
                             THEN DecodePaEncTimestamp(m.preauth.der).timestamp
                             ELSE DecodeAuthenticator(m.authenticator.der).timestamp
                    IN  /\ 2 * Micro * t <= 2 * Micro * asked.at + Fine
                        /\ 2 * Micro * asked.at <= 2 * Micro * t + Fine
  BY DEF StampKept
<1> DEFINE m == Heard(asked.what, net)
           s == Stamp(asked.at)
           t == IF m.msg_type = "AS_REQ"
                THEN DecodePaEncTimestamp(m.preauth.der).timestamp
                ELSE DecodeAuthenticator(m.authenticator.der).timestamp
<1>1. asked.at \in Nat /\ asked.key \in Key
  BY DEF Maybe, LocalsType
<1>2. Requested(asked, m, memory)
  BY DEF InFlightWell
<1>3. m = IF asked.what = "ap" THEN DecodeMessage(net) ELSE Deserialize(net)
  BY DEF Heard
<1> HIDE DEF m
<1>4. t = Moment(s.ctime, s.cusec)
  <2>1. CASE asked.what = "as"
    <3>1. m.msg_type = "AS_REQ" /\ m.preauth = PreauthAt(asked.at, asked.key)
      BY <1>2, <2>1 DEF Requested
    <3>2. QED
      BY <1>1, <3>1, PreauthIs
  <2>2. CASE asked.what # "as"
    <3>1. \E realm \in STRING, usage \in Nat, subkey \in Maybe(Key) :
              m.authenticator = AuthenticatorAt(memory.client, realm, asked.at,
                                                asked.key, usage, subkey)
          /\ m.msg_type # "AS_REQ"
      <4>1. CASE asked.what = "ap"
        <5>1. ServiceTicketSent(asked, m, memory)
          BY <1>2, <4>1 DEF Requested
        <5>2. m.msg_type # "AS_REQ"
              /\ m.authenticator = AuthenticatorAt(memory.client, memory.client.realm,
                     asked.at, asked.key, 11, <<"subkey", asked.at>>)
          BY <5>1 DEF ServiceTicketSent
        <5>3. <<"subkey", asked.at>> \in Maybe(Key) /\ memory.client.realm \in STRING
          BY <1>1, KeysAre, NameIs DEF Maybe
        <5>4. QED
          BY <5>2, <5>3
      <4>2. CASE asked.what # "ap"
        <5>1. PICK realm \in {memory.client.realm, Home} :
                  TgtSent(asked, m, memory, realm)
          BY <1>2, <2>2, <4>2 DEF Requested
        <5>2. m.msg_type # "AS_REQ"
              /\ m.authenticator = AuthenticatorAt(memory.client, realm, asked.at,
                                                   asked.key, 7, None)
          BY <5>1 DEF TgtSent
        <5>3. realm \in STRING /\ None \in Maybe(Key)
          BY NameIs, StringAssumption DEF Maybe
        <5>4. QED
          BY <5>2, <5>3
      <4>3. QED
        BY <4>1, <4>2
    <3>2. PICK realm \in STRING, usage \in Nat, subkey \in Maybe(Key) :
              m.authenticator = AuthenticatorAt(memory.client, realm, asked.at,
                                                asked.key, usage, subkey)
      BY <3>1
    <3>3. DecodeAuthenticator(m.authenticator.der).timestamp = Moment(s.ctime, s.cusec)
      BY <1>1, <3>2, AuthenticatorIs
    <3>4. QED
      BY <3>1, <3>3
  <2>3. QED
    BY <2>1, <2>2
<1>5. /\ 2 * Micro * t <= 2 * Micro * asked.at + Fine
      /\ 2 * Micro * asked.at <= 2 * Micro * t + Fine
  <2> HIDE DEF t
  <2>1. QED
    BY <1>1, <1>4, StampIs
<1>6. QED
  BY <1>3, <1>5

\* and an answer that is an error its cause.
LEMMA RefusalsOfAnswer ==
    ASSUME InFlightWell, outcome # "mismatch"
    PROVE  RefusalsExplained
<1> SUFFICES ASSUME asked # None, asked.answered,
                    Heard(asked.what, net).msg_type = "KRB_ERROR"
             PROVE  LET m == Heard(asked.what, net)
                    IN  Explained(asked, m.error_code, memory, now)
  <2>1. ASSUME asked # None, asked.answered,
               Heard(asked.what, net).msg_type = "KRB_ERROR",
               Explained(asked, Heard(asked.what, net).error_code, memory, now)
        PROVE  LET m == Heard(asked.what, net)
               IN  CASE m.error_code = "KDC_ERR_PREAUTH_FAILED" ->
                       asked.key # PasswordKey(memory.client)
                   [] m.error_code = "KDC_ERR_S_PRINCIPAL_UNKNOWN" ->
                          asked.server \in Stranger
                   [] m.error_code = "KRB_AP_ERR_MODIFIED" ->
                          asked.what = "renew" /\ memory.client.realm # Home
                   [] m.error_code = "KRB_AP_ERR_TKT_EXPIRED" ->
                          CASE asked.what = "renew" -> Lapsed(memory.tgt)
                            [] asked.what = "tgs" -> Expired(memory.tgt)
                            [] asked.what = "ap" ->
                                   \E c \in memory.services :
                                       c.server = asked.server /\ Expired(c)
                   [] OTHER -> FALSE
    <3> DEFINE m == Heard(asked.what, net)
    <3>1. Explained(asked, m.error_code, memory, now)
      BY <2>1
    <3> HIDE DEF m
    <3>2. QED
      BY <3>1 DEF Explained, Lapsed, Expired, Past, PastAt, m
  <2>2. QED
    BY <2>1 DEF RefusalsExplained, Heard
<1>1. Answered(asked, Heard(asked.what, net), memory, kvno, now)
  BY DEF InFlightWell
<1>2. QED
  BY <1>1 DEF Answered

\* The invariant implies the four properties.
LEMMA WireSafe ==
    ASSUME WireIInv
    PROVE  LabelsKept /\ TimesKept /\ StampKept /\ RefusalsExplained
<1>1. now \in Nat /\ asked \in Maybe(LocalsType) /\ Caches /\ InFlightWell
      /\ outcome # "mismatch"
  BY BoundsAssumption DEF WireIInv, TypeOK
<1>2. LabelsKept /\ TimesKept
  BY <1>1, LabelsOfCache, TimesOfCache
<1>3. StampKept
  <2>1. CASE asked = None
    BY <2>1 DEF StampKept
  <2>2. CASE asked # None /\ asked.answered
    BY <2>2 DEF StampKept
  <2>3. CASE asked # None /\ ~asked.answered
    <3>1. memory.client \in Client
      BY <1>1, <2>3 DEF InFlightWell, Requested
    <3>2. memory.client \in Name
      BY <3>1, Names
    <3>3. QED
      BY <1>1, <3>2, StampsOfRequest
  <2>4. QED
    BY <2>1, <2>2, <2>3
<1>4. RefusalsExplained
  BY <1>1, RefusalsOfAnswer
<1>5. QED
  BY <1>2, <1>3, <1>4

-----------------------------------------------------------------------------
(* What a step leaves *)

\* The types of the invariant's variables, and its caches.
LEMMA WireIs ==
    ASSUME WireIInv
    PROVE  /\ now \in Nat /\ now \in 1..MaxTime /\ format \in {"der", "json"}
           /\ kvno \in [Principal -> 1..MaxKvno] /\ kvno \in [Principal -> Nat \ {0}]
           /\ kvno \in [Principal -> Nat]
           /\ issued \in 0..MaxIssued /\ issued \in Nat
           /\ memory \in [client : Maybe(Client), tgt : Maybe(CredentialType),
                          services : SUBSET CredentialType]
           /\ disk \in [tgt : Maybe(FileRecord), services : SUBSET FileRecord]
           /\ asked \in Maybe(LocalsType)
           /\ SoundCache(memory, kvno, now)
           /\ SoundCache(LoadedFrom(disk), kvno, now) /\ Owned(LoadedFrom(disk))
           /\ (asked = None \/ asked.what # "as") => Owned(memory)
           /\ outcome # "mismatch"
<1>1. TypeOK /\ Caches /\ outcome # "mismatch"
  BY DEF WireIInv
<1>2. now \in 1..MaxTime /\ format \in {"der", "json"}
      /\ kvno \in [Principal -> 1..MaxKvno] /\ issued \in 0..MaxIssued
      /\ memory \in [client : Maybe(Client), tgt : Maybe(CredentialType),
                     services : SUBSET CredentialType]
      /\ disk \in [tgt : Maybe(FileRecord), services : SUBSET FileRecord]
      /\ asked \in Maybe(LocalsType)
  BY <1>1 DEF TypeOK
<1>3. now \in Nat /\ issued \in Nat
  BY <1>2, BoundsAssumption
<1>4. kvno \in [Principal -> Nat \ {0}] /\ kvno \in [Principal -> Nat]
  BY <1>2, BoundsAssumption
<1>5. QED
  BY <1>1, <1>2, <1>3, <1>4 DEF Caches

\* Nothing is in flight, and the file is that of the cache.
LEMMA Stored ==
    ASSUME WireIInv, SoundCache(memory', kvno, now), Owned(memory'),
           disk' = File(memory'), asked' = None, net' \in {net, None},
           UNCHANGED <<format, now, kvno, issued>>, outcome' # "mismatch"
    PROVE  WireIInv'
<1>1. /\ File(memory') \in [tgt : Maybe(FileRecord), services : SUBSET FileRecord]
      /\ SoundCache(LoadedFrom(File(memory')), kvno, now)
      /\ Owned(LoadedFrom(File(memory')))
  BY FileKeeps
<1>2. Caches'
  BY <1>1 DEF Caches
<1>3. InFlightWell'
  BY DEF InFlightWell
<1>4. memory' \in [client : Maybe(Client), tgt : Maybe(CredentialType),
                   services : SUBSET CredentialType]
  BY DEF SoundCache
<1>5. asked' \in Maybe(LocalsType)
  BY DEF Maybe
<1>6. (net' # None /\ "json" \notin DOMAIN net') => net' \in Der
  BY DEF WireIInv, TypeOK
<1>7. TypeOK'
  BY <1>1, <1>4, <1>5, <1>6, WireIs DEF TypeOK
<1>8. QED
  BY <1>2, <1>3, <1>7 DEF WireIInv

\* Nothing is in flight, and the file is as it was.
LEMMA Settled ==
    ASSUME WireIInv, SoundCache(memory', kvno, now), Owned(memory'),
           disk' = disk, asked' = None, net' \in {net, None},
           UNCHANGED <<format, now, kvno, issued>>, outcome' # "mismatch"
    PROVE  WireIInv'
<1>1. Caches'
  BY WireIs DEF Caches
<1>2. InFlightWell'
  BY DEF InFlightWell
<1>3. memory' \in [client : Maybe(Client), tgt : Maybe(CredentialType),
                   services : SUBSET CredentialType]
  BY DEF SoundCache
<1>4. asked' \in Maybe(LocalsType)
  BY DEF Maybe
<1>5. (net' # None /\ "json" \notin DOMAIN net') => net' \in Der
  BY DEF WireIInv, TypeOK
<1>6. TypeOK'
  BY <1>3, <1>4, <1>5, WireIs DEF TypeOK
<1>7. QED
  BY <1>1, <1>2, <1>6 DEF WireIInv

\* What is remembered of a request.
LEMMA LocalsIs ==
    ASSUME NEW what \in {"as", "tgs", "renew", "ap"}, NEW k \in Key,
           NEW server \in Maybe(Name), now \in Nat
    PROVE  LET a == Locals(what, k, server)
           IN  /\ a \in LocalsType /\ a # None /\ a.what = what /\ a.key = k
               /\ a.server = server /\ a.at = now /\ a.stamp = Stamp(now)
               /\ ~a.answered
<1> DEFINE a == Locals(what, k, server)
           s == Stamp(now)
<1>1. s \in [ctime : Nat, cusec : Nat]
  <2>1. s.ctime \in Nat /\ s.cusec \in Nat
    BY StampIs
  <2>2. s = [ctime |-> s.ctime, cusec |-> s.cusec]
    BY DEF Stamp
  <2> HIDE DEF s
  <2>3. QED
    BY <2>1, <2>2
<1>2. a = [what |-> what, key |-> k, server |-> server, nonce |-> now,
           stamp |-> s, at |-> now, answered |-> FALSE]
  BY DEF Locals
<1> HIDE DEF s, a
<1>3. a \in LocalsType
  BY <1>1, <1>2 DEF LocalsType
<1>4. /\ a # None /\ a.what = what /\ a.key = k /\ a.server = server /\ a.at = now
      /\ a.stamp = s /\ ~a.answered
  BY <1>2, <1>3, NoneAssumption
<1>5. QED
  BY <1>3, <1>4 DEF a, s

\* A request is on its way.
LEMMA Sent ==
    ASSUME WireIInv, asked' \in LocalsType, ~asked'.answered,
           "json" \in DOMAIN net' \/ net' \in Der,
           Requested(asked', Heard(asked'.what, net'), memory'),
           SoundCache(memory', kvno, now), asked'.what = "as" \/ Owned(memory'),
           UNCHANGED <<format, now, kvno, disk, issued>>, outcome' = None
    PROVE  WireIInv'
<1>1. Caches'
  <2>1. (asked' = None \/ asked'.what # "as") => Owned(memory')
    BY NoneAssumption
  <2>2. QED
    BY <2>1, WireIs DEF Caches
<1>2. InFlightWell'
  BY DEF InFlightWell
<1>3. memory' \in [client : Maybe(Client), tgt : Maybe(CredentialType),
                   services : SUBSET CredentialType]
  BY DEF SoundCache
<1>4. asked' \in Maybe(LocalsType)
  BY DEF Maybe
<1>5. (net' # None /\ "json" \notin DOMAIN net') => net' \in Der
  OBVIOUS
<1>6. TypeOK'
  BY <1>3, <1>4, <1>5, WireIs DEF TypeOK
<1>7. outcome' # "mismatch"
  BY NoneAssumption
<1>8. QED
  BY <1>1, <1>2, <1>6, <1>7 DEF WireIInv

\* What an answer must bring is what was asked.
LEMMA SameAnswered ==
    ASSUME NEW a \in LocalsType, NEW m, NEW cache, NEW v, NEW t, Answered(a, m, cache, v, t)
    PROVE  Answered([a EXCEPT !.answered = TRUE], m, cache, v, t)
<1> DEFINE b == [a EXCEPT !.answered = TRUE]
<1>1. b.what = a.what /\ b.key = a.key /\ b.server = a.server /\ b.stamp = a.stamp
  BY DEF LocalsType
<1> HIDE DEF b
<1>2. \A code : Explained(a, code, cache, t) => Explained(b, code, cache, t)
  BY <1>1 DEF Explained
<1>3. Answered(b, m, cache, v, t)
  BY <1>1, <1>2 DEF Answered
<1>4. QED
  BY <1>3 DEF b

\* An answer is on its way.
LEMMA AnswerSent ==
    ASSUME WireIInv, asked # None, asked' = [asked EXCEPT !.answered = TRUE],
           "json" \in DOMAIN net' \/ net' \in Der,
           Answered(asked, Heard(asked.what, net'), memory, kvno, now),
           UNCHANGED <<format, now, kvno, memory, disk, outcome>>,
           issued' \in 0..MaxIssued
    PROVE  WireIInv'
<1>1. asked \in LocalsType
  BY WireIs DEF Maybe
<1>2. asked' \in LocalsType /\ asked'.what = asked.what /\ asked'.answered = TRUE
  BY <1>1 DEF LocalsType
<1>3. Answered(asked', Heard(asked.what, net'), memory, kvno, now)
  <2> DEFINE n == Heard(asked.what, net')
  <2>1. Answered(asked, n, memory, kvno, now)
    OBVIOUS
  <2> HIDE DEF n
  <2>2. Answered([asked EXCEPT !.answered = TRUE], n, memory, kvno, now)
    BY <1>1, <2>1, SameAnswered
  <2>3. QED
    BY <2>2 DEF n
<1>4. InFlightWell'
  BY <1>2, <1>3 DEF InFlightWell
<1>5. Caches'
  <2>1. (asked' = None \/ asked'.what # "as") => Owned(memory)
    BY <1>2, NoneAssumption, WireIs
  <2>2. QED
    BY <2>1, WireIs DEF Caches
<1>6. asked' \in Maybe(LocalsType)
  BY <1>2 DEF Maybe
<1>7. TypeOK'
  <2>1. (net' # None /\ "json" \notin DOMAIN net') => net' \in Der
    OBVIOUS
  <2>2. QED
    BY <1>6, <2>1, WireIs DEF TypeOK
<1>8. QED
  BY <1>4, <1>5, <1>7, WireIs DEF WireIInv

-----------------------------------------------------------------------------
(* The start *)

\* It holds at the start: nothing is held, nothing is asked.
LEMMA WireStarts ==
    ASSUME WireInit
    PROVE  WireIInv
<1> DEFINE m == Empty
<1>1. m.client = None /\ m.tgt = None /\ m.services = {}
      /\ m \in [client : Maybe(Client), tgt : Maybe(CredentialType),
                services : SUBSET CredentialType]
  BY DEF Empty, Maybe
<1>2. SoundCache(m, kvno, now) /\ Owned(m)
  BY <1>1 DEF SoundCache, Owned, Held
<1>3. memory = m /\ disk = File(m) /\ asked = None /\ net = None /\ outcome = None
      /\ now = 1 /\ kvno = [p \in Principal |-> 1] /\ format \in {"der", "json"}
      /\ issued = 0
  BY DEF WireInit
<1> HIDE DEF m
<1>4. /\ File(m) \in [tgt : Maybe(FileRecord), services : SUBSET FileRecord]
      /\ SoundCache(LoadedFrom(File(m)), kvno, now) /\ Owned(LoadedFrom(File(m)))
  BY <1>2, FileKeeps
<1>5. Caches
  BY <1>2, <1>3, <1>4 DEF Caches
<1>6. InFlightWell
  BY <1>3 DEF InFlightWell
<1>7. TypeOK
  BY <1>1, <1>3, <1>4, BoundsAssumption DEF TypeOK, Maybe
<1>8. outcome # "mismatch"
  BY <1>3, NoneAssumption
<1>9. QED
  BY <1>5, <1>6, <1>7, <1>8 DEF WireIInv

-----------------------------------------------------------------------------
(* Requests *)

\* A TGT too old is dropped, with what came of it.
LEMMA ForgetSafe ==
    ASSUME WireIInv, asked = None, Forget, UNCHANGED <<format, now, kvno, issued>>
    PROVE  WireIInv'
<1> DEFINE m == [memory EXCEPT !.tgt = None, !.services = {}]
<1>1. memory \in [client : Maybe(Client), tgt : Maybe(CredentialType),
                  services : SUBSET CredentialType]
  BY WireIs
<1>2. m.tgt = None /\ m.services = {}
      /\ m \in [client : Maybe(Client), tgt : Maybe(CredentialType),
                services : SUBSET CredentialType]
  BY <1>1 DEF Maybe
<1>3. memory' = m /\ disk' = File(memory') /\ outcome' = "stopped"
      /\ asked' = asked /\ net' = net
  BY DEF Forget
<1> HIDE DEF m
<1>4. SoundCache(m, kvno, now) /\ Owned(m)
  BY <1>2 DEF SoundCache, Owned, Held
<1>5. SoundCache(memory', kvno, now) /\ Owned(memory')
  BY <1>3, <1>4
<1>6. QED
  BY <1>3, <1>5, Stored

\* phase1_as_exchange sends an AS-REQ.
LEMMA SendAsReqSafe ==
    ASSUME WireIInv, NEW client \in Client,
           NEW k \in {PasswordKey(client), <<"wrong", client>>}, SendAsReq(client, k)
    PROVE  WireIInv'
<1> DEFINE p == PreauthAt(now, k)
           n == [msg_type |-> "AS_REQ", client_principal |-> client,
                 realm |-> client.realm, nonce |-> now, kdc_options |-> {"renewable"},
                 preauth |-> p, preauth_enctype |-> DEFAULT_ENCTYPE]
           h == Deserialize(Serialize(n))
           a == Locals("as", k, None)
           m == [memory EXCEPT !.client = client]
<1>1. client \in Name /\ k \in Key /\ now \in Nat
  BY Names, KeysAre, WireIs
<1>2. memory' = m /\ asked' = a /\ net' = Serialize(n) /\ outcome' = None
      /\ UNCHANGED <<format, now, kvno, disk, issued>>
  BY DEF SendAsReq, PreauthAt
<1>3. /\ a \in LocalsType /\ a.what = "as" /\ a.key = k /\ a.at = now
      /\ a.stamp = Stamp(now) /\ ~a.answered
  <2>1. None \in Maybe(Name)
    BY DEF Maybe
  <2>2. "as" \in {"as", "tgs", "renew", "ap"}
    OBVIOUS
  <2>3. QED
    BY <1>1, <2>1, <2>2, LocalsIs
<1>4. p \in CipherOf(PaEncTimestampType)
  BY <1>1, PreauthIs
<1>5. /\ h.msg_type = "AS_REQ" /\ h.client_principal = client
      /\ h.realm = client.realm /\ h.nonce = now /\ h.preauth = p
      /\ h.preauth_enctype = DEFAULT_ENCTYPE
      /\ "json" \in DOMAIN Serialize(n) \/ Serialize(n) \in Der
  <2> HIDE DEF p
  <2>1. QED
    BY <1>1, <1>4, AsReqCarried
<1>6. /\ m.client = client /\ m.tgt = memory.tgt /\ m.services = memory.services
      /\ m \in [client : Maybe(Client), tgt : Maybe(CredentialType),
                services : SUBSET CredentialType]
  BY WireIs DEF Maybe
<1>7. SoundCache(m, kvno, now)
  <2> HIDE DEF m
  <2>1. SoundCache(memory, kvno, now)
    BY WireIs
  <2>2. QED
    BY <1>6, <2>1 DEF SoundCache
<1> HIDE DEF m, a, n
<1>8. Requested(a, h, m)
  <2>1. h.nonce \in Nat /\ h.preauth_enctype \in Nat
    BY <1>1, <1>5 DEF DEFAULT_ENCTYPE
  <2> HIDE DEF h
  <2>2. h.preauth = PreauthAt(a.at, a.key)
    BY <1>3, <1>5 DEF p
  <2>3. QED
    BY <1>3, <1>5, <1>6, <2>1, <2>2 DEF Requested
<1>9. Heard(a.what, Serialize(n)) = h
  BY <1>3 DEF Heard, h
<1>10. QED
  <2> HIDE DEF h
  <2>1. Requested(asked', Heard(asked'.what, net'), memory')
    BY <1>2, <1>8, <1>9
  <2>2. asked' \in LocalsType /\ ~asked'.answered /\ asked'.what = "as"
    BY <1>2, <1>3
  <2>3. SoundCache(memory', kvno, now) /\ ("json" \in DOMAIN net' \/ net' \in Der)
    BY <1>2, <1>5, <1>7
  <2>4. QED
    BY <1>2, <2>1, <2>2, <2>3, Sent

\* The command's TGT and its client.
LEMMA TgtOfCommand ==
    ASSUME WireIInv, Ready, memory.tgt # None
    PROVE  LET t == memory.tgt
           IN  /\ memory.client \in Client /\ memory.client \in Name
               /\ t \in CredentialType /\ SoundTgt(t, kvno, now)
               /\ t.key \in Key /\ t.ticket \in SealedTicket
               /\ t.metadata.ticket_kvno \in Nat /\ t.metadata.ticket_enctype \in Nat
               /\ Owned(memory)
<1>1. memory \in [client : Maybe(Client), tgt : Maybe(CredentialType),
                  services : SUBSET CredentialType]
      /\ SoundCache(memory, kvno, now)
  BY WireIs
<1>2. memory.client \in Client /\ memory.tgt \in CredentialType
  BY <1>1 DEF Ready, Maybe
<1>3. memory.client \in Name
  BY <1>2, Names
<1>4. SoundTgt(memory.tgt, kvno, now)
  BY <1>1 DEF SoundCache
<1>5. Owned(memory)
  BY WireIs DEF Ready
<1>6. LET t == memory.tgt
      IN  /\ t.key \in Key /\ t.ticket \in SealedTicket
          /\ t.metadata.ticket_kvno \in Nat /\ t.metadata.ticket_enctype \in Nat
  <2> DEFINE t == memory.tgt
  <2>1. t \in CredentialType
    BY <1>2
  <2> HIDE DEF t
  <2>2. t.key \in Key /\ t.ticket \in SealedTicket
        /\ t.metadata.ticket_kvno \in Nat /\ t.metadata.ticket_enctype \in Nat
    BY <2>1 DEF CredentialType
  <2>3. QED
    BY <2>2 DEF t
<1>7. QED
  BY <1>2, <1>3, <1>4, <1>5, <1>6

\* The client's authenticator is that of the moment.
LEMMA AuthenticatorNow ==
    ASSUME NEW realm, NEW k, NEW usage, NEW subkey
    PROVE  subkey = None \/ subkey = <<"subkey", now>> =>
               Authenticator(realm, k, usage, subkey)
                   = AuthenticatorAt(memory.client, realm, now, k, usage, subkey)
BY DEF Authenticator, AuthenticatorAt

\* A request with the TGT reaches the KDC as it was meant.
LEMMA TgtSentIs ==
    ASSUME WireIInv, Ready, memory.tgt # None, NEW a \in LocalsType, NEW m,
           NEW realm \in STRING, realm = Home \/ TgsOf(realm) \in Principal,
           NEW options \in {{}, {"renew"}}, Or(Get(m, "kdc_options"), {}) = options,
           Or(Get(m, "tgt_service_principal"), TGS_PRINCIPAL) = TgsOf(realm),
           m.msg_type = "TGS_REQ", m.realm = realm, m.nonce = now,
           m.service_principal = a.server, a.server \in Name, a.server.realm = realm,
           m.tgt = memory.tgt.ticket, m.tgt_kvno = memory.tgt.metadata.ticket_kvno,
           m.tgt_enctype = memory.tgt.metadata.ticket_enctype,
           m.authenticator = AuthenticatorAt(memory.client, realm, now, a.key, 7, None),
           m.authenticator_enctype = DEFAULT_ENCTYPE,
           a.key = memory.tgt.key, a.at = now
    PROVE  LET h == Deserialize(Serialize(m))
           IN  /\ TgtSent(a, h, memory, realm)
               /\ IsRenewal(h) <=> "renew" \in options
               /\ "json" \in DOMAIN Serialize(m) \/ Serialize(m) \in Der
<1> DEFINE h == Deserialize(Serialize(m))
           t == memory.tgt
<1>1. memory.client \in Name /\ t.key \in Key /\ t.ticket \in SealedTicket
      /\ t.metadata.ticket_kvno \in Nat /\ t.metadata.ticket_enctype \in Nat
  BY TgtOfCommand
<1>2. now \in Nat /\ TgsOf(realm) \in Name
  BY WireIs, TgsIs
<1>3. m.authenticator \in SealedAuthenticator
  <2>1. None \in Maybe(Key) /\ 7 \in Nat
    BY DEF Maybe
  <2>2. QED
    BY <1>1, <1>2, <2>1, AuthenticatorIs
<1>4. m.authenticator_enctype \in Nat
  BY DEF DEFAULT_ENCTYPE
<1>5. /\ h.msg_type = "TGS_REQ" /\ h.realm = m.realm /\ h.nonce = m.nonce
      /\ h.service_principal = m.service_principal
      /\ h.tgt = m.tgt /\ h.tgt_kvno = m.tgt_kvno
      /\ h.authenticator = m.authenticator
      /\ NamedTgs(h) = IF TgsOf(realm) \in Principal THEN TgsOf(realm) ELSE TGS_PRINCIPAL
      /\ IsRenewal(h) <=> "renew" \in options
      /\ "json" \in DOMAIN Serialize(m) \/ Serialize(m) \in Der
  BY <1>1, <1>2, <1>3, <1>4, TgsReqIs
<1>6. NamedTgs(h) = TgsOf(realm)
  BY <1>5 DEF TGS_PRINCIPAL
<1> HIDE DEF h
<1>7. TgtSent(a, h, memory, realm)
  BY <1>2, <1>5, <1>6 DEF TgtSent
<1>8. QED
  BY <1>5, <1>7 DEF h

\* phase2_tgs_exchange sends a TGS-REQ, or finds the TGT over.
LEMMA SendTgsReqSafe ==
    ASSUME WireIInv, NEW service \in Service \cup Stranger, SendTgsReq(service)
    PROVE  WireIInv'
<1> DEFINE t == memory.tgt
           realm == memory.client.realm
           a == Locals("tgs", t.key, service)
           n == [msg_type |-> "TGS_REQ", realm |-> realm,
                 service_principal |-> service, tgt |-> t.ticket,
                 tgt_service_principal |-> TgsOf(realm),
                 tgt_enctype |-> t.metadata.ticket_enctype,
                 tgt_kvno |-> t.metadata.ticket_kvno,
                 authenticator |-> Authenticator(realm, t.key, 7, None),
                 authenticator_enctype |-> DEFAULT_ENCTYPE, nonce |-> now]
           h == Deserialize(Serialize(n))
<1>1. Ready /\ memory.tgt # None /\ service.realm = realm /\ asked = None
  BY DEF SendTgsReq, Ready
<1>2. CASE Expired(t)
  <2>1. Forget /\ UNCHANGED <<format, now, kvno, issued>>
    BY <1>2 DEF SendTgsReq
  <2>2. QED
    BY <1>1, <2>1, ForgetSafe
<1>3. CASE ~Expired(t)
  <2>1. asked' = a /\ net' = Serialize(n) /\ outcome' = None
        /\ UNCHANGED <<memory, disk, format, now, kvno, issued>>
    BY <1>3 DEF SendTgsReq
  <2>2. memory.client \in Client /\ memory.client \in Name /\ t.key \in Key
        /\ Owned(memory)
    BY <1>1, TgtOfCommand
  <2>3. service \in Name /\ now \in Nat
    BY Names, WireIs
  <2>4. /\ a \in LocalsType /\ a.what = "tgs" /\ a.key = t.key /\ a.at = now
        /\ a.stamp = Stamp(now) /\ ~a.answered /\ a.server = service
    <3>1. service \in Maybe(Name) /\ "tgs" \in {"as", "tgs", "renew", "ap"}
      BY <2>3 DEF Maybe
    <3>2. QED
      BY <2>2, <2>3, <3>1, LocalsIs
  <2>5. realm \in STRING /\ TgsOf(realm) \in Principal /\ TgsOf(realm) # None
    <3>1. realm \in STRING /\ TgsOf(realm) \in Principal
      BY <2>2, Names
    <3>2. QED
      BY <3>1, TgsIs, NameIs
  <2>6. n.authenticator = AuthenticatorAt(memory.client, realm, now, a.key, 7, None)
    BY <2>4, AuthenticatorNow
  <2>7. Or(Get(n, "kdc_options"), {}) = {}
    BY DEF Or, Get
  <2>8. Or(Get(n, "tgt_service_principal"), TGS_PRINCIPAL) = TgsOf(realm)
    <3>1. Get(n, "tgt_service_principal") = TgsOf(realm)
      BY DEF Get
    <3>2. QED
      BY <2>5, <3>1 DEF Or
  <2>9. /\ n.msg_type = "TGS_REQ" /\ n.realm = realm /\ n.nonce = now
        /\ n.service_principal = service /\ n.tgt = memory.tgt.ticket
        /\ n.tgt_kvno = memory.tgt.metadata.ticket_kvno
        /\ n.tgt_enctype = memory.tgt.metadata.ticket_enctype
        /\ n.authenticator_enctype = DEFAULT_ENCTYPE
    OBVIOUS
  <2> HIDE DEF n, a
  <2>10. /\ TgtSent(a, h, memory, realm) /\ (IsRenewal(h) <=> "renew" \in {})
         /\ "json" \in DOMAIN Serialize(n) \/ Serialize(n) \in Der
    <3>1. {} \in {{}, {"renew"}}
      OBVIOUS
    <3>2. QED
      BY <1>1, <2>3, <2>4, <2>5, <2>6, <2>7, <2>8, <2>9, <3>1, TgtSentIs
  <2>11. Heard(a.what, Serialize(n)) = h
    BY <2>4 DEF Heard
  <2> HIDE DEF h
  <2>12. Requested(a, h, memory)
    <3>1. a.server.realm = memory.client.realm
      BY <1>1, <2>4
    <3>2. QED
      BY <2>2, <2>4, <2>10, <3>1 DEF Requested
  <2>13. Requested(asked', Heard(asked'.what, net'), memory')
    BY <2>1, <2>11, <2>12
  <2>14. asked' \in LocalsType /\ ~asked'.answered
         /\ ("json" \in DOMAIN net' \/ net' \in Der)
    BY <2>1, <2>4, <2>10
  <2>15. SoundCache(memory', kvno, now) /\ Owned(memory')
    BY <2>1, <2>2, WireIs
  <2>16. QED
    BY <2>1, <2>13, <2>14, <2>15, Sent
<1>4. QED
  BY <1>2, <1>3

\* renew_tgt_exchange asks the home TGS, whoever's the TGT.
LEMMA SendRenewalSafe ==
    ASSUME WireIInv, SendRenewal
    PROVE  WireIInv'
<1> DEFINE t == memory.tgt
           a == Locals("renew", t.key, TGS_PRINCIPAL)
           n == [msg_type |-> "TGS_REQ", realm |-> Home,
                 service_principal |-> TGS_PRINCIPAL, tgt |-> t.ticket,
                 tgt_enctype |-> t.metadata.ticket_enctype,
                 tgt_kvno |-> t.metadata.ticket_kvno,
                 authenticator |-> Authenticator(Home, t.key, 7, None),
                 authenticator_enctype |-> DEFAULT_ENCTYPE, nonce |-> now,
                 kdc_options |-> {"renew"}]
           h == Deserialize(Serialize(n))
<1>1. Ready /\ memory.tgt # None /\ asked = None
  BY DEF SendRenewal, Ready
<1>2. CASE Lapsed(t)
  <2>1. Forget /\ UNCHANGED <<format, now, kvno, issued>>
    BY <1>2 DEF SendRenewal
  <2>2. QED
    BY <1>1, <2>1, ForgetSafe
<1>3. CASE ~Lapsed(t)
  <2>1. asked' = a /\ net' = Serialize(n) /\ outcome' = None
        /\ UNCHANGED <<memory, disk, format, now, kvno, issued>>
    BY <1>3 DEF SendRenewal
  <2>2. memory.client \in Client /\ memory.client \in Name /\ t.key \in Key
        /\ Owned(memory)
    BY <1>1, TgtOfCommand
  <2>3. TGS_PRINCIPAL \in Name /\ TGS_PRINCIPAL.realm = Home /\ now \in Nat
        /\ Home \in STRING
    BY Names, WireIs, StringAssumption
  <2>4. /\ a \in LocalsType /\ a.what = "renew" /\ a.key = t.key /\ a.at = now
        /\ a.stamp = Stamp(now) /\ ~a.answered /\ a.server = TGS_PRINCIPAL
    <3>1. TGS_PRINCIPAL \in Maybe(Name) /\ "renew" \in {"as", "tgs", "renew", "ap"}
      BY <2>3 DEF Maybe
    <3>2. QED
      BY <2>2, <2>3, <3>1, LocalsIs
  <2>5. n.authenticator = AuthenticatorAt(memory.client, Home, now, a.key, 7, None)
    BY <2>4, AuthenticatorNow
  <2>6. Or(Get(n, "kdc_options"), {}) = {"renew"}
    <3>1. Get(n, "kdc_options") = {"renew"}
      BY DEF Get
    <3>2. QED
      BY <3>1, NoneAssumption DEF Or
  <2>7. Or(Get(n, "tgt_service_principal"), TGS_PRINCIPAL) = TgsOf(Home)
    BY DEF Or, Get, TGS_PRINCIPAL
  <2>8. /\ n.msg_type = "TGS_REQ" /\ n.realm = Home /\ n.nonce = now
        /\ n.service_principal = TGS_PRINCIPAL /\ n.tgt = memory.tgt.ticket
        /\ n.tgt_kvno = memory.tgt.metadata.ticket_kvno
        /\ n.tgt_enctype = memory.tgt.metadata.ticket_enctype
        /\ n.authenticator_enctype = DEFAULT_ENCTYPE
    OBVIOUS
  <2> HIDE DEF n, a
  <2>9. /\ TgtSent(a, h, memory, Home) /\ (IsRenewal(h) <=> "renew" \in {"renew"})
        /\ "json" \in DOMAIN Serialize(n) \/ Serialize(n) \in Der
    <3>1. {"renew"} \in {{}, {"renew"}}
      OBVIOUS
    <3>2. QED
      BY <1>1, <2>3, <2>4, <2>5, <2>6, <2>7, <2>8, <3>1, TgtSentIs
  <2>10. Heard(a.what, Serialize(n)) = h
    BY <2>4 DEF Heard
  <2> HIDE DEF h
  <2>11. Requested(a, h, memory)
    BY <2>2, <2>4, <2>9 DEF Requested
  <2>12. Requested(asked', Heard(asked'.what, net'), memory')
    BY <2>1, <2>10, <2>11
  <2>13. asked' \in LocalsType /\ ~asked'.answered
         /\ ("json" \in DOMAIN net' \/ net' \in Der)
    BY <2>1, <2>4, <2>9
  <2>14. SoundCache(memory', kvno, now) /\ Owned(memory')
    BY <2>1, <2>2, WireIs
  <2>15. QED
    BY <2>1, <2>12, <2>13, <2>14, Sent
<1>4. QED
  BY <1>2, <1>3

\* phase3_ap_exchange sends an AP-REQ, or drops a ticket that is over.
LEMMA SendApReqSafe ==
    ASSUME WireIInv, NEW c \in memory.services, SendApReq(c)
    PROVE  WireIInv'
<1> DEFINE realm == memory.client.realm
           u == <<"subkey", now>>
           a == Locals("ap", c.key, c.server)
           n == [msg_type |-> "AP_REQ", service_principal |-> c.server,
                 service_ticket |-> c.ticket,
                 ticket_enctype |-> c.metadata.ticket_enctype,
                 ticket_kvno |-> c.metadata.ticket_kvno,
                 authenticator |-> Authenticator(realm, c.key, 11, u),
                 authenticator_enctype |-> DEFAULT_ENCTYPE]
           e == EncodeMessage(n, now)
           h == DecodeMessage(e)
           m == [memory EXCEPT !.services = @ \ {c}]
<1>1. Ready /\ asked = None
  BY DEF SendApReq, Ready
<1>2. memory \in [client : Maybe(Client), tgt : Maybe(CredentialType),
                  services : SUBSET CredentialType]
      /\ SoundCache(memory, kvno, now) /\ Owned(memory)
  BY <1>1, WireIs
<1>3. CASE Expired(c)
  <2>1. memory' = m /\ disk' = File(memory') /\ outcome' = "stopped"
        /\ UNCHANGED <<asked, net, format, now, kvno, issued>>
    BY <1>3 DEF SendApReq
  <2>2. m.client = memory.client /\ m.tgt = memory.tgt
        /\ m.services = memory.services \ {c}
        /\ m \in [client : Maybe(Client), tgt : Maybe(CredentialType),
                  services : SUBSET CredentialType]
    BY <1>2
  <2> HIDE DEF m
  <2>3. SoundCache(m, kvno, now)
    BY <1>2, <2>2 DEF SoundCache
  <2>4. Owned(m)
    BY <1>2, <2>2 DEF Owned, Held
  <2>5. SoundCache(memory', kvno, now) /\ Owned(memory')
    BY <2>1, <2>3, <2>4
  <2>6. QED
    BY <1>1, <2>1, <2>5, Stored
<1>4. CASE ~Expired(c)
  <2>1. asked' = a /\ net' = e /\ outcome' = None
        /\ UNCHANGED <<memory, disk, format, now, kvno, issued>>
    BY <1>4 DEF SendApReq
  <2>2. memory.client \in Client /\ c \in CredentialType
    BY <1>1, <1>2 DEF Ready, Maybe
  <2>3. memory.client \in Name /\ realm \in STRING /\ now \in Nat
    BY <2>2, Names, WireIs
  <2>4. c.key \in Key /\ c.server \in Name /\ c.ticket \in SealedTicket
        /\ c.metadata.ticket_kvno \in Nat /\ c.metadata.ticket_enctype \in Nat
    BY <2>2 DEF CredentialType
  <2>5. /\ a \in LocalsType /\ a.what = "ap" /\ a.key = c.key /\ a.at = now
        /\ a.stamp = Stamp(now) /\ ~a.answered /\ a.server = c.server
    <3>1. c.server \in Maybe(Name) /\ "ap" \in {"as", "tgs", "renew", "ap"}
      BY <2>4 DEF Maybe
    <3>2. QED
      BY <2>3, <2>4, <3>1, LocalsIs
  <2>6. n.authenticator = AuthenticatorAt(memory.client, realm, now, c.key, 11, u)
    BY AuthenticatorNow
  <2>7. n.authenticator \in SealedAuthenticator
    <3>1. u \in Maybe(Key) /\ 11 \in Nat
      BY <2>3, KeysAre DEF Maybe
    <3> HIDE DEF u
    <3>2. AuthenticatorAt(memory.client, realm, now, c.key, 11, u)
              \in SealedAuthenticator
      BY <2>3, <2>4, <3>1, AuthenticatorIs
    <3> HIDE DEF n
    <3>3. QED
      BY <2>6, <3>2
  <2>8. /\ n.msg_type = "AP_REQ" /\ n.service_principal = c.server
        /\ n.service_ticket = c.ticket /\ n.ticket_kvno = c.metadata.ticket_kvno
        /\ n.ticket_enctype = c.metadata.ticket_enctype
        /\ n.authenticator_enctype = DEFAULT_ENCTYPE /\ n.authenticator_enctype \in Nat
    BY DEF DEFAULT_ENCTYPE
  <2> HIDE DEF n, a
  <2>9. /\ h.msg_type = "AP_REQ" /\ h.service_principal = n.service_principal
        /\ h.service_ticket = n.service_ticket /\ h.ticket_kvno = n.ticket_kvno
        /\ h.ticket_enctype = n.ticket_enctype
        /\ h.authenticator = n.authenticator /\ e \in Der
    BY <2>4, <2>7, <2>8, ApReqIs
  <2>10. Heard(a.what, e) = h
    BY <2>5 DEF Heard
  <2> HIDE DEF h, e
  <2>11. ServiceTicketSent(a, h, memory)
    <3>1. h.ticket_enctype \in Nat
      BY <2>4, <2>8, <2>9
    <3>2. h.authenticator = AuthenticatorAt(memory.client, memory.client.realm, a.at,
                                            a.key, 11, <<"subkey", a.at>>)
      BY <2>5, <2>6, <2>9
    <3>3. QED
      BY <2>5, <2>8, <2>9, <3>1, <3>2 DEF ServiceTicketSent
  <2>12. Requested(a, h, memory)
    BY <2>2, <2>5, <2>11 DEF Requested
  <2>13. Requested(asked', Heard(asked'.what, net'), memory')
    BY <2>1, <2>10, <2>12
  <2>14. asked' \in LocalsType /\ ~asked'.answered
         /\ ("json" \in DOMAIN net' \/ net' \in Der)
    BY <2>1, <2>5, <2>9
  <2>15. SoundCache(memory', kvno, now) /\ Owned(memory')
    BY <1>2, <2>1
  <2>16. QED
    BY <2>1, <2>13, <2>14, <2>15, Sent
<1>5. QED
  BY <1>3, <1>4

-----------------------------------------------------------------------------
(* Answers *)

\* A moment of the program is a second or more from the start.
LEMMA Later ==
    ASSUME NEW t \in Nat, NEW n \in Nat \ {0}
    PROVE  t + n * Fine \in Nat /\ Fine <= t + n * Fine
<1>1. Fine \in Nat /\ 1 <= n /\ n \in Nat
  BY TimeAssumption
<1>2. 1 * Fine <= n * Fine /\ n * Fine \in Nat
  BY <1>1, MulMono
<1>3. QED
  BY <1>1, <1>2

\* A time of a ticket is not left out.
LEMMA TimePresent ==
    ASSUME NEW t \in Nat, Fine <= t
    PROVE  OptionalTime(t) \in Nat \ {0} /\ OptionalTime(t) = KrbTime(t)
<1>1. t # 0 /\ t # None
  BY TimeAssumption, NoneAssumption
<1>2. OptionalTime(t) = KrbTime(t)
  BY <1>1 DEF OptionalTime
<1>3. QED
  BY <1>2, KrbTimeIs

\* The session key of the next ticket.
LEMMA NewSessionKey ==
    ASSUME issued \in Nat
    PROVE  SessionKey(issued + 1) \in Key
<1> DEFINE i == issued + 1
<1>1. i \in Nat
  OBVIOUS
<1> HIDE DEF i
<1>2. SessionKey(i) \in Key
  BY <1>1, KeysAre
<1>3. QED
  BY <1>2 DEF i

\* What the client makes of an AS-REP: a TGT of its own.
LEMMA AsRepSafe ==
    ASSUME WireIInv, NEW m, m.client_principal \in Client,
           m.realm = m.client_principal.realm, m.nonce \in Nat, m.preauth_enctype \in Nat
    PROVE  LET reply == AsRep(m)
               h == Deserialize(Serialize(reply))
               c == AsCredential(h)
           IN  /\ reply.msg_type = "AS_REP" /\ h.msg_type = "AS_REP"
               /\ SoundTgt(c, kvno, now) /\ Holder(c) = m.client_principal
               /\ "json" \in DOMAIN Serialize(reply) \/ Serialize(reply) \in Der
<1> DEFINE client == m.client_principal
           realm == m.realm
           tgs == TgsOf(realm)
           endtime == now + TICKET_LIFETIME * Fine
           till == now + RENEWABLE_LIFETIME * Fine
           part == [flags |-> DEFAULT_TICKET_FLAGS, key |-> SessionKey(issued + 1),
                    realm |-> realm, authtime |-> now, starttime |-> now,
                    endtime |-> endtime, renew_till |-> till]
           ticket == Sealed(TicketPart(part, client, {GROUPS}), tgs)
           r == EncodeEncKdcRepPart(ReplyPart(part, realm, m.nonce, tgs), 25)
           s == Cipher(r, PasswordKey(client), 3)
           reply == AsRep(m)
           h == Deserialize(Serialize(reply))
           c == AsCredential(h)
<1>1. /\ client \in Name /\ realm \in STRING /\ tgs \in Principal /\ tgs \in Name
      /\ tgs.realm = realm
  <2>1. client \in Name /\ realm \in STRING /\ tgs \in Principal
    BY Names
  <2>2. QED
    BY <2>1, TgsIs
<1>2. now \in Nat /\ issued \in Nat /\ kvno \in [Principal -> Nat \ {0}]
  BY WireIs
<1>3. endtime \in Nat /\ Fine <= endtime /\ till \in Nat /\ Fine <= till
  BY <1>2, BoundsAssumption, Later
<1>4. /\ part.key \in Key /\ part.realm = client.realm /\ part.authtime \in Nat
      /\ part.starttime \in Nat /\ part.endtime = endtime /\ part.renew_till = till
      /\ part.flags = DEFAULT_TICKET_FLAGS
  <2>1. SessionKey(issued + 1) \in Key
    BY <1>2, NewSessionKey
  <2> HIDE DEF endtime, till
  <2>2. /\ part.key = SessionKey(issued + 1) /\ part.realm = realm
        /\ part.authtime = now /\ part.starttime = now
        /\ part.endtime = endtime /\ part.renew_till = till
        /\ part.flags = DEFAULT_TICKET_FLAGS
    OBVIOUS
  <2> HIDE DEF part
  <2>3. QED
    BY <1>2, <2>1, <2>2
<1>5. {GROUPS} \in SUBSET Nat
  BY DEF GROUPS
<1>6. reply = [msg_type |-> "AS_REP", realm |-> client.realm,
               client_principal |-> client, server_principal |-> tgs,
               encrypted_data |-> s, tgt |-> ticket,
               ticket_enctype |-> DEFAULT_ENCTYPE, ticket_kvno |-> kvno[tgs],
               tgt_enctype |-> DEFAULT_ENCTYPE, tgt_kvno |-> kvno[tgs],
               enc_part_enctype |-> m.preauth_enctype]
  BY DEF AsRep
<1> HIDE DEF part
<1>7. part.endtime \in Nat /\ Fine <= part.endtime
      /\ part.endtime <= now + TICKET_LIFETIME * Fine
      /\ part.renew_till \in Maybe(Nat)
  BY <1>3, <1>4 DEF Maybe
<1>8. ASSUME NEW n, n.client_principal \in Name
      PROVE  Grants(part, client, {GROUPS}, realm, m.nonce, tgs, 25, n)
  <2> HIDE DEF endtime, till, tgs, realm
  <2>1. client \in Client
    OBVIOUS
  <2> HIDE DEF client
  <2>2. QED
    BY <1>1, <1>2, <1>4, <1>5, <1>7, <1>8, <2>1, Granted
<1>9. ticket \in SealedTicket /\ r \in EncKDCRepPartType(25, Key)
  <2>1. m.client_principal \in Name
    BY <1>1
  <2>2. QED
    BY <1>8, <2>1 DEF Grants
<1>10. s \in CipherOf(EncKDCRepPartType(25, Key))
  <2>1. PasswordKey(client) \in Key /\ 3 \in Nat
    BY <1>1, KeysAre
  <2> HIDE DEF r, client
  <2>2. QED
    BY <1>9, <2>1 DEF Cipher, CipherOf
<1>11. /\ h.msg_type = "AS_REP" /\ h.client_principal = client
       /\ h.server_principal = tgs /\ h.encrypted_data = s
       /\ h.tgt = ticket /\ h.tgt_enctype = DEFAULT_ENCTYPE /\ h.tgt_kvno = kvno[tgs]
       /\ "json" \in DOMAIN Serialize(reply) \/ Serialize(reply) \in Der
       /\ reply.msg_type = "AS_REP"
  <2>1. kvno[tgs] \in Nat
    BY <1>1, <1>2
  <2>2. reply.msg_type = "AS_REP"
    BY <1>6
  <2> HIDE DEF s, ticket, reply, client, tgs
  <2>3. QED
    BY <1>1, <1>6, <1>9, <1>10, <2>1, <2>2, AsRepIs DEF h
<1> DEFINE x == DecodeEncKdcRepPart(r)
           d == Credential(x.service_principal, ticket, x.key,
                    ResponseMetadata(h, x, DEFAULT_ENCTYPE, kvno[tgs], tgs))
<1>12. s.der = r
  BY DEF Cipher
<1>13. c = d
  <2> HIDE DEF h, r, ticket, s, tgs
  <2>1. QED
    BY <1>11, <1>12 DEF AsCredential
<1>14. /\ Sound(d, tgs, kvno[tgs], now) /\ Holder(d) = client
       /\ d.metadata.client_principal = client /\ d.ticket = ticket
       /\ ticket.der.flags = FlagsToBitString(part.flags)
       /\ ticket.der.renew_till = OptionalTime(part.renew_till)
  <2>1. h.client_principal \in Name
    BY <1>1, <1>11
  <2>2. d.ticket = ticket
    BY DEF Credential
  <2>3. Grants(part, client, {GROUPS}, realm, m.nonce, tgs, 25, h)
    <3> HIDE DEF h
    <3>1. QED
      BY <1>8, <2>1
  <2> HIDE DEF h
  <2>4. QED
    BY <1>11, <2>2, <2>3 DEF Grants
<1>15. 8 \in ticket.der.flags /\ ticket.der.renew_till \in Nat \ {0}
  <2>1. "renewable" \in part.flags
    BY <1>4 DEF DEFAULT_TICKET_FLAGS
  <2>2. OptionalTime(till) \in Nat \ {0}
    <3> HIDE DEF till
    <3>1. QED
      BY <1>3, TimePresent
  <2> HIDE DEF ticket, till
  <2>3. QED
    BY <1>4, <1>14, <2>1, <2>2, Flags
<1> HIDE DEF d, c, h, reply, ticket
<1>16. SoundTgt(c, kvno, now) /\ Holder(c) = client
  BY <1>13, <1>14, <1>15 DEF SoundTgt
<1>17. QED
  BY <1>11, <1>16 DEF c, h, reply

\* What a TGS-REP brings the client.
Brings(m, tgt, part, server, realm) ==
    LET reply == TgsRep(m, tgt, part, server, realm)
        h == Deserialize(Serialize(reply))
        c == TgsCredential(h)
        client == tgt.client_principal
    IN  /\ reply.msg_type = "TGS_REP" /\ h.msg_type = "TGS_REP"
        /\ Sound(c, server, kvno[server], now) /\ Holder(c) = client
        /\ c.server = server
        /\ client.realm = Home => c.metadata.client_principal = client
        /\ c.ticket.der.flags = FlagsToBitString(part.flags)
        /\ c.ticket.der.renew_till = OptionalTime(part.renew_till)
        /\ "json" \in DOMAIN Serialize(reply) \/ Serialize(reply) \in Der

\* What the client makes of a TGS-REP: a ticket of the TGT's client for the server.
LEMMA TgsRepSafe ==
    ASSUME WireIInv, NEW m, m.nonce \in Nat, NEW tgt, tgt.client_principal \in Client,
           tgt.authorization_data \in SUBSET Nat, tgt.key \in Key,
           NEW part, part.key \in Key, part.realm = tgt.client_principal.realm,
           part.authtime \in Nat, part.starttime \in Nat, part.endtime \in Nat,
           Fine <= part.endtime, part.endtime <= now + TICKET_LIFETIME * Fine,
           part.renew_till \in Maybe(Nat),
           NEW server \in Principal, NEW realm \in STRING, server.realm = realm
    PROVE  Brings(m, tgt, part, server, realm)
<1> DEFINE client == tgt.client_principal
           data == tgt.authorization_data
           ticket == Sealed(TicketPart(part, client, data), server)
           r == EncodeEncKdcRepPart(ReplyPart(part, realm, m.nonce, server), 26)
           s == Cipher(r, tgt.key, 9)
           reply == TgsRep(m, tgt, part, server, realm)
           h == Deserialize(Serialize(reply))
           c == TgsCredential(h)
<1>1. client \in Client /\ client \in Name /\ server \in Name /\ data \in SUBSET Nat
  BY Names
<1>2. now \in Nat /\ kvno \in [Principal -> Nat \ {0}] /\ kvno[server] \in Nat
  BY WireIs
<1>3. reply = [msg_type |-> "TGS_REP", realm |-> Home,
               client_principal |-> client, service_principal |-> server,
               encrypted_data |-> s, service_ticket |-> ticket,
               ticket_enctype |-> DEFAULT_ENCTYPE, ticket_kvno |-> kvno[server],
               service_ticket_enctype |-> DEFAULT_ENCTYPE,
               service_ticket_kvno |-> kvno[server],
               enc_part_enctype |-> DEFAULT_ENCTYPE]
  BY DEF TgsRep
<1> HIDE DEF client, data
<1>4. part.realm = client.realm
  BY DEF client
<1>5. ASSUME NEW n, n.client_principal \in Name
      PROVE  Grants(part, client, data, realm, m.nonce, server, 26, n)
  BY <1>1, <1>2, <1>4, <1>5, Granted
<1>6. ticket \in SealedTicket /\ r \in EncKDCRepPartType(26, Key)
  <2>1. tgt.client_principal \in Name
    BY <1>1 DEF client
  <2>2. QED
    BY <1>5, <2>1 DEF Grants
<1>7. s \in CipherOf(EncKDCRepPartType(26, Key))
  <2> HIDE DEF r
  <2>1. QED
    BY <1>6 DEF Cipher, CipherOf
<1>8. /\ h.msg_type = "TGS_REP" /\ h.client_principal \in Name
      /\ client.realm = Home => h.client_principal = client
      /\ h.service_principal = server /\ h.encrypted_data = s
      /\ h.service_ticket = ticket /\ h.service_ticket_enctype = DEFAULT_ENCTYPE
      /\ h.service_ticket_kvno = kvno[server]
      /\ "json" \in DOMAIN Serialize(reply) \/ Serialize(reply) \in Der
      /\ reply.msg_type = "TGS_REP"
  <2>1. reply.msg_type = "TGS_REP"
    BY <1>3
  <2> HIDE DEF s, ticket, reply
  <2>2. QED
    BY <1>1, <1>2, <1>3, <1>6, <1>7, <2>1, TgsRepIs DEF h
<1> DEFINE x == DecodeEncKdcRepPart(r)
           d == Credential(x.service_principal, ticket, x.key,
                    ResponseMetadata(h, x, DEFAULT_ENCTYPE, kvno[server], server))
<1>9. s.der = r
  BY DEF Cipher
<1>10. c = d
  <2> HIDE DEF h, r, ticket, s
  <2>1. QED
    BY <1>8, <1>9 DEF TgsCredential
<1>11. /\ Sound(d, server, kvno[server], now) /\ Holder(d) = client /\ d.server = server
       /\ d.metadata.client_principal = h.client_principal /\ d.ticket = ticket
       /\ ticket.der.flags = FlagsToBitString(part.flags)
       /\ ticket.der.renew_till = OptionalTime(part.renew_till)
  <2>1. d.ticket = ticket
    BY DEF Credential
  <2>2. Grants(part, client, data, realm, m.nonce, server, 26, h)
    <3> HIDE DEF h
    <3>1. QED
      BY <1>5, <1>8
  <2> HIDE DEF h
  <2>3. QED
    BY <2>1, <2>2 DEF Grants
<1> HIDE DEF d, c, h, reply, ticket
<1>12. QED
  BY <1>8, <1>10, <1>11 DEF Brings, c, h, reply, client

-----------------------------------------------------------------------------
(* The servers *)

\* An error with its cause answers a request.
LEMMA ErrorAnswers ==
    ASSUME WireIInv, NEW code \in ErrorName, Explained(asked, code, memory, now)
    PROVE  LET reply == Error(code)
               e == EncodeMessage(reply, now)
           IN  /\ reply.msg_type = "KRB_ERROR"
               /\ Answered(asked, Deserialize(Serialize(reply)), memory, kvno, now)
               /\ Answered(asked, DecodeMessage(e), memory, kvno, now)
               /\ e \in Der
               /\ "json" \in DOMAIN Serialize(reply) \/ Serialize(reply) \in Der
<1> DEFINE reply == Error(code)
           e == EncodeMessage(reply, now)
           h == Deserialize(Serialize(reply))
           g == DecodeMessage(e)
<1>1. now \in Nat
  BY WireIs
<1>2. /\ reply.msg_type = "KRB_ERROR"
      /\ g.msg_type = "KRB_ERROR" /\ g.error_code = code /\ e \in Der
      /\ h.msg_type = "KRB_ERROR" /\ h.error_code = code
      /\ "json" \in DOMAIN Serialize(reply) \/ Serialize(reply) \in Der
  BY <1>1, ErrorIs
<1> HIDE DEF h, g, e, reply
<1>3. Answered(asked, h, memory, kvno, now) /\ Answered(asked, g, memory, kvno, now)
  BY <1>2 DEF Answered
<1>4. QED
  BY <1>2, <1>3 DEF h, g, e, reply

\* A reply of the KDC answers the request.
ReplyOf(m) == IF m.msg_type = "AS_REQ" THEN AsReply(m) ELSE TgsReply(m)
Replies(reply) ==
    /\ Answered(asked, Deserialize(Serialize(reply)), memory, kvno, now)
    /\ "json" \in DOMAIN Serialize(reply) \/ Serialize(reply) \in Der

\* An AS-REQ is granted under the client's password, and refused under another.
LEMMA AsReplySafe ==
    ASSUME WireIInv, NEW m, asked.what = "as", Requested(asked, m, memory)
    PROVE  Replies(ReplyOf(m))
<1> DEFINE client == memory.client
<1>1. /\ client \in Client /\ m.msg_type = "AS_REQ" /\ m.client_principal = client
      /\ m.realm = client.realm /\ m.nonce \in Nat
      /\ m.preauth = PreauthAt(asked.at, asked.key) /\ m.preauth_enctype \in Nat
  BY DEF Requested
<1>2. ReplyOf(m) = AsReply(m)
  BY <1>1 DEF ReplyOf
<1>3. m.preauth.key = asked.key /\ m.preauth.usage = 1
  BY <1>1 DEF PreauthAt, Cipher
<1>4. CASE asked.key = PasswordKey(client)
  <2>1. AsReply(m) = AsRep(m)
    BY <1>1, <1>3, <1>4 DEF AsReply, Opens
  <2> DEFINE reply == AsRep(m)
             h == Deserialize(Serialize(reply))
             c == AsCredential(h)
  <2>2. /\ h.msg_type = "AS_REP" /\ SoundTgt(c, kvno, now) /\ Holder(c) = client
        /\ "json" \in DOMAIN Serialize(reply) \/ Serialize(reply) \in Der
    BY <1>1, AsRepSafe
  <2> HIDE DEF h, reply
  <2>3. Answered(asked, h, memory, kvno, now)
    BY <2>2 DEF Answered
  <2>4. QED
    BY <1>2, <2>1, <2>2, <2>3 DEF Replies, h, reply
<1>5. CASE asked.key # PasswordKey(client)
  <2> DEFINE code == "KDC_ERR_PREAUTH_FAILED"
  <2>1. AsReply(m) = Error(code)
    BY <1>1, <1>3, <1>5 DEF AsReply, Opens
  <2>2. code \in ErrorName
    BY DEF ErrorName, ErrorToCode
  <2>3. Explained(asked, code, memory, now)
    BY <1>5 DEF Explained
  <2> HIDE DEF code
  <2>4. QED
    BY <1>2, <2>1, <2>2, <2>3, ErrorAnswers DEF Replies
<1>6. QED
  BY <1>4, <1>5

\* What the KDC finds in the TGT of a request.
LEMMA TgtRead ==
    ASSUME WireIInv, memory.client \in Client, asked.at \in Nat, Owned(memory),
           NEW realm \in STRING, NEW m, TgtSent(asked, m, memory, realm)
    PROVE  LET t == memory.tgt
               tgt == DecodeEncTicketPart(m.tgt.der)
           IN  /\ memory.client.realm = realm =>
                      TgtOpens(m) /\ Authentic(m.authenticator, tgt, 7)
               /\ memory.client.realm # realm => ~TgtOpens(m)
               /\ tgt.realm = memory.client.realm /\ tgt.client_principal = memory.client
               /\ tgt.key \in Key /\ tgt.authorization_data \in SUBSET Nat
               /\ tgt.authtime \in Nat /\ tgt.flags \in SUBSET Flag
               /\ "renewable" \in tgt.flags
               /\ tgt.endtime \in Nat /\ Fine <= tgt.endtime
               /\ t.metadata.endtime = tgt.endtime
               /\ tgt.renew_till \in Nat /\ Fine <= tgt.renew_till
               /\ t.metadata.renew_till = tgt.renew_till
               /\ OptionalTime(tgt.renew_till) \in Nat \ {0}
<1> DEFINE t == memory.tgt
           d == t.ticket.der
           tgt == DecodeEncTicketPart(m.tgt.der)
           name == TgsOf(memory.client.realm)
           a == m.authenticator
<1>1. /\ t # None /\ asked.key = t.key /\ m.tgt = t.ticket
      /\ m.tgt_kvno = t.metadata.ticket_kvno /\ NamedTgs(m) = TgsOf(realm)
      /\ a = AuthenticatorAt(memory.client, realm, asked.at, asked.key, 7, None)
  BY DEF TgtSent
<1>2. SoundTgt(t, kvno, now)
  BY <1>1, WireIs DEF SoundCache
<1>3. Holder(t) = memory.client
  <2>1. t \in Held(memory)
    BY <1>1 DEF Held
  <2>2. QED
    BY <2>1 DEF Owned
<1>4. tgt = Inside(t)
  BY <1>1 DEF Inside
<1> HIDE DEF tgt, t, a
<1>5. /\ tgt.client_principal = memory.client /\ tgt.realm = memory.client.realm
      /\ tgt.endtime = FromKrbTime(d.endtime) /\ tgt.key = d.key
      /\ tgt.renew_till = FromKrbTime(d.renew_till)
      /\ tgt.flags = BitStringToFlags(d.flags)
      /\ tgt.authtime = FromKrbTime(d.authtime)
      /\ tgt.authorization_data = d.authorization_data
  BY <1>3, <1>4, InsideIs
<1>6. /\ Sound(t, name, kvno[name], now)
      /\ 8 \in d.flags /\ d.renew_till \in Nat \ {0}
  BY <1>2, <1>3 DEF SoundTgt
<1> HIDE DEF name
<1>7. /\ t \in CredentialType /\ name \in Principal
      /\ t.metadata.ticket_kvno \in 1..kvno[name]
      /\ t.ticket.key = LongTermKey(name, t.metadata.ticket_kvno)
      /\ t.ticket.usage = 2 /\ d.key = t.key /\ SameTimes(t)
  BY <1>6 DEF Sound
<1>8. t.key \in Key /\ t.ticket \in SealedTicket /\ t.metadata.ticket_kvno \in Nat
      /\ t.metadata.renew_till \in Maybe(Nat)
  BY <1>7 DEF CredentialType
<1>9. d \in EncTicketPartType(Key)
  BY <1>8 DEF SealedTicket, CipherOf
<1>10. /\ d.flags \in KerberosFlags /\ d.authtime \in Nat /\ d.endtime \in Nat
       /\ d.authorization_data \in SUBSET Nat
  BY <1>9 DEF EncTicketPartType, KerberosTime
<1>11. /\ t.metadata.endtime = d.endtime * Fine /\ d.endtime # 0
       /\ Or(t.metadata.renew_till, 0) = Or(FromKrbTime(d.renew_till), 0)
  BY <1>7 DEF SameTimes
<1> HIDE DEF d
<1>12. /\ tgt.key \in Key /\ tgt.authorization_data \in SUBSET Nat
       /\ tgt.flags \in SUBSET Flag /\ "renewable" \in tgt.flags
       /\ tgt.authtime \in Nat
  <2>1. tgt.authtime \in Nat
    BY <1>5, <1>10, FromKrbTimeIs
  <2>2. QED
    BY <1>5, <1>6, <1>7, <1>8, <1>10, <2>1, Flags
<1>13. ASSUME NEW s \in Nat \ {0}
       PROVE  FromKrbTime(s) \in Nat /\ Fine <= FromKrbTime(s)
              /\ FromKrbTime(s) = s * Fine /\ FromKrbTime(s) \notin {0, None}
  <2>1. Fine \in Nat /\ 1 <= s /\ s \in Nat
    BY TimeAssumption
  <2>2. 1 * Fine <= s * Fine
    BY <2>1, MulMono
  <2>3. FromKrbTime(s) = s * Fine /\ s * Fine \in Nat /\ s * Fine # None /\ s * Fine # 0
    BY <2>1, FromKrbTimeIs
  <2>4. QED
    BY <2>1, <2>2, <2>3
<1>14. /\ tgt.endtime \in Nat /\ Fine <= tgt.endtime
       /\ t.metadata.endtime = tgt.endtime
  BY <1>5, <1>10, <1>11, <1>13
<1>15. /\ tgt.renew_till \in Nat /\ Fine <= tgt.renew_till
       /\ t.metadata.renew_till = tgt.renew_till
       /\ OptionalTime(tgt.renew_till) \in Nat \ {0}
  <2>1. tgt.renew_till \in Nat /\ Fine <= tgt.renew_till /\ tgt.renew_till \notin {0, None}
    BY <1>5, <1>6, <1>13
  <2>2. Or(t.metadata.renew_till, 0) = tgt.renew_till
    BY <1>5, <1>11, <2>1 DEF Or
  <2>3. t.metadata.renew_till = tgt.renew_till
    BY <2>1, <2>2 DEF Or
  <2>4. QED
    BY <2>1, <2>3, TimePresent
<1>16. ASSUME memory.client.realm = realm
       PROVE  TgtOpens(m) /\ Authentic(a, tgt, 7)
  <2>1. NamedTgs(m) = name
    BY <1>1, <1>16 DEF name
  <2>2. KeyOf(name, m.tgt_kvno) # None /\ Opens(m.tgt, KeyOf(name, m.tgt_kvno), 2)
    BY <1>1, <1>6, SoundOpens
  <2>3. TgtOpens(m)
    BY <2>1, <2>2 DEF TgtOpens
  <2>4. /\ a.key = asked.key /\ a.usage = 7
        /\ DecodeAuthenticator(a.der).client_principal
               = PrincipalToString(PrincipalName(memory.client), realm)
    <3>1. memory.client \in Name /\ asked.key \in Key /\ 7 \in Nat /\ None \in Maybe(Key)
      BY <1>1, <1>8, Names DEF Maybe
    <3> DEFINE b == AuthenticatorAt(memory.client, realm, asked.at, asked.key, 7, None)
    <3>2. /\ b.key = asked.key /\ b.usage = 7
          /\ DecodeAuthenticator(b.der).client_principal
                 = PrincipalToString(PrincipalName(memory.client), realm)
      BY <3>1, AuthenticatorIs
    <3>3. a = b
      BY <1>1
    <3> HIDE DEF b
    <3>4. QED
      BY <3>2, <3>3
  <2>5. PrincipalToString(PrincipalName(memory.client), realm) = memory.client
    BY <1>16, Names, NameIs
  <2>6. Authentic(a, tgt, 7)
    BY <1>1, <1>5, <1>7, <2>4, <2>5 DEF Authentic, Opens
  <2>7. QED
    BY <2>3, <2>6
<1>17. ASSUME memory.client.realm # realm
       PROVE  ~TgtOpens(m)
  <2>1. NamedTgs(m) # name
    BY <1>1, <1>17, TgsInjective DEF name
  <2>2. m.tgt.key = LongTermKey(name, m.tgt_kvno) /\ m.tgt_kvno \in Nat
    BY <1>1, <1>7, <1>8
  <2>3. SUFFICES ASSUME NamedTgs(m) \in Principal,
                        KeyOf(NamedTgs(m), m.tgt_kvno) = LongTermKey(NamedTgs(m), m.tgt_kvno)
                 PROVE  ~TgtOpens(m)
    <3>1. NamedTgs(m) \notin Principal => KeyOf(NamedTgs(m), m.tgt_kvno) = None
      BY DEF KeyOf
    <3>2. QED
      BY <2>2, <3>1, KeyOfIs DEF TgtOpens
  <2>4. LongTermKey(NamedTgs(m), m.tgt_kvno) # LongTermKey(name, m.tgt_kvno)
    BY <2>1, LongTermKeyInjective
  <2>5. QED
    BY <2>2, <2>3, <2>4 DEF TgtOpens, Opens
<1>18. QED
  BY <1>5, <1>12, <1>14, <1>15, <1>16, <1>17 DEF t, tgt, a

\* A granted time is a second or more, and not too long.
LEMMA LesserIs ==
    ASSUME NEW a \in Nat, NEW b \in Nat, Fine <= a, Fine <= b
    PROVE  Lesser(a, b) \in Nat /\ Fine <= Lesser(a, b) /\ Lesser(a, b) <= a
BY TimeAssumption DEF Lesser

\* A renewed TGT is one of the home realm, as the one it came of.
LEMMA RenewedSafe ==
    ASSUME WireIInv, NEW m, NEW client \in Client, client.realm = Home, m.nonce \in Nat,
           asked.what = "renew", memory.client = client,
           NEW tgt, tgt.client_principal = client,
           tgt.key \in Key, tgt.authorization_data \in SUBSET Nat,
           tgt.authtime \in Nat, "renewable" \in tgt.flags,
           tgt.renew_till \in Nat, Fine <= tgt.renew_till,
           OptionalTime(tgt.renew_till) \in Nat \ {0}
    PROVE  Replies(Renewed(m, tgt))
<1> DEFINE endtime == Lesser(now + TICKET_LIFETIME * Fine, tgt.renew_till)
           part == [flags |-> tgt.flags, key |-> SessionKey(issued + 1), realm |-> Home,
                    authtime |-> tgt.authtime, starttime |-> now,
                    endtime |-> endtime, renew_till |-> tgt.renew_till]
           server == TGS_PRINCIPAL
           reply == TgsRep(m, tgt, part, server, Home)
           h == Deserialize(Serialize(reply))
           c == TgsCredential(h)
<1>1. now \in Nat /\ issued \in Nat
  BY WireIs
<1>2. now + TICKET_LIFETIME * Fine \in Nat /\ Fine <= now + TICKET_LIFETIME * Fine
  BY <1>1, BoundsAssumption, Later
<1>3. endtime \in Nat /\ Fine <= endtime /\ endtime <= now + TICKET_LIFETIME * Fine
  BY <1>2, LesserIs
<1> HIDE DEF endtime
<1>4. /\ part.key \in Key /\ part.realm = Home /\ part.authtime = tgt.authtime
      /\ part.starttime = now /\ part.endtime = endtime
      /\ part.renew_till = tgt.renew_till /\ part.flags = tgt.flags
  <2>1. SessionKey(issued + 1) \in Key
    BY <1>1, NewSessionKey
  <2>2. QED
    BY <2>1
<1>5. server \in Principal /\ Home \in STRING /\ server.realm = Home
      /\ server = TgsOf(client.realm)
  BY Names, StringAssumption DEF TGS_PRINCIPAL
<1>6. reply = Renewed(m, tgt)
  BY DEF Renewed, endtime
<1> HIDE DEF part, server
<1>7. part.renew_till \in Maybe(Nat)
  BY <1>4 DEF Maybe
<1>8. /\ h.msg_type = "TGS_REP"
      /\ Sound(c, server, kvno[server], now) /\ Holder(c) = client
      /\ c.metadata.client_principal = client
      /\ c.ticket.der.flags = FlagsToBitString(part.flags)
      /\ c.ticket.der.renew_till = OptionalTime(part.renew_till)
      /\ "json" \in DOMAIN Serialize(reply) \/ Serialize(reply) \in Der
  <2>1. Brings(m, tgt, part, server, Home)
    BY <1>1, <1>3, <1>4, <1>5, <1>7, TgsRepSafe
  <2>2. QED
    BY <2>1 DEF Brings
<1> HIDE DEF c, h, reply
<1>9. 8 \in c.ticket.der.flags /\ c.ticket.der.renew_till \in Nat \ {0}
  BY <1>4, <1>8, Flags
<1>10. SoundTgt(c, kvno, now)
  BY <1>5, <1>8, <1>9 DEF SoundTgt
<1>11. Answered(asked, h, memory, kvno, now)
  BY <1>8, <1>10 DEF Answered, c
<1>12. QED
  BY <1>6, <1>8, <1>11 DEF Replies, h

\* A service ticket is the TGT's client's, for the service it asked.
LEMMA DerivedSafe ==
    ASSUME WireIInv, NEW m, NEW client \in Client, m.realm = client.realm, m.nonce \in Nat,
           m.service_principal \in Principal, m.service_principal.realm = client.realm,
           asked.what = "tgs", memory.client = client, memory.tgt # None,
           NEW tgt, tgt.client_principal = client, tgt.realm = client.realm,
           tgt.key \in Key, tgt.authorization_data \in SUBSET Nat,
           tgt.authtime \in Nat, tgt.endtime \in Nat, Fine <= tgt.endtime
    PROVE  Replies(Derived(m, tgt))
<1> DEFINE endtime == Lesser(now + TICKET_LIFETIME * Fine, tgt.endtime)
           part == [flags |-> ServiceFlags(tgt), key |-> SessionKey(issued + 1),
                    realm |-> tgt.realm, authtime |-> tgt.authtime, starttime |-> now,
                    endtime |-> endtime, renew_till |-> None]
           server == m.service_principal
           reply == TgsRep(m, tgt, part, server, m.realm)
           h == Deserialize(Serialize(reply))
           c == TgsCredential(h)
<1>1. now \in Nat /\ issued \in Nat
  BY WireIs
<1>2. now + TICKET_LIFETIME * Fine \in Nat /\ Fine <= now + TICKET_LIFETIME * Fine
  BY <1>1, BoundsAssumption, Later
<1>3. endtime \in Nat /\ Fine <= endtime /\ endtime <= now + TICKET_LIFETIME * Fine
  BY <1>2, LesserIs
<1> HIDE DEF endtime
<1>4. /\ part.key \in Key /\ part.realm = client.realm /\ part.authtime = tgt.authtime
      /\ part.starttime = now /\ part.endtime = endtime /\ part.renew_till = None
  <2>1. SessionKey(issued + 1) \in Key
    BY <1>1, NewSessionKey
  <2>2. QED
    BY <2>1
<1>5. m.realm \in STRING
  BY Names
<1>6. reply = Derived(m, tgt)
  BY DEF Derived, endtime
<1> HIDE DEF part
<1>7. part.renew_till \in Maybe(Nat)
  BY <1>4 DEF Maybe
<1>8. /\ h.msg_type = "TGS_REP"
      /\ Sound(c, server, kvno[server], now) /\ Holder(c) = client
      /\ c.server = server
      /\ "json" \in DOMAIN Serialize(reply) \/ Serialize(reply) \in Der
  <2>1. Brings(m, tgt, part, server, m.realm)
    BY <1>1, <1>3, <1>4, <1>5, <1>7, TgsRepSafe
  <2>2. QED
    BY <2>1 DEF Brings
<1> HIDE DEF c, h, reply
<1>9. Answered(asked, h, memory, kvno, now)
  BY <1>8 DEF Answered, c
<1>10. QED
  BY <1>6, <1>8, <1>9 DEF Replies, h

\* A TGS-REQ is refused when its TGT is of another realm or over, or the service unknown,
\* and granted otherwise: its realm and its authenticator are never at fault.
LEMMA TgsReplySafe ==
    ASSUME WireIInv, asked # None, asked.what \in {"tgs", "renew"}, asked.at \in Nat,
           NEW m, Requested(asked, m, memory)
    PROVE  Replies(ReplyOf(m))
<1> DEFINE client == memory.client
           tgt == DecodeEncTicketPart(m.tgt.der)
           t == memory.tgt
           realm == IF asked.what = "renew" THEN Home ELSE client.realm
<1>1. /\ client \in Client
      /\ TgtSent(asked, m, memory, realm)
      /\ asked.what = "renew" => IsRenewal(m) /\ asked.server = TGS_PRINCIPAL
      /\ asked.what = "tgs" => ~IsRenewal(m) /\ asked.server \in Service \cup Stranger
                               /\ asked.server.realm = client.realm
  BY DEF Requested
<1>2. client.realm \in STRING /\ realm \in STRING
  BY <1>1, Names, StringAssumption
<1>3. Owned(memory) /\ now \in Nat
  BY WireIs
<1> HIDE DEF realm
<1>4. /\ m.msg_type = "TGS_REQ" /\ m.realm = realm /\ m.nonce \in Nat
      /\ m.service_principal = asked.server /\ t # None
  BY <1>1 DEF TgtSent
<1>5. ReplyOf(m) = TgsReply(m)
  BY <1>4 DEF ReplyOf
<1> HIDE DEF tgt, t
<1>6. /\ client.realm = realm => TgtOpens(m) /\ Authentic(m.authenticator, tgt, 7)
      /\ client.realm # realm => ~TgtOpens(m)
      /\ tgt.realm = client.realm /\ tgt.client_principal = client
      /\ tgt.key \in Key /\ tgt.authorization_data \in SUBSET Nat
      /\ tgt.authtime \in Nat /\ tgt.flags \in SUBSET Flag
      /\ "renewable" \in tgt.flags
      /\ tgt.endtime \in Nat /\ Fine <= tgt.endtime
      /\ t.metadata.endtime = tgt.endtime
      /\ tgt.renew_till \in Nat /\ Fine <= tgt.renew_till
      /\ t.metadata.renew_till = tgt.renew_till
      /\ OptionalTime(tgt.renew_till) \in Nat \ {0}
  BY <1>1, <1>2, <1>3, TgtRead DEF tgt, t
<1>7. CASE client.realm # realm
  <2> DEFINE code == "KRB_AP_ERR_MODIFIED"
  <2>1. asked.what = "renew" /\ client.realm # Home
    BY <1>7 DEF realm
  <2>2. TgsReply(m) = Error(code)
    BY <1>6, <1>7 DEF TgsReply
  <2>3. code \in ErrorName
    BY DEF ErrorName, ErrorToCode
  <2>4. Explained(asked, code, memory, now)
    BY <2>1 DEF Explained
  <2> HIDE DEF code
  <2>5. QED
    BY <1>5, <2>2, <2>3, <2>4, ErrorAnswers DEF Replies
<1>8. CASE client.realm = realm /\ TooOld(m, tgt)
  <2> DEFINE code == "KRB_AP_ERR_TKT_EXPIRED"
  <2>1. TgsReply(m) = Error(code)
    BY <1>4, <1>6, <1>8 DEF TgsReply, tgt
  <2>2. code \in ErrorName
    BY DEF ErrorName, ErrorToCode
  <2>3. Explained(asked, code, memory, now)
    <3>1. CASE asked.what = "renew"
      <4>1. now > t.metadata.renew_till
        BY <1>1, <1>6, <1>8, <3>1 DEF TooOld
      <4>2. PastAt(t.metadata.renew_till, now)
        BY <1>6, <4>1, TimeAssumption, NoneAssumption DEF PastAt
      <4>3. QED
        BY <1>4, <3>1, <4>2 DEF Explained, t
    <3>2. CASE asked.what = "tgs"
      <4>1. now > t.metadata.endtime
        BY <1>1, <1>6, <1>8, <3>2 DEF TooOld
      <4>2. PastAt(t.metadata.endtime, now)
        BY <1>6, <4>1, TimeAssumption, NoneAssumption DEF PastAt
      <4>3. QED
        BY <1>4, <3>2, <4>2 DEF Explained, t
    <3>3. QED
      BY <3>1, <3>2
  <2> HIDE DEF code
  <2>4. QED
    BY <1>5, <2>1, <2>2, <2>3, ErrorAnswers DEF Replies
<1>9. CASE client.realm = realm /\ ~TooOld(m, tgt) /\ asked.what = "renew"
  <2>1. TgsReply(m) = Renewed(m, tgt)
    BY <1>1, <1>4, <1>6, <1>9 DEF TgsReply, tgt
  <2>2. client.realm = Home
    BY <1>9 DEF realm
  <2>3. Replies(Renewed(m, tgt))
    BY <1>1, <1>4, <1>6, <1>9, <2>2, RenewedSafe
  <2>4. QED
    BY <1>5, <2>1, <2>3
<1>10. CASE /\ client.realm = realm /\ ~TooOld(m, tgt) /\ asked.what = "tgs"
            /\ m.service_principal \in Principal
  <2>1. TgsReply(m) = Derived(m, tgt)
    BY <1>1, <1>4, <1>6, <1>10 DEF TgsReply, tgt
  <2>2. m.realm = client.realm /\ m.service_principal.realm = client.realm
        /\ memory.tgt # None
    BY <1>1, <1>4, <1>10 DEF t
  <2>3. Replies(Derived(m, tgt))
    BY <1>1, <1>4, <1>6, <1>10, <2>2, DerivedSafe
  <2>4. QED
    BY <1>5, <2>1, <2>3
<1>11. CASE /\ client.realm = realm /\ ~TooOld(m, tgt) /\ asked.what = "tgs"
            /\ m.service_principal \notin Principal
  <2> DEFINE code == "KDC_ERR_S_PRINCIPAL_UNKNOWN"
  <2>1. TgsReply(m) = Error(code)
    BY <1>1, <1>4, <1>6, <1>11 DEF TgsReply, tgt
  <2>2. code \in ErrorName
    BY DEF ErrorName, ErrorToCode
  <2>3. asked.server \in Stranger
    BY <1>1, <1>4, <1>11 DEF Principal
  <2>4. Explained(asked, code, memory, now)
    BY <2>3 DEF Explained
  <2> HIDE DEF code
  <2>5. QED
    BY <1>5, <2>1, <2>2, <2>4, ErrorAnswers DEF Replies
<1>12. QED
  BY <1>7, <1>8, <1>9, <1>10, <1>11

\* The KDC answers.
LEMMA KdcReplySafe ==
    ASSUME WireIInv, KdcReply
    PROVE  WireIInv'
<1> DEFINE m == Deserialize(net)
           reply == ReplyOf(m)
<1>1. /\ asked # None /\ asked.what \in {"as", "tgs", "renew"} /\ ~asked.answered
      /\ net' = Serialize(reply) /\ asked' = [asked EXCEPT !.answered = TRUE]
      /\ issued < MaxIssued /\ issued' \in {issued, issued + 1}
      /\ UNCHANGED <<format, now, kvno, memory, disk, outcome>>
  BY DEF KdcReply, InFlight, ReplyOf
<1>2. asked.at \in Nat
  BY <1>1, WireIs DEF Maybe, LocalsType
<1>3. Requested(asked, m, memory)
  BY <1>1 DEF WireIInv, InFlightWell, Heard
<1> HIDE DEF m
<1>4. Replies(reply)
  BY <1>1, <1>2, <1>3, AsReplySafe, TgsReplySafe
<1>5. Heard(asked.what, net') = Deserialize(Serialize(reply))
  BY <1>1 DEF Heard
<1> HIDE DEF reply
<1>6. Answered(asked, Heard(asked.what, net'), memory, kvno, now)
      /\ ("json" \in DOMAIN net' \/ net' \in Der)
  BY <1>1, <1>4, <1>5 DEF Replies
<1>7. issued' \in 0..MaxIssued
  BY <1>1, WireIs, BoundsAssumption
<1>8. QED
  BY <1>1, <1>6, <1>7, AnswerSent

\* The service refuses a ticket that is over and no other, and gives the client its own
\* stamp back.
LEMMA ApReplySafe ==
    ASSUME WireIInv, ApReply
    PROVE  WireIInv'
<1> DEFINE m == DecodeMessage(net)
           longTerm == KeyOf(m.service_principal, m.ticket_kvno)
           ticket == DecodeEncTicketPart(m.service_ticket.der)
           reply ==
               IF longTerm = None \/ ~Opens(m.service_ticket, longTerm, 2)
               THEN Error("KRB_AP_ERR_MODIFIED")
               ELSE IF now > ticket.endtime THEN Error("KRB_AP_ERR_TKT_EXPIRED")
               ELSE IF ~Authentic(m.authenticator, ticket, 11)
                    THEN Error("KRB_AP_ERR_MODIFIED")
               ELSE ApRep(m, ticket)
           client == memory.client
           a == m.authenticator
           u == <<"subkey", asked.at>>
           b == AuthenticatorAt(client, client.realm, asked.at, asked.key, 11, u)
           h == DecodeMessage(net')
<1>1. /\ asked # None /\ asked.what = "ap" /\ ~asked.answered
      /\ net' = EncodeMessage(reply, now) /\ asked' = [asked EXCEPT !.answered = TRUE]
      /\ UNCHANGED <<format, now, kvno, memory, disk, issued, outcome>>
  BY DEF ApReply, InFlight
<1>2. asked.at \in Nat /\ asked.key \in Key
  BY <1>1, WireIs DEF Maybe, LocalsType
<1>3. Requested(asked, m, memory)
  BY <1>1 DEF WireIInv, InFlightWell, Heard
<1> HIDE DEF m
<1>4. client \in Client /\ asked.stamp = Stamp(asked.at)
      /\ ServiceTicketSent(asked, m, memory)
  BY <1>1, <1>3 DEF Requested
<1>5. PICK c \in memory.services :
          /\ asked.key = c.key /\ asked.server = c.server
          /\ m.service_principal = c.server /\ m.service_ticket = c.ticket
          /\ m.ticket_kvno = c.metadata.ticket_kvno /\ m.ticket_enctype \in Nat
          /\ a = b
  BY <1>4 DEF ServiceTicketSent
<1>6. /\ now \in Nat /\ SoundCache(memory, kvno, now) /\ Owned(memory)
      /\ issued \in 0..MaxIssued
  BY <1>1, WireIs
<1>7. Sound(c, c.server, kvno[c.server], now) /\ Holder(c) = client
  BY <1>6 DEF SoundCache, Owned, Held
<1>8. longTerm # None /\ Opens(m.service_ticket, longTerm, 2)
  BY <1>5, <1>7, SoundOpens
<1>9. ticket = Inside(c)
  BY <1>5 DEF Inside
<1> DEFINE d == c.ticket.der
<1>10. /\ c \in CredentialType /\ d.key = c.key /\ d.endtime # 0
       /\ c.metadata.endtime = d.endtime * Fine
  BY <1>7 DEF Sound, SameTimes
<1>11. c.ticket \in SealedTicket /\ c.key \in Key
  BY <1>10 DEF CredentialType
<1>12. d \in EncTicketPartType(Key)
  BY <1>11 DEF SealedTicket, CipherOf
<1>13. d.endtime \in Nat
  BY <1>12 DEF EncTicketPartType, KerberosTime
<1>14. /\ ticket.client_principal = client /\ ticket.key = asked.key
       /\ ticket.endtime = c.metadata.endtime
       /\ c.metadata.endtime \notin {None, 0} /\ c.metadata.endtime \in Nat
  <2> HIDE DEF d
  <2>1. ticket.client_principal = client /\ ticket.key = d.key
        /\ ticket.endtime = FromKrbTime(d.endtime)
    <3> HIDE DEF ticket
    <3>1. QED
      BY <1>7, <1>9, InsideIs DEF d
  <2> HIDE DEF ticket
  <2>2. QED
    BY <1>5, <1>10, <1>13, <2>1, FromKrbTimeIs
<1>15. /\ b.key = asked.key /\ b.usage = 11
       /\ DecodeAuthenticator(b.der).client_principal = client
       /\ DecodeAuthenticator(b.der).ctime = Stamp(asked.at).ctime
       /\ DecodeAuthenticator(b.der).cusec = Stamp(asked.at).cusec
       /\ DecodeAuthenticator(b.der).subkey = u
       /\ u \in Key /\ u # None
  <2>1. client \in Name /\ client.realm \in STRING /\ 11 \in Nat
    BY <1>4, Names
  <2>2. u \in Key /\ u # None
    BY <1>2, KeysAre
  <2>3. u \in Maybe(Key)
    BY <2>2 DEF Maybe
  <2>4. PrincipalToString(PrincipalName(client), client.realm) = client
    BY <2>1, NameIs
  <2> DEFINE usage == 11
             realm == client.realm
             e == AuthenticatorAt(client, realm, asked.at, asked.key, usage, u)
  <2>5. e = b /\ usage = 11 /\ usage \in Nat /\ realm \in STRING
    BY <2>1
  <2> HIDE DEF u, client, usage, realm
  <2>6. /\ e.key = asked.key /\ e.usage = usage
        /\ DecodeAuthenticator(e.der).client_principal
               = PrincipalToString(PrincipalName(client), realm)
        /\ DecodeAuthenticator(e.der).ctime = Stamp(asked.at).ctime
        /\ DecodeAuthenticator(e.der).cusec = Stamp(asked.at).cusec
        /\ DecodeAuthenticator(e.der).subkey = u
    BY <1>2, <2>1, <2>3, <2>5, AuthenticatorIs
  <2> HIDE DEF e, b
  <2>7. QED
    BY <2>2, <2>4, <2>5, <2>6 DEF realm
<1> HIDE DEF b, ticket, longTerm, u, h
<1>16. Authentic(a, ticket, 11)
  BY <1>5, <1>14, <1>15 DEF Authentic, Opens
<1>17. Answered(asked, h, memory, kvno, now) /\ net' \in Der
  <2>1. CASE now > ticket.endtime
    <3> DEFINE code == "KRB_AP_ERR_TKT_EXPIRED"
    <3>1. reply = Error(code)
      BY <1>8, <2>1
    <3>2. code \in ErrorName
      BY DEF ErrorName, ErrorToCode
    <3>3. PastAt(c.metadata.endtime, now)
      BY <1>14, <2>1 DEF PastAt
    <3>4. Explained(asked, code, memory, now)
      BY <1>1, <1>5, <3>3 DEF Explained
    <3> HIDE DEF code, reply
    <3>5. QED
      BY <1>1, <3>1, <3>2, <3>4, ErrorAnswers DEF h
  <2>2. CASE ~(now > ticket.endtime)
    <3> DEFINE auth == DecodeAuthenticator(a.der)
               r == EncodeEncApRepPart(
                        [ctime |-> auth.ctime, cusec |-> auth.cusec,
                         subkey |-> <<"server", now>>, seq_number |-> now])
               k == Or(auth.subkey, ticket.key)
               s == Cipher(r, k, 12)
               e == [msg_type |-> "AP_REP", service_principal |-> m.service_principal,
                     encrypted_data |-> s, enctype |-> m.ticket_enctype]
               x == DecodeEncApRepPart(r)
    <3>1. reply = ApRep(m, ticket)
      BY <1>8, <1>16, <2>2
    <3>2. ApRep(m, ticket) = e
      BY DEF ApRep
    <3>3. auth.ctime = Stamp(asked.at).ctime /\ auth.cusec = Stamp(asked.at).cusec
          /\ auth.subkey = u
      BY <1>5, <1>15
    <3> HIDE DEF auth
    <3>4. k \in Key
      BY <1>15, <3>3 DEF Or
    <3>5. /\ auth.cusec \in Nat /\ KrbTime(auth.ctime) \in Nat
          /\ FromKrbTime(KrbTime(auth.ctime)) = auth.ctime
      BY <1>2, <3>3, StampIs
    <3>6. r = [tag |-> 27, ctime |-> KrbTime(auth.ctime), cusec |-> auth.cusec,
               subkey |-> <<"server", now>>, seq_number |-> now]
      BY DEF EncodeEncApRepPart
    <3>7. <<"server", now>> \in Maybe(Key) /\ now \in Maybe(Nat)
      BY <1>6, KeysAre DEF Maybe
    <3> HIDE DEF r, k
    <3>8. r \in EncAPRepPartType(Key)
      BY <3>5, <3>6, <3>7 DEF EncAPRepPartType, KerberosTime
    <3>9. x.ctime = auth.ctime /\ x.cusec = auth.cusec
      BY <3>5, <3>6 DEF DecodeEncApRepPart
    <3>10. s \in CipherOf(EncAPRepPartType(Key)) /\ s.der = r
      BY <3>4, <3>8 DEF Cipher, CipherOf
    <3> HIDE DEF s, x
    <3>11. h.msg_type = "AP_REP" /\ h.encrypted_data = s /\ net' \in Der
      <4>1. m.ticket_enctype \in Nat
        BY <1>5
      <4> HIDE DEF reply
      <4>2. net' = EncodeMessage(e, now)
        BY <1>1, <3>1, <3>2
      <4>3. /\ DecodeMessage(EncodeMessage(e, now)).msg_type = "AP_REP"
            /\ DecodeMessage(EncodeMessage(e, now)).encrypted_data = s
            /\ EncodeMessage(e, now) \in Der
        BY <3>10, <4>1, ApRepIs
      <4> HIDE DEF e
      <4>4. QED
        BY <4>2, <4>3 DEF h
    <3>12. x = DecodeEncApRepPart(h.encrypted_data.der)
      BY <3>10, <3>11 DEF x
    <3>13. QED
      BY <1>1, <1>4, <3>3, <3>9, <3>11, <3>12 DEF Answered
  <2>3. QED
    BY <2>1, <2>2
<1>18. QED
  <2>1. h = Heard(asked.what, net')
    BY <1>1 DEF Heard, h
  <2> HIDE DEF reply
  <2>2. Answered(asked, Heard(asked.what, net'), memory, kvno, now)
    BY <1>17, <2>1
  <2>3. issued' \in 0..MaxIssued
    BY <1>1, <1>6
  <2>4. QED
    BY <1>1, <1>17, <2>2, <2>3, AnswerSent

-----------------------------------------------------------------------------
(* What the client makes of an answer *)

\* What the client hears.
LEMMA AnswerIs ==
    ASSUME WireIInv, asked # None, asked.answered
    PROVE  Answered(asked, Heard(asked.what, net), memory, kvno, now)
BY DEF WireIInv, InFlightWell

\* An error has a cause; after a failed login the cache is that of the file.
LEMMA ReceiveErrorSafe ==
    ASSUME WireIInv, ReceiveError
    PROVE  WireIInv'
<1> DEFINE m == Heard(asked.what, net)
<1>1. /\ asked # None /\ asked.answered /\ m.msg_type = "KRB_ERROR"
      /\ asked' = None /\ net' = None /\ outcome' = m.error_code
      /\ UNCHANGED <<format, now, kvno, issued, disk>>
      /\ memory' = IF asked.what = "as" THEN Loaded ELSE memory
  BY DEF ReceiveError, Ended, Heard
<1>2. Answered(asked, m, memory, kvno, now)
  BY <1>1, AnswerIs
<1> HIDE DEF m
<1>3. Explained(asked, m.error_code, memory, now)
  BY <1>1, <1>2 DEF Answered
<1>4. outcome' # "mismatch"
  BY <1>1, <1>3 DEF Explained
<1>5. Loaded = LoadedFrom(disk)
  BY DEF Loaded, LoadedFrom
<1>6. SoundCache(memory', kvno, now) /\ Owned(memory')
  BY <1>1, <1>5, WireIs
<1>7. QED
  BY <1>1, <1>4, <1>6, Settled

\* A TGT of the client takes the place of the cache.
LEMMA TgtStored ==
    ASSUME WireIInv, NEW c, StoreTgt(c), SoundTgt(c, kvno, now), Holder(c) = memory.client
    PROVE  SoundCache(memory', kvno, now) /\ Owned(memory') /\ disk' = File(memory')
<1> DEFINE m == [memory EXCEPT !.tgt = c, !.services = {}]
<1>1. c \in CredentialType
  BY DEF SoundTgt, Sound
<1>2. memory \in [client : Maybe(Client), tgt : Maybe(CredentialType),
                  services : SUBSET CredentialType]
  BY WireIs
<1>3. /\ m.client = memory.client /\ m.tgt = c /\ m.services = {}
      /\ m \in [client : Maybe(Client), tgt : Maybe(CredentialType),
                services : SUBSET CredentialType]
  BY <1>1, <1>2 DEF Maybe
<1>4. memory' = m /\ disk' = File(m)
  BY DEF StoreTgt
<1> HIDE DEF m
<1>5. SoundCache(m, kvno, now)
  BY <1>1, <1>3, NoneAssumption DEF SoundCache
<1>6. Owned(m)
  BY <1>3 DEF Owned, Held
<1>7. QED
  BY <1>4, <1>5, <1>6

\* A service ticket of the client joins its TGT.
LEMMA ServiceStored ==
    ASSUME WireIInv, NEW c, StoreService(c), memory.tgt # None, Owned(memory),
           Sound(c, c.server, kvno[c.server], now), Holder(c) = memory.client
    PROVE  SoundCache(memory', kvno, now) /\ Owned(memory') /\ disk' = File(memory')
<1> DEFINE S == {s \in memory.services : s.server # c.server} \cup {c}
           m == [memory EXCEPT !.services = S]
<1>1. c \in CredentialType
  BY DEF Sound
<1>2. memory \in [client : Maybe(Client), tgt : Maybe(CredentialType),
                  services : SUBSET CredentialType]
      /\ SoundCache(memory, kvno, now)
  BY WireIs
<1>3. S \subseteq memory.services \cup {c}
  OBVIOUS
<1>4. memory' = m /\ disk' = File(m)
  BY DEF StoreService
<1> HIDE DEF S
<1>5. /\ m.client = memory.client /\ m.tgt = memory.tgt /\ m.services = S
      /\ m \in [client : Maybe(Client), tgt : Maybe(CredentialType),
                services : SUBSET CredentialType]
  BY <1>1, <1>2, <1>3
<1> HIDE DEF m
<1>6. SoundCache(m, kvno, now)
  BY <1>2, <1>3, <1>5 DEF SoundCache
<1>7. Owned(m)
  BY <1>3, <1>5 DEF Owned, Held
<1>8. QED
  BY <1>4, <1>6, <1>7

\* The client keeps the TGT it asked for.
LEMMA ReceiveAsRepSafe ==
    ASSUME WireIInv, ReceiveAsRep
    PROVE  WireIInv'
<1> DEFINE m == Deserialize(net)
           c == AsCredential(m)
<1>1. /\ asked # None /\ asked.what = "as" /\ asked.answered /\ m.msg_type = "AS_REP"
      /\ asked' = None /\ net' = None /\ outcome' = "granted"
      /\ UNCHANGED <<format, now, kvno, issued>>
      /\ StoreTgt(c)
  BY DEF ReceiveAsRep, Receive, Ended, AsCredential
<1>2. Heard(asked.what, net) = m
  BY <1>1 DEF Heard
<1> HIDE DEF m
<1>3. Answered(asked, m, memory, kvno, now)
  BY <1>1, <1>2, AnswerIs
<1>4. SoundTgt(c, kvno, now) /\ Holder(c) = memory.client
  BY <1>1, <1>3 DEF Answered
<1> HIDE DEF c
<1>5. SoundCache(memory', kvno, now) /\ Owned(memory') /\ disk' = File(memory')
  BY <1>1, <1>4, TgtStored
<1>6. QED
  BY <1>1, <1>5, Stored

\* It keeps the ticket it asked for, in the place of the TGT or beside it.
LEMMA ReceiveTgsRepSafe ==
    ASSUME WireIInv, ReceiveTgsRep
    PROVE  WireIInv'
<1> DEFINE m == Deserialize(net)
           c == TgsCredential(m)
<1>1. /\ asked # None /\ asked.what \in {"tgs", "renew"} /\ asked.answered
      /\ m.msg_type = "TGS_REP"
      /\ asked' = None /\ net' = None /\ outcome' = "granted"
      /\ UNCHANGED <<format, now, kvno, issued>>
      /\ IF asked.what = "renew" THEN StoreTgt(c) ELSE StoreService(c)
  BY DEF ReceiveTgsRep, Receive, Ended, TgsCredential
<1>2. Heard(asked.what, net) = m
  BY <1>1 DEF Heard
<1> HIDE DEF m
<1>3. Answered(asked, m, memory, kvno, now)
  BY <1>1, <1>2, AnswerIs
<1>4. /\ Holder(c) = memory.client
      /\ \/ asked.what = "renew" /\ SoundTgt(c, kvno, now)
         \/ /\ asked.what = "tgs" /\ memory.tgt # None
            /\ Sound(c, c.server, kvno[c.server], now)
  BY <1>1, <1>3 DEF Answered
<1> HIDE DEF c
<1>5. SoundCache(memory', kvno, now) /\ Owned(memory') /\ disk' = File(memory')
  <2>1. CASE asked.what = "renew"
    BY <1>1, <1>4, <2>1, TgtStored
  <2>2. CASE asked.what = "tgs"
    <3>1. Owned(memory)
      BY <2>2, WireIs
    <3>2. QED
      BY <1>1, <1>4, <2>2, <3>1, ServiceStored
  <2>3. QED
    BY <1>1, <2>1, <2>2
<1>6. QED
  BY <1>1, <1>5, Stored

\* Mutual authentication succeeds.
LEMMA ReceiveApRepSafe ==
    ASSUME WireIInv, ReceiveApRep
    PROVE  WireIInv'
<1> DEFINE m == DecodeMessage(net)
           x == DecodeEncApRepPart(m.encrypted_data.der)
<1>1. /\ asked # None /\ asked.what = "ap" /\ asked.answered /\ m.msg_type = "AP_REP"
      /\ asked' = None /\ net' = None
      /\ outcome' = IF x.ctime = asked.stamp.ctime /\ x.cusec = asked.stamp.cusec
                    THEN "verified" ELSE "mismatch"
      /\ UNCHANGED <<format, now, kvno, issued, memory, disk>>
  BY DEF ReceiveApRep, Receive, Ended
<1>2. Heard(asked.what, net) = m
  BY <1>1 DEF Heard
<1> HIDE DEF m
<1>3. Answered(asked, m, memory, kvno, now)
  BY <1>1, <1>2, AnswerIs
<1>4. x.ctime = asked.stamp.ctime /\ x.cusec = asked.stamp.cusec
  BY <1>1, <1>3 DEF Answered
<1>5. outcome' # "mismatch"
  BY <1>1, <1>4
<1>6. SoundCache(memory', kvno, now) /\ Owned(memory')
  BY <1>1, WireIs
<1>7. QED
  BY <1>1, <1>5, <1>6, Settled

\* The next command starts from the file.
LEMMA ReloadSafe ==
    ASSUME WireIInv, Reload
    PROVE  WireIInv'
<1>1. /\ asked = None /\ memory' = Loaded /\ outcome' = None
      /\ UNCHANGED <<format, now, kvno, disk, asked, net, issued>>
  BY DEF Reload, Ready
<1>2. Loaded = LoadedFrom(disk)
  BY DEF Loaded, LoadedFrom
<1>3. SoundCache(memory', kvno, now) /\ Owned(memory')
  BY <1>1, <1>2, WireIs
<1>4. QED
  BY <1>1, <1>3, NoneAssumption, Settled

-----------------------------------------------------------------------------
(* Time and keys *)

\* The cause of an error remains one, and a ticket on its way sound.
LEMMA AnsweredLasts ==
    ASSUME NEW a, NEW m, NEW cache,
           cache \in [client : Maybe(Client), tgt : Maybe(CredentialType),
                      services : SUBSET CredentialType],
           NEW v \in [Principal -> Nat], NEW w \in [Principal -> Nat],
           \A p \in Principal : v[p] <= w[p],
           NEW t \in Nat, NEW s \in Nat, t <= s, Answered(a, m, cache, v, t)
    PROVE  Answered(a, m, cache, w, s)
<1>1. ASSUME NEW y \in Maybe(Nat), PastAt(y, t)
      PROVE  PastAt(y, s)
  BY <1>1 DEF PastAt, Maybe
<1>2. ASSUME NEW c \in CredentialType
      PROVE  c.metadata.endtime \in Maybe(Nat) /\ c.metadata.renew_till \in Maybe(Nat)
  BY DEF CredentialType, Maybe
<1>3. ASSUME NEW code, Explained(a, code, cache, t)
      PROVE  Explained(a, code, cache, s)
  <2>1. cache.tgt # None => cache.tgt \in CredentialType
    BY DEF Maybe
  <2>2. \A c \in cache.services : c \in CredentialType
    OBVIOUS
  <2>3. QED
    BY <1>1, <1>2, <1>3, <2>1, <2>2 DEF Explained
<1>4. \A c : SoundTgt(c, v, t) => SoundTgt(c, w, s)
  BY SoundCacheLasts
<1>5. ASSUME NEW c, Sound(c, c.server, v[c.server], t)
      PROVE  Sound(c, c.server, w[c.server], s)
  <2>1. c.server \in Principal
    BY <1>5 DEF Sound
  <2>2. v[c.server] \in Nat /\ w[c.server] \in Nat /\ v[c.server] <= w[c.server]
    BY <2>1
  <2>3. QED
    BY <1>5, <2>2, SoundLasts
<1>6. QED
  BY <1>3, <1>4, <1>5 DEF Answered

\* Time and new keys change nothing of what the client has.
LEMMA Lasts ==
    ASSUME WireIInv, UNCHANGED <<format, memory, disk, asked, net, issued, outcome>>,
           now' \in 1..MaxTime, now <= now', kvno' \in [Principal -> 1..MaxKvno],
           \A p \in Principal : kvno[p] <= kvno'[p]
    PROVE  WireIInv'
<1>1. now \in Nat /\ now' \in Nat
      /\ kvno \in [Principal -> Nat] /\ kvno' \in [Principal -> Nat]
  BY WireIs, BoundsAssumption
<1>2. TypeOK'
  BY DEF WireIInv, TypeOK
<1>3. \A m : SoundCache(m, kvno, now) => SoundCache(m, kvno', now')
  BY <1>1, SoundCacheLasts
<1>4. Caches'
  BY <1>3, WireIs DEF Caches
<1>5. InFlightWell'
  <2> DEFINE m == Heard(asked.what, net)
  <2>1. CASE asked # None /\ asked.answered
    <3>1. Answered(asked, m, memory, kvno, now)
      BY <2>1, AnswerIs
    <3>2. memory \in [client : Maybe(Client), tgt : Maybe(CredentialType),
                      services : SUBSET CredentialType]
      BY WireIs
    <3> HIDE DEF m
    <3>3. Answered(asked, m, memory, kvno', now')
      BY <1>1, <3>1, <3>2, AnsweredLasts
    <3>4. QED
      BY <2>1, <3>3 DEF InFlightWell, m
  <2>2. CASE asked # None /\ ~asked.answered
    BY <2>2 DEF WireIInv, InFlightWell
  <2>3. CASE asked = None
    BY <2>3 DEF InFlightWell
  <2>4. QED
    BY <2>1, <2>2, <2>3
<1>6. QED
  BY <1>2, <1>4, <1>5, WireIs DEF WireIInv

\* Time goes by.
LEMMA TickSafe ==
    ASSUME WireIInv, Tick
    PROVE  WireIInv'
<1>1. now' \in 1..MaxTime /\ now <= now'
  BY WireIs, BoundsAssumption DEF Tick
<1>2. QED
  BY <1>1, WireIs, Lasts, BoundsAssumption DEF Tick

\* A key is rotated: the versions before it stay.
LEMMA RotateSafe ==
    ASSUME WireIInv, NEW p \in Rotating, Rotate(p)
    PROVE  WireIInv'
<1>1. p \in Principal
  BY NamesAssumption
<1>2. kvno' = [kvno EXCEPT ![p] = @ + 1] /\ kvno[p] < MaxKvno
      /\ UNCHANGED <<format, now, memory, disk, asked, net, issued, outcome>>
  BY DEF Rotate
<1>3. kvno' \in [Principal -> 1..MaxKvno] /\ \A q \in Principal : kvno[q] <= kvno'[q]
  BY <1>1, <1>2, WireIs, BoundsAssumption
<1>4. QED
  BY <1>2, <1>3, WireIs, Lasts

-----------------------------------------------------------------------------
\* Whatever step the wire takes.
LEMMA WireStepSafe ==
    ASSUME WireIInv, WireNext
    PROVE  WireIInv'
<1>1. ASSUME NEW c \in Client, NEW k \in {PasswordKey(c), <<"wrong", c>>}, SendAsReq(c, k)
      PROVE  WireIInv'
  BY <1>1, SendAsReqSafe
<1>2. ASSUME NEW s \in Service \cup Stranger, SendTgsReq(s)
      PROVE  WireIInv'
  BY <1>2, SendTgsReqSafe
<1>3. ASSUME NEW c \in memory.services, SendApReq(c)
      PROVE  WireIInv'
  BY <1>3, SendApReqSafe
<1>4. ASSUME NEW p \in Rotating, Rotate(p)
      PROVE  WireIInv'
  BY <1>4, RotateSafe
<1>5. QED
  BY <1>1, <1>2, <1>3, <1>4, SendRenewalSafe, KdcReplySafe, ApReplySafe,
     ReceiveErrorSafe, ReceiveAsRepSafe, ReceiveTgsRepSafe, ReceiveApRepSafe,
     ReloadSafe, TickSafe DEF WireNext

\* And when it takes none.
LEMMA WireRestSafe ==
    ASSUME WireIInv, UNCHANGED wireVars
    PROVE  WireIInv'
<1>1. UNCHANGED <<format, now, kvno, memory, disk, asked, net, issued, outcome>>
  BY DEF wireVars
<1>2. now' \in 1..MaxTime /\ now <= now' /\ kvno' \in [Principal -> 1..MaxKvno]
      /\ \A p \in Principal : kvno[p] <= kvno'[p]
  BY <1>1, WireIs
<1>3. QED
  BY <1>1, <1>2, Lasts

-----------------------------------------------------------------------------
(* The theorems *)

\* The encryption has nothing to do with it.
LEMMA WireNextSafe ==
    ASSUME WireIInv, [Next]_vars
    PROVE  WireIInv'
<1>1. CASE layer = "wire" /\ WireNext
  BY <1>1, WireStepSafe
<1>2. CASE UNCHANGED wireVars
  BY <1>2, WireRestSafe
<1>3. UNCHANGED vars => UNCHANGED wireVars
  BY DEF vars
<1>4. QED
  BY <1>1, <1>2, <1>3 DEF Next

LEMMA WireAlways == Spec => []WireIInv
<1>1. Init => WireIInv
  BY WireStarts DEF Init
<1>2. WireIInv /\ [Next]_vars => WireIInv'
  BY WireNextSafe
<1>3. QED
  BY <1>1, <1>2, PTL DEF Spec

\* What is sent in DER has every field its ASN.1 type demands, with values of their
\* types inside the ciphers too; what the client keeps, in memory and in the file, lacks
\* no label and no time (encode_message of core/asn1_codec.py, the caches of
\* client/credential_cache.py).
THEOREM WireTypeCorrect == Spec => []TypeOK
<1>1. WireIInv => TypeOK
  BY DEF WireIInv
<1>2. QED
  BY <1>1, WireAlways, PTL

\* The name and the version the client keeps of a ticket name the key that opens it,
\* whatever was rotated since; and every ticket is the client's for which the cache's
\* command acts, also when the file is read by the next.
THEOREM LabelsAlwaysKept == Spec => []LabelsKept
<1>1. WireIInv => LabelsKept
  BY WireSafe
<1>2. QED
  BY <1>1, WireAlways, PTL

\* The client's end and renewal time of a ticket are the server's, after two encodings
\* and the file, and no ticket outlasts its lifetime by more than half a microsecond's
\* rounding.
THEOREM TimesAlwaysKept == Spec => []TimesKept
<1>1. WireIInv => TimesKept
  BY WireSafe
<1>2. QED
  BY <1>1, WireAlways, PTL

\* The moment a server reads in a request is the client's to half a microsecond,
\* however fine the clock (current_kerberos_time).
THEOREM StampsAlwaysKept == Spec => []StampKept
<1>1. WireIInv => StampKept
  BY WireSafe
<1>2. QED
  BY <1>1, WireAlways, PTL

\* An error has one of four causes, each of which the client can tell by itself, and the
\* server's stamp is never another than the client's.
THEOREM RefusalsAlwaysExplained == Spec => []RefusalsExplained
<1>1. WireIInv => RefusalsExplained
  BY WireSafe
<1>2. QED
  BY <1>1, WireAlways, PTL

=============================================================================
