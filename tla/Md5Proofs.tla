----------------------------- MODULE Md5Proofs ------------------------------
(***************************************************************************)
(* Proofs, for any size of block, word and message and however a message   *)
(* is cut into pieces, that Md5 loses nothing and pads as the standard     *)
(* says.                                                                   *)
(***************************************************************************)
EXTENDS Md5, SequenceTheorems, TLAPS

-----------------------------------------------------------------------------
(* Division with remainder by any positive number: blocks, and counters of two words. *)

\* A positive number times a positive number is at least the one and the other.
LEMMA ProductGrows ==
    ASSUME NEW b \in Nat, b > 0, NEW x \in Int, x > 0
    PROVE  b * x >= b /\ b * x >= x
  OBVIOUS

\* What quotient and remainder are.
LEMMA DivMod ==
    ASSUME NEW a \in Int, NEW b \in Nat, b > 0
    PROVE  /\ a \div b \in Int /\ a % b \in 0 .. b - 1
           /\ a = b * (a \div b) + (a % b)
  OBVIOUS

\* There is only one quotient, and only one remainder.
LEMMA DivModUnique ==
    ASSUME NEW b \in Nat, b > 0, NEW q \in Int, NEW r \in 0 .. b - 1,
           NEW p \in Int, NEW s \in 0 .. b - 1, b * q + r = b * p + s
    PROVE  q = p /\ r = s
<1>1. b * (q - p) = s - r /\ b * (p - q) = r - s
  OBVIOUS
<1>2. CASE q > p
  BY <1>1, <1>2, ProductGrows
<1>3. CASE q < p
  BY <1>1, <1>3, ProductGrows
<1>4. CASE q = p
  BY <1>4
<1> QED
  BY <1>2, <1>3, <1>4

\* How to find quotient and remainder.
LEMMA DivModIs ==
    ASSUME NEW a \in Int, NEW b \in Nat, b > 0, NEW q \in Int, NEW r \in 0 .. b - 1,
           a = b * q + r
    PROVE  a \div b = q /\ a % b = r
  BY DivMod, DivModUnique

\* The remainder by a product determines the remainder by its factor.
LEMMA ModMod ==
    ASSUME NEW H \in Nat, H > 0, NEW D \in Nat, D > 0, NEW W, W = D * H, NEW t \in Int
    PROVE  (t % W) % H = t % H
<1> DEFINE q == t \div W
           m == t % W
           e == m \div H
           f == m % H
<1>1. W \in Nat /\ W > 0
  BY ProductGrows
<1>2. q \in Int /\ m \in Int /\ t = W * q + m
  BY <1>1, DivMod
<1>3. e \in Int /\ f \in 0 .. H - 1 /\ m = H * e + f
  BY <1>2, DivMod
<1> HIDE DEF q, m, e, f
<1>4. D * q + e \in Int
  BY <1>2, <1>3
<1>5. (D * H) * q = H * (D * q) /\ H * (D * q + e) = H * (D * q) + H * e
  BY <1>2, <1>3
<1>6. t = H * (D * q + e) + f
  BY <1>2, <1>3, <1>5
<1>7. t % H = f
  BY <1>3, <1>4, <1>6, DivModIs
<1> QED
  BY <1>7 DEF f, m

\* Remainders may be taken early.
LEMMA ModAdd ==
    ASSUME NEW a \in Int, NEW b \in Int, NEW m \in Nat, m > 0
    PROVE  ((a % m) + b) % m = (a + b) % m
<1> DEFINE q == a \div m
           r == a % m
           p == (r + b) \div m
           s == (r + b) % m
<1>1. q \in Int /\ r \in 0 .. m - 1 /\ a = m * q + r
  BY DivMod
<1>2. p \in Int /\ s \in 0 .. m - 1 /\ r + b = m * p + s
  BY <1>1, DivMod
<1> HIDE DEF q, r, p, s
<1>3. a + b \in Int /\ q + p \in Int /\ a + b = m * (q + p) + s
  BY <1>1, <1>2
<1>4. (a + b) % m = s
  BY <1>2, <1>3, DivModIs
<1> QED
  BY <1>4 DEF s, r

\* n + size in two words: low, the low word of n, which counts up to m, with size
\* added, and the number of times it wrapped.
WordsAdd(m, n, size, low, carry) ==
    /\ (low + size) % m = (n + size) % m
    /\ (n + size) \div m = (n \div m) + carry + (size \div m)

\* A counter of two words: adding size to a low word that counts up to m
\* carries exactly if the low word gets smaller, and then once.
LEMMA TwoWords ==
    ASSUME NEW m \in Nat, m > 0, NEW n \in Nat, NEW size \in Nat,
           NEW low, low = n % m, NEW carry, carry = IF (low + size) % m < low THEN 1 ELSE 0
    PROVE  WordsAdd(m, n, size, low, carry)
<1> DEFINE q == n \div m
           s == size \div m
           r == size % m
<1>1. q \in Int /\ low \in 0 .. m - 1 /\ n = m * q + low
  BY DivMod
<1>2. s \in Int /\ r \in 0 .. m - 1 /\ size = m * s + r
  BY DivMod
<1> HIDE DEF q, s, r
<1>3. low + size \in Int /\ n + size \in Int
  BY <1>1
<1>4. CASE low + r < m
  <2>1. low + r \in 0 .. m - 1 /\ low + size = m * s + (low + r)
    BY <1>1, <1>2, <1>4
  <2>2. (low + size) % m = low + r
    BY <1>2, <1>3, <2>1, DivModIs
  <2>3. carry = 0
    BY <1>1, <1>2, <2>2
  <2>4. q + s \in Int /\ n + size = m * (q + s) + (low + r)
    BY <1>1, <1>2
  <2>5. (n + size) \div m = q + s /\ (n + size) % m = low + r
    <3> DEFINE z == n + size
               u == q + s
               v == low + r
    <3>1. z \in Int /\ u \in Int /\ v \in 0 .. m - 1 /\ z = m * u + v
      BY <1>3, <2>1, <2>4
    <3> HIDE DEF z, u, v
    <3>2. z \div m = u /\ z % m = v
      BY <3>1, DivModIs
    <3> QED
      BY <3>2, Zenon DEF z, u, v
  <2>6. q + s = q + carry + s
    BY <1>1, <1>2, <2>3
  <2> QED
    BY <2>2, <2>5, <2>6 DEF q, s, WordsAdd
<1>5. CASE low + r >= m
  <2>1. low + r - m \in 0 .. m - 1 /\ s + 1 \in Int /\ low + size = m * (s + 1) + (low + r - m)
    BY <1>1, <1>2, <1>5
  <2>2. (low + size) % m = low + r - m
    BY <1>3, <2>1, DivModIs, ZenonT(60)
  <2>3. carry = 1
    BY <1>1, <1>2, <2>2
  <2>4. q + s + 1 \in Int /\ n + size = m * (q + s + 1) + (low + r - m)
    BY <1>1, <1>2
  <2>5. (n + size) \div m = q + s + 1 /\ (n + size) % m = low + r - m
    <3> DEFINE z == n + size
               u == q + s + 1
               v == low + r - m
    <3>1. z \in Int /\ u \in Int /\ v \in 0 .. m - 1 /\ z = m * u + v
      BY <1>3, <2>1, <2>4
    <3> HIDE DEF z, u, v
    <3>2. z \div m = u /\ z % m = v
      BY <3>1, DivModIs
    <3> QED
      BY <3>2, Zenon DEF z, u, v
  <2>6. q + s + 1 = q + carry + s
    BY <1>1, <1>2, <2>3
  <2> QED
    BY <2>2, <2>5, <2>6 DEF q, s, WordsAdd
<1> QED
  BY <1>1, <1>2, <1>4, <1>5

-----------------------------------------------------------------------------
\* Byte i of the message.
DataByte(i) == <<"data", i>>

\* q is the part of the message behind its first k bytes.
Run(q, k) == /\ q \in Seq(Byte)
             /\ \A i \in 1 .. Len(q) : q[i] = DataByte(k + i)

\* A buffer whose first used bytes are the ones behind the first k of the message.
Front(buf, used, k) == /\ buf \in [1 .. BlockSize -> Byte]
                       /\ \A i \in 1 .. used : buf[i] = DataByte(k + i)

\* The sizes of the block, the length words and their moduli are positive, and two
\* words fit in a block.
LEMMA Sizes == /\ BlockSize \in Nat /\ WordSize \in Nat /\ LoModulus \in Nat /\ HiModulus \in Nat
               /\ BlockSize > 0 /\ WordSize > 0 /\ LoModulus > 0 /\ HiModulus > 0
               /\ 2 * WordSize < BlockSize
  BY BlockAssumption, WordsAssumption

\* Every byte of the message is a byte.
LEMMA DataIsByte == \A i \in Nat : DataByte(i) \in Byte
  BY DEF DataByte, Byte

-----------------------------------------------------------------------------
(* The pieces of a message. *)

\* A function on 1 .. n is a sequence of length n.
LEMMA FunIsSeq ==
    ASSUME NEW S, NEW n \in Nat, NEW f \in [1 .. n -> S]
    PROVE  f \in Seq(S) /\ Len(f) = n
<1>1. f \in Seq(S)
  BY SeqDef
<1>2. DOMAIN f = 1 .. n /\ DOMAIN f = 1 .. Len(f) /\ Len(f) \in Nat
  BY <1>1, LenProperties
<1> QED
  BY <1>1, <1>2

\* The piece handed to MD5_Update is the run of the message that begins behind what was
\* fed before.
LEMMA PieceIsRun ==
    ASSUME fed \in Nat, NEW size \in Nat
    PROVE  Run(Piece(size), fed) /\ Len(Piece(size)) = size
<1>1. Piece(size) = [k \in 1 .. size |-> DataByte(fed + k)]
  BY DEF Piece, DataByte
<1>2. \A k \in 1 .. size : DataByte(fed + k) \in Byte
  BY DataIsByte
<1>3. Piece(size) \in [1 .. size -> Byte] /\ \A k \in 1 .. size : Piece(size)[k] = DataByte(fed + k)
  BY <1>1, <1>2
<1>4. Piece(size) \in Seq(Byte) /\ Len(Piece(size)) = size
  BY <1>3, FunIsSeq
<1> QED
  BY <1>3, <1>4 DEF Run

\* Two runs of the message that meet make one run.
LEMMA RunConcat ==
    ASSUME NEW p, NEW q, NEW k \in Nat, Run(p, k), Run(q, k + Len(p))
    PROVE  Run(p \o q, k) /\ Len(p \o q) = Len(p) + Len(q)
<1>1. p \in Seq(Byte) /\ q \in Seq(Byte) /\ Len(p) \in Nat /\ Len(q) \in Nat
  BY DEF Run
<1> DEFINE w == p \o q
<1>2. /\ w \in Seq(Byte) /\ Len(w) = Len(p) + Len(q)
      /\ \A i \in 1 .. Len(p) + Len(q) : w[i] = IF i <= Len(p) THEN p[i] ELSE q[i - Len(p)]
  BY <1>1, ConcatProperties
<1> HIDE DEF w
<1>3. ASSUME NEW i \in 1 .. Len(p) + Len(q) PROVE w[i] = DataByte(k + i)
  <2>1. CASE i <= Len(p)
    BY <1>1, <1>2, <2>1 DEF Run
  <2>2. CASE i > Len(p)
    <3>1. i - Len(p) \in 1 .. Len(q) /\ w[i] = q[i - Len(p)]
      BY <1>1, <1>2, <2>2
    <3>2. k + Len(p) + (i - Len(p)) = k + i
      BY <1>1
    <3> QED
      BY <3>1, <3>2 DEF Run
  <2> QED
    BY <1>1, <2>1, <2>2
<1>4. Run(w, k)
  BY <1>2, <1>3 DEF Run
<1> QED
  BY <1>2, <1>4 DEF w

\* A part of a run of the message is a run of it.
LEMMA RunSub ==
    ASSUME NEW q, NEW k \in Nat, Run(q, k), NEW a \in Nat, NEW b \in Nat,
           a <= b, b <= Len(q)
    PROVE  /\ Run(SubSeq(q, a + 1, b), k + a)
           /\ Len(SubSeq(q, a + 1, b)) = b - a
<1>1. q \in Seq(Byte) /\ Len(q) \in Nat /\ \A i \in 1 .. Len(q) : q[i] \in Byte
  BY DEF Run
<1> DEFINE w == SubSeq(q, a + 1, b)
<1>2. a + 1 \in Int /\ b \in Int /\ \A i \in a + 1 .. b : q[i] \in Byte
  BY <1>1
<1>3. /\ w \in Seq(Byte) /\ Len(w) = IF a + 1 <= b THEN b - (a + 1) + 1 ELSE 0
      /\ \A i \in 1 .. b - (a + 1) + 1 : w[i] = q[a + 1 + i - 1]
  BY <1>2, SubSeqProperties
<1> HIDE DEF w
<1>4. Len(w) = b - a
  BY <1>3
<1>5. ASSUME NEW i \in 1 .. b - a PROVE w[i] = DataByte(k + a + i)
  <2>1. i \in 1 .. b - (a + 1) + 1 /\ a + 1 + i - 1 = a + i /\ a + i \in 1 .. Len(q)
    BY <1>1
  <2>2. w[i] = q[a + i]
    BY <1>3, <2>1
  <2>3. k + (a + i) = k + a + i
    OBVIOUS
  <2> QED
    BY <2>1, <2>2, <2>3 DEF Run
<1>6. Run(w, k + a)
  BY <1>3, <1>4, <1>5 DEF Run
<1> QED
  BY <1>4, <1>6 DEF w

\* A run that begins at the first byte is the whole message of that length.
LEMMA RunIsMessage ==
    ASSUME NEW q, Run(q, 0)
    PROVE  q = Message(Len(q))
<1>1. q \in Seq(Byte) /\ \A i \in 1 .. Len(q) : q[i] = <<"data", i>>
  BY DEF Run, DataByte
<1>2. q = [i \in 1 .. Len(q) |-> q[i]]
  BY <1>1
<1> QED
  BY <1>1, <1>2 DEF Message

-----------------------------------------------------------------------------
(* The buffer. *)

\* Put (memcpy into ctx->buffer, md5.c:227, 231, 242) changes the bytes behind used and
\* no other.
LEMMA PutIs ==
    ASSUME NEW buf \in [1 .. BlockSize -> Byte], NEW used \in Nat, NEW data \in Seq(Byte)
    PROVE  /\ Put(buf, used, data) \in [1 .. BlockSize -> Byte]
           /\ \A k \in 1 .. BlockSize :
                 Put(buf, used, data)[k] = IF k - used \in 1 .. Len(data)
                                           THEN data[k - used] ELSE buf[k]
<1>1. \A k \in 1 .. BlockSize :
         (IF k - used \in 1 .. Len(data) THEN data[k - used] ELSE buf[k]) \in Byte
  BY Sizes
<1> QED
  BY <1>1 DEF Put

\* Copying the next run behind the buffered front makes a longer front.
LEMMA PutRun ==
    ASSUME NEW buf, NEW used \in Nat, NEW k \in Nat, Front(buf, used, k),
           NEW q, Run(q, k + used), used + Len(q) <= BlockSize
    PROVE  Front(Put(buf, used, q), used + Len(q), k)
<1>1. q \in Seq(Byte) /\ Len(q) \in Nat /\ buf \in [1 .. BlockSize -> Byte]
  BY DEF Run, Front
<1> DEFINE w == Put(buf, used, q)
<1>2. /\ w \in [1 .. BlockSize -> Byte]
      /\ \A i \in 1 .. BlockSize : w[i] = IF i - used \in 1 .. Len(q) THEN q[i - used] ELSE buf[i]
  BY <1>1, PutIs
<1> HIDE DEF w
<1>3. ASSUME NEW i \in 1 .. used + Len(q) PROVE w[i] = DataByte(k + i)
  <2>1. i \in 1 .. BlockSize
    BY <1>1, Sizes
  <2>2. CASE i <= used
    <3>1. w[i] = buf[i]
      BY <1>1, <1>2, <2>1, <2>2
    <3> QED
      BY <2>2, <3>1 DEF Front
  <2>3. CASE i > used
    <3>1. i - used \in 1 .. Len(q)
      BY <1>1, <2>3
    <3>2. w[i] = q[i - used]
      BY <1>2, <2>1, <3>1
    <3>3. k + used + (i - used) = k + i
      OBVIOUS
    <3> QED
      BY <3>1, <3>2, <3>3 DEF Run
  <2> QED
    BY <2>2, <2>3
<1>4. Front(w, used + Len(q), k)
  BY <1>2, <1>3 DEF Front
<1> QED
  BY <1>4 DEF w

\* A buffer that is full holds one block of the message.
LEMMA FullFrontIsRun ==
    ASSUME NEW buf, NEW k \in Nat, Front(buf, BlockSize, k)
    PROVE  Run(buf, k) /\ Len(buf) = BlockSize
<1>1. buf \in Seq(Byte) /\ Len(buf) = BlockSize
  BY Sizes, FunIsSeq DEF Front
<1> QED
  BY <1>1 DEF Front, Run

-----------------------------------------------------------------------------
(***************************************************************************)
(* The inductive invariant.                                                *)
(***************************************************************************)

\* What was given to body and what waits in the buffer.
Kept ==
    /\ Run(abcd, 0) /\ Front(buffer, Used, Len(abcd))
    /\ Len(abcd) + Used = fed /\ Len(abcd) % BlockSize = 0
    /\ lo = fed % LoModulus /\ hi = (fed \div LoModulus) % HiModulus

\* The inductive invariant.
IInv == TypeOK /\ (pc = "update" => Kept) /\ HashIsStandard

\* Whole blocks and less than one block behind them.
LEMMA Blocks ==
    ASSUME NEW n \in Nat, NEW k \in Nat, k % BlockSize = 0,
           NEW u \in 0 .. BlockSize - 1, n = k + u
    PROVE  n % BlockSize = u
<1> DEFINE q == k \div BlockSize
<1>1. q \in Int /\ k = BlockSize * q + 0
  BY Sizes, DivMod
<1> HIDE DEF q
<1>2. n = BlockSize * q + u
  BY <1>1, Sizes
<1> QED
  BY <1>1, <1>2, Sizes, DivModIs

\* The low word, although it wraps, knows how full the buffer is.
LEMMA LowWord ==
    ASSUME NEW n \in Nat
    PROVE  (n % LoModulus) % BlockSize = n % BlockSize
<1> DEFINE D == LoModulus \div BlockSize
<1>1. D \in Int /\ LoModulus = BlockSize * D
  BY Sizes, WordsAssumption, DivMod
<1> HIDE DEF D
<1>2. D > 0
  <2> SUFFICES ASSUME D <= 0 PROVE FALSE
    BY <1>1
  <2>1. BlockSize * (0 - D) \in Nat
    BY <1>1, Sizes
  <2> QED
    BY <1>1, <2>1, Sizes
<1>3. D \in Nat /\ LoModulus = D * BlockSize
  BY <1>1, <1>2, Sizes
<1>4. n \in Int /\ BlockSize \in Nat /\ BlockSize > 0
  BY Sizes
<1> QED
  BY <1>2, <1>3, <1>4, ModMod, ZenonT(30)

\* The empty message has no blocks and no words.
LEMMA NoBlocks ==
    0 % BlockSize = 0 /\ 0 % LoModulus = 0 /\ 0 \div LoModulus = 0 /\ 0 % HiModulus = 0
<1>1. \A b \in Nat : b > 0 => 0 % b = 0 /\ 0 \div b = 0
  <2> SUFFICES ASSUME NEW b \in Nat, b > 0 PROVE 0 % b = 0 /\ 0 \div b = 0
    OBVIOUS
  <2>1. 0 = b * 0 + 0 /\ 0 \in 0 .. b - 1 /\ 0 \in Int
    OBVIOUS
  <2> QED
    BY <2>1, DivModIs
<1> QED
  BY <1>1, Sizes

\* A fresh context satisfies the invariant.
LEMMA InvInit == Init => IInv
<1> SUFFICES ASSUME Init PROVE IInv
  OBVIOUS
<1>1. buffer \in [1 .. BlockSize -> Byte]
  BY DEF Init, Byte
<1>2. TypeOK
  BY <1>1, Sizes, SMTT(60) DEF Init, TypeOK
<1>3. 0 % BlockSize = 0 /\ 0 % LoModulus = 0 /\ 0 \div LoModulus = 0 /\ 0 % HiModulus = 0
  BY NoBlocks
<1>4. Used = 0 /\ Len(abcd) = 0 /\ abcd = <<>>
  BY <1>3 DEF Init, Used
<1>5. Run(abcd, 0) /\ Front(buffer, Used, Len(abcd))
  BY <1>1, <1>4 DEF Run, Front
<1>6. Kept
  BY <1>3, <1>4, <1>5 DEF Init, Kept
<1> QED
  BY <1>2, <1>6 DEF Init, IInv, HashIsStandard

\* The two words after a piece of the message.
LEMMA WordsStep ==
    ASSUME TypeOK, Kept, NEW size \in Nat
    PROVE  /\ NewLo(size) = (fed + size) % LoModulus
           /\ NewHi(size) = ((fed + size) \div LoModulus) % HiModulus
           /\ NewLo(size) \in 0 .. LoModulus - 1 /\ NewHi(size) \in 0 .. HiModulus - 1
<1> DEFINE carry == IF NewLo(size) < lo THEN 1 ELSE 0
           q == fed \div LoModulus
           s == size \div LoModulus
<1>1. fed \in Nat /\ lo = fed % LoModulus /\ hi = q % HiModulus
  BY DEF TypeOK, Kept
<1>2. NewLo(size) = (lo + size) % LoModulus
  BY DEF NewLo
<1>3. /\ (lo + size) % LoModulus = (fed + size) % LoModulus
      /\ (fed + size) \div LoModulus = q + carry + s
  <2>1. carry = IF (lo + size) % LoModulus < lo THEN 1 ELSE 0
    BY <1>2
  <2>2. LoModulus \in Nat /\ LoModulus > 0
    BY Sizes
  <2> HIDE DEF carry
  <2>3. WordsAdd(LoModulus, fed, size, lo, carry)
    BY <1>1, <2>1, <2>2, TwoWords
  <2> QED
    BY <2>3, Zenon DEF WordsAdd
<1>4. q \in Int /\ s \in Int /\ carry \in Int /\ (fed + size) % LoModulus \in 0 .. LoModulus - 1
  BY <1>1, Sizes, DivMod
<1>5. NewHi(size) = (hi + carry + s) % HiModulus
  BY DEF NewHi
<1> HIDE DEF carry, q, s
<1> DEFINE x == carry + s
<1>6. x \in Int /\ q + carry + s = q + x
  BY <1>4
<1>7. hi \in Int /\ hi + carry + s = hi + x
  BY <1>4 DEF TypeOK
<1> HIDE DEF x
<1>8. ((q % HiModulus) + x) % HiModulus = (q + x) % HiModulus
  BY <1>4, <1>6, Sizes, ModAdd, Zenon
<1>9. NewHi(size) = ((fed + size) \div LoModulus) % HiModulus
  BY <1>1, <1>3, <1>5, <1>6, <1>7, <1>8, Zenon
<1>10. (q + x) % HiModulus \in 0 .. HiModulus - 1
  BY <1>4, <1>6, Sizes, DivMod
<1> QED
  BY <1>1, <1>2, <1>3, <1>4, <1>5, <1>7, <1>8, <1>9, <1>10, Zenon

-----------------------------------------------------------------------------
(* MD5_Update *)

\* Whole blocks behind whole blocks are whole blocks.
LEMMA MoreBlocks ==
    ASSUME NEW j \in Nat, NEW k \in Nat, j % BlockSize = 0, k % BlockSize = 0
    PROVE  j + k \in Nat /\ (j + k) % BlockSize = 0
<1> DEFINE p == j \div BlockSize
           q == k \div BlockSize
           s == j + k
           z == p + q
<1>1. p \in Int /\ j = BlockSize * p /\ q \in Int /\ k = BlockSize * q
  BY Sizes, DivMod
<1> HIDE DEF p, q
<1>2. s \in Nat /\ z \in Int /\ s = BlockSize * z + 0 /\ 0 \in 0 .. BlockSize - 1
  BY <1>1, Sizes
<1> HIDE DEF s, z
<1>3. s % BlockSize = 0
  BY <1>2, Sizes, DivModIs
<1> QED
  BY <1>2, <1>3 DEF s

\* The whole blocks in n bytes.
LEMMA WholeBlocks ==
    ASSUME NEW n \in Nat, NEW w, w = (n \div BlockSize) * BlockSize
    PROVE  /\ w \in Nat /\ w <= n /\ n - w \in 0 .. BlockSize - 1
           /\ w % BlockSize = 0
<1> DEFINE d == n \div BlockSize
           r == n % BlockSize
<1>1. d \in Int /\ r \in 0 .. BlockSize - 1 /\ n = BlockSize * d + r
  BY Sizes, DivMod
<1>2. w = BlockSize * d
  BY <1>1, Sizes
<1> HIDE DEF d, r
<1>3. d >= 0
  <2> SUFFICES ASSUME d < 0 PROVE FALSE
    BY <1>1
  <2>1. BlockSize * (0 - d) >= BlockSize /\ BlockSize * (0 - d) = 0 - BlockSize * d
    BY <1>1, Sizes, ProductGrows
  <2> QED
    BY <1>1, <2>1, Sizes
<1>4. w \in Nat /\ n - w = r /\ w = BlockSize * d + 0 /\ 0 \in 0 .. BlockSize - 1
  BY <1>1, <1>2, <1>3, Sizes
<1>5. w % BlockSize = 0
  BY <1>1, <1>4, Sizes, DivModIs
<1> QED
  BY <1>1, <1>4, <1>5, Sizes

\* What body is given behind the words of whole blocks, if it is a number of
\* blocks, continues them.
LEMMA BodyRun ==
    ASSUME NEW a, NEW q, Run(a, 0), Run(q, Len(a)), Len(q) > 0
    PROVE  Run(Body(a, q), 0) /\ Len(Body(a, q)) = Len(a) + Len(q)
<1>1. q # <<>> /\ Len(a) \in Nat
  BY DEF Run
<1>2. Body(a, q) = a \o q
  BY <1>1 DEF Body
<1>3. Run(q, 0 + Len(a))
  BY <1>1
<1> QED
  BY <1>2, <1>3, RunConcat

\* How far a hash has come: a holds whole blocks, and q is all of the n bytes
\* of the message behind them.
Split(a, q, n) == /\ Run(a, 0) /\ Run(q, Len(a))
                  /\ Len(a) + Len(q) = n /\ Len(a) % BlockSize = 0

\* The buffer is full of bytes of the message before body is given it, and what
\* is left of the piece is what is behind them.
LEMMA CompletedIs ==
    ASSUME TypeOK, Kept, NEW size \in Nat, Used = 0 \/ size >= BlockSize - Used,
           NEW c, c = Completed(Piece(size))
    PROVE  /\ c.buffer \in [1 .. BlockSize -> Byte]
           /\ Split(c.abcd, c.rest, fed + size)
<1> DEFINE p == Piece(size)
           k == Len(abcd)
           u == Used
<1>1. fed \in Nat /\ Run(p, fed) /\ Len(p) = size
  BY PieceIsRun DEF TypeOK
<1>2. /\ Run(abcd, 0) /\ Front(buffer, u, k) /\ k + u = fed /\ k % BlockSize = 0
      /\ buffer \in [1 .. BlockSize -> Byte] /\ k \in Nat
  BY DEF Kept, TypeOK
<1>3. u \in 0 .. BlockSize - 1
  BY Sizes, DivMod DEF TypeOK, Used
<1>4. CASE u = 0
  <2>1. c = [buffer |-> buffer, abcd |-> abcd, rest |-> p]
    BY <1>4 DEF Completed
  <2>2. c.buffer = buffer /\ c.abcd = abcd /\ c.rest = p
    BY <2>1
  <2>3. k = fed
    BY <1>1, <1>2, <1>4
  <2> QED
    BY <1>1, <1>2, <2>2, <2>3 DEF Split
<1>5. CASE u # 0
  <2> DEFINE room == BlockSize - u
             first == SubSeq(p, 1, room)
             filled == Put(buffer, u, first)
             rest == SubSeq(p, room + 1, Len(p))
  <2>1. c = [buffer |-> filled, abcd |-> Body(abcd, filled), rest |-> rest]
    BY <1>5 DEF Completed
  <2>2. c.buffer = filled /\ c.abcd = Body(abcd, filled) /\ c.rest = rest
    <3> HIDE DEF filled, rest
    <3> QED
      BY <2>1
  <2>3. room \in Nat /\ room <= size /\ u + room = BlockSize
    BY <1>3, <1>5, Sizes
  <2> HIDE DEF p, k, u, room
  <2>4. Run(first, fed) /\ Len(first) = room
    <3> DEFINE x == SubSeq(p, 0 + 1, room)
    <3>1. Run(x, fed + 0) /\ Len(x) = room - 0
      BY <1>1, <2>3, RunSub
    <3>2. x = first
      OBVIOUS
    <3> HIDE DEF x, first
    <3> QED
      BY <1>1, <2>3, <3>1, <3>2
  <2>5. Run(rest, fed + room) /\ Len(rest) = size - room
    BY <1>1, <2>3, RunSub
  <2> HIDE DEF first, rest
  <2>6. Front(filled, u + Len(first), k)
    BY <1>2, <1>3, <2>3, <2>4, PutRun
  <2>7. Front(filled, BlockSize, k)
    BY <2>3, <2>4, <2>6
  <2> HIDE DEF filled
  <2>8. Run(filled, k) /\ Len(filled) = BlockSize
    BY <1>2, <2>7, FullFrontIsRun
  <2> DEFINE b == Body(abcd, filled)
  <2>9. Run(b, 0) /\ Len(b) = k + BlockSize
    BY <1>2, <2>8, Sizes, BodyRun DEF k
  <2> HIDE DEF b
  <2>10. (k + BlockSize) % BlockSize = 0
    <3>1. BlockSize % BlockSize = 0
      <4>1. BlockSize = BlockSize * 1 + 0 /\ 0 \in 0 .. BlockSize - 1 /\ BlockSize \in Int
        BY Sizes
      <4> QED
        BY <4>1, Sizes, DivModIs
    <3> QED
      BY <1>2, <3>1, Sizes, MoreBlocks
  <2>11. fed + room = k + BlockSize /\ k + BlockSize + (size - room) = fed + size
    BY <1>1, <1>2, <1>3, <2>3, Sizes
  <2>12. Split(b, rest, fed + size)
    BY <2>5, <2>9, <2>10, <2>11 DEF Split
  <2> QED
    BY <2>2, <2>7, <2>12 DEF Front, b
<1> QED
  BY <1>4, <1>5

\* All whole blocks are given to body, and what is left fits into the buffer.
LEMMA WholeGiven ==
    ASSUME NEW a, NEW q, NEW n \in Nat, Split(a, q, n), NEW buf \in [1 .. BlockSize -> Byte],
           NEW w, w = (Len(q) \div BlockSize) * BlockSize,
           NEW b, b = IF w = 0 THEN a ELSE Body(a, SubSeq(q, 1, w)),
           NEW left, left = Put(buf, 0, SubSeq(q, w + 1, Len(q)))
    PROVE  /\ Run(b, 0) /\ Len(b) \in Nat /\ Len(b) % BlockSize = 0
           /\ n - Len(b) \in 0 .. BlockSize - 1 /\ Front(left, n - Len(b), Len(b))
<1>1. /\ Run(a, 0) /\ Run(q, Len(a)) /\ Len(a) \in Nat /\ Len(q) \in Nat
      /\ Len(a) + Len(q) = n /\ Len(a) % BlockSize = 0
  BY DEF Split, Run
<1>2. w \in Nat /\ w <= Len(q) /\ Len(q) - w \in 0 .. BlockSize - 1 /\ w % BlockSize = 0
  BY <1>1, WholeBlocks
<1> DEFINE x == SubSeq(q, w + 1, Len(q))
           y == SubSeq(q, 1, w)
<1>3. Run(x, Len(a) + w) /\ Len(x) = Len(q) - w
  BY <1>1, <1>2, RunSub
<1>4. Run(y, Len(a)) /\ Len(y) = w
  <2> DEFINE z == SubSeq(q, 0 + 1, w)
  <2>1. Run(z, Len(a) + 0) /\ Len(z) = w - 0
    <3>1. Run(q, Len(a)) /\ Len(a) \in Nat /\ w \in Nat /\ 0 <= w /\ w <= Len(q)
      BY <1>1, <1>2
    <3> QED
      BY <3>1, RunSub
  <2>2. z = y
    OBVIOUS
  <2> HIDE DEF z, y
  <2> QED
    BY <1>1, <1>2, <2>1, <2>2
<1>5. left = Put(buf, 0, x) /\ b = IF w = 0 THEN a ELSE Body(a, y)
  OBVIOUS
<1> HIDE DEF x, y
<1>6. Run(b, 0) /\ Len(b) = Len(a) + w
  <2>1. CASE w = 0
    BY <1>1, <1>5, <2>1
  <2>2. CASE w # 0
    BY <1>1, <1>2, <1>4, <1>5, <2>2, BodyRun
  <2> QED
    BY <2>1, <2>2
<1>7. Len(b) \in Nat /\ Len(b) % BlockSize = 0
  BY <1>1, <1>2, <1>6, MoreBlocks, SMTT(60)
<1>8. n - Len(b) = Len(x) /\ n - Len(b) \in 0 .. BlockSize - 1
  BY <1>1, <1>2, <1>3, <1>6, SMTT(60)
<1>9. Front(buf, 0, Len(b)) /\ Run(x, Len(b) + 0) /\ 0 + Len(x) = Len(x) /\ 0 + Len(x) <= BlockSize
  BY <1>1, <1>2, <1>3, <1>6, <1>8, Sizes DEF Front
<1>10. Front(left, 0 + Len(x), Len(b))
  <2>1. Front(Put(buf, 0, x), 0 + Len(x), Len(b))
    BY <1>7, <1>9, PutRun
  <2> QED
    BY <1>5, <2>1
<1> QED
  BY <1>6, <1>7, <1>8, <1>9, <1>10

\* MD5_Update keeps the invariant in each of its cases (md5.c:211-243).
LEMMA UpdateStep ==
    ASSUME TypeOK, pc = "update", Kept, NEW size \in 0 .. MaxPiece, MD5_Update(size)
    PROVE  TypeOK' /\ pc' = "update" /\ Kept'
<1> DEFINE n == fed + size
<1>1. size \in Nat /\ fed \in Nat /\ n \in Nat
  BY BoundsAssumption DEF TypeOK
<1>2. lo' = NewLo(size) /\ hi' = NewHi(size) /\ fed' = n /\ pc' = pc /\ result' = result
  BY DEF MD5_Update
<1>3. /\ lo' = n % LoModulus /\ hi' = (n \div LoModulus) % HiModulus
      /\ lo' \in 0 .. LoModulus - 1 /\ hi' \in 0 .. HiModulus - 1
  BY <1>1, <1>2, WordsStep
<1>4. Used' = n % BlockSize
  BY <1>1, <1>3, LowWord DEF Used
<1>5. Used \in 0 .. BlockSize - 1
  BY Sizes, DivMod DEF TypeOK, Used
<1> HIDE DEF n
<1>6. /\ Run(abcd', 0) /\ Len(abcd') \in Nat /\ Len(abcd') % BlockSize = 0
      /\ n - Len(abcd') \in 0 .. BlockSize - 1 /\ Front(buffer', n - Len(abcd'), Len(abcd'))
  <2>1. CASE Used # 0 /\ size < BlockSize - Used
    <3> DEFINE p == Piece(size)
    <3>1. abcd' = abcd /\ buffer' = Put(buffer, Used, p)
      BY <2>1 DEF MD5_Update
    <3>2. Run(p, fed) /\ Len(p) = size
      BY <1>1, PieceIsRun
    <3>3. /\ Run(abcd, 0) /\ Front(buffer, Used, Len(abcd)) /\ Len(abcd) \in Nat
          /\ Len(abcd) + Used = fed /\ Len(abcd) % BlockSize = 0
      BY DEF Kept, TypeOK
    <3> HIDE DEF p
    <3>4. Used \in Nat /\ Used + Len(p) <= BlockSize /\ Run(p, Len(abcd) + Used)
      BY <1>1, <1>5, <2>1, <3>2, <3>3, Sizes
    <3>5. Front(buffer', Used + Len(p), Len(abcd))
      BY <3>1, <3>3, <3>4, PutRun
    <3>6. n - Len(abcd) = Used + Len(p) /\ n - Len(abcd) \in 0 .. BlockSize - 1
      BY <1>1, <1>5, <2>1, <3>2, <3>3, Sizes DEF n
    <3> QED
      BY <3>1, <3>3, <3>5, <3>6
  <2>2. CASE ~(Used # 0 /\ size < BlockSize - Used)
    <3> DEFINE c == Completed(Piece(size))
               w == (Len(c.rest) \div BlockSize) * BlockSize
    <3>1. /\ abcd' = IF w = 0 THEN c.abcd ELSE Body(c.abcd, SubSeq(c.rest, 1, w))
          /\ buffer' = Put(c.buffer, 0, SubSeq(c.rest, w + 1, Len(c.rest)))
      BY <2>2 DEF MD5_Update
    <3>2. Used = 0 \/ size >= BlockSize - Used
      BY <1>1, <1>5, <2>2, Sizes
    <3> HIDE DEF c
    <3>3. c.buffer \in [1 .. BlockSize -> Byte] /\ Split(c.abcd, c.rest, n)
      BY <1>1, <3>2, CompletedIs DEF c, n
    <3> HIDE DEF w
    <3>4. w = (Len(c.rest) \div BlockSize) * BlockSize
      BY DEF w
    <3> QED
      BY <1>1, <3>1, <3>3, <3>4, WholeGiven
  <2> QED
    BY <2>1, <2>2
<1>7. Used' = n - Len(abcd')
  <2> DEFINE u == n - Len(abcd')
  <2>1. u \in 0 .. BlockSize - 1 /\ n = Len(abcd') + u
    BY <1>1, <1>6
  <2> HIDE DEF u
  <2>2. n % BlockSize = u
    BY <1>1, <1>6, <2>1, Blocks
  <2> QED
    BY <1>4, <2>2 DEF u
<1>8. abcd' \in Seq(Byte) /\ buffer' \in [1 .. BlockSize -> Byte]
  BY <1>6 DEF Run, Front
<1>9. TypeOK'
  BY <1>1, <1>2, <1>3, <1>8 DEF TypeOK
<1>10. Len(abcd') + Used' = n
  BY <1>1, <1>6, <1>7
<1>11. Kept'
  BY <1>2, <1>3, <1>6, <1>7, <1>10 DEF Kept
<1> QED
  BY <1>2, <1>9, <1>11

-----------------------------------------------------------------------------
(* MD5_Final *)

\* The bytes of the padding.
EndByte == <<"end", 0>>
LoByte(l) == <<"lo", l>>
HiByte(h) == <<"hi", h>>

\* q is p with m times the byte b behind it.
Extended(q, p, m, b) ==
    /\ q \in Seq(Byte) /\ Len(q) = Len(p) + m
    /\ \A i \in 1 .. Len(p) + m : q[i] = IF i <= Len(p) THEN p[i] ELSE b

\* A sequence with m equal bytes put behind it, byte by byte.
LEMMA ExtendedIs ==
    ASSUME NEW p \in Seq(Byte), NEW m \in Nat, NEW b \in Byte
    PROVE  Extended(p \o [k \in 1 .. m |-> b], p, m, b)
<1> DEFINE t == [k \in 1 .. m |-> b]
           q == p \o t
<1>1. t \in Seq(Byte) /\ Len(t) = m
  <2>1. t \in [1 .. m -> Byte]
    OBVIOUS
  <2> HIDE DEF t
  <2> QED
    BY <2>1, FunIsSeq
<1>2. \A k \in 1 .. m : t[k] = b
  OBVIOUS
<1> HIDE DEF t
<1>3. /\ q \in Seq(Byte) /\ Len(q) = Len(p) + Len(t)
      /\ \A i \in 1 .. Len(p) + Len(t) : q[i] = IF i <= Len(p) THEN p[i] ELSE t[i - Len(p)]
  BY <1>1, ConcatProperties
<1> HIDE DEF q
<1>4. ASSUME NEW i \in 1 .. Len(p) + m, ~(i <= Len(p)) PROVE q[i] = b
  <2>1. Len(p) \in Nat
    OBVIOUS
  <2>2. i - Len(p) \in 1 .. m
    BY <1>4, <2>1
  <2> QED
    BY <1>1, <1>2, <1>3, <1>4, <2>2
<1>5. Extended(q, p, m, b)
  BY <1>1, <1>3, <1>4 DEF Extended
<1> QED
  BY <1>5 DEF q, t

\* The end mark, the zeros and the bytes of the length are bytes.
LEMMA BytesTyped ==
    /\ EndByte \in Byte /\ Zero \in Byte
    /\ \A l \in Nat : LoByte(l) \in Byte /\ HiByte(l) \in Byte
  BY DEF EndByte, Zero, LoByte, HiByte, Byte

\* The message of n bytes, the end mark, z zeros and the length, byte by byte.
PadByte(i, n, z, l, h) ==
    IF i <= n THEN DataByte(i)
    ELSE IF i <= n + 1 THEN EndByte
    ELSE IF i <= n + 1 + z THEN Zero
    ELSE IF i <= n + 1 + z + WordSize THEN LoByte(l)
    ELSE HiByte(h)

\* q is the message of n bytes, the end mark, z zeros and the length.
IsPadded(q, n, z, l, h) ==
    /\ q \in Seq(Byte) /\ Len(q) = n + 1 + z + WordSize + WordSize
    /\ \A i \in 1 .. Len(q) : q[i] = PadByte(i, n, z, l, h)

\* There is one such sequence.
LEMMA PaddedUnique ==
    ASSUME NEW p, NEW q, NEW n, NEW z, NEW l, NEW h, IsPadded(p, n, z, l, h), IsPadded(q, n, z, l, h)
    PROVE  p = q
<1>1. p \in Seq(Byte) /\ q \in Seq(Byte) /\ Len(p) = Len(q)
  BY DEF IsPadded
<1>2. \A i \in 1 .. Len(p) : p[i] = q[i]
  BY <1>1 DEF IsPadded
<1> QED
  BY <1>1, <1>2, SeqEqual

\* The padding of the standard with z zeros, byte by byte.
LEMMA StandardIsPadded ==
    ASSUME NEW n \in Nat, NEW z \in Nat, NEW l \in Nat, NEW h \in Nat
    PROVE  IsPadded(Message(n) \o <<EndByte>> \o Zeros(z)
                    \o [k \in 1 .. WordSize |-> LoByte(l)]
                    \o [k \in 1 .. WordSize |-> HiByte(h)], n, z, l, h)
<1> DEFINE p1 == Message(n)
           p2 == p1 \o <<EndByte>>
           p3 == p2 \o Zeros(z)
           p4 == p3 \o [k \in 1 .. WordSize |-> LoByte(l)]
           p5 == p4 \o [k \in 1 .. WordSize |-> HiByte(h)]
<1>1. p1 \in Seq(Byte) /\ Len(p1) = n /\ \A i \in 1 .. n : p1[i] = DataByte(i)
  <2>1. p1 = [k \in 1 .. n |-> DataByte(k)]
    BY DEF Message, DataByte
  <2>2. \A k \in 1 .. n : DataByte(k) \in Byte
    BY DataIsByte
  <2>3. p1 \in [1 .. n -> Byte] /\ \A i \in 1 .. n : p1[i] = DataByte(i)
    BY <2>1, <2>2
  <2> HIDE DEF p1
  <2> QED
    BY <2>3, FunIsSeq
<1> HIDE DEF p1
<1>2. Extended(p2, p1, 1, EndByte)
  <2>1. <<EndByte>> = [k \in 1 .. 1 |-> EndByte]
    OBVIOUS
  <2> QED
    BY <1>1, <2>1, BytesTyped, ExtendedIs
<1> HIDE DEF p2
<1>3. Extended(p3, p2, z, Zero)
  <2>1. p2 \in Seq(Byte)
    BY <1>2 DEF Extended
  <2> QED
    BY <2>1, BytesTyped, ExtendedIs DEF Zeros
<1> HIDE DEF p3
<1>4. Extended(p4, p3, WordSize, LoByte(l))
  <2>1. p3 \in Seq(Byte)
    BY <1>3 DEF Extended
  <2> QED
    BY <2>1, BytesTyped, Sizes, ExtendedIs
<1> HIDE DEF p4
<1>5. Extended(p5, p4, WordSize, HiByte(h))
  <2>1. p4 \in Seq(Byte)
    BY <1>4 DEF Extended
  <2> QED
    BY <2>1, BytesTyped, Sizes, ExtendedIs
<1> HIDE DEF p5
<1>6. /\ Len(p2) = n + 1 /\ Len(p3) = n + 1 + z /\ Len(p4) = n + 1 + z + WordSize
      /\ Len(p5) = n + 1 + z + WordSize + WordSize /\ p5 \in Seq(Byte)
  BY <1>1, <1>2, <1>3, <1>4, <1>5 DEF Extended
<1>7. ASSUME NEW i \in 1 .. Len(p5) PROVE p5[i] = PadByte(i, n, z, l, h)
  <2>1. i \in Nat /\ i >= 1 /\ i <= n + 1 + z + WordSize + WordSize
    BY <1>6, Sizes
  <2>2. p5[i] = IF i <= n + 1 + z + WordSize THEN p4[i] ELSE HiByte(h)
    BY <1>5, <1>6, <2>1, Sizes DEF Extended
  <2>3. i <= n + 1 + z + WordSize => p4[i] = IF i <= n + 1 + z THEN p3[i] ELSE LoByte(l)
    BY <1>4, <1>6, <2>1, Sizes DEF Extended
  <2>4. i <= n + 1 + z => p3[i] = IF i <= n + 1 THEN p2[i] ELSE Zero
    BY <1>3, <1>6, <2>1 DEF Extended
  <2>5. i <= n + 1 => p2[i] = IF i <= n THEN p1[i] ELSE EndByte
    BY <1>1, <1>2, <1>6, <2>1 DEF Extended
  <2>6. i <= n => p1[i] = DataByte(i)
    BY <1>1, <2>1
  <2>7. (i <= n => i <= n + 1) /\ (i <= n + 1 => i <= n + 1 + z)
        /\ (i <= n + 1 + z => i <= n + 1 + z + WordSize)
    BY <2>1, Sizes
  <2> QED
    BY <2>2, <2>3, <2>4, <2>5, <2>6, <2>7 DEF PadByte
<1>8. IsPadded(p5, n, z, l, h)
  BY <1>6, <1>7 DEF IsPadded
<1> QED
  BY <1>8 DEF p5, p4, p3, p2, p1

\* LastBlock byte by byte: used bytes of buf, zeros, and the length.
Last(blk, buf, used) ==
    /\ blk \in [1 .. BlockSize -> Byte]
    /\ \A i \in 1 .. BlockSize :
          blk[i] = IF i <= used THEN buf[i]
                   ELSE IF i <= BlockSize - WordSize - WordSize THEN Zero
                   ELSE IF i <= BlockSize - WordSize THEN LoByte(lo)
                   ELSE HiByte(hi)

\* The last block: what is buffered, zeros, and the two words of the length
\* (md5.c:262-272).
LEMMA LastBlockIs ==
    ASSUME lo \in Nat, hi \in Nat, NEW buf \in [1 .. BlockSize -> Byte], NEW used \in Nat,
           used + WordSize + WordSize <= BlockSize
    PROVE  Last(LastBlock(buf, used), buf, used)
<1> DEFINE z == BlockSize - 2 * WordSize - used
           d1 == Zeros(z)
           d2 == d1 \o [k \in 1 .. WordSize |-> LoByte(lo)]
           d3 == d2 \o [k \in 1 .. WordSize |-> HiByte(hi)]
           blk == Put(buf, used, d3)
<1>1. LastBlock(buf, used) = blk
  BY DEF LastBlock, LoByte, HiByte
<1>2. z \in Nat /\ z + WordSize + WordSize + used = BlockSize
  BY Sizes
<1> HIDE DEF z
<1>3. d1 \in Seq(Byte) /\ Len(d1) = z /\ \A i \in 1 .. z : d1[i] = Zero
  <2>1. d1 \in [1 .. z -> Byte] /\ \A i \in 1 .. z : d1[i] = Zero
    BY BytesTyped DEF Zeros
  <2> HIDE DEF d1
  <2> QED
    BY <1>2, <2>1, FunIsSeq
<1> HIDE DEF d1
<1>4. Extended(d2, d1, WordSize, LoByte(lo))
  BY <1>3, BytesTyped, Sizes, ExtendedIs
<1> HIDE DEF d2
<1>5. Extended(d3, d2, WordSize, HiByte(hi))
  <2>1. d2 \in Seq(Byte)
    BY <1>4 DEF Extended
  <2> QED
    BY <2>1, BytesTyped, Sizes, ExtendedIs
<1> HIDE DEF d3
<1>6. d3 \in Seq(Byte) /\ Len(d2) = z + WordSize /\ Len(d3) = z + WordSize + WordSize
  BY <1>3, <1>4, <1>5 DEF Extended
<1>7. /\ blk \in [1 .. BlockSize -> Byte]
      /\ \A i \in 1 .. BlockSize : blk[i] = IF i - used \in 1 .. Len(d3) THEN d3[i - used] ELSE buf[i]
  BY <1>6, PutIs
<1> HIDE DEF blk
<1>8. ASSUME NEW i \in 1 .. BlockSize
      PROVE  blk[i] = IF i <= used THEN buf[i]
                      ELSE IF i <= BlockSize - WordSize - WordSize THEN Zero
                      ELSE IF i <= BlockSize - WordSize THEN LoByte(lo)
                      ELSE HiByte(hi)
  <2>1. CASE i <= used
    BY <1>6, <1>7, <2>1, Sizes
  <2>2. CASE i > used
    <3> DEFINE j == i - used
    <3>1. j \in 1 .. Len(d3) /\ j \in Nat /\ j >= 1
      BY <1>2, <1>6, <2>2, Sizes
    <3>2. /\ (i <= BlockSize - WordSize <=> j <= z + WordSize)
          /\ (i <= BlockSize - WordSize - WordSize <=> j <= z)
          /\ (j <= z => j <= z + WordSize)
      BY <1>2, Sizes
    <3>3. blk[i] = d3[j]
      BY <1>7, <3>1
    <3> HIDE DEF j
    <3>4. d3[j] = IF j <= z + WordSize THEN d2[j] ELSE HiByte(hi)
      BY <1>5, <1>6, <3>1 DEF Extended
    <3>5. j <= z + WordSize => d2[j] = IF j <= z THEN d1[j] ELSE LoByte(lo)
      BY <1>3, <1>4, <1>6, <3>1, Sizes, SMTT(60) DEF Extended
    <3>6. j <= z => d1[j] = Zero
      BY <1>3, <3>1
    <3>7. ~(i <= used)
      BY <2>2
    <3> QED
      BY <3>2, <3>3, <3>4, <3>5, <3>6, <3>7
  <2> QED
    BY <2>1, <2>2
<1>9. Last(blk, buf, used)
  BY <1>7, <1>8 DEF Last
<1> QED
  BY <1>1, <1>9

\* There is one number of zeros that makes whole blocks.
LEMMA ZerosUnique ==
    ASSUME NEW c \in Int, NEW y \in 0 .. BlockSize - 1, NEW z \in 0 .. BlockSize - 1,
           (c + y) % BlockSize = 0, (c + z) % BlockSize = 0
    PROVE  y = z
<1> DEFINE a == c + y
           b == c + z
           p == a \div BlockSize
           q == b \div BlockSize
<1>1. a \in Int /\ b \in Int /\ a - y = b - z
  BY Sizes
<1>2. a % BlockSize = 0 /\ b % BlockSize = 0
  OBVIOUS
<1> HIDE DEF a, b
<1>3. p \in Int /\ q \in Int /\ a = BlockSize * p /\ b = BlockSize * q
  BY <1>1, <1>2, Sizes, DivMod
<1> HIDE DEF p, q
<1>4. BlockSize * p + z = BlockSize * q + y
  BY <1>1, <1>3, Sizes
<1> QED
  BY <1>3, <1>4, Sizes, DivModUnique

\* A sequence padded with as many zeros as make whole blocks is what the
\* standard says.
LEMMA PaddedIs ==
    ASSUME NEW n \in Nat, NEW z \in 0 .. BlockSize - 1,
           (n + 1 + z + 2 * WordSize) % BlockSize = 0,
           NEW q, IsPadded(q, n, z, n % LoModulus, (n \div LoModulus) % HiModulus)
    PROVE  q = Padded(n)
<1> DEFINE Fill(y) == (n + 1 + y + 2 * WordSize) % BlockSize = 0
           zeros == CHOOSE y \in 0 .. BlockSize - 1 : Fill(y)
           l == n % LoModulus
           h == (n \div LoModulus) % HiModulus
<1>1. zeros \in 0 .. BlockSize - 1 /\ Fill(zeros)
  <2>1. Fill(z)
    OBVIOUS
  <2> HIDE DEF Fill
  <2> QED
    BY <2>1
<1>2. Padded(n) = Message(n) \o <<EndByte>> \o Zeros(zeros)
                  \o [k \in 1 .. WordSize |-> LoByte(l)] \o [k \in 1 .. WordSize |-> HiByte(h)]
  BY DEF Padded, EndByte, LoByte, HiByte
<1>3. l \in Nat /\ h \in Nat
  <2>1. n \div LoModulus \in Int
    BY Sizes, DivMod
  <2> QED
    BY <2>1, Sizes, DivMod
<1>4. zeros = z
  <2> DEFINE c == n + 1 + 2 * WordSize
  <2> HIDE DEF zeros
  <2>1. c \in Int /\ c + zeros = n + 1 + zeros + 2 * WordSize /\ c + z = n + 1 + z + 2 * WordSize
    BY <1>1, Sizes
  <2>2. (c + zeros) % BlockSize = 0 /\ (c + z) % BlockSize = 0
    BY <1>1, <2>1
  <2> HIDE DEF c
  <2> QED
    BY <1>1, <2>1, <2>2, ZerosUnique
<1> HIDE DEF l, h, zeros
<1>5. z \in Nat
  BY Sizes
<1>6. IsPadded(Padded(n), n, z, l, h)
  BY <1>2, <1>3, <1>4, <1>5, StandardIsPadded
<1>7. IsPadded(q, n, z, l, h)
  BY DEF l, h
<1> QED
  BY <1>6, <1>7, PaddedUnique

\* A buffer with u bytes of the message, those behind the first k, and the end mark.
Marked(buf, u, k) ==
    /\ buf \in [1 .. BlockSize -> Byte]
    /\ \A i \in 1 .. u : buf[i] = DataByte(k + i)
    /\ buf[u + 1] = EndByte

\* The buffer with the end mark put behind its front (md5.c:251).
LEMMA MarkedIs ==
    ASSUME NEW buf, NEW u \in 0 .. BlockSize - 1, NEW k \in Nat, Front(buf, u, k)
    PROVE  Marked(Put(buf, u, <<EndByte>>), u, k)
<1> DEFINE d == <<EndByte>>
           w == Put(buf, u, d)
<1>1. d \in Seq(Byte) /\ Len(d) = 1 /\ d[1] = EndByte
  BY BytesTyped
<1> HIDE DEF d
<1>2. /\ w \in [1 .. BlockSize -> Byte]
      /\ \A i \in 1 .. BlockSize : w[i] = IF i - u \in 1 .. Len(d) THEN d[i - u] ELSE buf[i]
  <2>1. u \in Nat /\ buf \in [1 .. BlockSize -> Byte]
    BY Sizes DEF Front
  <2> QED
    BY <1>1, <2>1, PutIs
<1> HIDE DEF w
<1>3. ASSUME NEW i \in 1 .. u PROVE w[i] = DataByte(k + i)
  <2>1. w[i] = buf[i]
    BY <1>1, <1>2, Sizes
  <2> QED
    BY <2>1 DEF Front
<1>4. w[u + 1] = EndByte
  <2>1. u + 1 \in 1 .. BlockSize /\ u + 1 - u = 1
    BY Sizes
  <2> QED
    BY <1>1, <1>2, <2>1
<1>5. Marked(w, u, k)
  BY <1>2, <1>3, <1>4 DEF Marked
<1> QED
  BY <1>5 DEF w, d

\* The rest of the block cleared.
LEMMA ClearedIs ==
    ASSUME NEW buf, NEW u \in 0 .. BlockSize - 1, NEW k \in Nat, Marked(buf, u, k),
           NEW w, w = Put(buf, u + 1, Zeros(BlockSize - (u + 1)))
    PROVE  Marked(w, u, k) /\ \A i \in u + 2 .. BlockSize : w[i] = Zero
<1> DEFINE m == BlockSize - (u + 1)
           d == Zeros(m)
<1>1. m \in Nat /\ m + u + 1 = BlockSize
  BY Sizes
<1> HIDE DEF m
<1>2. d \in [1 .. m -> Byte] /\ \A i \in 1 .. m : d[i] = Zero
  BY BytesTyped DEF Zeros
<1> HIDE DEF d
<1>3. d \in Seq(Byte) /\ Len(d) = m
  BY <1>1, <1>2, FunIsSeq
<1>4. u + 1 \in Nat /\ buf \in [1 .. BlockSize -> Byte]
  BY Sizes DEF Marked
<1>5. w = Put(buf, u + 1, d)
  BY DEF d, m
<1>6. /\ w \in [1 .. BlockSize -> Byte]
      /\ \A i \in 1 .. BlockSize :
            w[i] = IF i - (u + 1) \in 1 .. Len(d) THEN d[i - (u + 1)] ELSE buf[i]
  <2> DEFINE v == u + 1
  <2>1. v \in Nat /\ w = Put(buf, v, d)
    BY <1>4, <1>5
  <2> HIDE DEF v
  <2>2. /\ w \in [1 .. BlockSize -> Byte]
        /\ \A i \in 1 .. BlockSize : w[i] = IF i - v \in 1 .. Len(d) THEN d[i - v] ELSE buf[i]
    <3> DEFINE x == Put(buf, v, d)
    <3>1. /\ x \in [1 .. BlockSize -> Byte]
          /\ \A i \in 1 .. BlockSize : x[i] = IF i - v \in 1 .. Len(d) THEN d[i - v] ELSE buf[i]
      BY <1>3, <1>4, <2>1, PutIs, ZenonT(60)
    <3> HIDE DEF x
    <3>2. w = x
      BY <2>1 DEF x
    <3> QED
      BY <3>1, <3>2
  <2> QED
    BY <2>2 DEF v
<1>7. ASSUME NEW i \in 1 .. u + 1 PROVE w[i] = buf[i]
  BY <1>1, <1>3, <1>6
<1>8. ASSUME NEW i \in u + 2 .. BlockSize PROVE w[i] = Zero
  <2>1. i - (u + 1) \in 1 .. m /\ i \in 1 .. BlockSize
    BY <1>1, Sizes
  <2> QED
    BY <1>2, <1>3, <1>6, <2>1
<1>9. Marked(w, u, k)
  <2>1. u + 1 \in 1 .. u + 1 /\ \A i \in 1 .. u : i \in 1 .. u + 1
    OBVIOUS
  <2> QED
    BY <1>6, <1>7, <2>1 DEF Marked
<1> QED
  BY <1>8, <1>9

\* A block given to body behind a.
LEMMA BodyBlock ==
    ASSUME NEW a \in Seq(Byte), NEW blk \in [1 .. BlockSize -> Byte],
           NEW q, q = Body(a, blk)
    PROVE  /\ q \in Seq(Byte) /\ Len(q) = Len(a) + BlockSize
           /\ \A i \in 1 .. Len(a) : q[i] = a[i]
           /\ \A i \in 1 .. BlockSize : q[Len(a) + i] = blk[i]
<1>1. blk \in Seq(Byte) /\ Len(blk) = BlockSize
  BY Sizes, FunIsSeq
<1>2. q = a \o blk
  <2>1. blk # <<>>
    BY <1>1, Sizes
  <2> QED
    BY <2>1 DEF Body
<1>3. /\ q \in Seq(Byte) /\ Len(q) = Len(a) + Len(blk)
      /\ \A i \in 1 .. Len(a) + Len(blk) : q[i] = IF i <= Len(a) THEN a[i] ELSE blk[i - Len(a)]
  BY <1>1, <1>2, ConcatProperties, ZenonT(60)
<1>4. Len(a) \in Nat
  OBVIOUS
<1>5. ASSUME NEW i \in 1 .. Len(a) PROVE q[i] = a[i]
  BY <1>1, <1>3, <1>4, Sizes
<1>6. ASSUME NEW i \in 1 .. BlockSize PROVE q[Len(a) + i] = blk[i]
  <2>1. Len(a) + i \in 1 .. Len(a) + Len(blk) /\ ~(Len(a) + i <= Len(a)) /\ Len(a) + i - Len(a) = i
    BY <1>1, <1>4, Sizes
  <2> QED
    BY <1>3, <2>1
<1> QED
  BY <1>1, <1>3, <1>5, <1>6

\* The end mark and the length in one block.
LEMMA OneBlock ==
    ASSUME lo \in Nat, hi \in Nat, NEW a, Run(a, 0), NEW k, k = Len(a),
           NEW u \in 0 .. BlockSize - 1, NEW buf, Marked(buf, u, k),
           u + 1 + WordSize + WordSize <= BlockSize,
           NEW blk, Last(blk, buf, u + 1), NEW q, q = Body(a, blk),
           NEW z, z = BlockSize - 2 * WordSize - (u + 1)
    PROVE  IsPadded(q, k + u, z, lo, hi)
<1>1. a \in Seq(Byte) /\ k \in Nat /\ \A i \in 1 .. k : a[i] = DataByte(i)
  BY DEF Run
<1>2. /\ q \in Seq(Byte) /\ Len(q) = k + BlockSize
      /\ \A i \in 1 .. k : q[i] = a[i]
      /\ \A i \in 1 .. BlockSize : q[k + i] = blk[i]
  <2>1. blk \in [1 .. BlockSize -> Byte]
    BY DEF Last
  <2> QED
    BY <1>1, <2>1, BodyBlock, ZenonT(60)
<1>3. z \in Nat /\ u + 1 + z + WordSize + WordSize = BlockSize
  BY Sizes
<1>4. ASSUME NEW i \in 1 .. Len(q) PROVE q[i] = PadByte(i, k + u, z, lo, hi)
  <2>1. CASE i <= k
    <3>1. q[i] = DataByte(i) /\ i <= k + u
      BY <1>1, <1>2, <2>1, Sizes
    <3> QED
      BY <3>1 DEF PadByte
  <2>2. CASE i > k
    <3> DEFINE j == i - k
    <3>1. j \in 1 .. BlockSize /\ i = k + j
      BY <1>1, <1>2, <2>2, Sizes, SMTT(60)
    <3> HIDE DEF j
    <3>2. q[i] = blk[j]
      BY <1>2, <3>1
    <3>3. blk[j] = IF j <= u + 1 THEN buf[j]
                   ELSE IF j <= BlockSize - WordSize - WordSize THEN Zero
                   ELSE IF j <= BlockSize - WordSize THEN LoByte(lo)
                   ELSE HiByte(hi)
      BY <3>1 DEF Last
    <3>4. j <= u => buf[j] = DataByte(i)
      BY <3>1 DEF Marked
    <3>5. j <= u + 1 /\ ~(j <= u) => buf[j] = EndByte
      <4>1. j <= u + 1 /\ ~(j <= u) => j = u + 1
        BY <3>1, Sizes
      <4> QED
        BY <4>1 DEF Marked
    <3>6. /\ (i <= k + u <=> j <= u) /\ (i <= k + u + 1 <=> j <= u + 1) /\ (j <= u => j <= u + 1)
          /\ (i <= k + u + 1 + z <=> j <= BlockSize - WordSize - WordSize)
          /\ (i <= k + u + 1 + z + WordSize <=> j <= BlockSize - WordSize)
      BY <1>1, <1>3, <3>1, Sizes
    <3> QED
      BY <3>2, <3>3, <3>4, <3>5, <3>6 DEF PadByte
  <2> QED
    BY <1>1, <1>2, <2>1, <2>2, Sizes
<1>5. Len(q) = k + u + 1 + z + WordSize + WordSize
  <2>1. Len(q) = k + BlockSize /\ k \in Nat
    BY <1>1, <1>2
  <2> QED
    BY <1>3, <2>1, Sizes
<1> QED
  BY <1>2, <1>4, <1>5 DEF IsPadded

\* The end mark in one block, the length in another.
LEMMA TwoBlocks ==
    ASSUME lo \in Nat, hi \in Nat, NEW a, Run(a, 0), NEW k, k = Len(a),
           NEW u \in 0 .. BlockSize - 1, NEW buf, Marked(buf, u, k),
           \A i \in u + 2 .. BlockSize : buf[i] = Zero,
           NEW blk, Last(blk, buf, 0), NEW p, p = Body(a, buf), NEW q, q = Body(p, blk),
           NEW z, z = BlockSize + (BlockSize - 2 * WordSize - (u + 1))
    PROVE  IsPadded(q, k + u, z, lo, hi)
<1>1. a \in Seq(Byte) /\ k \in Nat /\ \A i \in 1 .. k : a[i] = DataByte(i)
  BY DEF Run
<1>2. /\ p \in Seq(Byte) /\ Len(p) = k + BlockSize
      /\ \A i \in 1 .. k : p[i] = a[i]
      /\ \A i \in 1 .. BlockSize : p[k + i] = buf[i]
  <2>1. buf \in [1 .. BlockSize -> Byte]
    BY DEF Marked
  <2> QED
    BY <1>1, <2>1, BodyBlock, ZenonT(60)
<1>3. /\ q \in Seq(Byte) /\ Len(q) = k + BlockSize + BlockSize
      /\ \A i \in 1 .. k + BlockSize : q[i] = p[i]
      /\ \A i \in 1 .. BlockSize : q[k + BlockSize + i] = blk[i]
  <2>1. blk \in [1 .. BlockSize -> Byte]
    BY DEF Last
  <2>2. /\ q \in Seq(Byte) /\ Len(q) = Len(p) + BlockSize
        /\ \A i \in 1 .. Len(p) : q[i] = p[i]
        /\ \A i \in 1 .. BlockSize : q[Len(p) + i] = blk[i]
    <3>1. p \in Seq(Byte)
      BY <1>2
    <3> QED
      BY <2>1, <3>1, BodyBlock, ZenonT(60)
  <2> QED
    BY <1>2, <2>2
<1>4. z \in Nat /\ u + 1 + z + WordSize + WordSize = BlockSize + BlockSize
  BY Sizes
<1>5. ASSUME NEW i \in 1 .. Len(q) PROVE q[i] = PadByte(i, k + u, z, lo, hi)
  <2>1. CASE i <= k
    <3>1. i \in 1 .. k /\ i \in 1 .. k + BlockSize /\ i <= k + u
      BY <1>1, <1>3, <2>1, Sizes
    <3>2. q[i] = DataByte(i)
      BY <1>1, <1>2, <1>3, <3>1
    <3> QED
      BY <3>1, <3>2 DEF PadByte
  <2>2. CASE i > k /\ i <= k + BlockSize
    <3> DEFINE j == i - k
    <3>1. j \in 1 .. BlockSize /\ i = k + j /\ i \in 1 .. k + BlockSize
      BY <1>1, <1>3, <2>2, Sizes
    <3> HIDE DEF j
    <3>2. q[i] = buf[j]
      BY <1>2, <1>3, <3>1
    <3>3. j <= u => buf[j] = DataByte(i)
      BY <3>1 DEF Marked
    <3>4. j <= u + 1 /\ ~(j <= u) => buf[j] = EndByte
      <4>1. j <= u + 1 /\ ~(j <= u) => j = u + 1
        BY <3>1, Sizes
      <4> QED
        BY <4>1 DEF Marked
    <3>5. ~(j <= u + 1) => buf[j] = Zero
      BY <3>1, Sizes
    <3>6. /\ (i <= k + u <=> j <= u) /\ (i <= k + u + 1 <=> j <= u + 1) /\ (j <= u => j <= u + 1)
          /\ i <= k + u + 1 + z
      BY <1>1, <1>4, <3>1, Sizes
    <3> QED
      BY <3>2, <3>3, <3>4, <3>5, <3>6 DEF PadByte
  <2>3. CASE i > k + BlockSize
    <3> DEFINE j == i - (k + BlockSize)
    <3>1. j \in 1 .. BlockSize /\ i = k + BlockSize + j
      <4>1. k \in Nat /\ Len(q) = k + BlockSize + BlockSize
        BY <1>1, <1>3
      <4> QED
        BY <2>3, <4>1, Sizes
    <3> HIDE DEF j
    <3>2. q[i] = blk[j] /\ ~(j <= 0)
      BY <1>3, <3>1, Sizes
    <3>3. blk[j] = IF j <= 0 THEN buf[j]
                   ELSE IF j <= BlockSize - WordSize - WordSize THEN Zero
                   ELSE IF j <= BlockSize - WordSize THEN LoByte(lo)
                   ELSE HiByte(hi)
      BY <3>1 DEF Last
    <3>4. /\ ~(i <= k + u) /\ ~(i <= k + u + 1)
          /\ (i <= k + u + 1 + z <=> j <= BlockSize - WordSize - WordSize)
          /\ (i <= k + u + 1 + z + WordSize <=> j <= BlockSize - WordSize)
      BY <1>1, <1>4, <3>1, Sizes
    <3> QED
      BY <3>2, <3>3, <3>4 DEF PadByte
  <2> QED
    BY <1>1, <1>3, <2>1, <2>2, <2>3, Sizes
<1>6. Len(q) = k + u + 1 + z + WordSize + WordSize
  <2>1. Len(q) = k + BlockSize + BlockSize /\ k \in Nat
    BY <1>1, <1>3
  <2> QED
    BY <1>4, <2>1, Sizes
<1> QED
  BY <1>3, <1>5, <1>6 DEF IsPadded

\* The two hashes: the words are given the padded message in either case.
LEMMA FinalStep ==
    ASSUME TypeOK, Kept, MD5_Final
    PROVE  TypeOK' /\ result' = Padded(fed)
<1> DEFINE k == Len(abcd)
           u == Used
           ended == Put(buffer, u, <<EndByte>>)
           filled == Put(ended, u + 1, Zeros(BlockSize - (u + 1)))
<1>1. /\ fed \in Nat /\ lo \in Nat /\ hi \in Nat /\ k \in Nat
      /\ Run(abcd, 0) /\ Front(buffer, u, k) /\ k + u = fed /\ k % BlockSize = 0
      /\ lo = fed % LoModulus /\ hi = (fed \div LoModulus) % HiModulus
  BY Sizes DEF TypeOK, Kept
<1>2. u \in 0 .. BlockSize - 1
  BY Sizes, DivMod DEF TypeOK, Used
<1>3. /\ result' = IF LengthFits(u + 1) THEN Body(abcd, LastBlock(ended, u + 1))
                   ELSE Body(Body(abcd, filled), LastBlock(filled, 0))
      /\ pc' = "done" /\ lo' = 0 /\ hi' = 0 /\ abcd' = <<>> /\ buffer' = Zeros(BlockSize)
      /\ fed' = fed
  BY DEF MD5_Final, EndByte
<1> HIDE DEF u, k
<1>4. Marked(ended, u, k)
  BY <1>1, <1>2, MarkedIs
<1>5. ended \in [1 .. BlockSize -> Byte]
  BY <1>4 DEF Marked
<1> HIDE DEF ended
<1>6. (k + BlockSize) % BlockSize = 0 /\ (k + BlockSize + BlockSize) % BlockSize = 0
  <2>1. BlockSize % BlockSize = 0
    <3>1. BlockSize = BlockSize * 1 + 0 /\ 0 \in 0 .. BlockSize - 1 /\ BlockSize \in Int
      BY Sizes
    <3> QED
      BY <3>1, Sizes, DivModIs
  <2>2. k + BlockSize \in Nat /\ (k + BlockSize) % BlockSize = 0
    BY <1>1, <2>1, Sizes, MoreBlocks
  <2> QED
    BY <2>1, <2>2, Sizes, MoreBlocks
<1>7. ASSUME LengthFits(u + 1) PROVE result' = Padded(fed) /\ result' \in Seq(Byte)
  <2> DEFINE z == BlockSize - 2 * WordSize - (u + 1)
             blk == LastBlock(ended, u + 1)
  <2>1. /\ u + 1 \in Nat /\ u + 1 + WordSize + WordSize <= BlockSize
        /\ z \in 0 .. BlockSize - 1 /\ fed + 1 + z + 2 * WordSize = k + BlockSize
    BY <1>1, <1>2, <1>7, Sizes DEF LengthFits
  <2>2. Last(blk, ended, u + 1)
    BY <1>1, <1>5, <2>1, LastBlockIs
  <2>3. result' = Body(abcd, blk)
    BY <1>3, <1>7
  <2> HIDE DEF blk
  <2>4. IsPadded(result', k + u, z, lo, hi)
    BY <1>1, <1>2, <1>4, <2>1, <2>2, <2>3, OneBlock DEF k
  <2> HIDE DEF z
  <2>5. IsPadded(result', fed, z, fed % LoModulus, (fed \div LoModulus) % HiModulus)
    BY <1>1, <2>4
  <2>6. (fed + 1 + z + 2 * WordSize) % BlockSize = 0
    BY <1>6, <2>1
  <2>7. result' \in Seq(Byte)
    BY <2>4 DEF IsPadded
  <2> QED
    BY <1>1, <2>1, <2>5, <2>6, <2>7, PaddedIs
<1>8. ASSUME ~LengthFits(u + 1) PROVE result' = Padded(fed) /\ result' \in Seq(Byte)
  <2> DEFINE z == BlockSize + (BlockSize - 2 * WordSize - (u + 1))
             blk == LastBlock(filled, 0)
             p == Body(abcd, filled)
  <2>1. z \in 0 .. BlockSize - 1 /\ fed + 1 + z + 2 * WordSize = k + BlockSize + BlockSize
    BY <1>1, <1>2, <1>8, Sizes DEF LengthFits
  <2>2. Marked(filled, u, k) /\ \A i \in u + 2 .. BlockSize : filled[i] = Zero
    BY <1>1, <1>2, <1>4, ClearedIs
  <2> HIDE DEF filled
  <2>3. filled \in [1 .. BlockSize -> Byte] /\ 0 + WordSize + WordSize <= BlockSize
    BY <2>2, Sizes DEF Marked
  <2>4. Last(blk, filled, 0)
    BY <1>1, <2>3, LastBlockIs
  <2>5. result' = Body(p, blk)
    BY <1>3, <1>8
  <2> HIDE DEF blk, p
  <2>6. IsPadded(result', k + u, z, lo, hi)
    <3>1. p = Body(abcd, filled) /\ k = Len(abcd)
      BY DEF p, k
    <3> QED
      BY <1>1, <1>2, <2>2, <2>4, <2>5, <3>1, TwoBlocks
  <2> HIDE DEF z
  <2>7. IsPadded(result', fed, z, fed % LoModulus, (fed \div LoModulus) % HiModulus)
    BY <1>1, <2>6
  <2>8. (fed + 1 + z + 2 * WordSize) % BlockSize = 0
    BY <1>6, <2>1
  <2>9. result' \in Seq(Byte)
    BY <2>6 DEF IsPadded
  <2> QED
    BY <1>1, <2>1, <2>7, <2>8, <2>9, PaddedIs
<1>9. result' = Padded(fed) /\ result' \in Seq(Byte)
  BY <1>7, <1>8
<1>10. buffer' \in [1 .. BlockSize -> Byte]
  BY <1>3, BytesTyped DEF Zeros
<1> QED
  BY <1>1, <1>3, <1>9, <1>10, Sizes DEF TypeOK

\* MD5_Init begins a message of which nothing was fed.
LEMMA InitStep ==
    ASSUME TypeOK, MD5_Init
    PROVE  TypeOK' /\ pc' = "update" /\ Kept'
<1>1. /\ pc' = "update" /\ lo' = 0 /\ hi' = 0 /\ abcd' = <<>> /\ fed' = 0
      /\ buffer' = buffer /\ result' = result
  BY DEF MD5_Init
<1>2. TypeOK'
  BY <1>1, Sizes DEF TypeOK
<1>3. 0 % BlockSize = 0 /\ 0 % LoModulus = 0 /\ (0 \div LoModulus) % HiModulus = 0
  BY NoBlocks
<1>4. Used' = 0 /\ Len(abcd') = 0
  BY <1>1, <1>3 DEF Used
<1>5. Run(abcd', 0) /\ Front(buffer', Used', Len(abcd'))
  BY <1>1, <1>4 DEF Run, Front, TypeOK
<1>6. Kept'
  BY <1>1, <1>3, <1>4, <1>5 DEF Kept
<1> QED
  BY <1>1, <1>2, <1>6

\* Every step keeps the invariant.
LEMMA Invariance == IInv /\ [Next]_vars => IInv'
<1> SUFFICES ASSUME IInv, [Next]_vars PROVE IInv'
  OBVIOUS
<1>1. TypeOK /\ (pc = "update" => Kept) /\ HashIsStandard
  BY DEF IInv
<1>2. ASSUME NEW size \in 0 .. MaxPiece, MD5_Update(size) PROVE IInv'
  <2>1. pc = "update"
    BY <1>2 DEF MD5_Update
  <2>2. TypeOK' /\ pc' = "update" /\ Kept'
    BY <1>1, <1>2, <2>1, UpdateStep
  <2> QED
    BY <2>2 DEF IInv, HashIsStandard
<1>3. CASE MD5_Final
  <2>1. pc = "update" /\ pc' = "done" /\ fed' = fed
    BY <1>3 DEF MD5_Final
  <2>2. TypeOK' /\ result' = Padded(fed)
    BY <1>1, <1>3, <2>1, FinalStep
  <2>3. HashIsStandard'
    BY <2>1, <2>2 DEF HashIsStandard
  <2> QED
    BY <2>1, <2>2, <2>3 DEF IInv
<1>4. CASE MD5_Init
  <2>1. TypeOK' /\ pc' = "update" /\ Kept'
    BY <1>1, <1>4, InitStep
  <2> QED
    BY <2>1 DEF IInv, HashIsStandard
<1>5. CASE UNCHANGED vars
  BY <1>1, <1>5 DEF vars, IInv, TypeOK, HashIsStandard, Kept, Used
<1> QED
  BY <1>2, <1>3, <1>4, <1>5 DEF Next

\* Together they are the message.
LEMMA KeptIsMessage ==
    ASSUME TypeOK, Kept
    PROVE  abcd \o SubSeq(buffer, 1, Used) = Message(fed)
<1>1. Used \in 0 .. BlockSize - 1
  BY Sizes, DivMod DEF TypeOK, Used
<1>2. /\ Run(abcd, 0) /\ Front(buffer, Used, Len(abcd)) /\ Len(abcd) \in Nat
      /\ Len(abcd) + Used = fed
  BY DEF Kept, TypeOK
<1> DEFINE x == SubSeq(buffer, 1, Used)
<1>3. Run(x, Len(abcd)) /\ Len(x) = Used
  <2>1. buffer \in [1 .. BlockSize -> Byte]
    BY DEF TypeOK
  <2>2. 1 \in Int /\ Used \in Int /\ \A i \in 1 .. Used : buffer[i] \in Byte
    BY <1>1, <2>1, Sizes
  <2>3. /\ x \in Seq(Byte) /\ Len(x) = IF 1 <= Used THEN Used - 1 + 1 ELSE 0
        /\ \A i \in 1 .. Used - 1 + 1 : x[i] = buffer[1 + i - 1]
    BY <2>2, SubSeqProperties
  <2> HIDE DEF x
  <2>4. Len(x) = Used
    BY <1>1, <2>3, Sizes
  <2>5. ASSUME NEW i \in 1 .. Used PROVE x[i] = DataByte(Len(abcd) + i)
    <3>1. i \in 1 .. Used - 1 + 1 /\ 1 + i - 1 = i
      BY <1>1, Sizes
    <3>2. x[i] = buffer[i]
      BY <2>3, <3>1
    <3> QED
      BY <1>2, <3>2 DEF Front
  <2> QED
    BY <2>3, <2>4, <2>5 DEF Run
<1> HIDE DEF x
<1>4. Run(x, 0 + Len(abcd))
  BY <1>2, <1>3
<1>5. Run(abcd \o x, 0) /\ Len(abcd \o x) = Len(abcd) + Len(x)
  BY <1>2, <1>4, RunConcat
<1>6. Len(abcd \o x) = fed
  BY <1>2, <1>3, <1>5
<1>7. abcd \o x = Message(fed)
  BY <1>5, <1>6, RunIsMessage
<1> QED
  BY <1>7 DEF x

\* The invariant holds of every state Md5 reaches.
THEOREM Inductive == Spec => []IInv
  BY InvInit, Invariance, PTL DEF Spec

\* md5.c: the words stay in their width and the context a buffer of one block,
\* through any sequence of MD5_Init, MD5_Update and MD5_Final.
THEOREM TypeCorrect == Spec => []TypeOK
<1>1. IInv => TypeOK
  BY DEF IInv
<1> QED
  BY <1>1, Inductive, PTL

\* MD5_Update: for every size of block and word, however the message is cut into
\* pieces, what body was given in whole blocks and what waits in the buffer are
\* together the message, and the two words hold its length, wrapped or not.
THEOREM UpdateLosesNothing == Spec => []NothingLost
<1>1. IInv => NothingLost
  BY KeptIsMessage DEF IInv, NothingLost, Kept
<1> QED
  BY <1>1, Inductive, PTL

\* MD5_Final: whatever number of bytes is left over, and wherever the message was
\* cut, the words are given the message padded as the standard says.
THEOREM HashOfPadded == Spec => []HashIsStandard
<1>1. IInv => HashIsStandard
  BY DEF IInv
<1> QED
  BY <1>1, Inductive, PTL
=============================================================================
