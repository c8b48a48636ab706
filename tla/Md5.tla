-------------------------------- MODULE Md5 --------------------------------
(***************************************************************************)
(* tools/tplink-safeloader/md5.c: a hash of a message that comes in pieces *)
(* of any size.  Pieces that do not fill a block wait in a buffer; the     *)
(* length is counted in two words.                                         *)
(*                                                                         *)
(* What the rounds of body compute is left open: the words a to d stand    *)
(* for the sequence of bytes they were computed from.  Byte n of the       *)
(* message is <<"data", n>>.                                               *)
(***************************************************************************)
EXTENDS Integers, Sequences

CONSTANTS BlockSize,    \* 64
          WordSize,     \* 4: bytes of each word of the length
          LoModulus,    \* 2^29: where lo, which counts bytes, wraps
          HiModulus,    \* 2^32
          MaxPiece,     \* bound on the size of a piece
          MaxMessage    \* bound on the length of a message

ASSUME BlockAssumption == /\ BlockSize \in Nat /\ WordSize \in Nat \ {0}
                          /\ 2 * WordSize < BlockSize
ASSUME WordsAssumption == /\ HiModulus \in Nat \ {0} /\ LoModulus \in Nat \ {0}
                          /\ LoModulus % BlockSize = 0
ASSUME BoundsAssumption == MaxPiece \in Nat /\ MaxMessage \in Nat

VARIABLES pc,      \* "update", or "done" when the hash is delivered
          lo, hi,
          buffer,
          abcd,    \* the bytes body has been given
          result,
          fed      \* history: length of the message so far

vars == <<pc, lo, hi, buffer, abcd, result, fed>>

Byte == {"data", "end", "zero", "junk", "lo", "hi"} \X Nat

Zero == <<"zero", 0>>

Zeros(n) == [k \in 1 .. n |-> Zero]

Message(n) == [k \in 1 .. n |-> <<"data", k>>]

TypeOK ==
    /\ pc \in {"update", "done"}
    /\ lo \in 0 .. LoModulus - 1 /\ hi \in 0 .. HiModulus - 1
    /\ buffer \in [1 .. BlockSize -> Byte]
    /\ abcd \in Seq(Byte) /\ result \in Seq(Byte)
    /\ fed \in Nat

\* A context on the stack, and MD5_Init.
Init ==
    /\ pc = "update" /\ lo = 0 /\ hi = 0 /\ fed = 0
    /\ buffer = [k \in 1 .. BlockSize |-> <<"junk", 0>>]
    /\ abcd = <<>> /\ result = <<>>

-----------------------------------------------------------------------------
\* memcpy(&ctx->buffer[used], data, size)
Put(buf, used, data) ==
    [k \in 1 .. BlockSize |-> IF k - used \in 1 .. Len(data) THEN data[k - used] ELSE buf[k]]

\* Where body ends up when it is given no block: its loop tests the size last.
Runaway == <<<<"junk", 1>>>>

Body(words, data) == IF data = <<>> THEN Runaway ELSE words \o data

\* Mutant: the low word is not masked.
NewLo_Unmasked(size) == lo + size

NewLo(size) == (lo + size) % LoModulus

\* Mutant: a piece that leaves lo as it was counts as a carry.
NewHi_Carry(size) ==
    (hi + (IF NewLo(size) <= lo THEN 1 ELSE 0) + size \div LoModulus) % HiModulus

NewHi(size) ==
    (hi + (IF NewLo(size) < lo THEN 1 ELSE 0) + size \div LoModulus) % HiModulus

Used == lo % BlockSize

\* The next size bytes of the message.
Piece(size) == [k \in 1 .. size |-> <<"data", fed + k>>]

\* What is in the buffer and in the words once the buffered block, if any, is
\* completed with the beginning of data and processed.
Completed(data) ==
    LET filled == Put(buffer, Used, SubSeq(data, 1, BlockSize - Used))
    IN  IF Used = 0 THEN [buffer |-> buffer, abcd |-> abcd, rest |-> data]
        ELSE [buffer |-> filled, abcd |-> Body(abcd, filled),
              rest |-> SubSeq(data, BlockSize - Used + 1, Len(data))]

MD5_Update(size) ==
    /\ pc = "update" /\ fed + size <= MaxMessage
    /\ lo' = NewLo(size) /\ hi' = NewHi(size)
    /\ fed' = fed + size
    /\ IF Used # 0 /\ size < BlockSize - Used
       THEN /\ buffer' = Put(buffer, Used, Piece(size))
            /\ UNCHANGED abcd
       ELSE LET c == Completed(Piece(size))
                whole == (Len(c.rest) \div BlockSize) * BlockSize
            IN  /\ abcd' = IF whole = 0 THEN c.abcd
                           ELSE Body(c.abcd, SubSeq(c.rest, 1, whole))
                /\ buffer' = Put(c.buffer, 0, SubSeq(c.rest, whole + 1, Len(c.rest)))
    /\ UNCHANGED <<pc, result>>

\* Mutant: a length that just fits is put into a block of its own.
LengthFits_Less(used) == BlockSize - used > 2 * WordSize

\* There is room for the length behind used bytes.
LengthFits(used) == BlockSize - used >= 2 * WordSize

\* The last block: zeros behind used bytes of buf, and the length.
LastBlock(buf, used) ==
    Put(buf, used, Zeros(BlockSize - 2 * WordSize - used)
                   \o [k \in 1 .. WordSize |-> <<"lo", lo>>]
                   \o [k \in 1 .. WordSize |-> <<"hi", hi>>])

\* The context is cleared at the end.
MD5_Final ==
    /\ pc = "update"
    /\ LET ended == Put(buffer, Used, <<<<"end", 0>>>>)
           used == Used + 1
           filled == Put(ended, used, Zeros(BlockSize - used))
       IN  result' = IF LengthFits(used)
                     THEN Body(abcd, LastBlock(ended, used))
                     ELSE Body(Body(abcd, filled), LastBlock(filled, 0))
    /\ pc' = "done" /\ lo' = 0 /\ hi' = 0 /\ abcd' = <<>>
    /\ buffer' = Zeros(BlockSize)
    /\ UNCHANGED fed

\* The next hash.
MD5_Init ==
    /\ pc = "done"
    /\ pc' = "update" /\ lo' = 0 /\ hi' = 0 /\ abcd' = <<>> /\ fed' = 0
    /\ UNCHANGED <<buffer, result>>

Next == (\E size \in 0 .. MaxPiece : MD5_Update(size)) \/ MD5_Final \/ MD5_Init

Spec == Init /\ [][Next]_vars

-----------------------------------------------------------------------------
\* MD5_Update: however a message is cut into pieces, empty ones and ones of
\* many blocks included, what body was given and what waits in the buffer are
\* together the message, body was given whole blocks only, and the two words
\* hold its length.
NothingLost ==
    pc = "update" =>
        /\ abcd \o SubSeq(buffer, 1, Used) = Message(fed)
        /\ Len(abcd) % BlockSize = 0
        /\ lo = fed % LoModulus
        /\ hi = (fed \div LoModulus) % HiModulus

\* What the standard says is hashed: the message, one bit, the fewest zeros that
\* make the whole a number of blocks, and the length.
Padded(n) ==
    LET zeros == CHOOSE z \in 0 .. BlockSize - 1 : (n + 1 + z + 2 * WordSize) % BlockSize = 0
    IN  Message(n) \o <<<<"end", 0>>>> \o Zeros(zeros)
        \o [k \in 1 .. WordSize |-> <<"lo", n % LoModulus>>]
        \o [k \in 1 .. WordSize |-> <<"hi", (n \div LoModulus) % HiModulus>>]

\* MD5_Final: the hash depends on the message alone, not on how it was cut up,
\* and it is that of the padded message, for any number of bytes left over.
HashIsStandard == pc = "done" => result = Padded(fed)

=============================================================================
