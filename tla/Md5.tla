--------------------------------- MODULE Md5 ---------------------------------
(***************************************************************************)
(* How md5.c cuts a text into blocks.  The text comes in pieces of any     *)
(* length; what fills no block waits in ctx.in.  MD5Transform, which mixes *)
(* a block into the state, is not looked into: fed is the sequence of all  *)
(* bytes it was given, block after block.                                  *)
(***************************************************************************)
EXTENDS Integers, Sequences

CONSTANTS
  BlockSize,   \* 64 in the code
  WordSize,    \* bytes of a word of ctx.bits: 4 in the code
  Pieces,      \* the pieces that callers pass to MD5Update
  MaxPieces    \* bound on their number

LengthSize == 2 * WordSize   \* of the length at the end of the last block

(* 256 to the k: what a byte counts for, and the first number too long.    *)
Power[k \in 0 .. LengthSize] == IF k = 0 THEN 1 ELSE 256 * Power[k - 1]
WordLimit == Power[WordSize]

ASSUME BlockSizeAssumption == /\ WordSize \in Nat \ {0}
                              /\ BlockSize \in Nat /\ BlockSize > LengthSize
                              /\ WordLimit % (8 * BlockSize) = 0
ASSUME PiecesAssumption == Pieces \subseteq Seq(0 .. 255)

VARIABLES
  ctx,    \* low, high: bits[0] and bits[1]; in
  fed,    \* all bytes MD5Transform has had
  message, \* history: all pieces
  pieces, \* history: how many
  final   \* whether MD5Final has been called

md5Vars == <<ctx, fed, message, pieces, final>>

ZeroBytes(n) == [i \in 1 .. n |-> 0]

(* memcpy(in + at, bytes, ...)                                             *)
Put(in, at, bytes) ==
  [i \in 1 .. BlockSize |-> IF i - at \in DOMAIN bytes THEN bytes[i - at] ELSE in[i]]

(* PUT_32BIT_LSB_FIRST                                                     *)
LsbFirst(word) == [i \in 1 .. WordSize |-> (word \div Power[i - 1]) % 256]

Waiting(c) == (c.low \div 8) % BlockSize

MD5Init ==
  /\ ctx = [low |-> 0, high |-> 0, in |-> ZeroBytes(BlockSize)]
  /\ fed = <<>>
  /\ message = <<>> /\ pieces = 0 /\ final = FALSE

Counted(c, len) ==
  LET low == (c.low + 8 * len) % WordLimit
      carry == IF low < c.low THEN 1 ELSE 0
  IN  [c EXCEPT !.low = low,
                !.high = (@ + carry + (8 * len) \div WordLimit) % WordLimit]

\* Faulty variant: what is left over starts the block anew.
MD5UpdateForgets(buf) ==
  LET t == Waiting(ctx)
      end == BlockSize * (Len(buf) \div BlockSize)
  IN  /\ ~final /\ pieces < MaxPieces
      /\ fed' = fed \o SubSeq(buf, 1, end)
      /\ ctx' = [Counted(ctx, Len(buf)) EXCEPT !.in = Put(@, 0, SubSeq(buf, end + 1, Len(buf)))]
      /\ message' = message \o buf
      /\ pieces' = pieces + 1
      /\ UNCHANGED final

(* The odd-sized start of the piece completes the block that waits, then   *)
(* come whole blocks, and the rest waits.                                  *)
MD5Update(buf) ==
  LET t == Waiting(ctx)
      lead == IF t = 0 THEN 0 ELSE BlockSize - t
      end == lead + BlockSize * ((Len(buf) - lead) \div BlockSize)
      filled == Put(ctx.in, t, SubSeq(buf, 1, lead))
      blocks == (IF t = 0 THEN <<>> ELSE filled) \o SubSeq(buf, lead + 1, end)
      last == IF end > lead THEN SubSeq(buf, end - BlockSize + 1, end)
              ELSE IF t = 0 THEN ctx.in ELSE filled
      short == t > 0 /\ Len(buf) < lead
  IN  /\ ~final /\ pieces < MaxPieces
      /\ fed' = IF short THEN fed ELSE fed \o blocks
      /\ ctx' = [Counted(ctx, Len(buf)) EXCEPT
                   !.in = IF short THEN Put(@, t, buf)
                          ELSE Put(last, 0, SubSeq(buf, end + 1, Len(buf)))]
      /\ message' = message \o buf
      /\ pieces' = pieces + 1
      /\ UNCHANGED final

(* A byte 128 and zeros; if the length does not fit behind them, zeros to  *)
(* the end of the block and in another one.  The context is cleared.       *)
MD5Final ==
  LET count == Waiting(ctx)
      left == BlockSize - 1 - count
      one == Put(Put(ctx.in, count, <<128>>), count + 1,
                 ZeroBytes(IF left < LengthSize THEN left ELSE left - LengthSize))
      another == Put(one, 0, ZeroBytes(BlockSize - LengthSize))
      bits(in) == Put(in, BlockSize - LengthSize, LsbFirst(ctx.low) \o LsbFirst(ctx.high))
  IN  /\ ~final
      /\ fed' = fed \o IF left < LengthSize THEN one \o bits(another) ELSE bits(one)
      /\ ctx' = [low |-> 0, high |-> 0, in |-> ZeroBytes(BlockSize)]
      /\ final' = TRUE
      /\ UNCHANGED <<message, pieces>>

MD5Next == (\E buf \in Pieces : MD5Update(buf)) \/ MD5Final

Md5Spec == MD5Init /\ [][MD5Next]_md5Vars

-----------------------------------------------------------------------------
(* RFC 1321, 3.1 and 3.2: the fewest zeros that make whole blocks, then the*)
(* length in bits, low byte first.                                         *)
Padded(t) ==
  LET zeros == CHOOSE n \in 0 .. BlockSize - 1 :
                 (Len(t) + 1 + n + LengthSize) % BlockSize = 0
  IN  t \o <<128>> \o ZeroBytes(zeros)
        \o [i \in 1 .. LengthSize |-> ((8 * Len(t)) \div Power[i - 1]) % 256]

(* md5.c:42-114: however a text is cut into pieces, each byte of it is in a*)
(* block or waits for one, in order, and the blocks that are digested are  *)
(* those of the text as RFC 1321 pads it, its length included when the low *)
(* word has overflowed.  The last bytes of a block, pieces that just fill  *)
(* it, and lengths that do not fit behind the text are the hard cases.     *)
BlocksRight ==
  IF final THEN fed = Padded(message)
  ELSE fed \o SubSeq(ctx.in, 1, Waiting(ctx)) = message
=============================================================================
