----------------------------- MODULE BlockSums -----------------------------
(***************************************************************************)
(* The division of a basis file into blocks and their checksums:           *)
(* rsynccommon.go, rsyncchecksum.go, generateAndSendSums on the receiver   *)
(* and receiveSums on the sender.                                          *)
(*                                                                         *)
(* A byte is a number below ByteMod, the two halves of the weak checksum   *)
(* are numbers below SumMod (256 and 2^16 in the code; smaller here, so    *)
(* that different blocks do have the same weak checksum).  The strong      *)
(* checksum of a block is its content: MD4 is taken to have no collisions. *)
(***************************************************************************)
EXTENDS Integers, Sequences, SequencesExt

CONSTANTS
  ByteMod, SumMod,   \* values of a byte, of half a weak checksum
  MinBlock           \* blockSize: the least block length (700)

ASSUME SumConstants ==
  /\ ByteMod \in Nat \ {0, 1} /\ ByteMod % 2 = 0
  /\ SumMod \in Nat \ {0}
  /\ MinBlock \in Nat \ {0}

Byte == 0 .. ByteMod - 1

Sqrt(n) == CHOOSE r \in 0 .. n : r * r <= n /\ n < (r + 1) * (r + 1)

\* SumSizesSqroot: the SumHead for a basis of n bytes.
SumHead(n) ==
  LET blk == IF Sqrt(n) > MinBlock THEN Sqrt(n) ELSE MinBlock
  IN [count |-> (n + blk - 1) \div blk, block |-> blk, remainder |-> n % blk]

\* The head of a request for the whole file, of which all fields are 0.
NoSums == [count |-> 0, block |-> 0, remainder |-> 0]

\* receiveSums and receiveData: the last block has the remainder, if any.
BlockLen(head, i) ==
  IF i = head.count - 1 /\ head.remainder # 0 THEN head.remainder ELSE head.block
BlockOffset(head, i) == i * head.block

\* SignExtend: a byte as a signed char.
SignExtend(b) == IF 2 * b < ByteMod THEN b ELSE b - ByteMod

\* Checksum1: the sum of the bytes, and the sum of its partial sums.
Checksum1(buf) ==
  LET upTo[n \in 0 .. Len(buf)] ==
        IF n = 0 THEN [s1 |-> 0, s2 |-> 0]
        ELSE LET sum == upTo[n - 1]
                 s1  == sum.s1 + SignExtend(buf[n])
             IN [s1 |-> s1, s2 |-> sum.s2 + s1]
      total == upTo[Len(buf)]
  IN [s1 |-> total.s1 % SumMod, s2 |-> total.s2 % SumMod]

Tag2(sum) == (sum.s1 + sum.s2) % SumMod

\* Block i of the basis (io.ReadFull, localFile.ReadAt).
BlockAt(basis, head, i) ==
  SubSeq(basis, BlockOffset(head, i) + 1, BlockOffset(head, i) + BlockLen(head, i))

\* generateAndSendSums and receiveSums: the sums the sender gets for basis.
SumsOf(basis) ==
  LET head == SumHead(Len(basis))
  IN [i \in 0 .. head.count - 1 |->
        [len |-> BlockLen(head, i),
         sum1 |-> Checksum1(BlockAt(basis, head, i)),
         sum2 |-> BlockAt(basis, head, i)]]
=============================================================================
