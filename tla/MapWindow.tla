----------------------------- MODULE MapWindow -----------------------------
(***************************************************************************)
(* The window through which the sender reads a file (sender/fileio.go).    *)
(*                                                                         *)
(* hashSearch and matched ask for pieces of the file in an order that      *)
(* mostly moves forward; ptr keeps the bytes that the next window shares   *)
(* with the last one, moves them to the front and reads the rest.  The     *)
(* window is a record:                                                     *)
(*   off, len   the part of the file it holds (pOffset, pLen)              *)
(*   buf        its bytes                                                  *)
(*   def        the length of a full window (defWindowSize)                *)
(***************************************************************************)
EXTENDS Integers, Sequences

CONSTANTS
  Chunk,     \* chunkSize: most bytes of one literal token
  Align,     \* alignBoundary
  ReadMin    \* least length of a full window (256 KiB in hashSearch)

\* The proportions of the code's 32 KiB, 1 KiB and 256 KiB.
ASSUME WindowConstants ==
  /\ Chunk \in Nat \ {0}
  /\ Align \in Nat \ {0}
  /\ ReadMin \in Nat \ {0}
  /\ 3 * (2 * Chunk + Align) <= ReadMin

Larger(x, y) == IF x >= y THEN x ELSE y
Smaller(x, y) == IF x <= y THEN x ELSE y

AlignedLength(l) == ((l - 1) \div Align + 1) * Align
AlignedOvershoot(off) == off % Align

\* mapFile, with the readSize hashSearch passes it for blocks of length blk.
ReadSize(blk) == Larger(3 * blk, ReadMin)
RoundUp(n, blk) == IF n % blk = 0 THEN n ELSE n + (blk - (n % blk))
MapFile(blk) ==
  [off |-> 0, len |-> 0, buf |-> <<>>, def |-> AlignedLength(RoundUp(ReadSize(blk), blk))]

Holds(w, off, l) == off >= w.off /\ off + l <= w.off + w.len

\* A mistake to be caught: the window is not cut off at the end of the file.
UncutLength(w, size, off, l) == Larger(w.def, AlignedLength(l + AlignedOvershoot(off)))

\* The length of the window to read for l bytes at off, in a file of that size.
WindowLength(w, size, off, l) ==
  LET start == off - AlignedOvershoot(off)
      length == IF start + w.def > size THEN size - start ELSE w.def
      needed == l + AlignedOvershoot(off)
  IN IF length < needed THEN AlignedLength(needed) ELSE length

\* A mistake to be caught: the old window's first bytes stay where they are.
KeepsFront(w, n) == SubSeq(w.buf, 1, n)

\* What the new window takes from the old one: the n last bytes.
KeptBytes(w, n) == SubSeq(w.buf, w.len - n + 1, w.len)

\* How many bytes that is: none unless the new window starts in the old one
\* and reaches at least to its end.
KeptLength(w, start, length) ==
  IF w.off <= start /\ start < w.off + w.len /\ start + length >= w.off + w.len
    THEN w.off + w.len - start
    ELSE 0

\* The window that is read for a part of the file the old one does not hold.
Reread(w, disk, start, length) ==
  LET kept == KeptLength(w, start, length)
  IN [w EXCEPT !.off = start, !.len = length,
               !.buf = KeptBytes(w, kept) \o SubSeq(disk, start + kept + 1, start + length)]

\* ms.ptr(off, l): the bytes and the window afterwards, or an error.  size is
\* the file's length when it was opened, disk its content now.
Ptr(w, size, disk, off, l) ==
  LET start  == off - AlignedOvershoot(off)
      length == WindowLength(w, size, off, l)
      next   == Reread(w, disk, start, length)
      Bytes(win) == SubSeq(win.buf, off - win.off + 1, off - win.off + l)
      Readable == length > KeptLength(w, start, length) /\ start + length <= Len(disk)
  IN CASE l = 0 -> [ok |-> TRUE, win |-> w, bytes |-> <<>>]
       [] l > 0 /\ Holds(w, off, l) -> [ok |-> TRUE, win |-> w, bytes |-> Bytes(w)]
       [] l > 0 /\ ~Holds(w, off, l) /\ Readable -> [ok |-> TRUE, win |-> next, bytes |-> Bytes(next)]
       [] l < 0 \/ (l > 0 /\ ~Holds(w, off, l) /\ ~Readable) -> [ok |-> FALSE, win |-> w, bytes |-> <<>>]
=============================================================================
