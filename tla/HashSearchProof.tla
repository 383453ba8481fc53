--------------------------- MODULE HashSearchProof ---------------------------
(***************************************************************************)
(* The sender's search for any files, any block length and any proportions *)
(* of chunk and window, whenever the source is cut short: one call of ptr  *)
(* returns the file's bytes (PtrFaithful, PtrReads), in a whole search the *)
(* window holds them (WindowHolds), no read of an intact file fails        *)
(* (ReadsFit), the rolling checksum is the checksum (RollsExactly), the    *)
(* tokens sent stand for a prefix of the source and the checksum for the   *)
(* whole (SendsDeltaStream), and a file identical to the basis goes over   *)
(* without a literal (IdenticalInBlocks).                                  *)
(*                                                                         *)
(* The recursive functions of the model (FlattenSeq, Checksum1, Pieces)    *)
(* are reasoned about through Recursion: a function that satisfies their   *)
(* equation exists, so CHOOSE finds one, and UpTo carries what holds of    *)
(* one value to the next.                                                  *)
(***************************************************************************)
EXTENDS HashSearch, SequenceTheorems, WellFoundedInduction, TLAPS

-----------------------------------------------------------------------------
(* The window: one call of mapStruct.ptr (fileio.go), for every file, every *)
(* order of requests and every chunk and window length: what it returns is  *)
(* what the file held when it was opened, even when the file has been cut   *)
(* short since, and it does return it when the file has not.                *)
\* A window that holds bytes of the file, and the right ones.
Faithful(w, file) ==
  /\ w.off + w.len <= Len(file)
  /\ w.buf = SubSeq(file, w.off + 1, w.off + w.len)

Windows(S) == [off : Nat, len : Nat, buf : Seq(S), def : Nat]

\* alignedLength never cuts anything off.
LEMMA AlignedEnough ==
  ASSUME NEW l \in Nat \ {0}
  PROVE  AlignedLength(l) \in Nat /\ AlignedLength(l) >= l
<1>1. Align \in Nat /\ Align > 0
  BY WindowConstants
<1> DEFINE q == (l - 1) \div Align
           r == (l - 1) % Align
<1>2. q \in Nat /\ r \in 0 .. Align - 1 /\ l - 1 = Align * q + r
  BY <1>1, SMTT(30)
<1> HIDE DEF q, r
<1>3. (q + 1) * Align = Align * q + Align
  BY <1>1, <1>2
<1>4. (q + 1) * Align \in Nat
  BY <1>1, <1>2, <1>3
<1>5. AlignedLength(l) = (q + 1) * Align
  BY DEF AlignedLength, q
<1> QED BY <1>1, <1>2, <1>3, <1>4, <1>5

\* Rounding an offset down stays in the file.
LEMMA OvershootSmall ==
  ASSUME NEW off \in Nat
  PROVE  AlignedOvershoot(off) \in 0 .. off
<1>1. Align \in Nat /\ Align > 0
  BY WindowConstants
<1> QED BY <1>1 DEF AlignedOvershoot

\* A window that is read reaches over all that is asked for.
LEMMA LongEnough ==
  ASSUME NEW S, NEW w \in Windows(S), NEW size \in Nat, NEW off \in Nat, NEW l \in Nat \ {0}
  PROVE  /\ WindowLength(w, size, off, l) \in Int
         /\ WindowLength(w, size, off, l) >= l + AlignedOvershoot(off)
<1>1. AlignedOvershoot(off) \in 0 .. off
  BY OvershootSmall
<1> DEFINE needed == l + AlignedOvershoot(off)
           start == off - AlignedOvershoot(off)
           length == IF start + w.def > size THEN size - start ELSE w.def
<1>2. needed \in Nat \ {0} /\ length \in Int
  BY <1>1 DEF Windows
<1>3. AlignedLength(needed) \in Nat /\ AlignedLength(needed) >= needed
  BY <1>2, AlignedEnough
<1>4. WindowLength(w, size, off, l) = IF length < needed THEN AlignedLength(needed) ELSE length
  BY DEF WindowLength
<1> QED BY <1>2, <1>3, <1>4

\* The bytes asked for, taken from a window that holds them.
LEMMA BytesOfWindow ==
  ASSUME NEW S, NEW file \in Seq(S), NEW a \in Nat, NEW n \in Nat, a + n <= Len(file),
         NEW off \in Nat, NEW l \in Nat \ {0}, a <= off, off + l <= a + n
  PROVE  SubSeq(SubSeq(file, a + 1, a + n), off - a + 1, off - a + l) = SubSeq(file, off + 1, off + l)
<1> DEFINE t == SubSeq(file, a + 1, a + n)
<1>1. Len(file) \in Nat /\ \A i \in 1 .. Len(file) : file[i] \in S
  BY LenProperties, ElementOfSeq
<1>2. t \in Seq(S)
  BY <1>1, SubSeqProperties
<1> HIDE DEF t
<1>3. /\ a + 1 \in 1 .. Len(file) /\ a + n \in 1 .. Len(file)
      /\ off - a + 1 \in 1 .. (a + n) - (a + 1) + 1
      /\ off - a + l \in 1 .. (a + n) - (a + 1) + 1
  BY <1>1
<1>4. SubSeq(SubSeq(file, a + 1, a + n), off - a + 1, off - a + l)
        = SubSeq(file, (a + 1) + (off - a + 1) - 1, (a + 1) + (off - a + l) - 1)
  BY <1>2, <1>3, SubSeqOfSubSeq
<1>5. (a + 1) + (off - a + 1) - 1 = off + 1 /\ (a + 1) + (off - a + l) - 1 = off + l
  OBVIOUS
<1> QED BY <1>4, <1>5

\* What is kept of the old window are the first bytes of the new one.
LEMMA KeptFaithful ==
  ASSUME NEW S, NEW file \in Seq(S), NEW w \in Windows(S), Faithful(w, file),
         NEW start \in Nat, NEW length \in Int, NEW kept, kept = KeptLength(w, start, length)
  PROVE  /\ kept \in Nat /\ (kept > 0 => kept <= length)
         /\ KeptBytes(w, kept) = SubSeq(file, start + 1, start + kept)
<1>1. PICK a \in Nat, n \in Nat : w.off = a /\ w.len = n
  BY DEF Windows
<1>2. Len(file) \in Nat /\ a + n <= Len(file) /\ w.buf = SubSeq(file, a + 1, a + n)
  BY <1>1, LenProperties DEF Faithful
<1>3. kept = IF a <= start /\ start < a + n /\ start + length >= a + n THEN a + n - start ELSE 0
  BY <1>1 DEF KeptLength
<1>4. KeptBytes(w, kept) = SubSeq(SubSeq(file, a + 1, a + n), n - kept + 1, n)
  BY <1>1, <1>2 DEF KeptBytes
<1>5. CASE a <= start /\ start < a + n /\ start + length >= a + n
  <2>1. /\ kept \in Nat \ {0} /\ kept <= length /\ start + kept <= a + n
        /\ n - kept + 1 = start - a + 1 /\ n = start - a + kept
    <3>1. kept = (a + n) - start
      BY <1>3, <1>5
    <3>2. a \in Nat /\ n \in Nat /\ start \in Nat /\ length \in Int
      BY <1>1
    <3> QED BY ONLY <3>1, <3>2, <1>5
  <2>2. SubSeq(SubSeq(file, a + 1, a + n), start - a + 1, start - a + kept)
          = SubSeq(file, start + 1, start + kept)
    <3>1. a + n <= Len(file) /\ a <= start /\ start + kept <= a + n /\ kept \in Nat \ {0}
      BY <1>2, <1>5, <2>1
    <3> QED BY <3>1, BytesOfWindow, SMTT(40)
  <2> QED BY <1>4, <2>1, <2>2
<1>6. CASE ~(a <= start /\ start < a + n /\ start + length >= a + n)
  <2>1. kept = 0
    BY <1>3, <1>6
  <2>2. SubSeq(SubSeq(file, a + 1, a + n), n - 0 + 1, n) = << >>
    BY SubSeqEmpty
  <2>3. SubSeq(file, start + 1, start + 0) = << >>
    BY SubSeqEmpty
  <2> QED BY <1>4, <2>1, <2>2, <2>3
<1> QED BY <1>5, <1>6

\* The window that ptr reads is faithful to the file as it was opened, also if
\* less is left of the file.
LEMMA RereadFaithful ==
  ASSUME NEW S, NEW file \in Seq(S), NEW left \in 0 .. Len(file),
         NEW w \in Windows(S), Faithful(w, file),
         NEW start \in Nat, NEW length \in Nat \ {0},
         length > KeptLength(w, start, length), start + length <= left
  PROVE  LET next == Reread(w, SubSeq(file, 1, left), start, length)
         IN /\ next \in Windows(S) /\ next.off = start /\ next.len = length
            /\ Faithful(next, file)
<1> DEFINE held  == SubSeq(file, 1, left)
           kept  == KeptLength(w, start, length)
           fresh == SubSeq(held, start + kept + 1, start + length)
           next  == Reread(w, held, start, length)
<1>1. /\ kept \in Nat /\ (kept > 0 => kept <= length)
      /\ KeptBytes(w, kept) = SubSeq(file, start + 1, start + kept)
  BY KeptFaithful
<1> HIDE DEF kept
<1>2. kept \in Nat /\ kept < length
  BY <1>1 DEF kept
<1>3. Len(file) \in Nat /\ left \in Nat /\ left <= Len(file) /\ \A i \in 1 .. Len(file) : file[i] \in S
  BY LenProperties, ElementOfSeq
<1>4. held \in Seq(S)
  BY <1>3, SubSeqProperties
<1>5. fresh = SubSeq(file, start + kept + 1, start + length)
  <2>1. /\ 1 \in 1 .. Len(file) /\ left \in 1 .. Len(file)
        /\ start + kept + 1 \in 1 .. left - 1 + 1
        /\ start + length \in 1 .. left - 1 + 1
    <3>1. /\ Len(file) \in Int /\ left \in Int /\ start \in Int /\ length \in Int
          /\ kept \in Int /\ 0 <= start /\ 0 <= kept /\ kept < length
          /\ start + length <= left /\ left <= Len(file)
      BY <1>2, <1>3
    <3> HIDE DEF held, fresh, next
    <3> QED BY ONLY <3>1
  <2>2. SubSeq(SubSeq(file, 1, left), start + kept + 1, start + length)
          = SubSeq(file, 1 + (start + kept + 1) - 1, 1 + (start + length) - 1)
    BY <1>4, <2>1, SubSeqOfSubSeq, SMTT(40)
  <2>3. 1 + (start + kept + 1) - 1 = start + kept + 1 /\ 1 + (start + length) - 1 = start + length
    BY <1>2
  <2> QED BY <2>2, <2>3
<1>6. KeptBytes(w, kept) \o fresh = SubSeq(file, start + 1, start + length)
  <2>1. /\ start + 1 \in 1 .. Len(file) + 1
        /\ start + kept \in (start + 1) - 1 .. Len(file)
        /\ start + length \in start + kept .. Len(file)
    BY <1>2, <1>3
  <2>2. SubSeq(file, start + 1, start + kept) \o SubSeq(file, (start + kept) + 1, start + length)
          = SubSeq(file, start + 1, start + length)
    BY <2>1, ConcatAdjacentSubSeq
  <2> QED BY <1>1, <1>5, <2>2
<1>7. SubSeq(file, start + 1, start + length) \in Seq(S)
  <2>1. \A i \in start + 1 .. start + length : file[i] \in S
    BY <1>3
  <2> QED BY <2>1, SubSeqProperties
<1> HIDE DEF fresh, held
<1>8. next = [w EXCEPT !.off = start, !.len = length, !.buf = KeptBytes(w, kept) \o fresh]
  BY DEF Reread, kept, fresh
<1>9. /\ next \in Windows(S) /\ next.off = start /\ next.len = length
      /\ next.buf = SubSeq(file, start + 1, start + length)
  BY <1>6, <1>7, <1>8 DEF Windows
<1> HIDE DEF next
<1>10. Faithful(next, file)
  BY <1>3, <1>9 DEF Faithful
<1> QED BY <1>9, <1>10 DEF next, held

\* ptr returns the bytes that the file held when it was opened, and leaves a
\* window that does so again, whatever was kept, moved and read
\* (fileio.go:42-111) and however much of the file is left.
THEOREM PtrFaithful ==
  ASSUME NEW S, NEW file \in Seq(S), NEW left \in 0 .. Len(file),
         NEW w \in Windows(S), Faithful(w, file),
         NEW off \in Nat, NEW l \in Int,
         Ptr(w, Len(file), SubSeq(file, 1, left), off, l).ok
  PROVE  LET r == Ptr(w, Len(file), SubSeq(file, 1, left), off, l)
         IN /\ l = 0 \/ (l > 0 /\ off + l <= Len(file))
            /\ r.bytes = SubSeq(file, off + 1, off + l)
            /\ r.win \in Windows(S) /\ Faithful(r.win, file)
<1> DEFINE held   == SubSeq(file, 1, left)
           r      == Ptr(w, Len(file), held, off, l)
           start  == off - AlignedOvershoot(off)
           length == WindowLength(w, Len(file), off, l)
           next   == Reread(w, held, start, length)
           Part(x) == SubSeq(x.buf, off - x.off + 1, off - x.off + l)
           readable == length > KeptLength(w, start, length) /\ start + length <= Len(held)
<1> SUFFICES /\ l = 0 \/ (l > 0 /\ off + l <= Len(file))
             /\ r.bytes = SubSeq(file, off + 1, off + l)
             /\ r.win \in Windows(S) /\ Faithful(r.win, file)
  OBVIOUS
<1>1. r.ok
  OBVIOUS
<1>2. /\ l = 0 => r = [ok |-> TRUE, win |-> w, bytes |-> <<>>]
      /\ l > 0 /\ Holds(w, off, l) => r = [ok |-> TRUE, win |-> w, bytes |-> Part(w)]
      /\ l > 0 /\ ~Holds(w, off, l) /\ readable => r = [ok |-> TRUE, win |-> next, bytes |-> Part(next)]
      /\ l < 0 \/ (l > 0 /\ ~Holds(w, off, l) /\ ~readable) => r = [ok |-> FALSE, win |-> w, bytes |-> <<>>]
  <2> HIDE DEF next, readable
  <2> QED BY DEF Ptr, next, readable
<1>3. ASSUME NEW v \in Windows(S), Faithful(v, file), v.off <= off, off + l <= v.off + v.len, l > 0
      PROVE  Part(v) = SubSeq(file, off + 1, off + l)
  <2>1. PICK a \in Nat, n \in Nat : v.off = a /\ v.len = n
    BY DEF Windows
  <2>2. a + n <= Len(file) /\ v.buf = SubSeq(file, a + 1, a + n) /\ a <= off /\ off + l <= a + n
    BY <1>3, <2>1 DEF Faithful
  <2>3. l \in Nat \ {0}
    BY <1>3
  <2>4. SubSeq(SubSeq(file, a + 1, a + n), off - a + 1, off - a + l) = SubSeq(file, off + 1, off + l)
    BY <2>2, <2>3, BytesOfWindow
  <2> QED BY <2>1, <2>2, <2>4
<1> HIDE DEF r, next, readable, Part
<1>4. CASE l = 0
  <2>1. SubSeq(file, off + 1, off + 0) = <<>>
    BY SubSeqEmpty
  <2>2. r = [ok |-> TRUE, win |-> w, bytes |-> <<>>]
    BY <1>2, <1>4
  <2> QED BY <1>4, <2>1, <2>2
<1>5. CASE l < 0
  BY <1>1, <1>2, <1>5
<1>6. CASE l > 0 /\ Holds(w, off, l)
  <2>1. r = [ok |-> TRUE, win |-> w, bytes |-> Part(w)]
    BY <1>2, <1>6
  <2>2. w.off <= off /\ off + l <= w.off + w.len
    BY <1>6 DEF Holds, Windows
  <2>3. off + l <= Len(file)
    BY <2>2, LenProperties DEF Faithful, Windows
  <2> QED BY <1>3, <1>6, <2>1, <2>2, <2>3
<1>7. CASE l > 0 /\ ~Holds(w, off, l)
  <2>1. readable
    BY <1>1, <1>2, <1>7
  <2>2. r = [ok |-> TRUE, win |-> next, bytes |-> Part(next)]
    BY <1>2, <1>7, <2>1
  <2>3. Len(file) \in Nat /\ Len(held) = left
    <3>1. Len(file) \in Nat /\ left \in Nat /\ \A i \in 1 .. left : file[i] \in S
      BY LenProperties, ElementOfSeq
    <3> QED BY <3>1, SubSeqProperties
  <2>4. l \in Nat \ {0} /\ AlignedOvershoot(off) \in 0 .. off
    BY <1>7, OvershootSmall
  <2>5. length \in Int /\ length >= l + AlignedOvershoot(off)
    BY <2>3, <2>4, LongEnough
  <2>6. start \in Nat /\ start <= off /\ length \in Nat \ {0} /\ off + l <= start + length
    <3> HIDE DEF length
    <3> QED BY <2>4, <2>5
  <2>7. length > KeptLength(w, start, length) /\ start + length <= left
    BY <2>1, <2>3 DEF readable
  <2>8. /\ next \in Windows(S) /\ next.off = start /\ next.len = length
        /\ Faithful(next, file)
    BY <2>6, <2>7, RereadFaithful DEF next
  <2>9. Part(next) = SubSeq(file, off + 1, off + l)
    <3> HIDE DEF start, length
    <3> QED BY <1>3, <1>7, <2>6, <2>8
  <2>10. off + l <= Len(file)
    <3> HIDE DEF start, length
    <3> QED BY <2>3, <2>6, <2>7
  <2> QED BY <1>7, <2>2, <2>8, <2>9, <2>10
<1> QED BY <1>4, <1>5, <1>6, <1>7

\* While the file keeps its length, ptr reads whatever lies in it, as long as
\* a full window holds it at any alignment: the window is never moved past the
\* end of the file, and never without a byte left to read (fileio.go:55-78).
THEOREM PtrReads ==
  ASSUME NEW S, NEW file \in Seq(S), NEW w \in Windows(S),
         NEW off \in Nat, NEW l \in Nat,
         l = 0 \/ off + l <= Len(file), l + Align <= w.def
  PROVE  Ptr(w, Len(file), file, off, l).ok
<1> DEFINE r        == Ptr(w, Len(file), file, off, l)
           start    == off - AlignedOvershoot(off)
           length   == WindowLength(w, Len(file), off, l)
           next     == Reread(w, file, start, length)
           Part(x) == SubSeq(x.buf, off - x.off + 1, off - x.off + l)
           readable == length > KeptLength(w, start, length) /\ start + length <= Len(file)
<1>1. /\ l = 0 => r = [ok |-> TRUE, win |-> w, bytes |-> <<>>]
      /\ l > 0 /\ Holds(w, off, l) => r = [ok |-> TRUE, win |-> w, bytes |-> Part(w)]
      /\ l > 0 /\ ~Holds(w, off, l) /\ readable => r = [ok |-> TRUE, win |-> next, bytes |-> Part(next)]
  <2> HIDE DEF next, readable
  <2> QED BY DEF Ptr, next, readable
<1> HIDE DEF r, next, readable, Part
<1>2. CASE l = 0
  BY <1>1, <1>2 DEF r
<1>3. CASE l > 0 /\ Holds(w, off, l)
  BY <1>1, <1>3 DEF r
<1>4. CASE l > 0 /\ ~Holds(w, off, l)
  <2> DEFINE over == AlignedOvershoot(off)
  <2>1. over \in 0 .. off /\ over < Align /\ Align \in Nat
    BY WindowConstants DEF AlignedOvershoot
  <2>2. Len(file) \in Nat /\ off + l <= Len(file) /\ l \in Nat \ {0}
    BY <1>4, LenProperties
  <2>3. PICK a \in Nat, n \in Nat, d \in Nat : w.off = a /\ w.len = n /\ w.def = d
    BY DEF Windows
  <2>4. length = LET full == IF start + d > Len(file) THEN Len(file) - start ELSE d
                 IN IF full < l + over THEN AlignedLength(l + over) ELSE full
    BY <2>3 DEF WindowLength
  <2> HIDE DEF over, length
  <2>5. start = off - over
    BY DEF over
  <2> HIDE DEF start
  <2>6. start \in Nat /\ length \in Nat /\ length >= l + over /\ start + length <= Len(file)
    BY <2>1, <2>2, <2>3, <2>4, <2>5
  <2>7. length > KeptLength(w, start, length)
    <3>1. KeptLength(w, start, length)
            = IF a <= start /\ start < a + n /\ start + length >= a + n THEN a + n - start ELSE 0
      BY <2>3 DEF KeptLength
    <3>2. ~(off >= a /\ off + l <= a + n)
      BY <1>4, <2>3 DEF Holds
    <3>3. CASE a <= start /\ start < a + n /\ start + length >= a + n
      BY <2>1, <2>2, <2>3, <2>5, <2>6, <3>1, <3>2, <3>3
    <3>4. CASE ~(a <= start /\ start < a + n /\ start + length >= a + n)
      BY <2>1, <2>2, <2>6, <3>1, <3>4
    <3> QED BY <3>3, <3>4
  <2>8. readable
    BY <2>6, <2>7 DEF readable
  <2> QED BY <1>1, <1>4, <2>8 DEF r
<1> QED BY <1>2, <1>3, <1>4


-----------------------------------------------------------------------------
(* Induction over sets of numbers, and recursive functions.                *)

\* Every set of numbers has a least one: what stands in for induction here.
LEMMA LeastNat ==
  ASSUME NEW T, T \subseteq Nat, T # {}
  PROVE  \E x \in T : \A y \in T : x <= y
<1> DEFINE R == {p \in Nat \X Nat : p[1] < p[2]}
<1>1. R = OpToRel(<, Nat)
  BY DEF OpToRel
<1>2. IsWellFoundedOn(R, Nat)
  BY <1>1, NatLessThanWellFounded
<1>3. \E x \in T : \A y \in T : ~(<<y, x>> \in R)
  <2> HIDE DEF R
  <2> QED BY <1>2, WFMin
<1>4. PICK x \in T : \A y \in T : ~(<<y, x>> \in R)
  BY <1>3
<1>5. ASSUME NEW y \in T PROVE x <= y
  <2>1. ~(<<y, x>> \in R)
    BY <1>4
  <2>2. x \in Nat /\ y \in Nat
    OBVIOUS
  <2>3. ~(y < x)
    BY <2>1, <2>2
  <2> QED BY <2>2, <2>3
<1> QED BY <1>5

\* What holds of 0, and of j if it does of j - 1, holds up to m.
LEMMA UpTo ==
  ASSUME NEW m \in Nat, NEW T, 0 \in T, \A j \in 1 .. m : j - 1 \in T => j \in T
  PROVE  \A j \in 0 .. m : j \in T
<1> DEFINE bad == {j \in 0 .. m : j \notin T}
<1>1. SUFFICES ASSUME bad # {} PROVE FALSE
  OBVIOUS
<1>2. PICK x \in bad : \A y \in bad : x <= y
  <2>1. bad \subseteq Nat
    OBVIOUS
  <2> HIDE DEF bad
  <2> QED BY <1>1, <2>1, LeastNat
<1>3. x \in 1 .. m /\ x \notin T
  BY <1>2
<1>4. x - 1 \in 0 .. m /\ x - 1 < x
  BY <1>3
<1>5. x - 1 \in T
  BY <1>2, <1>4
<1> QED BY <1>3, <1>5

\* f begins with base, and goes on by step.
Runs(f, base, m, step) == f[0] = base /\ \A j \in 1 .. m : f[j] = step[<<j, f[j - 1]>>]
Steps(step, m, V) == \A j \in 1 .. m : \A v \in V : step[<<j, v>>] \in V

\* A function that begins with base and goes on by step exists: the witness for
\* the CHOOSE of a recursive definition, so that it satisfies its equation.
LEMMA Recursion ==
  ASSUME NEW V, NEW base \in V, NEW m \in Nat, NEW step, Steps(step, m, V)
  PROVE  \E f \in [0 .. m -> V] : Runs(f, base, m, step)
<1> DEFINE T == {n \in 0 .. m : \E f \in [0 .. n -> V] : Runs(f, base, n, step)}
<1>1. 0 \in T
  <2> DEFINE g == [j \in 0 .. 0 |-> base]
  <2>1. g \in [0 .. 0 -> V] /\ g[0] = base
    OBVIOUS
  <2> HIDE DEF g
  <2>2. Runs(g, base, 0, step)
    BY <2>1 DEF Runs
  <2> QED BY <2>1, <2>2
<1>2. ASSUME NEW n \in 1 .. m, n - 1 \in T
      PROVE  n \in T
  <2>1. PICK f \in [0 .. n - 1 -> V] : Runs(f, base, n - 1, step)
    BY <1>2
  <2> DEFINE g == [j \in 0 .. n |-> IF j = n THEN step[<<n, f[n - 1]>>] ELSE f[j]]
  <2>2. f[n - 1] \in V
    OBVIOUS
  <2>3. g \in [0 .. n -> V]
    BY <2>2 DEF Steps
  <2>4. \A j \in 0 .. n - 1 : g[j] = f[j]
    OBVIOUS
  <2>5. g[n] = step[<<n, f[n - 1]>>]
    OBVIOUS
  <2>6. Runs(g, base, n, step)
    <3> HIDE DEF g
    <3>1. g[0] = base
      BY <2>1, <2>4 DEF Runs
    <3>2. ASSUME NEW j \in 1 .. n PROVE g[j] = step[<<j, g[j - 1]>>]
      <4>1. CASE j = n
        BY <2>4, <2>5, <4>1
      <4>2. CASE j # n
        <5>1. j \in 1 .. n - 1 /\ j \in 0 .. n - 1 /\ j - 1 \in 0 .. n - 1
          BY <4>2
        <5> QED BY <2>1, <2>4, <5>1 DEF Runs
      <4> QED BY <4>1, <4>2
    <3> QED BY <3>1, <3>2 DEF Runs
  <2>7. n \in 0 .. m
    OBVIOUS
  <2> HIDE DEF g
  <2> QED BY <2>3, <2>6, <2>7
<1>3. m \in T
  <2> HIDE DEF T
  <2>1. \A j \in 0 .. m : j \in T
    BY <1>1, <1>2, UpTo
  <2>2. m \in 0 .. m
    OBVIOUS
  <2> QED BY <2>1, <2>2
<1> QED BY <1>3
-----------------------------------------------------------------------------
(* FlattenSeq.                                                             *)

\* FlattenSeq concatenates from the left.
LEMMA FlattenSteps ==
  ASSUME NEW S, NEW ss \in Seq(Seq(S))
  PROVE  \E f \in [0 .. Len(ss) -> Seq(S)] :
           /\ f[0] = <<>>
           /\ \A j \in 1 .. Len(ss) : f[j] = f[j - 1] \o ss[j]
           /\ FlattenSeq(ss) = f[Len(ss)]
<1> DEFINE n == Len(ss)
           step == [p \in (1 .. n) \X Seq(S) |-> p[2] \o ss[p[1]]]
           eq(h) == h = [i \in 1 .. n |-> IF i = 1 THEN ss[i] ELSE h[i - 1] \o ss[i]]
           flat == CHOOSE h : eq(h)
<1>1. n \in Nat /\ \A j \in 1 .. n : ss[j] \in Seq(S)
  OBVIOUS
<1>2. \A j \in 1 .. n : \A v \in Seq(S) : step[<<j, v>>] = v \o ss[j] /\ v \o ss[j] \in Seq(S)
  <2>1. SUFFICES ASSUME NEW j \in 1 .. n, NEW v \in Seq(S)
                 PROVE  step[<<j, v>>] = v \o ss[j] /\ v \o ss[j] \in Seq(S)
    OBVIOUS
  <2>2. <<j, v>> \in (1 .. n) \X Seq(S)
    OBVIOUS
  <2>3. step[<<j, v>>] = v \o ss[j]
    BY <2>2
  <2> QED BY <1>1, <2>3, ConcatProperties
<1>3. PICK f \in [0 .. n -> Seq(S)] : Runs(f, <<>>, n, step)
  <2>1. <<>> \in Seq(S)
    OBVIOUS
  <2>2. Steps(step, n, Seq(S))
    <3> HIDE DEF step
    <3> QED BY <1>2 DEF Steps
  <2> HIDE DEF step, n
  <2> QED BY <1>1, <2>1, <2>2, Recursion
<1>4. \A j \in 1 .. n : f[j] = f[j - 1] \o ss[j] /\ f[j] \in Seq(S)
  <2> HIDE DEF step
  <2>1. SUFFICES ASSUME NEW j \in 1 .. n PROVE f[j] = f[j - 1] \o ss[j] /\ f[j] \in Seq(S)
    OBVIOUS
  <2>2. j - 1 \in 0 .. n /\ j \in 0 .. n
    BY <1>1
  <2>3. f[j - 1] \in Seq(S) /\ f[j] \in Seq(S)
    BY <2>2
  <2> QED BY <1>2, <1>3, <2>3 DEF Runs
<1>5. FlattenSeq(ss) = f[n]
  <2>1. CASE n = 0
    <3>1. FlattenSeq(ss) = ss /\ ss = <<>>
      BY <2>1 DEF FlattenSeq
    <3> QED BY <1>3, <2>1, <3>1 DEF Runs
  <2>2. CASE n # 0
    <3>1. FlattenSeq(ss) = flat[n]
      BY <2>2, Zenon DEF FlattenSeq
    <3> DEFINE h == [i \in 1 .. n |-> f[i]]
    <3>2. eq(h)
      <4>1. \A i \in 1 .. n : i # 1 => i - 1 \in 1 .. n
        BY <1>1
      <4>2. 1 \in 1 .. n => f[1] = ss[1]
        <5>1. 1 \in 1 .. n => ss[1] \in Seq(S) /\ f[1] = f[1 - 1] \o ss[1]
          BY <1>1, <1>4
        <5>2. f[1 - 1] = <<>>
          BY <1>3 DEF Runs
        <5> QED BY <5>1, <5>2, ConcatEmptySeq
      <4>3. ASSUME NEW i \in 1 .. n
            PROVE  h[i] = IF i = 1 THEN ss[i] ELSE h[i - 1] \o ss[i]
        BY <1>4, <4>1, <4>2
      <4>4. h = [i \in 1 .. n |-> h[i]]
        OBVIOUS
      <4> HIDE DEF h
      <4> QED BY <4>3, <4>4, Zenon
    <3>3. eq(flat)
      <4> HIDE DEF h, eq
      <4> QED BY <3>2
    <3> HIDE DEF flat
    <3>4. \A i \in 1 .. n : flat[i] = IF i = 1 THEN ss[i] ELSE flat[i - 1] \o ss[i]
      BY <3>3, Zenon
    <3> DEFINE T == {j \in 0 .. n : j = 0 \/ flat[j] = f[j]}
    <3>5. \A j \in 1 .. n : j - 1 \in T => j \in T
      <4>1. SUFFICES ASSUME NEW j \in 1 .. n, j - 1 \in T PROVE flat[j] = f[j]
        BY <1>1
      <4>2. CASE j = 1
        <5>1. 1 \in 1 .. n
          BY <4>2
        <5>2. ss[1] \in Seq(S) /\ f[1] = f[1 - 1] \o ss[1] /\ flat[1] = ss[1]
          BY <1>1, <1>4, <3>4, <5>1
        <5>3. f[1 - 1] = <<>>
          BY <1>3 DEF Runs
        <5> QED BY <4>2, <5>2, <5>3, ConcatEmptySeq
      <4>3. CASE j # 1
        <5>1. j - 1 # 0 /\ flat[j - 1] = f[j - 1]
          BY <4>1, <4>3
        <5> QED BY <1>4, <3>4, <4>3, <5>1
      <4> QED BY <4>2, <4>3
    <3>6. 0 \in T
      BY <1>1
    <3>7. n \in T
      <4> HIDE DEF T, n
      <4>1. \A j \in 0 .. n : j \in T
        BY <1>1, <3>5, <3>6, UpTo
      <4> QED BY <1>1, <4>1
    <3> QED BY <2>2, <3>1, <3>7
  <2> QED BY <2>1, <2>2
<1> QED BY <1>3, <1>4, <1>5 DEF Runs

\* One more sequence is concatenated at the end.
LEMMA FlattenAppend ==
  ASSUME NEW S, NEW ss \in Seq(Seq(S)), NEW x \in Seq(S)
  PROVE  /\ FlattenSeq(ss) \in Seq(S)
         /\ FlattenSeq(Append(ss, x)) = FlattenSeq(ss) \o x
<1> DEFINE n == Len(ss)
           tt == Append(ss, x)
<1>1. n \in Nat /\ tt \in Seq(Seq(S)) /\ Len(tt) = n + 1 /\ tt[n + 1] = x
      /\ \A j \in 1 .. n : tt[j] = ss[j]
  BY AppendProperties
<1> HIDE DEF tt
<1>2. PICK f \in [0 .. n -> Seq(S)] :
        /\ f[0] = <<>> /\ FlattenSeq(ss) = f[n]
        /\ \A j \in 1 .. n : f[j] = f[j - 1] \o ss[j]
  BY FlattenSteps
<1>3. PICK g \in [0 .. n + 1 -> Seq(S)] :
        /\ g[0] = <<>> /\ FlattenSeq(tt) = g[n + 1]
        /\ \A j \in 1 .. n + 1 : g[j] = g[j - 1] \o tt[j]
  <2>1. \E g \in [0 .. Len(tt) -> Seq(S)] :
          /\ g[0] = <<>>
          /\ \A j \in 1 .. Len(tt) : g[j] = g[j - 1] \o tt[j]
          /\ FlattenSeq(tt) = g[Len(tt)]
    BY <1>1, FlattenSteps
  <2>2. Len(tt) = n + 1
    BY <1>1
  <2> HIDE DEF n
  <2> QED BY <2>1, <2>2
<1> DEFINE T == {j \in 0 .. n : g[j] = f[j]}
<1>4. 0 \in T
  BY <1>1, <1>2, <1>3
<1>5. \A j \in 1 .. n : j - 1 \in T => j \in T
  <2>1. SUFFICES ASSUME NEW j \in 1 .. n, g[j - 1] = f[j - 1] PROVE g[j] = f[j]
    BY <1>1
  <2>2. j \in 1 .. n + 1
    BY <1>1
  <2> QED BY <1>1, <1>2, <1>3, <2>1, <2>2
<1>6. n \in T
  <2> HIDE DEF T, n
  <2>1. \A j \in 0 .. n : j \in T
    BY <1>1, <1>4, <1>5, UpTo
  <2> QED BY <1>1, <2>1
<1>7. n + 1 \in 1 .. n + 1 /\ (n + 1) - 1 = n /\ n \in 0 .. n
  BY <1>1
<1>8. g[n + 1] = g[n] \o x
  BY <1>1, <1>3, <1>7
<1> QED BY <1>2, <1>3, <1>6, <1>7, <1>8 DEF tt
-----------------------------------------------------------------------------
(* The block lengths of a request.                                         *)

\* Every number has an integer square root (rsynccommon.go, SumSizesSqroot).
LEMMA SqrtNat ==
  ASSUME NEW n \in Nat
  PROVE  Sqrt(n) \in Nat
<1> DEFINE T == {r \in Nat : n < (r + 1) * (r + 1)}
<1>1. n \in T
  <2>1. (n + 1) * (n + 1) = n * n + n + n + 1 /\ n * n >= 0
    OBVIOUS
  <2> QED BY <2>1
<1>2. PICK r \in T : \A y \in T : r <= y
  <2>1. T \subseteq Nat /\ T # {}
    BY <1>1
  <2> HIDE DEF T
  <2> QED BY <2>1, LeastNat
<1>3. r \in 0 .. n /\ n < (r + 1) * (r + 1)
  BY <1>1, <1>2
<1>4. r * r <= n
  <2>1. CASE r = 0
    BY <2>1
  <2>2. CASE r # 0
    <3>1. r - 1 \in Nat /\ r - 1 \notin T
      BY <1>2, <1>3, <2>2
    <3>2. ~(n < ((r - 1) + 1) * ((r - 1) + 1))
      BY <3>1
    <3>3. (r - 1) + 1 = r
      BY <1>3
    <3> QED BY <1>3, <3>2, <3>3
  <2> QED BY <2>1, <2>2
<1>5. \E q \in 0 .. n : q * q <= n /\ n < (q + 1) * (q + 1)
  BY <1>3, <1>4
<1>6. Sqrt(n) \in 0 .. n
  BY <1>5, Zenon DEF Sqrt
<1> QED BY <1>6

\* The blocks of a request have a positive length and together cover the file.
LEMMA HeadNat ==
  ASSUME NEW n \in Nat
  PROVE  /\ SumHead(n) = [count |-> SumHead(n).count, block |-> SumHead(n).block,
                          remainder |-> SumHead(n).remainder]
         /\ SumHead(n).block \in Nat \ {0}
         /\ SumHead(n).count \in Nat
         /\ SumHead(n).remainder \in Nat
         /\ SumHead(n).count * SumHead(n).block >= n
<1> DEFINE blk == IF Sqrt(n) > MinBlock THEN Sqrt(n) ELSE MinBlock
<1>1. blk \in Nat \ {0}
  BY SqrtNat, SumConstants
<1>2. SumHead(n) = [count |-> (n + blk - 1) \div blk, block |-> blk, remainder |-> n % blk]
  BY DEF SumHead
<1> HIDE DEF blk
<1>3. n % blk \in Nat
  BY <1>1
<1>4. (n + blk - 1) \div blk \in Nat /\ ((n + blk - 1) \div blk) * blk >= n
  <2> DEFINE q == (n + blk - 1) \div blk
             r == (n + blk - 1) % blk
  <2>1. n + blk - 1 \in Nat
    BY <1>1
  <2>2. r \in 0 .. blk - 1 /\ n + blk - 1 = blk * q + r /\ q \in Nat
    BY <1>1, <2>1, SMTT(30)
  <2> HIDE DEF q, r
  <2> QED BY <1>1, <2>2 DEF q
<1> QED BY <1>1, <1>2, <1>3, <1>4

\* Quotient and remainder are unique.
LEMMA DivUnique ==
  ASSUME NEW b \in Nat \ {0}, NEW q \in Nat, NEW r \in 0 .. b - 1, NEW n \in Nat, n = b * q + r
  PROVE  n \div b = q
<1> DEFINE d == n \div b
           s == n % b
<1>1. d \in Nat /\ s \in 0 .. b - 1 /\ n = b * d + s
  BY SMTT(30)
<1> HIDE DEF d, s
<1>2. CASE d < q
  <2>1. PICK x \in Nat : q = d + 1 + x
    <3>1. q - d - 1 \in Nat /\ q = d + 1 + (q - d - 1)
      BY <1>1, <1>2
    <3> QED BY <3>1
  <2>2. b * q = b * d + b + b * x /\ b * x >= 0
    BY <1>1, <2>1
  <2> QED BY <1>1, <2>2
<1>3. CASE q < d
  <2>1. PICK x \in Nat : d = q + 1 + x
    <3>1. d - q - 1 \in Nat /\ d = q + 1 + (d - q - 1)
      BY <1>1, <1>3
    <3> QED BY <3>1
  <2>2. b * d = b * q + b + b * x /\ b * x >= 0
    BY <1>1, <2>1
  <2> QED BY <1>1, <2>2
<1> QED BY <1>1, <1>2, <1>3 DEF d

\* Rounded up, a division leaves a last block that is not empty.
LEMMA LastBlock ==
  ASSUME NEW n \in Nat \ {0}, NEW b \in Nat \ {0}
  PROVE  LET q == (n + b - 1) \div b
             r == n % b
         IN /\ q \in Nat \ {0} /\ r \in 0 .. b - 1
            /\ n = (q - 1) * b + (IF r # 0 THEN r ELSE b)
<1> DEFINE q == (n + b - 1) \div b
           r == n % b
           d == n \div b
           Fits == /\ q \in Nat \ {0}
                   /\ n = (q - 1) * b + (IF r # 0 THEN r ELSE b)
<1>1. d \in Nat /\ r \in 0 .. b - 1 /\ n = b * d + r
  BY SMTT(30)
<1> HIDE DEF d, r
<1>2. ASSUME r = 0 PROVE Fits
  <2>1. b - 1 \in 0 .. b - 1 /\ n + b - 1 \in Nat /\ n + b - 1 = b * d + (b - 1)
    BY <1>1, <1>2
  <2>2. q = d
    BY <1>1, <2>1, DivUnique
  <2> HIDE DEF q
  <2>3. d # 0
    BY <1>1, <1>2
  <2>4. (d - 1) * b + b = b * d
    BY <1>1
  <2> QED BY <1>1, <1>2, <2>2, <2>3, <2>4
<1>3. ASSUME r # 0 PROVE Fits
  <2>1. r - 1 \in 0 .. b - 1 /\ d + 1 \in Nat /\ n + b - 1 \in Nat
    BY <1>1, <1>3
  <2>2. b * (d + 1) = b * d + b
    BY <1>1
  <2>3. n + b - 1 = b * (d + 1) + (r - 1)
    BY <1>1, <2>2
  <2>4. q = d + 1
    <3>1. PICK e \in Nat, x \in Nat : e = d + 1 /\ x = n + b - 1
      BY <2>1
    <3>2. x = b * e + (r - 1)
      BY <2>3, <3>1
    <3>3. x \div b = e
      BY <2>1, <3>2, DivUnique
    <3> QED BY <3>1, <3>3
  <2> HIDE DEF q
  <2>5. ((d + 1) - 1) * b = b * d
    BY <1>1
  <2> QED BY <1>1, <1>3, <2>4, <2>5
<1>4. r \in 0 .. b - 1 /\ Fits
  BY <1>1, <1>2, <1>3
<1> QED BY <1>4 DEF r

\* Where the blocks of n bytes lie: each from i * block on, as long as a block
\* or as what is left, and the last one up to the end.
BlocksOf(h, n) ==
  \A i \in 0 .. h.count - 1 :
     /\ i * h.block \in Nat /\ i * h.block < n
     /\ BlockLen(h, i) = Smaller(h.block, n - i * h.block)
     /\ IF i = h.count - 1 THEN i * h.block + BlockLen(h, i) = n
        ELSE i * h.block + BlockLen(h, i) = (i + 1) * h.block

\* SumSizesSqroot divides a file that is not empty into such blocks.
LEMMA Blocks ==
  ASSUME NEW n \in Nat \ {0}
  PROVE  BlocksOf(SumHead(n), n) /\ SumHead(n).count \in Nat \ {0}
<1> DEFINE h == SumHead(n)
           blk == IF Sqrt(n) > MinBlock THEN Sqrt(n) ELSE MinBlock
<1>1. blk \in Nat \ {0}
  BY SqrtNat, SumConstants
<1>2. h = [count |-> (n + blk - 1) \div blk, block |-> blk, remainder |-> n % blk]
  BY DEF SumHead
<1> HIDE DEF blk
<1>3. /\ h.block \in Nat \ {0} /\ h.count \in Nat \ {0} /\ h.remainder \in 0 .. h.block - 1
      /\ n = (h.count - 1) * h.block + (IF h.remainder # 0 THEN h.remainder ELSE h.block)
  BY <1>1, <1>2, LastBlock
<1> HIDE DEF h
<1> DEFINE b == h.block
           c == h.count
<1>4. b \in Nat \ {0} /\ c \in Nat \ {0}
  BY <1>3
<1>5. BlockLen(h, c - 1) \in 1 .. b /\ n = (c - 1) * b + BlockLen(h, c - 1)
  BY <1>3 DEF BlockLen
<1>6. ASSUME NEW i \in 0 .. c - 1
      PROVE  /\ i * b \in Nat /\ i * b < n
             /\ BlockLen(h, i) = Smaller(b, n - i * b)
             /\ IF i = c - 1 THEN i * b + BlockLen(h, i) = n
                ELSE i * b + BlockLen(h, i) = (i + 1) * b
  <2>1. i * b \in Nat
    BY <1>4
  <2>2. CASE i = c - 1
    BY <1>4, <1>5, <2>1, <2>2 DEF Smaller
  <2>3. CASE i # c - 1
    <3>1. BlockLen(h, i) = b
      BY <2>3 DEF BlockLen
    <3>2. (i + 1) * b = i * b + b
      BY <1>4
    <3>3. (i + 1) * b <= (c - 1) * b /\ (c - 1) * b \in Nat
      <4>1. PICK x \in Nat : c - 1 = (i + 1) + x
        <5>1. (c - 1) - (i + 1) \in Nat /\ c - 1 = (i + 1) + ((c - 1) - (i + 1))
          BY <1>4, <2>3
        <5> QED BY <5>1
      <4>2. ((i + 1) + x) * b = (i + 1) * b + x * b /\ x * b \in Nat /\ (i + 1) * b \in Nat
        BY <1>4
      <4> QED BY <4>1, <4>2
    <3> DEFINE y == i * b
               z == (c - 1) * b
    <3> HIDE DEF y, z
    <3>4. y \in Nat /\ z \in Nat /\ y + b <= z /\ n = z + BlockLen(h, c - 1)
      BY <1>5, <2>1, <3>2, <3>3 DEF y, z
    <3>5. y < n /\ b = Smaller(b, n - y)
      BY <1>4, <1>5, <3>4 DEF Smaller
    <3> QED BY <2>1, <2>3, <3>1, <3>2, <3>5 DEF y
  <2> QED BY <2>2, <2>3
<1> QED BY <1>4, <1>6 DEF BlocksOf, h

-----------------------------------------------------------------------------
(* Reading through the window.                                             *)

Good(w) == w \in Windows(Byte) /\ Faithful(w, source) /\ w.def >= ReadSize(head.block)

\* The file has been cut short, or not.
Shortened == \E left \in 0 .. Size : disk = SubSeq(source, 1, left)

Files ==
  /\ source \in Seq(Byte) /\ source # <<>> /\ basis \in Seq(Byte) /\ basis # <<>>
  /\ Shortened /\ head = SumHead(Len(basis)) /\ sums = SumsOf(basis)

\* The l bytes of the source from off on.
Part(off, l) == SubSeq(source, off + 1, off + l)

\* Neighbouring parts of the source join.
LEMMA PartConcat ==
  ASSUME source \in Seq(Byte), NEW off \in Nat, NEW x \in Nat, NEW y \in Nat,
         off + x + y <= Size
  PROVE  Part(off, x) \o Part(off + x, y) = Part(off, x + y)
<1>1. Size \in Nat
  BY LenProperties DEF Size
<1>2. /\ off + 1 \in 1 .. Len(source) + 1
      /\ off + x \in (off + 1) - 1 .. Len(source)
      /\ off + x + y \in off + x .. Len(source)
  BY <1>1 DEF Size
<1>3. SubSeq(source, off + 1, off + x) \o SubSeq(source, (off + x) + 1, off + x + y)
        = SubSeq(source, off + 1, off + x + y)
  BY <1>2, ConcatAdjacentSubSeq
<1>4. off + x + y = off + (x + y)
  OBVIOUS
<1> QED BY <1>3, <1>4 DEF Part

\* A part that lies in the source is a sequence of bytes of its length.
LEMMA PartType ==
  ASSUME source \in Seq(Byte), NEW off \in Nat, NEW x \in Nat, x = 0 \/ off + x <= Size
  PROVE  Part(off, x) \in Seq(Byte) /\ Len(Part(off, x)) = x
<1>1. Size \in Nat /\ \A i \in 1 .. Size : source[i] \in Byte
  BY LenProperties, ElementOfSeq DEF Size
<1>2. \A i \in off + 1 .. off + x : source[i] \in Byte
  BY <1>1
<1>3. off + 1 \in Int /\ off + x \in Int
  OBVIOUS
<1>4. /\ SubSeq(source, off + 1, off + x) \in Seq(Byte)
      /\ Len(SubSeq(source, off + 1, off + x))
           = IF off + 1 <= off + x THEN off + x - (off + 1) + 1 ELSE 0
  BY ONLY <1>2, <1>3, SubSeqProperties
<1> QED BY <1>4 DEF Part

\* What a window can be asked for.
Modest(off, l) == (l = 0 \/ off + l <= Size) /\ l <= 2 * head.block + 2 * Chunk

\* ms.ptr (fileio.go) answers with the bytes asked for or with an error, keeps the
\* window faithful, and does not fail on an intact file.
LEMMA ReadGood ==
  ASSUME Files, NEW w, Good(w), NEW off \in Nat, NEW l \in Int
  PROVE  LET r == Bytes(w, off, l)
         IN /\ r = [ok |-> r.ok, win |-> r.win, bytes |-> r.bytes]
            /\ r.ok \in BOOLEAN /\ Good(r.win) /\ r.bytes \in Seq(Byte)
            /\ r.ok => /\ l = 0 \/ (l > 0 /\ off + l <= Size)
                       /\ r.bytes = Part(off, l)
            /\ disk = source /\ l >= 0 /\ Modest(off, l) => r.ok
<1> DEFINE r == Bytes(w, off, l)
<1>0. source \in Seq(Byte) /\ Shortened
  BY DEF Files
<1>1. PICK left \in 0 .. Len(source) : disk = SubSeq(source, 1, left)
  BY <1>0 DEF Shortened, Size
<1>2. r = Ptr(w, Len(source), SubSeq(source, 1, left), off, l)
  BY <1>1 DEF Bytes, Size
<1>3. \E ok \in BOOLEAN : \E v, bytes :
        /\ r = [ok |-> ok, win |-> v, bytes |-> bytes] /\ (ok \/ (v = w /\ bytes = <<>>))
        /\ v.def = w.def
  <2> DEFINE cut == SubSeq(source, 1, left)
             start == off - AlignedOvershoot(off)
             length == WindowLength(w, Len(source), off, l)
             next == Reread(w, cut, start, length)
             From(v) == SubSeq(v.buf, off - v.off + 1, off - v.off + l)
             readable == length > KeptLength(w, start, length) /\ start + length <= Len(cut)
  <2>1. r = CASE l = 0 -> [ok |-> TRUE, win |-> w, bytes |-> <<>>]
              [] l > 0 /\ Holds(w, off, l) -> [ok |-> TRUE, win |-> w, bytes |-> From(w)]
              [] l > 0 /\ ~Holds(w, off, l) /\ readable ->
                   [ok |-> TRUE, win |-> next, bytes |-> From(next)]
              [] l < 0 \/ (l > 0 /\ ~Holds(w, off, l) /\ ~readable) ->
                   [ok |-> FALSE, win |-> w, bytes |-> <<>>]
    BY <1>2, Zenon DEF Ptr
  <2>2. l = 0 \/ l > 0 \/ l < 0
    OBVIOUS
  <2>3. next.def = w.def
    BY DEF Reread, Windows, Good
  <2> HIDE DEF r, next, From, readable
  <2>4. \/ r = [ok |-> TRUE, win |-> w, bytes |-> <<>>]
        \/ r = [ok |-> TRUE, win |-> w, bytes |-> From(w)]
        \/ r = [ok |-> TRUE, win |-> next, bytes |-> From(next)]
        \/ r = [ok |-> FALSE, win |-> w, bytes |-> <<>>]
    BY <2>1, <2>2
  <2> QED BY <2>3, <2>4
<1> HIDE DEF r
<1>4. /\ r = [ok |-> r.ok, win |-> r.win, bytes |-> r.bytes]
      /\ r.ok \in BOOLEAN /\ (r.ok \/ (r.win = w /\ r.bytes = <<>>))
      /\ r.win.def = w.def
  <2>1. PICK ok \in BOOLEAN : \E v, bytes :
          /\ r = [ok |-> ok, win |-> v, bytes |-> bytes] /\ (ok \/ (v = w /\ bytes = <<>>))
          /\ v.def = w.def
    BY <1>3
  <2>2. PICK v, bytes :
          /\ r = [ok |-> ok, win |-> v, bytes |-> bytes] /\ (ok \/ (v = w /\ bytes = <<>>))
          /\ v.def = w.def
    BY <2>1
  <2>3. r.ok = ok /\ r.win = v /\ r.bytes = bytes
    BY <2>2
  <2> QED BY <2>2, <2>3
<1>5. disk = source /\ l >= 0 /\ Modest(off, l) => r.ok
  <2>1. SUFFICES ASSUME disk = source, l >= 0, Modest(off, l) PROVE r.ok
    OBVIOUS
  <2>2. head.block \in Nat \ {0}
    BY HeadNat, LenProperties DEF Files
  <2>3. w \in Windows(Byte) /\ w.def \in Nat /\ w.def >= ReadSize(head.block)
    BY DEF Good, Windows
  <2>4. l \in Nat /\ l + Align <= w.def
    BY <2>1, <2>2, <2>3, WindowConstants DEF Modest, ReadSize, Larger
  <2>5. l = 0 \/ off + l <= Len(source)
    BY <2>1 DEF Modest, Size
  <2>6. Ptr(w, Len(source), source, off, l).ok
    BY <1>0, <2>3, <2>4, <2>5, PtrReads
  <2> QED BY <2>1, <2>6 DEF r, Bytes, Size
<1>6. CASE r.ok
  <2>1. /\ l = 0 \/ (l > 0 /\ off + l <= Len(source))
        /\ r.bytes = SubSeq(source, off + 1, off + l)
        /\ r.win \in Windows(Byte) /\ Faithful(r.win, source)
    BY <1>0, <1>2, <1>6, PtrFaithful DEF Good
  <2>2. l \in Nat
    BY <2>1
  <2>3. Part(off, l) \in Seq(Byte)
    BY <1>0, <2>1, <2>2, PartType DEF Size
  <2> QED BY <1>4, <1>5, <2>1, <2>3 DEF Good, Part, Size, r
<1>7. CASE ~r.ok
  <2>1. r.win = w /\ r.bytes = <<>> /\ <<>> \in Seq(Byte)
    BY <1>4, <1>7
  <2>2. Good(r.win) /\ r.bytes \in Seq(Byte)
    BY <2>1
  <2> QED BY <1>4, <1>5, <1>7, <2>2 DEF r
<1> QED BY <1>6, <1>7 DEF r

\* What the pieces of a read come to, as far as they could be read.
Answers == [ok : BOOLEAN, win : {w \in Windows(Byte) : Good(w)}, parts : Seq(Seq(Byte))]

\* Of the n bytes from off, x have been read: upto, unless a read failed.
HasRead(p, off, n, x, upto) ==
  /\ p \in Answers
  /\ x \in 0 .. n /\ (x = 0 \/ off + x <= Size)
  /\ FlattenSeq(p.parts) = Part(off, x)
  /\ p.ok => x = upto
  /\ disk = source /\ off + n <= Size => p.ok

Reads(p, off, n) == \E x : HasRead(p, off, n, x, n)

\* Reading n bytes chunk by chunk reads a part of the source, all of it if no read
\* fails.
LEMMA PiecesGood ==
  ASSUME Files, NEW w, Good(w), NEW off \in Nat, NEW n \in Nat
  PROVE  /\ Reads(Pieces(w, off, n), off, n)
         /\ n = 0 => Pieces(w, off, n).parts = <<>>
<1> DEFINE count == (n + Chunk - 1) \div Chunk
           Piece(r, done) == Bytes(r.win, off + done, Smaller(Chunk, n - done))
           base == [ok |-> TRUE, win |-> w, parts |-> <<>>]
           next(j, r) == Joined(r, Piece(r, (j - 1) * Chunk))
           eq(h) == h = [j \in 0 .. count |-> IF j = 0 THEN base ELSE next(j, h[j - 1])]
           after == CHOOSE h : eq(h)
           step == [p \in (1 .. count) \X Answers |-> next(p[1], p[2])]
<1>1. Chunk \in Nat \ {0} /\ source \in Seq(Byte)
  BY WindowConstants DEF Files
<1>2. /\ count \in Nat /\ n <= count * Chunk
      /\ \A j \in 1 .. count : (j - 1) * Chunk \in Nat /\ (j - 1) * Chunk < n
  <2> DEFINE q == (n + Chunk - 1) % Chunk
  <2>1. n + Chunk - 1 \in Nat
    BY <1>1
  <2>2. q \in 0 .. Chunk - 1 /\ n + Chunk - 1 = Chunk * count + q /\ count \in Nat
    BY <1>1, <2>1, SMTT(30)
  <2> HIDE DEF q, count
  <2>3. ASSUME NEW j \in 1 .. count PROVE (j - 1) * Chunk \in Nat /\ (j - 1) * Chunk <= Chunk * count - Chunk
    BY <1>1, <2>2
  <2>4. count * Chunk = Chunk * count /\ Chunk * count \in Nat
    BY <1>1, <2>2
  <2> QED BY <1>1, <2>2, <2>3, <2>4
<1>3. Pieces(w, off, n) = after[count]
  BY Zenon DEF Pieces
<1>4. base \in Answers
  BY DEF Answers, Good
<1>5. ASSUME NEW j \in 1 .. count, NEW r \in Answers
      PROVE  LET d == (j - 1) * Chunk
                 l == Smaller(Chunk, n - d)
                 p == Piece(r, d)
             IN /\ d \in Nat /\ l \in 1 .. n - d
                /\ p.ok \in BOOLEAN /\ Good(p.win) /\ p.bytes \in Seq(Byte)
                /\ p.ok => off + d + l <= Size /\ p.bytes = Part(off + d, l)
                /\ disk = source /\ off + n <= Size => p.ok
                /\ next(j, r) = IF r.ok /\ p.ok
                                THEN [ok |-> TRUE, win |-> p.win, parts |-> Append(r.parts, p.bytes)]
                                ELSE [r EXCEPT !.ok = FALSE]
                /\ next(j, r) \in Answers
  <2> DEFINE d == (j - 1) * Chunk
             l == Smaller(Chunk, n - d)
             p == Piece(r, d)
  <2>1. d \in Nat /\ d < n
    BY <1>2
  <2> HIDE DEF d
  <2>2. l \in 1 .. n - d /\ l <= Chunk
    BY <1>1, <2>1 DEF Smaller
  <2>3. Good(r.win)
    BY DEF Answers
  <2>4. off + d \in Nat /\ l \in Int /\ p = Bytes(r.win, off + d, l)
    BY <2>1, <2>2
  <2> HIDE DEF l, p
  <2>5. /\ p.ok \in BOOLEAN /\ Good(p.win) /\ p.bytes \in Seq(Byte)
        /\ p.ok => /\ l = 0 \/ (l > 0 /\ off + d + l <= Size)
                   /\ p.bytes = Part(off + d, l)
        /\ disk = source /\ l >= 0 /\ Modest(off + d, l) => p.ok
    BY <2>3, <2>4, ReadGood
  <2>6. next(j, r) = IF r.ok /\ p.ok
                     THEN [ok |-> TRUE, win |-> p.win, parts |-> Append(r.parts, p.bytes)]
                     ELSE [r EXCEPT !.ok = FALSE]
    BY Zenon DEF Joined, d, l, p
  <2>7. next(j, r) \in Answers
    <3> HIDE DEF next
    <3>1. CASE r.ok /\ p.ok
      <4>1. Append(r.parts, p.bytes) \in Seq(Seq(Byte))
        BY <2>5, AppendProperties DEF Answers
      <4> QED BY <2>5, <2>6, <3>1, <4>1 DEF Answers, Good
    <3>2. CASE ~(r.ok /\ p.ok)
      BY <2>6, <3>2 DEF Answers
    <3> QED BY <3>1, <3>2
  <2> HIDE DEF next
  <2>8. l # 0 /\ l >= 0
    BY <2>2
  <2>9. off + n <= Size => Modest(off + d, l)
    <3>1. head.block \in Nat /\ Size \in Nat
      BY HeadNat, LenProperties DEF Files, Size
    <3>2. off + d + l <= off + n
      BY <2>1, <2>2
    <3>3. off + n <= Size => off + d + l <= Size
      BY <2>1, <2>2, <3>1, <3>2
    <3>4. l <= 2 * head.block + 2 * Chunk
      BY <1>1, <2>2, <3>1
    <3> QED BY <3>3, <3>4 DEF Modest
  <2> QED BY <2>1, <2>2, <2>5, <2>6, <2>7, <2>8, <2>9 DEF d, l, p
<1> HIDE DEF next, base
<1>6. Steps(step, count, Answers) /\ \A j \in 1 .. count : \A r \in Answers : step[<<j, r>>] = next(j, r)
  <2>1. \A j \in 1 .. count : \A r \in Answers : next(j, r) \in Answers
    BY <1>5
  <2>2. \A j \in 1 .. count : \A r \in Answers : step[<<j, r>>] = next(j, r)
    <3>1. SUFFICES ASSUME NEW j \in 1 .. count, NEW r \in Answers PROVE step[<<j, r>>] = next(j, r)
      OBVIOUS
    <3>2. <<j, r>> \in (1 .. count) \X Answers
      OBVIOUS
    <3> QED BY <3>2
  <2> HIDE DEF step
  <2> QED BY <2>1, <2>2 DEF Steps
<1> HIDE DEF step, count
<1>7. PICK f \in [0 .. count -> Answers] : Runs(f, base, count, step)
  BY <1>2, <1>4, <1>6, Recursion
<1>8. eq(f)
  <2>1. ASSUME NEW j \in 0 .. count
        PROVE  f[j] = IF j = 0 THEN base ELSE next(j, f[j - 1])
    <3>1. CASE j = 0
      BY <1>7, <3>1 DEF Runs
    <3>2. CASE j # 0
      <4>1. j \in 1 .. count /\ j - 1 \in 0 .. count
        BY <1>2, <3>2
      <4>2. f[j - 1] \in Answers
        BY <4>1
      <4> QED BY <1>6, <1>7, <3>2, <4>1, <4>2 DEF Runs
    <3> QED BY <3>1, <3>2
  <2>2. f = [j \in 0 .. count |-> f[j]]
    OBVIOUS
  <2> QED BY <2>1, <2>2, Zenon
<1>9. eq(after)
  <2> HIDE DEF eq
  <2> QED BY <1>8
<1> HIDE DEF after
<1>10. after[0] = base /\ \A j \in 1 .. count : after[j] = next(j, after[j - 1])
  <2>1. \A j \in 0 .. count : after[j] = IF j = 0 THEN base ELSE next(j, after[j - 1])
    BY <1>9, Zenon
  <2>2. 0 \in 0 .. count /\ \A j \in 1 .. count : j \in 0 .. count /\ j # 0
    BY <1>2
  <2> QED BY <2>1, <2>2
<1> HIDE DEF eq
<1> DEFINE T == {j \in 0 .. count : \E x : HasRead(after[j], off, n, x, Smaller(j * Chunk, n))}
<1>11. 0 \in T
  <2>1. FlattenSeq(base.parts) = <<>> /\ Part(off, 0) = <<>> /\ base.ok
    <3>1. base.parts = <<>> /\ base.ok
      BY DEF base
    <3>2. FlattenSeq(<<>>) = <<>>
      BY DEF FlattenSeq
    <3>3. Part(off, 0) = <<>>
      BY SubSeqEmpty DEF Part
    <3> QED BY <3>1, <3>2, <3>3
  <2>2. Smaller(0 * Chunk, n) = 0
    BY <1>1 DEF Smaller
  <2>3. HasRead(after[0], off, n, 0, 0)
    BY <1>4, <1>10, <2>1 DEF HasRead
  <2> QED BY <1>2, <2>2, <2>3
<1>12. ASSUME NEW j \in 1 .. count, j - 1 \in T
       PROVE  j \in T
  <2> DEFINE r == after[j - 1]
             d == (j - 1) * Chunk
             l == Smaller(Chunk, n - d)
             p == Piece(r, d)
  <2>1. PICK x : HasRead(r, off, n, x, Smaller(d, n))
    BY <1>12
  <2>2. /\ r \in Answers /\ x \in 0 .. n /\ (x = 0 \/ off + x <= Size)
        /\ FlattenSeq(r.parts) = Part(off, x)
        /\ r.ok => x = Smaller(d, n)
        /\ disk = source /\ off + n <= Size => r.ok
    BY <2>1 DEF HasRead
  <2>3. /\ d \in Nat /\ l \in 1 .. n - d
        /\ p.ok \in BOOLEAN /\ Good(p.win) /\ p.bytes \in Seq(Byte)
        /\ p.ok => off + d + l <= Size /\ p.bytes = Part(off + d, l)
        /\ disk = source /\ off + n <= Size => p.ok
        /\ next(j, r) = IF r.ok /\ p.ok
                        THEN [ok |-> TRUE, win |-> p.win, parts |-> Append(r.parts, p.bytes)]
                        ELSE [r EXCEPT !.ok = FALSE]
        /\ next(j, r) \in Answers
    BY <1>5, <2>2
  <2>4. after[j] = next(j, r)
    BY <1>10
  <2> HIDE DEF p, r
  <2>5. CASE r.ok /\ p.ok
    <3>1. d < n /\ x = d
      BY <1>2, <2>2, <2>3, <2>5 DEF Smaller
    <3>2. d + l = Smaller(j * Chunk, n)
      <4>1. j * Chunk = d + Chunk
        BY <1>1, <1>2
      <4>2. d \in Nat /\ l = Smaller(Chunk, n - d)
        BY <2>3
      <4> HIDE DEF d, l
      <4> QED BY <1>1, <3>1, <4>1, <4>2 DEF Smaller
    <3> HIDE DEF d, l
    <3>3. after[j] = [ok |-> TRUE, win |-> p.win, parts |-> Append(r.parts, p.bytes)]
      BY <2>3, <2>4, <2>5
    <3>4. r.parts \in Seq(Seq(Byte))
      BY <2>2 DEF Answers
    <3>5. FlattenSeq(Append(r.parts, p.bytes)) = FlattenSeq(r.parts) \o p.bytes
      BY <2>3, <3>4, FlattenAppend
    <3>6. d \in Nat /\ l \in Nat /\ off + d + l <= Size /\ d + l \in 0 .. n
      BY <2>3, <2>5
    <3>7. Part(off, d) \o Part(off + d, l) = Part(off, d + l)
      BY <1>1, <3>6, PartConcat
    <3>8. FlattenSeq(after[j].parts) = Part(off, d + l)
      <4>1. after[j].parts = Append(r.parts, p.bytes)
        BY <3>3
      <4>2. FlattenSeq(r.parts) = Part(off, d)
        BY <2>2, <3>1
      <4>3. p.bytes = Part(off + d, l)
        BY <2>3, <2>5
      <4> QED BY <3>5, <3>7, <4>1, <4>2, <4>3
    <3>9. HasRead(after[j], off, n, d + l, d + l)
      <4>1. after[j] \in Answers /\ after[j].ok
        BY <2>3, <2>4, <3>3
      <4>2. off + (d + l) <= Size
        <5>1. off + d + l = off + (d + l)
          BY <3>6
        <5> QED BY <3>6, <5>1
      <4> QED BY <3>6, <3>8, <4>1, <4>2 DEF HasRead
    <3>10. j \in 0 .. count
      BY <1>2
    <3> QED BY <3>2, <3>9, <3>10
  <2>6. CASE ~(r.ok /\ p.ok)
    <3>1. after[j] = [r EXCEPT !.ok = FALSE]
      BY <2>3, <2>4, <2>6
    <3>2. after[j] \in Answers /\ after[j].parts = r.parts /\ ~after[j].ok
      BY <2>2, <3>1 DEF Answers
    <3>3. HasRead(after[j], off, n, x, Smaller(j * Chunk, n))
      BY <2>2, <2>3, <2>6, <3>2 DEF HasRead
    <3> QED BY <3>3
  <2> QED BY <2>5, <2>6
<1>13. count \in T
  <2> HIDE DEF T
  <2>1. \A j \in 0 .. count : j \in T
    BY <1>2, <1>11, <1>12, UpTo
  <2> QED BY <1>2, <2>1
<1>14. Smaller(count * Chunk, n) = n
  BY <1>1, <1>2 DEF Smaller
<1>15. n = 0 => after[count].parts = <<>>
  <2>1. n = 0 => count = 0
    BY <1>1, <1>2
  <2>2. base.parts = <<>>
    BY DEF base
  <2> QED BY <1>10, <2>1, <2>2
<1> QED BY <1>3, <1>13, <1>14, <1>15 DEF Reads

\* A block of the request is not empty, its strong checksum is its content.
LEMMA SumsLength ==
  ASSUME Files, NEW i \in 0 .. head.count - 1
  PROVE  /\ head.block \in Nat \ {0} /\ i \in Nat
         /\ sums[i].len \in Nat \ {0}
         /\ sums[i].sum2 = BlockAt(basis, head, i)
<1>1. Len(basis) \in Nat /\ head = SumHead(Len(basis)) /\ sums = SumsOf(basis)
  BY LenProperties DEF Files
<1>2. head.block \in Nat \ {0} /\ head.count \in Nat /\ head.remainder \in Nat
  BY <1>1, HeadNat
<1>3. sums[i] = [len |-> BlockLen(head, i),
                 sum1 |-> Checksum1(BlockAt(basis, head, i)),
                 sum2 |-> BlockAt(basis, head, i)]
  BY <1>1 DEF SumsOf
<1>4. BlockLen(head, i) \in Nat \ {0}
  BY <1>2 DEF BlockLen
<1> QED BY <1>2, <1>3, <1>4

\* What ends the loop lies in the file or one byte after it.
LEMMA EndInFile ==
  ASSUME Files
  PROVE  /\ head.block \in Nat \ {0} /\ head.count \in Nat \ {0} /\ Size \in Nat \ {0}
         /\ end \in Int /\ end <= Size
<1>1. Len(basis) \in Nat \ {0} /\ Size \in Nat \ {0}
  <2>1. /\ Len(basis) \in Nat /\ basis \in Seq(Byte) /\ basis # <<>>
        /\ Len(source) \in Nat /\ source \in Seq(Byte) /\ source # <<>>
    BY LenProperties DEF Files
  <2>2. Len(basis) # 0 /\ Len(source) # 0
    BY <2>1, EmptySeq
  <2> QED BY <2>1, <2>2 DEF Size
<1>2. head = SumHead(Len(basis))
  BY DEF Files
<1>3. /\ head.block \in Nat \ {0} /\ head.count \in Nat
      /\ head.count * head.block >= Len(basis)
  BY <1>1, <1>2, HeadNat
<1>4. head.count # 0
  BY <1>1, <1>3
<1>5. sums[head.count - 1].len \in Nat \ {0}
  <2>1. head.count - 1 \in 0 .. head.count - 1
    BY <1>3, <1>4
  <2> QED BY <2>1, SumsLength
<1> QED BY <1>1, <1>3, <1>4, <1>5 DEF end
-----------------------------------------------------------------------------
(* What matched sends.                                                     *)

Token == [t : {"lit", "block", "end"}, v : Seq(Byte), i : Nat]

\* What the tokens of said stand for.
Says(said) == FlattenSeq([j \in 1 .. Len(said) |-> Meaning(said[j])])

\* No token, no meaning.
LEMMA SaysNothing == Says(<<>>) = <<>>
<1> DEFINE m == [j \in 1 .. Len(<<>>) |-> Meaning(<<>>[j])]
<1>1. Len(<<>>) = 0
  OBVIOUS
<1>2. m = [j \in 1 .. 0 |-> Meaning(<<>>[j])]
  BY <1>1
<1>3. m \in Seq({}) /\ Len(m) = 0
  BY <1>2
<1> HIDE DEF m
<1>4. m = <<>>
  BY <1>3, EmptySeq
<1>5. FlattenSeq(m) = <<>>
  BY <1>4 DEF FlattenSeq
<1> QED BY <1>5 DEF Says, m

\* The meaning of one token.
LEMMA SaysOne ==
  ASSUME NEW t, Meaning(t) \in Seq(Byte)
  PROVE  Says(<<t>>) = Meaning(t)
<1> DEFINE m == [j \in 1 .. Len(<<t>>) |-> Meaning(<<t>>[j])]
           e == Append(<<>>, Meaning(t))
<1>1. Len(<<t>>) = 1 /\ <<t>>[1] = t
  OBVIOUS
<1>2. m = [j \in 1 .. 1 |-> Meaning(t)]
  BY <1>1
<1>3. <<>> \in Seq(Seq(Byte))
  OBVIOUS
<1>4. e \in Seq(Seq(Byte)) /\ Len(e) = 1 /\ e[1] = Meaning(t)
  BY <1>3, AppendProperties
<1>5. m \in Seq(Seq(Byte)) /\ Len(m) = 1 /\ m[1] = Meaning(t)
  BY <1>2
<1> HIDE DEF m, e
<1>6. m = e
  BY <1>4, <1>5, SeqEqual
<1>7. FlattenSeq(e) = FlattenSeq(<<>>) \o Meaning(t)
  BY <1>3, FlattenAppend DEF e
<1>8. FlattenSeq(<<>>) = <<>>
  BY DEF FlattenSeq
<1>9. FlattenSeq(m) = Meaning(t)
  BY <1>6, <1>7, <1>8, ConcatEmptySeq
<1> QED BY <1>9 DEF Says, m

\* A matched that begins where the last one ended sends the source from there
\* on, to the end of the token, or, if a read fails, less of it.
MatchedOK(m, to) ==
  /\ m.ok \in BOOLEAN /\ Good(m.win) /\ m.wire \in Seq(Token)
  /\ \E x \in lastMatch .. Size : m.assembled = Part(0, x)
  /\ m.lastMatch = to
  /\ m.ok => m.assembled = Part(0, to) /\ m.hashed = Part(0, to)
  /\ m.hashed \in Seq(Byte)
  /\ disk = source => m.ok

Wordless == [t : {"block", "end", "sum"}, v : Seq(Byte), i : Nat]

\* Where matched may be called, with len more bytes in the token.
Ready(at, len) ==
  /\ wire \in Seq(Token) /\ lastMatch \in Nat
  /\ assembled = Part(0, lastMatch) /\ hashed = Part(0, lastMatch)
  /\ lastMatch <= at /\ at + len <= Size

\* matched, called where the last one ended, with a token that stands for the bytes
\* from at on (match.go:232-281), answers as MatchedOK says; and if no literal is
\* due it sends none.
LEMMA MatchedGood ==
  ASSUME Files, NEW w, Good(w), NEW at \in Nat, NEW len \in Nat, Ready(at, len),
         NEW token \in Seq(Token), Says(token) = Part(at, len)
  PROVE  /\ MatchedOK(Matched(w, at, token, len), at + len)
         /\ lastMatch = at /\ wire \in Seq(Wordless) /\ token \in Seq(Wordless)
              => Matched(w, at, token, len).wire \in Seq(Wordless)
<1> DEFINE n == at - lastMatch
           lits == Pieces(w, lastMatch, n)
           hash == Pieces(lits.win, lastMatch, n + len)
           said == IF lits.ok THEN token ELSE <<>>
           sent == [j \in 1 .. Len(lits.parts) |-> Lit(lits.parts[j])]
           m == Matched(w, at, token, len)
<1>1. /\ Size \in Nat /\ source \in Seq(Byte)
      /\ wire \in Seq(Token) /\ lastMatch \in Nat
      /\ assembled = Part(0, lastMatch) /\ hashed = Part(0, lastMatch)
      /\ lastMatch <= at /\ at + len <= Size
  BY LenProperties DEF Files, Size, Ready
<1>2. n \in Nat /\ n + len \in Nat /\ lastMatch + n = at /\ lastMatch + (n + len) = at + len
  BY <1>1
<1>3. m = [ok |-> lits.ok /\ hash.ok,
           win |-> hash.win,
           wire |-> wire \o sent \o said,
           assembled |-> assembled \o FlattenSeq(lits.parts) \o Says(said),
           hashed |-> IF lits.ok THEN hashed \o FlattenSeq(hash.parts) ELSE hashed,
           lastMatch |-> at + len]
  BY Zenon DEF Matched, SentUpTo, Says
<1> HIDE DEF m, n
<1>4. Reads(lits, lastMatch, n) /\ (n = 0 => lits.parts = <<>>)
  BY <1>1, <1>2, PiecesGood
<1> HIDE DEF lits
<1>5. PICK x : HasRead(lits, lastMatch, n, x, n)
  BY <1>4 DEF Reads
<1>6. /\ lits \in Answers /\ x \in 0 .. n
      /\ FlattenSeq(lits.parts) = Part(lastMatch, x) /\ (lits.ok => x = n)
      /\ disk = source => lits.ok
  <2>1. lastMatch + n <= Size
    BY <1>1, <1>2
  <2> QED BY <1>5, <2>1 DEF HasRead
<1>7. Good(lits.win) /\ lits.ok \in BOOLEAN /\ lits.parts \in Seq(Seq(Byte))
  BY <1>6 DEF Answers
<1>8. Reads(hash, lastMatch, n + len)
  BY <1>1, <1>2, <1>7, PiecesGood
<1> HIDE DEF hash
<1>9. PICK y : HasRead(hash, lastMatch, n + len, y, n + len)
  BY <1>8 DEF Reads
<1>10. /\ hash \in Answers
       /\ FlattenSeq(hash.parts) = Part(lastMatch, y) /\ (hash.ok => y = n + len)
       /\ disk = source => hash.ok
  <2>1. lastMatch + (n + len) <= Size
    BY <1>1, <1>2
  <2> QED BY <1>9, <2>1 DEF HasRead
<1>11. Good(hash.win) /\ hash.ok \in BOOLEAN
  BY <1>10 DEF Answers
<1>12. /\ m.ok = (lits.ok /\ hash.ok) /\ m.win = hash.win /\ m.wire = wire \o sent \o said
       /\ m.assembled = assembled \o FlattenSeq(lits.parts) \o Says(said)
       /\ m.hashed = IF lits.ok THEN hashed \o FlattenSeq(hash.parts) ELSE hashed
       /\ m.lastMatch = at + len
  <2> HIDE DEF sent, said
  <2> QED BY <1>3
<1>13. m.ok \in BOOLEAN /\ (disk = source => m.ok)
  BY <1>6, <1>7, <1>10, <1>11, <1>12
<1>18. m.hashed \in Seq(Byte)
  <2>1. hashed \in Seq(Byte)
    <3>1. 0 + lastMatch <= Size
      BY <1>1
    <3> QED BY <1>1, <3>1, PartType
  <2>2. hash.parts \in Seq(Seq(Byte))
    BY <1>10 DEF Answers
  <2>3. FlattenSeq(hash.parts) \in Seq(Byte)
    <3>1. <<>> \in Seq(Byte)
      OBVIOUS
    <3> QED BY <2>2, <3>1, FlattenAppend
  <2>4. hashed \o FlattenSeq(hash.parts) \in Seq(Byte)
    BY <2>1, <2>3, ConcatProperties
  <2> QED BY <1>12, <2>1, <2>4
<1>14. m.wire \in Seq(Token)
  <2>1. \A j \in 1 .. Len(lits.parts) : Lit(lits.parts[j]) \in Token
    BY <1>7, ElementOfSeq DEF Lit, Token
  <2>2. Len(lits.parts) \in Nat
    BY <1>7, LenProperties
  <2>3. sent \in Seq(Token)
    BY <2>1, <2>2
  <2>4. said \in Seq(Token)
    <3>1. <<>> \in Seq(Token)
      OBVIOUS
    <3> QED BY <3>1
  <2> HIDE DEF sent, said
  <2>5. wire \o sent \in Seq(Token)
    BY <1>1, <2>3, ConcatProperties
  <2> QED BY <1>12, <2>4, <2>5, ConcatProperties
<1>15. lastMatch = at /\ wire \in Seq(Wordless) /\ token \in Seq(Wordless)
         => m.wire \in Seq(Wordless)
  <2>1. SUFFICES ASSUME lastMatch = at, wire \in Seq(Wordless), token \in Seq(Wordless)
                 PROVE  m.wire \in Seq(Wordless)
    OBVIOUS
  <2>2. Len(lits.parts) = 0
    <3>1. n = 0
      BY <2>1, <1>1, <1>2
    <3>2. lits.parts = <<>>
      BY <1>4, <3>1
    <3> QED BY <3>2
  <2>3. sent \in Seq(Wordless)
    BY <2>2
  <2>4. said \in Seq(Wordless)
    <3>1. <<>> \in Seq(Wordless)
      OBVIOUS
    <3> QED BY <2>1, <3>1
  <2> HIDE DEF sent, said
  <2>5. wire \o sent \in Seq(Wordless)
    BY <2>1, <2>3, ConcatProperties
  <2> QED BY <1>12, <2>4, <2>5, ConcatProperties
<1>16. assembled \o FlattenSeq(lits.parts) = Part(0, lastMatch + x)
  <2>1. x \in Nat /\ 0 + lastMatch + x <= Size /\ 0 + lastMatch = lastMatch
    BY <1>1, <1>2, <1>6
  <2>2. Part(0, lastMatch) \o Part(0 + lastMatch, x) = Part(0, lastMatch + x)
    BY <1>1, <2>1, PartConcat
  <2> QED BY <1>1, <1>6, <2>1, <2>2
<1>17. MatchedOK(m, at + len)
  <2>1. CASE lits.ok
    <3>1. lastMatch + x = at
      BY <1>2, <1>6, <2>1
    <3>2. Says(said) = Part(at, len)
      BY <2>1
    <3>3. m.assembled = Part(0, at + len)
      <4>1. 0 + at = at /\ 0 + at + len <= Size
        BY <1>1
      <4>2. Part(0, at) \o Part(0 + at, len) = Part(0, at + len)
        BY <1>1, <4>1, PartConcat
      <4>3. m.assembled = Part(0, at) \o Part(at, len)
        BY <1>12, <1>16, <3>1, <3>2
      <4> QED BY <4>1, <4>2, <4>3
    <3>4. hash.ok => m.hashed = Part(0, at + len)
      <4>1. SUFFICES ASSUME hash.ok PROVE m.hashed = Part(0, at + len)
        OBVIOUS
      <4>2. y = n + len
        BY <1>10, <4>1
      <4>3. 0 + lastMatch = lastMatch /\ 0 + lastMatch + (n + len) <= Size
        BY <1>1, <1>2
      <4>4. Part(0, lastMatch) \o Part(0 + lastMatch, n + len) = Part(0, lastMatch + (n + len))
        <5> DEFINE z == n + len
        <5>1. z \in Nat /\ 0 + lastMatch + z <= Size
          BY <1>2, <4>3
        <5> HIDE DEF z
        <5>2. Part(0, lastMatch) \o Part(0 + lastMatch, z) = Part(0, lastMatch + z)
          BY <1>1, <5>1, PartConcat
        <5> QED BY <5>2 DEF z
      <4>5. m.hashed = Part(0, lastMatch) \o Part(lastMatch, n + len)
        BY <1>1, <1>10, <1>12, <2>1, <4>2
      <4> QED BY <1>2, <4>3, <4>4, <4>5
    <3>5. at + len \in lastMatch .. Size
      BY <1>1
    <3>6. \E z \in lastMatch .. Size : m.assembled = Part(0, z)
      BY <3>3, <3>5
    <3> HIDE DEF said
    <3>7. Good(m.win) /\ m.lastMatch = at + len /\ (m.ok => hash.ok)
      BY <1>11, <1>12
    <3> QED BY <1>13, <1>14, <1>18, <3>3, <3>4, <3>6, <3>7 DEF MatchedOK
  <2>2. CASE ~lits.ok
    <3>1. Says(said) = <<>>
      BY <2>2, SaysNothing
    <3>2. lastMatch + x \in lastMatch .. Size /\ lastMatch + x \in Nat
      BY <1>1, <1>2, <1>6
    <3>3. Part(0, lastMatch + x) \in Seq(Byte)
      BY <1>1, <3>2, PartType
    <3>4. m.assembled = Part(0, lastMatch + x)
      <4>1. m.assembled = Part(0, lastMatch + x) \o <<>>
        BY <1>12, <1>16, <3>1
      <4> QED BY <3>3, <4>1, ConcatEmptySeq
    <3>5. \E z \in lastMatch .. Size : m.assembled = Part(0, z)
      BY <3>2, <3>4
    <3> HIDE DEF said
    <3>6. Good(m.win) /\ m.lastMatch = at + len /\ ~m.ok
      BY <1>11, <1>12, <2>2
    <3> QED BY <1>13, <1>14, <1>18, <3>5, <3>6 DEF MatchedOK
  <2> QED BY <1>7, <2>1, <2>2
<1> QED BY <1>15, <1>17 DEF m
-----------------------------------------------------------------------------
(* The weak checksum of a moving block.                                    *)

\* Remainders are unique.
LEMMA ModUnique ==
  ASSUME NEW M \in Nat \ {0}, NEW q \in Int, NEW r \in 0 .. M - 1
  PROVE  (M * q + r) % M = r
<1> DEFINE x == M * q + r
           q2 == x \div M
           r2 == x % M
<1>1. x \in Int
  OBVIOUS
<1> HIDE DEF x
<1>2. r2 \in 0 .. M - 1 /\ x = M * q2 + r2 /\ q2 \in Int
  BY <1>1, SMTT(30)
<1> HIDE DEF q2, r2
<1>3. M * q + r = M * q2 + r2
  BY <1>2 DEF x
<1>4. q = q2
  <2>1. CASE q > q2
    <3>1. M * q >= M * (q2 + 1)
      BY <1>2, <2>1
    <3>2. M * (q2 + 1) = M * q2 + M
      BY <1>2
    <3> QED BY <1>2, <1>3, <3>1, <3>2
  <2>2. CASE q < q2
    <3>1. M * q2 >= M * (q + 1)
      BY <1>2, <2>2
    <3>2. M * (q + 1) = M * q + M
      OBVIOUS
    <3> QED BY <1>2, <1>3, <3>1, <3>2
  <2> QED BY <1>2, <2>1, <2>2
<1>5. r2 = r
  BY <1>2, <1>3, <1>4
<1> QED BY <1>5 DEF r2, x

\* A remainder may be taken before something is added.
LEMMA ModShift ==
  ASSUME NEW M \in Nat \ {0}, NEW a \in Int, NEW c \in Int
  PROVE  ((a % M) + c) % M = (a + c) % M
<1> DEFINE r == a % M
           q == a \div M
           y == r + c
           r2 == y % M
           q2 == y \div M
<1>1. r \in 0 .. M - 1 /\ a = M * q + r /\ q \in Int
  BY SMTT(30)
<1> HIDE DEF r, q
<1>2. y \in Int
  BY <1>1
<1> HIDE DEF y
<1>3. r2 \in 0 .. M - 1 /\ y = M * q2 + r2 /\ q2 \in Int
  BY <1>2, SMTT(30)
<1> HIDE DEF r2, q2
<1>4. a + c = M * (q + q2) + r2
  <2>1. a + c = M * q + y
    BY <1>1 DEF y
  <2>2. M * (q + q2) = M * q + M * q2
    BY <1>1, <1>3
  <2> QED BY <1>1, <1>3, <2>1, <2>2
<1>5. q + q2 \in Int
  BY <1>1, <1>3
<1>6. (M * (q + q2) + r2) % M = r2
  <2> DEFINE z == q + q2
  <2> HIDE DEF z
  <2>1. (M * z + r2) % M = r2
    BY <1>3, <1>5, ModUnique DEF z
  <2> QED BY <2>1 DEF z
<1> QED BY <1>4, <1>6 DEF r2, y, r

Totals == [s1 : Int, s2 : Int]
Plus(t, b) ==
  [s1 |-> t.s1 + SignExtend(b), s2 |-> t.s2 + (t.s1 + SignExtend(b))]

\* f[n] is the sum of the first n bytes, and of its partial sums.
IsTotal(f, buf) ==
  /\ f \in [0 .. Len(buf) -> Totals]
  /\ f[0] = [s1 |-> 0, s2 |-> 0]
  /\ \A j \in 1 .. Len(buf) : f[j] = Plus(f[j - 1], buf[j])

\* A signed char is a number.
LEMMA SignExtendInt ==
  ASSUME NEW b \in Byte
  PROVE  SignExtend(b) \in Int
BY SumConstants DEF SignExtend, Byte

\* Checksum1 is the last of the running sums over its bytes, taken modulo SumMod.
LEMMA TotalsOf ==
  ASSUME NEW buf \in Seq(Byte)
  PROVE  \E f : /\ IsTotal(f, buf)
                /\ Checksum1(buf) = [s1 |-> f[Len(buf)].s1 % SumMod, s2 |-> f[Len(buf)].s2 % SumMod]
<1> DEFINE n == Len(buf)
           zero == [s1 |-> 0, s2 |-> 0]
           step == [p \in (1 .. n) \X Totals |-> Plus(p[2], buf[p[1]])]
           eq(h) == h = [j \in 0 .. n |->
                           IF j = 0 THEN zero
                           ELSE LET sum == h[j - 1]
                                    t1  == sum.s1 + SignExtend(buf[j])
                                IN [s1 |-> t1, s2 |-> sum.s2 + t1]]
           upTo == CHOOSE h : eq(h)
<1>1. n \in Nat /\ \A j \in 1 .. n : SignExtend(buf[j]) \in Int
  BY LenProperties, ElementOfSeq, SignExtendInt
<1>2. \A j \in 1 .. n : \A t \in Totals : Plus(t, buf[j]) \in Totals /\ step[<<j, t>>] = Plus(t, buf[j])
  <2>1. SUFFICES ASSUME NEW j \in 1 .. n, NEW t \in Totals
                 PROVE  Plus(t, buf[j]) \in Totals /\ step[<<j, t>>] = Plus(t, buf[j])
    OBVIOUS
  <2>2. <<j, t>> \in (1 .. n) \X Totals
    OBVIOUS
  <2>3. step[<<j, t>>] = Plus(t, buf[j])
    BY <2>2
  <2>4. Plus(t, buf[j]) \in Totals
    BY <1>1 DEF Plus, Totals
  <2> QED BY <2>3, <2>4
<1> HIDE DEF step
<1>3. PICK f \in [0 .. n -> Totals] : Runs(f, zero, n, step)
  <2>1. zero \in Totals
    BY DEF Totals
  <2>2. Steps(step, n, Totals)
    BY <1>2 DEF Steps
  <2> HIDE DEF zero, n
  <2> QED BY <1>1, <2>1, <2>2, Recursion
<1>4. f[0] = zero /\ \A j \in 1 .. n : f[j] = Plus(f[j - 1], buf[j])
  <2>0. \A j \in 1 .. n : j - 1 \in 0 .. n
    BY <1>1
  <2>1. \A j \in 1 .. n : f[j] = step[<<j, f[j - 1]>>] /\ f[j - 1] \in Totals
    <3> HIDE DEF zero, n
    <3> QED BY <1>3, <2>0 DEF Runs
  <2>2. \A j \in 1 .. n : step[<<j, f[j - 1]>>] = Plus(f[j - 1], buf[j])
    BY <1>2, <2>1
  <2> QED BY <1>3, <2>1, <2>2 DEF Runs
<1>5. eq(f)
  <2>1. ASSUME NEW j \in 0 .. n
        PROVE  f[j] = IF j = 0 THEN zero
                      ELSE LET sum == f[j - 1]
                               t1  == sum.s1 + SignExtend(buf[j])
                           IN [s1 |-> t1, s2 |-> sum.s2 + t1]
    <3> HIDE DEF zero
    <3>1. CASE j = 0
      BY <1>4, <3>1
    <3>2. CASE j # 0
      <4>1. j \in 1 .. n
        BY <1>1, <3>2
      <4>2. f[j] = Plus(f[j - 1], buf[j])
        BY <1>4, <4>1
      <4> QED BY <3>2, <4>2 DEF Plus
    <3> QED BY <3>1, <3>2
  <2>2. f = [j \in 0 .. n |-> f[j]]
    OBVIOUS
  <2> HIDE DEF zero, n
  <2> QED BY <2>1, <2>2, Zenon
<1>6. eq(upTo)
  <2> HIDE DEF eq
  <2> QED BY <1>5
<1>7. Checksum1(buf) = [s1 |-> upTo[n].s1 % SumMod, s2 |-> upTo[n].s2 % SumMod]
  BY Zenon DEF Checksum1
<1> HIDE DEF upTo, zero
<1>8. \A j \in 0 .. n : upTo[j] = IF j = 0 THEN zero ELSE Plus(upTo[j - 1], buf[j])
  <2>1. \A j \in 0 .. n : upTo[j] = IF j = 0 THEN zero
                                    ELSE LET sum == upTo[j - 1]
                                             t1  == sum.s1 + SignExtend(buf[j])
                                         IN [s1 |-> t1, s2 |-> sum.s2 + t1]
    BY <1>6, Zenon
  <2> QED BY <2>1, Zenon DEF Plus
<1> HIDE DEF eq
<1> DEFINE T == {j \in 0 .. n : upTo[j] = f[j]}
<1>9. 0 \in T
  <2>1. 0 \in 0 .. n
    BY <1>1
  <2>2. upTo[0] = zero
    BY <1>8, <2>1
  <2> QED BY <1>4, <2>1, <2>2
<1>10. \A j \in 1 .. n : j - 1 \in T => j \in T
  <2>1. SUFFICES ASSUME NEW j \in 1 .. n, upTo[j - 1] = f[j - 1] PROVE upTo[j] = f[j]
    BY <1>1
  <2>2. j \in 0 .. n /\ j # 0
    BY <1>1
  <2>3. upTo[j] = Plus(upTo[j - 1], buf[j])
    BY <1>8, <2>2
  <2> QED BY <1>4, <2>1, <2>3
<1>11. n \in T
  <2> HIDE DEF T, n
  <2>1. \A j \in 0 .. n : j \in T
    BY <1>1, <1>9, <1>10, UpTo
  <2> QED BY <1>1, <2>1
<1>12. IsTotal(f, buf)
  BY <1>3, <1>4 DEF IsTotal, zero
<1>13. Checksum1(buf) = [s1 |-> f[n].s1 % SumMod, s2 |-> f[n].s2 % SumMod]
  BY <1>7, <1>11
<1> QED BY <1>12, <1>13

\* The same bytes have the same sums.
Agree(a, b, n) == n <= Len(a) /\ n <= Len(b) /\ \A j \in 1 .. n : a[j] = b[j]

\* Running sums depend on the bytes so far only.
LEMMA TotalsPrefix ==
  ASSUME NEW a \in Seq(Byte), NEW b \in Seq(Byte), NEW f, NEW g, IsTotal(f, a), IsTotal(g, b),
         NEW n \in Nat, Agree(a, b, n)
  PROVE  f[n] = g[n]
<1> USE DEF Agree
<1> DEFINE T == {j \in 0 .. n : f[j] = g[j]}
<1>1. Len(a) \in Nat /\ Len(b) \in Nat
  BY LenProperties
<1>2. 0 \in T
  BY DEF IsTotal
<1>3. \A j \in 1 .. n : j - 1 \in T => j \in T
  <2>1. SUFFICES ASSUME NEW j \in 1 .. n, f[j - 1] = g[j - 1] PROVE f[j] = g[j]
    OBVIOUS
  <2>2. j \in 1 .. Len(a) /\ j \in 1 .. Len(b) /\ a[j] = b[j]
    BY <1>1
  <2>3. f[j] = Plus(f[j - 1], a[j]) /\ g[j] = Plus(g[j - 1], b[j])
    BY <2>2 DEF IsTotal
  <2> QED BY <2>1, <2>2, <2>3
<1> HIDE DEF T
<1>4. \A j \in 0 .. n : j \in T
  BY <1>2, <1>3, UpTo
<1> QED BY <1>4 DEF T

\* Without the first byte, the sum is less by it and the sum of the partial
\* sums by as many times it as there were bytes.
TailOf(b, a, n) == Len(b) = n /\ Len(a) = n + 1 /\ \A j \in 1 .. n : b[j] = a[j + 1]

\* Without the first byte every running sum is less by it, and every sum of running
\* sums by as many times it as there were bytes.
LEMMA TotalsShift ==
  ASSUME NEW a \in Seq(Byte), NEW b \in Seq(Byte), NEW f, NEW g, IsTotal(f, a), IsTotal(g, b),
         NEW n \in Nat, TailOf(b, a, n)
  PROVE  /\ f[n + 1] \in Totals /\ SignExtend(a[1]) \in Int
         /\ g[n] = [s1 |-> f[n + 1].s1 - SignExtend(a[1]),
                    s2 |-> f[n + 1].s2 - (n + 1) * SignExtend(a[1])]
<1> USE DEF TailOf
<1> DEFINE drop == SignExtend(a[1])
           T == {j \in 0 .. n : g[j] = [s1 |-> f[j + 1].s1 - drop, s2 |-> f[j + 1].s2 - (j + 1) * drop]}
<1>1. \A j \in 1 .. n + 1 : SignExtend(a[j]) \in Int
  BY ElementOfSeq, SignExtendInt
<1>2. drop \in Int
  BY <1>1
<1>3. /\ \A j \in 0 .. n + 1 : f[j] \in Totals
      /\ f[0] = [s1 |-> 0, s2 |-> 0] /\ g[0] = [s1 |-> 0, s2 |-> 0]
      /\ \A j \in 1 .. n + 1 : f[j] = Plus(f[j - 1], a[j])
      /\ \A j \in 1 .. n : g[j] = Plus(g[j - 1], a[j + 1])
  BY DEF IsTotal
<1>4. 0 \in T
  <2>1. f[1] = Plus(f[0], a[1])
    <3>1. 1 \in 1 .. n + 1 /\ 1 - 1 = 0
      OBVIOUS
    <3>2. f[1] = Plus(f[1 - 1], a[1])
      BY <1>3, <3>1
    <3> QED BY <3>1, <3>2
  <2>2. f[1] = [s1 |-> drop, s2 |-> drop]
    <3>1. f[0].s1 = 0 /\ f[0].s2 = 0
      BY <1>3
    <3>2. f[1] = [s1 |-> 0 + drop, s2 |-> 0 + (0 + drop)]
      BY <2>1, <3>1 DEF Plus
    <3> HIDE DEF drop
    <3> QED BY <1>2, <3>2
  <2> HIDE DEF drop
  <2>3. 0 + 1 = 1 /\ (0 + 1) * drop = drop /\ drop - drop = 0
    BY <1>2
  <2>4. [s1 |-> f[0 + 1].s1 - drop, s2 |-> f[0 + 1].s2 - (0 + 1) * drop] = [s1 |-> 0, s2 |-> 0]
    BY <2>2, <2>3
  <2> QED BY <1>3, <2>4
<1>5. \A j \in 1 .. n : j - 1 \in T => j \in T
  <2>1. SUFFICES ASSUME NEW j \in 1 .. n,
                        g[j - 1] = [s1 |-> f[(j - 1) + 1].s1 - drop,
                                    s2 |-> f[(j - 1) + 1].s2 - ((j - 1) + 1) * drop]
                 PROVE  g[j] = [s1 |-> f[j + 1].s1 - drop, s2 |-> f[j + 1].s2 - (j + 1) * drop]
    OBVIOUS
  <2>2. j \in 0 .. n + 1 /\ j + 1 \in 1 .. n + 1 /\ (j - 1) + 1 = j /\ (j + 1) - 1 = j
    OBVIOUS
  <2> DEFINE add == SignExtend(a[j + 1])
  <2>3. add \in Int
    BY <1>1, <2>2
  <2>4. PICK x \in Int, y \in Int : f[j] = [s1 |-> x, s2 |-> y]
    BY <1>3, <2>2 DEF Totals
  <2>5. f[j + 1] = [s1 |-> x + add, s2 |-> y + (x + add)]
    <3>1. f[j + 1] = Plus(f[j], a[j + 1])
      BY <1>3, <2>2
    <3> QED BY <2>4, <3>1 DEF Plus
  <2>6. g[j - 1] = [s1 |-> x - drop, s2 |-> y - j * drop]
    BY <2>1, <2>2, <2>4
  <2>7. g[j] = [s1 |-> (x - drop) + add, s2 |-> (y - j * drop) + ((x - drop) + add)]
    <3>1. g[j] = Plus(g[j - 1], a[j + 1])
      BY <1>3
    <3> HIDE DEF drop
    <3> QED BY <2>6, <3>1 DEF Plus
  <2> HIDE DEF drop, add
  <2>8. (j + 1) * drop = j * drop + drop /\ j * drop \in Int
    BY <1>2
  <2>9. /\ (x - drop) + add = (x + add) - drop
        /\ (y - j * drop) + ((x - drop) + add) = (y + (x + add)) - (j + 1) * drop
    BY <1>2, <2>3, <2>8
  <2> QED BY <2>5, <2>7, <2>9
<1>6. n \in T
  <2> HIDE DEF T
  <2>1. \A j \in 0 .. n : j \in T
    BY <1>4, <1>5, UpTo
  <2> QED BY <2>1
<1>7. f[n + 1] \in Totals
  BY <1>3
<1> QED BY <1>2, <1>6, <1>7

\* The bytes of a part.
LEMMA PartAt ==
  ASSUME source \in Seq(Byte), NEW off \in Nat, NEW x \in Nat, off + x <= Size
  PROVE  \A i \in 1 .. x : Part(off, x)[i] = source[off + i]
<1>1. Size \in Nat /\ \A i \in 1 .. Size : source[i] \in Byte
  BY LenProperties, ElementOfSeq DEF Size
<1>2. \A i \in off + 1 .. off + x : source[i] \in Byte
  BY <1>1
<1>3. off + 1 \in Int /\ off + x \in Int /\ off + x - (off + 1) + 1 = x
  OBVIOUS
<1>4. \A i \in 1 .. off + x - (off + 1) + 1 :
        SubSeq(source, off + 1, off + x)[i] = source[off + 1 + i - 1]
  BY ONLY <1>2, <1>3, SubSeqProperties
<1>5. \A i \in 1 .. x : off + 1 + i - 1 = off + i
  OBVIOUS
<1> QED BY <1>3, <1>4, <1>5 DEF Part

Weak(off, l) == Checksum1(Part(off, l))

\* What hashSearch computes from the checksum at offset, the first byte there
\* and the byte after the block is the checksum at offset + 1 (match.go:173-196).
LEMMA RolledExact ==
  ASSUME Files, offset \in Nat, k \in Nat \ {0}, offset + k <= Size,
         Weak(offset, k) = [s1 |-> s1, s2 |-> s2],
         NEW u, u = Part(offset, k + More)
  PROVE  /\ Rolled(u).k = k + More - 1
         /\ Weak(offset + 1, k + More - 1) = [s1 |-> Rolled(u).s1, s2 |-> Rolled(u).s2]
<1> DEFINE n == k + More - 1
           a == Part(offset, n + 1)
           b == Part(offset + 1, n)
           c == Part(offset, k)
           drop == SignExtend(u[1])
<1>1. Size \in Nat /\ source \in Seq(Byte) /\ SumMod \in Nat \ {0}
  BY LenProperties, SumConstants DEF Files, Size
<1>2. /\ More \in {0, 1} /\ n \in Nat /\ n + 1 = k + More
      /\ offset + (n + 1) <= Size /\ (offset + 1) + n <= Size
      /\ More = 0 => n + 1 = k
      /\ More = 1 => n = k
  BY <1>1 DEF More
<1>3. a = u
  BY <1>2
<1> HIDE DEF n
<1>4. a \in Seq(Byte) /\ Len(a) = n + 1 /\ b \in Seq(Byte) /\ Len(b) = n
      /\ c \in Seq(Byte) /\ Len(c) = k
  BY <1>1, <1>2, PartType
<1>5. /\ \A i \in 1 .. n + 1 : a[i] = source[offset + i]
      /\ \A i \in 1 .. n : b[i] = source[offset + 1 + i]
      /\ \A i \in 1 .. k : c[i] = source[offset + i]
  <2>1. n + 1 \in Nat /\ offset + 1 \in Nat
    BY <1>2
  <2> QED BY <1>1, <1>2, <2>1, PartAt
<1> HIDE DEF a, b, c
<1>6. /\ \A j \in 1 .. n : b[j] = a[j + 1]
      /\ \A j \in 1 .. k : c[j] = a[j]
      /\ k <= n + 1
  <2>1. k <= n + 1
    BY <1>2
  <2>2. \A j \in 1 .. n : j + 1 \in 1 .. n + 1 /\ offset + (j + 1) = offset + 1 + j
    BY <1>2
  <2>3. \A j \in 1 .. k : j \in 1 .. n + 1
    BY <1>2
  <2> QED BY <1>5, <2>1, <2>2, <2>3
<1>7. PICK f : IsTotal(f, a)
  BY <1>4, TotalsOf
<1>8. PICK g : /\ IsTotal(g, b)
               /\ Checksum1(b) = [s1 |-> g[n].s1 % SumMod, s2 |-> g[n].s2 % SumMod]
  BY <1>4, TotalsOf
<1>9. PICK h : /\ IsTotal(h, c)
               /\ Checksum1(c) = [s1 |-> h[k].s1 % SumMod, s2 |-> h[k].s2 % SumMod]
  BY <1>4, TotalsOf
<1>10. f[k] = h[k]
  <2>1. \A j \in 1 .. k : a[j] = c[j]
    BY <1>6
  <2>2. k <= Len(a) /\ k <= Len(c) /\ k \in Nat
    BY <1>4, <1>6
  <2>3. PICK i \in Nat : i = k
    BY <2>2
  <2>4. Agree(a, c, i)
    BY <2>1, <2>2, <2>3 DEF Agree
  <2>5. a \in Seq(Byte) /\ c \in Seq(Byte) /\ IsTotal(f, a) /\ IsTotal(h, c)
    BY <1>4, <1>7, <1>9
  <2>6. f[i] = h[i]
    BY ONLY i \in Nat, <2>4, <2>5, TotalsPrefix
  <2> QED BY <2>3, <2>6
<1>11. /\ f[n + 1] \in Totals /\ drop \in Int
       /\ g[n] = [s1 |-> f[n + 1].s1 - drop, s2 |-> f[n + 1].s2 - (n + 1) * drop]
  <2>1. PICK i \in Nat : i = n
    BY <1>2
  <2>2. TailOf(b, a, i)
    BY <1>4, <1>6, <2>1 DEF TailOf
  <2>3. a \in Seq(Byte) /\ b \in Seq(Byte) /\ IsTotal(f, a) /\ IsTotal(g, b)
    BY <1>4, <1>7, <1>8
  <2>4. /\ f[i + 1] \in Totals /\ SignExtend(a[1]) \in Int
        /\ g[i] = [s1 |-> f[i + 1].s1 - SignExtend(a[1]),
                   s2 |-> f[i + 1].s2 - (i + 1) * SignExtend(a[1])]
    BY ONLY i \in Nat, <2>2, <2>3, TotalsShift
  <2> QED BY <1>3, <2>1, <2>4
<1>12. f[k] \in Totals
  <2>1. k \in 0 .. Len(a)
    BY <1>4, <1>6
  <2> QED BY <1>7, <2>1 DEF IsTotal
<1>13. PICK x \in Int, y \in Int : f[k] = [s1 |-> x, s2 |-> y]
  BY <1>12 DEF Totals
<1>14. s1 = x % SumMod /\ s2 = y % SumMod
  <2>1. Weak(offset, k) = [s1 |-> x % SumMod, s2 |-> y % SumMod]
    BY <1>9, <1>10, <1>13 DEF Weak, c
  <2>2. [s1 |-> s1, s2 |-> s2].s1 = [s1 |-> x % SumMod, s2 |-> y % SumMod].s1
        /\ [s1 |-> s1, s2 |-> s2].s2 = [s1 |-> x % SumMod, s2 |-> y % SumMod].s2
    BY <2>1
  <2> QED BY <2>2
<1>15. k * drop \in Int
  BY <1>11
<1>16. CASE More = 0
  <2>1. Rolled(u) = [k |-> k - 1, s1 |-> (s1 - drop) % SumMod, s2 |-> (s2 - k * drop) % SumMod]
    BY <1>16 DEF Rolled
  <2> DEFINE kd == k * drop
  <2> HIDE DEF drop
  <2>2. g[n] = [s1 |-> x - drop, s2 |-> y - kd]
    BY <1>2, <1>11, <1>13, <1>16
  <2> HIDE DEF kd
  <2>3. (s1 - drop) % SumMod = (x - drop) % SumMod
    <3>1. 0 - drop \in Int
      BY <1>11
    <3>2. ((x % SumMod) + (0 - drop)) % SumMod = (x + (0 - drop)) % SumMod
      BY <1>1, <3>1, ModShift
    <3>3. (x % SumMod) + (0 - drop) = s1 - drop /\ x + (0 - drop) = x - drop
      BY <1>1, <1>11, <1>14
    <3> QED BY <3>2, <3>3
  <2>4. (s2 - kd) % SumMod = (y - kd) % SumMod
    <3>1. 0 - kd \in Int /\ kd \in Int
      BY <1>15 DEF kd
    <3>2. ((y % SumMod) + (0 - kd)) % SumMod = (y + (0 - kd)) % SumMod
      BY <1>1, <3>1, ModShift
    <3>3. (y % SumMod) + (0 - kd) = s2 - kd /\ y + (0 - kd) = y - kd
      BY <1>1, <3>1, <1>14
    <3> QED BY <3>2, <3>3
  <2>5. Checksum1(b) = [s1 |-> (x - drop) % SumMod, s2 |-> (y - kd) % SumMod]
    BY <1>8, <2>2
  <2>6. Rolled(u).k = n /\ Rolled(u).s1 = (x - drop) % SumMod /\ Rolled(u).s2 = (y - kd) % SumMod
    BY <1>2, <1>16, <2>1, <2>3, <2>4 DEF kd
  <2> QED BY <2>5, <2>6 DEF Weak, b, n
<1>17. CASE More = 1
  <2> DEFINE add == SignExtend(u[k + 1])
             kd == k * drop
  <2>1. Rolled(u) = [k |-> k, s1 |-> ((s1 - drop) + add) % SumMod,
                     s2 |-> ((s2 - kd) + (s1 - drop) + add) % SumMod]
    BY <1>17 DEF Rolled
  <2>2. add \in Int
    <3>1. k + 1 \in 1 .. n + 1
      BY <1>2, <1>17
    <3>2. u[k + 1] \in Byte
      BY <1>3, <1>4, <3>1, ElementOfSeq
    <3> QED BY <3>2, SignExtendInt
  <2>3. f[n + 1] = [s1 |-> x + add, s2 |-> y + (x + add)]
    <3>1. k + 1 \in 1 .. Len(a) /\ (k + 1) - 1 = k /\ n + 1 = k + 1
      BY <1>2, <1>4, <1>17
    <3>2. f[k + 1] = Plus(f[(k + 1) - 1], a[k + 1])
      BY <1>7, <3>1 DEF IsTotal
    <3> QED BY <1>3, <1>13, <3>1, <3>2 DEF Plus
  <2> HIDE DEF add, drop
  <2>4. (n + 1) * drop = kd + drop /\ kd \in Int
    BY <1>2, <1>11, <1>15, <1>17
  <2> HIDE DEF kd
  <2> DEFINE t == add - drop
  <2>5. t \in Int
    BY <1>11, <2>2
  <2>6. g[n] = [s1 |-> x + t, s2 |-> y + (x + t - kd)]
    <3>1. (x + add) - drop = x + t /\ (y + (x + add)) - (kd + drop) = y + (x + t - kd)
      BY <1>11, <2>2, <2>4
    <3>2. f[n + 1].s1 = x + add /\ f[n + 1].s2 = y + (x + add)
      BY <2>3
    <3>3. f[n + 1].s1 - drop = x + t /\ f[n + 1].s2 - (n + 1) * drop = y + (x + t - kd)
      <4> HIDE DEF t
      <4> QED BY <2>4, <3>1, <3>2, Zenon
    <3> HIDE DEF t
    <3> QED BY <1>11, <3>3
  <2>7. x % SumMod \in Int /\ y % SumMod \in Int
    BY <1>1
  <2>8. ((s1 - drop) + add) % SumMod = (x + t) % SumMod
    <3>1. (s1 - drop) + add = (x % SumMod) + t
      BY <1>11, <1>14, <2>2, <2>7
    <3> HIDE DEF t
    <3>2. ((x % SumMod) + t) % SumMod = (x + t) % SumMod
      BY <1>1, <2>5, ModShift
    <3> QED BY <3>1, <3>2
  <2>9. ((s2 - kd) + (s1 - drop) + add) % SumMod = (y + (x + t - kd)) % SumMod
    <3> DEFINE v == (x % SumMod) + t - kd
               z == y + t - kd
    <3>1. v \in Int /\ z \in Int
      BY <2>4, <2>5, <2>7
    <3>2. (s2 - kd) + (s1 - drop) + add = (y % SumMod) + v
      BY <1>11, <1>14, <2>2, <2>4, <2>7
    <3>3. y + v = (x % SumMod) + z
      BY <2>4, <2>5, <2>7
    <3>4. x + z = y + (x + t - kd)
      BY <2>4, <2>5
    <3> HIDE DEF v, z
    <3>5. ((y % SumMod) + v) % SumMod = (y + v) % SumMod
      BY <1>1, <3>1, ModShift
    <3>6. ((x % SumMod) + z) % SumMod = (x + z) % SumMod
      BY <1>1, <3>1, ModShift
    <3> QED BY <3>2, <3>3, <3>4, <3>5, <3>6
  <2> HIDE DEF t
  <2>10. Checksum1(b) = [s1 |-> (x + t) % SumMod, s2 |-> (y + (x + t - kd)) % SumMod]
    BY <1>8, <2>6
  <2>11. /\ Rolled(u).k = n
         /\ Rolled(u).s1 = (x + t) % SumMod
         /\ Rolled(u).s2 = (y + (x + t - kd)) % SumMod
    BY <1>2, <1>17, <2>1, <2>8, <2>9
  <2> QED BY <2>10, <2>11 DEF Weak, b, n
<1> QED BY <1>2, <1>16, <1>17
-----------------------------------------------------------------------------
(* The inductive invariant: between two actions the receiver has what the  *)
(* sender hashed and what it takes for sent, a prefix of the source; the   *)
(* search stands inside the file with the checksum of the bytes there; the *)
(* unsent bytes before it fit into a window; and it fails only on a file   *)
(* that was cut.                                                           *)

Running == pc \notin {"done", "failed"}

Vouched == {wire[j].v : j \in {n \in 1 .. Len(wire) : wire[n].t = "sum"}}

SentPart ==
  /\ lastMatch \in 0 .. Size
  /\ assembled = Part(0, lastMatch) /\ hashed = Part(0, lastMatch)
  /\ pc \in {"open", "search"} => lastMatch <= offset
  /\ pc = "roll" => lastMatch <= offset + 1

\* The backup of the next read, once the bytes before to are sent.
ShortBackup(at, to) ==
  at - to <= head.block + Chunk \/ to >= end - head.block - 2 * Chunk

AtOffset ==
  /\ offset < end \/ offset = 0
  /\ k = Smaller(head.block, Size - offset)
  /\ Weak(offset, k) = [s1 |-> s1, s2 |-> s2]
  /\ ShortBackup(offset, lastMatch)

\* Everything else of the types, also after the search has ended.
Item == [t : {"lit", "block", "end", "sum"}, v : Seq(Byte), i : Nat]

InRange ==
  /\ k \in 0 .. head.block /\ s1 \in 0 .. SumMod - 1 /\ s2 \in 0 .. SumMod - 1
  /\ offset \in 0 .. Size /\ lastMatch \in 0 .. Size
  /\ assembled \in Seq(Byte) /\ hashed \in Seq(Byte) /\ wire \in Seq(Item)

SearchInv ==
  /\ Files /\ Good(win) /\ offset \in Nat /\ InRange
  /\ pc \in {"open", "search", "roll", "tail", "done", "failed"}
  /\ pc # "done" => wire \in Seq(Token)
  /\ Running => SentPart
  /\ pc = "open" => offset = 0
  /\ pc \in {"search", "roll"} => AtOffset
  /\ pc = "failed" => disk # source

\* What every action does that is neither the last one nor Truncate.
Sends ==
  /\ UNCHANGED <<source, disk>> /\ pc' # "done"
  /\ wire' \in Seq(Token)
  /\ \E x \in lastMatch .. Size : assembled' = Part(0, x)

\* Tokens are items of the connection.
LEMMA TokensAreItems == \A w \in Seq(Token) : w \in Seq(Item)
<1> SUFFICES ASSUME NEW w \in Seq(Token) PROVE w \in Seq(Item)
  OBVIOUS
<1>1. \A j \in 1 .. Len(w) : w[j] \in Item
  <2>1. SUFFICES ASSUME NEW j \in 1 .. Len(w) PROVE w[j] \in Item
    OBVIOUS
  <2>2. w[j] \in Token
    BY ElementOfSeq
  <2> QED BY <2>2 DEF Token, Item
<1>2. w = [j \in 1 .. Len(w) |-> w[j]] /\ Len(w) \in Nat
  BY LenProperties
<1> QED BY <1>1, <1>2

\* Both halves of a weak checksum are numbers modulo SumMod.
LEMMA WeakInRange ==
  ASSUME source \in Seq(Byte), NEW off \in Nat, NEW l \in Nat, l = 0 \/ off + l <= Size,
         NEW x, NEW y, Weak(off, l) = [s1 |-> x, s2 |-> y]
  PROVE  x \in 0 .. SumMod - 1 /\ y \in 0 .. SumMod - 1
<1> DEFINE buf == Part(off, l)
<1>1. buf \in Seq(Byte)
  BY PartType
<1> HIDE DEF buf
<1>2. PICK f : /\ IsTotal(f, buf)
               /\ Checksum1(buf) = [s1 |-> f[Len(buf)].s1 % SumMod, s2 |-> f[Len(buf)].s2 % SumMod]
  BY <1>1, TotalsOf
<1>3. f[Len(buf)] \in Totals
  <2>1. Len(buf) \in 0 .. Len(buf)
    BY <1>1, LenProperties
  <2> QED BY <1>2, <2>1 DEF IsTotal
<1>4. f[Len(buf)].s1 \in Int /\ f[Len(buf)].s2 \in Int /\ SumMod \in Nat \ {0}
  BY <1>3, SumConstants DEF Totals
<1>5. x = f[Len(buf)].s1 % SumMod /\ y = f[Len(buf)].s2 % SumMod
  BY <1>2 DEF Weak, buf
<1>6. ASSUME NEW a \in Int PROVE a % SumMod \in 0 .. SumMod - 1
  BY SumConstants, SMTT(30)
<1> QED BY <1>4, <1>5, <1>6

\* What has been assembled is a sequence of bytes.
LEMMA PrefixTyped ==
  ASSUME Files, NEW x \in 0 .. Size
  PROVE  Part(0, x) \in Seq(Byte)
<1>1. Size \in Nat /\ source \in Seq(Byte)
  BY LenProperties DEF Files, Size
<1>2. x \in Nat /\ 0 + x <= Size
  BY <1>1
<1> QED BY <1>1, <1>2, PartType

\* While the files stay, what is computed from them stays.
LEMMA FilesKept ==
  ASSUME Files, UNCHANGED fileVars
  PROVE  /\ Files' /\ Size' = Size /\ end' = end
         /\ source' = source /\ disk' = disk /\ head' = head
<1>1. source' = source /\ basis' = basis /\ head' = head /\ sums' = sums /\ disk' = disk
  BY DEF fileVars
<1>2. Size' = Size
  BY <1>1 DEF Size
<1>3. Shortened'
  BY <1>1, <1>2 DEF Files, Shortened
<1>4. end' = end
  BY <1>1, <1>2 DEF end
<1> QED BY <1>1, <1>2, <1>3, <1>4 DEF Files

\* A window that is good now is good in the next state if its file stays.
LEMMA GoodKept ==
  ASSUME source' = source, head' = head, NEW w, Good(w), win' = w
  PROVE  Good(win)'
BY DEF Good

\* readChunk has the weak checksum of the bytes at off (match.go:73-86).
LEMMA ReadChunkGood ==
  ASSUME Files, NEW w, Good(w), NEW off \in Nat, off <= Size
  PROVE  LET c == ReadChunk(w, off)
         IN /\ c.ok \in BOOLEAN /\ Good(c.win)
            /\ c.k = Smaller(head.block, Size - off)
            /\ c.ok => Weak(off, c.k) = [s1 |-> c.s1, s2 |-> c.s2]
            /\ disk = source => c.ok
<1> DEFINE len == Smaller(head.block, Size - off)
           p == Bytes(w, off, len)
           c == ReadChunk(w, off)
           sum == Checksum1(p.bytes)
<1>1. c = [ok |-> p.ok, win |-> p.win, k |-> len, s1 |-> sum.s1, s2 |-> sum.s2]
  BY Zenon DEF ReadChunk
<1>2. len \in Nat /\ off + len <= Size /\ len <= 2 * head.block + 2 * Chunk
  <2>1. head.block \in Nat \ {0} /\ Size \in Nat /\ Chunk \in Nat
    BY EndInFile, WindowConstants
  <2> QED BY <2>1 DEF Smaller
<1> HIDE DEF len, c
<1>3. /\ p.ok \in BOOLEAN /\ Good(p.win) /\ p.bytes \in Seq(Byte)
      /\ p.ok => p.bytes = Part(off, len)
      /\ disk = source => p.ok
  <2>1. len \in Int /\ len >= 0 /\ Modest(off, len)
    BY <1>2 DEF Modest
  <2> QED BY <2>1, ReadGood
<1> HIDE DEF p
<1>4. sum = [s1 |-> sum.s1, s2 |-> sum.s2]
  <2>1. PICK f : Checksum1(p.bytes)
                   = [s1 |-> f[Len(p.bytes)].s1 % SumMod, s2 |-> f[Len(p.bytes)].s2 % SumMod]
    BY <1>3, TotalsOf
  <2> QED BY <2>1
<1>5. c.ok = p.ok /\ c.win = p.win /\ c.k = len /\ c.s1 = sum.s1 /\ c.s2 = sum.s2
  <2> HIDE DEF sum
  <2> QED BY <1>1
<1>6. p.ok => Weak(off, len) = sum
  BY <1>3 DEF Weak
<1> HIDE DEF sum
<1> QED BY <1>3, <1>4, <1>5, <1>6 DEF len, c

\* mapFile makes an empty window, wide enough for the blocks of the request.
LEMMA MapFileGood ==
  ASSUME NEW file \in Seq(Byte), NEW blk \in Nat \ {0}
  PROVE  /\ MapFile(blk) \in Windows(Byte) /\ Faithful(MapFile(blk), file)
         /\ MapFile(blk).def >= ReadSize(blk)
<1>1. ReadSize(blk) \in Nat \ {0}
  BY WindowConstants DEF ReadSize, Larger
<1>2. RoundUp(ReadSize(blk), blk) \in Nat \ {0} /\ RoundUp(ReadSize(blk), blk) >= ReadSize(blk)
  <2>1. ReadSize(blk) % blk \in 0 .. blk - 1
    BY <1>1
  <2> QED BY <1>1, <2>1 DEF RoundUp
<1>3. AlignedLength(RoundUp(ReadSize(blk), blk)) \in Nat
      /\ AlignedLength(RoundUp(ReadSize(blk), blk)) >= ReadSize(blk)
  BY <1>1, <1>2, AlignedEnough
<1>4. MapFile(blk) = [off |-> 0, len |-> 0, buf |-> <<>>,
                      def |-> AlignedLength(RoundUp(ReadSize(blk), blk))]
  BY DEF MapFile
<1>5. SubSeq(file, 0 + 1, 0 + 0) = <<>> /\ <<>> \in Seq(Byte) /\ Len(file) \in Nat
  BY SubSeqEmpty, LenProperties
<1> QED BY <1>3, <1>4, <1>5 DEF Windows, Faithful

\* The invariant holds when the sender has read the request.
LEMMA StartsGood == Init => SearchInv
<1> SUFFICES ASSUME Init PROVE SearchInv
  OBVIOUS
<1>1. source \in Seq(Byte) /\ source # <<>> /\ basis \in Seq(Byte) /\ basis # <<>>
  BY SearchedFiles DEF Init
<1>2. Files
  <2>1. Len(source) \in 0 .. Len(source) /\ SubSeq(source, 1, Len(source)) = source
    BY <1>1, LenProperties, SubSeqFull
  <2>2. Shortened
    BY <2>1 DEF Init, Shortened, Size
  <2> QED BY <1>1, <2>2 DEF Files, Init
<1>3. head.block \in Nat \ {0}
  BY <1>2, EndInFile
<1>4. Good(win)
  BY <1>1, <1>3, MapFileGood DEF Init, Good
<1>5. Part(0, 0) = <<>>
  BY SubSeqEmpty DEF Part
<1>6. <<>> \in Seq(Token)
  OBVIOUS
<1>7. 0 \in 0 .. Size
  BY <1>1, LenProperties DEF Size
<1>8. SentPart
  BY <1>5, <1>7 DEF Init, SentPart
<1>9. InRange
  <2>1. 0 \in 0 .. head.block /\ 0 \in 0 .. SumMod - 1
    BY <1>3, SumConstants
  <2>2. <<>> \in Seq(Byte) /\ <<>> \in Seq(Item)
    OBVIOUS
  <2> QED BY <1>7, <2>1, <2>2 DEF Init, InRange
<1> QED BY <1>2, <1>4, <1>6, <1>8, <1>9 DEF Init, SearchInv, Running

\* A read that fails where nothing was sent ends in a state of the invariant.
LEMMA FailedGood ==
  ASSUME SearchInv, Running, Failed, disk # source
  PROVE  SearchInv' /\ Sends
<1>1. /\ Files' /\ Size' = Size /\ end' = end
      /\ source' = source /\ disk' = disk /\ head' = head
  BY FilesKept DEF SearchInv, Failed
<1>2. UNCHANGED <<win, k, offset, lastMatch, wire, assembled>> /\ pc' = "failed"
  BY DEF Failed, sentVars, sumVars
<1>3. SentPart /\ Size \in Nat
  BY LenProperties DEF SearchInv, Files, Size
<1>4. lastMatch \in lastMatch .. Size /\ assembled' = Part(0, lastMatch)
  BY <1>2, <1>3 DEF SentPart
<1>5. Good(win)'
  BY <1>1, <1>2, GoodKept DEF SearchInv
<1>6. wire' \in Seq(Token)
  BY <1>2 DEF SearchInv, Running
<1>8. InRange'
  <2>1. UNCHANGED <<k, s1, s2, offset, lastMatch, wire, assembled, hashed>>
    BY DEF Failed, sentVars, sumVars
  <2> QED BY <1>1, <2>1 DEF SearchInv, InRange
<1>7. SearchInv'
  BY <1>1, <1>2, <1>5, <1>6, <1>8 DEF SearchInv, Running
<1> QED BY <1>1, <1>2, <1>4, <1>6, <1>7 DEF Sends

\* So does one that fails within matched, after some of the literals.
LEMMA FailedAfterGood ==
  ASSUME SearchInv, Running, NEW m, NEW to, MatchedOK(m, to), FailedAfter(m), disk # source
  PROVE  SearchInv' /\ Sends
<1>1. /\ Files' /\ Size' = Size /\ end' = end
      /\ source' = source /\ disk' = disk /\ head' = head
  BY FilesKept DEF SearchInv, FailedAfter
<1>2. UNCHANGED <<win, k, offset, lastMatch>> /\ pc' = "failed"
      /\ wire' = m.wire /\ assembled' = m.assembled
  BY DEF FailedAfter, sumVars
<1>3. Good(win)'
  BY <1>1, <1>2, GoodKept DEF SearchInv
<1>4. m.wire \in Seq(Token) /\ \E x \in lastMatch .. Size : m.assembled = Part(0, x)
  BY DEF MatchedOK
<1>6. InRange'
  <2>1. UNCHANGED <<k, s1, s2, offset, lastMatch>> /\ hashed' = m.hashed
    BY DEF FailedAfter, sumVars
  <2>2. m.assembled \in Seq(Byte)
    <3>1. PICK x \in lastMatch .. Size : m.assembled = Part(0, x)
      BY <1>4
    <3>2. x \in 0 .. Size
      BY DEF SearchInv, InRange
    <3> QED BY <3>1, <3>2, PrefixTyped DEF SearchInv
  <2>3. m.hashed \in Seq(Byte) /\ m.wire \in Seq(Item)
    BY TokensAreItems DEF MatchedOK
  <2> QED BY <1>1, <1>2, <2>1, <2>2, <2>3 DEF SearchInv, InRange
<1>5. SearchInv'
  BY <1>1, <1>2, <1>3, <1>4, <1>6 DEF SearchInv, Running
<1> QED BY <1>1, <1>2, <1>4, <1>5 DEF Sends

\* The first readChunk keeps the invariant.
LEMMA OpenGood ==
  ASSUME SearchInv, Open
  PROVE  SearchInv' /\ Sends
<1>1. /\ Running /\ SentPart /\ offset = 0 /\ Files /\ Good(win)
      /\ Size \in Nat /\ wire \in Seq(Token) /\ head.block \in Nat /\ Chunk \in Nat
  BY EndInFile, WindowConstants DEF Open, SearchInv, Running
<1>2. PICK c : /\ c = ReadChunk(win, 0)
               /\ \/ /\ c.ok /\ pc' = "search" /\ win' = c.win /\ Summed(c)
                     /\ UNCHANGED <<fileVars, offset, sentVars>>
                  \/ ~c.ok /\ Failed
  BY DEF Open
<1>3. /\ Good(c.win) /\ c.k = Smaller(head.block, Size - 0)
      /\ c.ok => Weak(0, c.k) = [s1 |-> c.s1, s2 |-> c.s2]
      /\ disk = source => c.ok
  BY <1>1, <1>2, ReadChunkGood
<1>4. CASE ~c.ok
  BY <1>1, <1>2, <1>3, <1>4, FailedGood
<1>5. CASE c.ok
  <2>1. /\ pc' = "search" /\ win' = c.win /\ k' = c.k /\ s1' = c.s1 /\ s2' = c.s2
        /\ UNCHANGED fileVars /\ UNCHANGED <<offset, lastMatch, wire, assembled, hashed>>
    BY <1>2, <1>5 DEF Summed, sentVars
  <2>2. /\ Files' /\ Size' = Size /\ end' = end
        /\ source' = source /\ disk' = disk /\ head' = head
    BY <1>1, <2>1, FilesKept
  <2>3. Good(win)'
    BY <1>3, <2>1, <2>2, GoodKept
  <2>4. /\ lastMatch \in 0 .. Size /\ lastMatch <= 0 /\ lastMatch \in lastMatch .. Size
        /\ assembled = Part(0, lastMatch) /\ hashed = Part(0, lastMatch)
    BY <1>1 DEF SentPart, Open
  <2>5. SentPart'
    BY <1>1, <2>1, <2>2, <2>4 DEF SentPart, Part
  <2>6. AtOffset'
    <3>1. Weak(0, c.k)' = Weak(0, c.k)
      BY <2>2 DEF Weak, Part
    <3>2. Weak(offset, k)' = [s1 |-> s1', s2 |-> s2']
      BY <1>1, <1>3, <1>5, <2>1, <2>2 DEF Weak, Part
    <3>3. ShortBackup(offset, lastMatch)'
      BY <1>1, <2>1, <2>2, <2>4 DEF ShortBackup
    <3> QED BY <1>1, <1>3, <2>1, <2>2, <3>2, <3>3 DEF AtOffset
  <2>8. InRange'
    <3>1. c.k \in 0 .. head.block /\ c.k \in Nat /\ 0 + c.k <= Size
      BY <1>1, <1>3 DEF Smaller
    <3>2. c.s1 \in 0 .. SumMod - 1 /\ c.s2 \in 0 .. SumMod - 1
      BY <1>1, <1>3, <1>5, <3>1, WeakInRange DEF Files
    <3> QED BY <1>1, <2>1, <2>2, <3>1, <3>2 DEF SearchInv, InRange
  <2>7. SearchInv'
    BY <1>1, <2>1, <2>2, <2>3, <2>5, <2>6, <2>8 DEF SearchInv, Running
  <2> QED BY <1>1, <2>1, <2>2, <2>4, <2>7 DEF Sends
<1> QED BY <1>4, <1>5

\* Where the search stands, and what it can read there.
LEMMA Standing ==
  ASSUME SearchInv, pc \in {"search", "roll"}
  PROVE  /\ Running /\ Files /\ Good(win) /\ SentPart /\ AtOffset
         /\ Size \in Nat \ {0} /\ end \in Int /\ end <= Size
         /\ head.block \in Nat \ {0} /\ Chunk \in Nat \ {0}
         /\ offset \in Nat /\ offset < Size
         /\ k = Smaller(head.block, Size - offset)
         /\ k \in Nat \ {0} /\ k <= head.block /\ offset + k <= Size
         /\ lastMatch \in Nat /\ lastMatch <= Size
         /\ assembled = Part(0, lastMatch) /\ hashed = Part(0, lastMatch)
         /\ wire \in Seq(Token)
<1>1. Running /\ Files /\ Good(win) /\ SentPart /\ AtOffset /\ offset \in Nat /\ wire \in Seq(Token)
  BY DEF SearchInv, Running
<1>2. /\ Size \in Nat \ {0} /\ end \in Int /\ end <= Size
      /\ head.block \in Nat \ {0} /\ Chunk \in Nat \ {0}
  BY <1>1, EndInFile, WindowConstants
<1>3. offset < Size /\ k = Smaller(head.block, Size - offset)
  BY <1>1, <1>2 DEF AtOffset
<1>4. k \in Nat \ {0} /\ k <= head.block /\ offset + k <= Size
  BY <1>1, <1>2, <1>3 DEF Smaller
<1>5. /\ lastMatch \in Nat /\ lastMatch <= Size
      /\ assembled = Part(0, lastMatch) /\ hashed = Part(0, lastMatch)
  BY <1>1, <1>2 DEF SentPart
<1> QED BY <1>1, <1>2, <1>3, <1>4, <1>5

\* What is read at offset can be read from an intact file.
LEMMA CandidateGood ==
  ASSUME SearchInv, pc = "search"
  PROVE  /\ Candidate.ok \in BOOLEAN /\ Good(Candidate.win)
         /\ Candidate.ok /\ Alike # {} => Candidate.bytes = Part(offset, k)
         /\ disk = source => Candidate.ok
<1>1. /\ Files /\ Good(win) /\ offset \in Nat /\ Size \in Nat /\ head.block \in Nat /\ Chunk \in Nat
      /\ k = Smaller(head.block, Size - offset) /\ k \in Nat /\ offset + k <= Size /\ k <= head.block
  BY Standing
<1>2. CASE Alike = {}
  <2>1. Candidate = [ok |-> TRUE, win |-> win, bytes |-> <<>>]
    BY <1>2 DEF Candidate
  <2> QED BY <1>1, <1>2, <2>1
<1>3. CASE Alike # {}
  <2>1. Candidate = Bytes(win, offset, k)
    BY <1>1, <1>3 DEF Candidate
  <2>2. k \in Int /\ k >= 0 /\ Modest(offset, k)
    BY <1>1 DEF Modest
  <2> QED BY <1>1, <2>1, <2>2, ReadGood
<1> QED BY <1>2, <1>3

\* A block that was found has the bytes at offset.
LEMMA HitsFit ==
  ASSUME SearchInv, pc = "search", NEW i \in Hits
  PROVE  /\ sums[i].len = k /\ i \in 0 .. head.count - 1
         /\ <<Block(i)>> \in Seq(Token) /\ <<Block(i)>> \in Seq(Wordless)
         /\ Says(<<Block(i)>>) = Part(offset, k)
<1>1. i \in Alike /\ Candidate.ok /\ sums[i].sum2 = Candidate.bytes
  BY DEF Hits
<1>2. i \in 0 .. head.count - 1 /\ sums[i].len = k
  BY <1>1, Standing DEF Alike
<1>3. i \in Nat /\ sums[i].sum2 = BlockAt(basis, head, i)
  BY <1>2, SumsLength DEF SearchInv
<1>4. Candidate.bytes = Part(offset, k)
  BY <1>1, CandidateGood
<1>5. Meaning(Block(i)) = Part(offset, k)
  <2>1. Block(i).t = "block" /\ Block(i).i = i
    BY DEF Block
  <2>2. Meaning(Block(i)) = BlockAt(basis, head, i)
    BY <2>1 DEF Meaning
  <2> QED BY <1>1, <1>3, <1>4, <2>2
<1>6. Part(offset, k) \in Seq(Byte)
  BY Standing, PartType DEF Files
<1>7. Says(<<Block(i)>>) = Part(offset, k)
  BY <1>5, <1>6, SaysOne
<1>8. Block(i) \in Token /\ Block(i) \in Wordless
  <2>1. <<>> \in Seq(Byte)
    OBVIOUS
  <2> QED BY <1>3, <2>1 DEF Block, Token, Wordless
<1>9. <<Block(i)>> \in Seq(Token) /\ <<Block(i)>> \in Seq(Wordless)
  BY <1>8
<1> QED BY <1>2, <1>7, <1>9

\* A match keeps the invariant: the block ends in the file, and what it stands for
\* is what the source has there.
LEMMA MatchGood ==
  ASSUME SearchInv, Match
  PROVE  SearchInv' /\ Sends
<1>1. pc = "search"
  BY DEF Match
<1>2. /\ Running /\ Files /\ Good(win) /\ SentPart
      /\ Size \in Nat \ {0} /\ end \in Int /\ end <= Size
      /\ head.block \in Nat \ {0} /\ Chunk \in Nat \ {0}
      /\ offset \in Nat /\ offset < Size
      /\ k \in Nat \ {0} /\ offset + k <= Size
      /\ lastMatch \in Nat /\ lastMatch <= Size
      /\ assembled = Part(0, lastMatch) /\ hashed = Part(0, lastMatch)
      /\ wire \in Seq(Token)
  BY <1>1, Standing
<1> DEFINE Ends(i, m, c) ==
      \/ /\ m.ok /\ c.ok
         /\ Sent(m) /\ Summed(c) /\ win' = c.win /\ offset' = NextOffset(i)
         /\ pc' = IF NextOffset(i) >= end THEN "tail" ELSE "roll"
         /\ UNCHANGED fileVars
      \/ ~(m.ok /\ c.ok) /\ FailedAfter(m)
<1>3. PICK i \in Hits :
        \E m \in {Matched(Candidate.win, offset, <<Block(i)>>, sums[i].len)} :
        \E c \in {ReadChunk(m.win, NextOffset(i))} : Ends(i, m, c)
  BY Zenon DEF Match
<1> HIDE DEF Ends
<1>4. PICK m, c : /\ m = Matched(Candidate.win, offset, <<Block(i)>>, sums[i].len)
                  /\ c = ReadChunk(m.win, NextOffset(i)) /\ Ends(i, m, c)
  BY <1>3
<1> USE DEF Ends
<1> DEFINE to == offset + k
<1>5. /\ sums[i].len = k /\ <<Block(i)>> \in Seq(Token)
      /\ Says(<<Block(i)>>) = Part(offset, k)
  BY <1>1, HitsFit
<1>6. MatchedOK(m, to)
  <2>1. m = Matched(Candidate.win, offset, <<Block(i)>>, k)
    BY <1>4, <1>5
  <2>2. Good(Candidate.win)
    BY <1>1, CandidateGood
  <2>3. Ready(offset, k)
    BY <1>1, <1>2 DEF SentPart, Ready
  <2> QED BY <1>2, <1>5, <2>1, <2>2, <2>3, MatchedGood
<1>7. Good(m.win) /\ (disk = source => m.ok)
  BY <1>6 DEF MatchedOK
<1>8. NextOffset(i) = to - 1 /\ to - 1 \in Nat /\ to \in Nat /\ to <= Size /\ to - 1 <= Size
  BY <1>2, <1>5 DEF NextOffset
<1>9. /\ c.ok \in BOOLEAN /\ Good(c.win)
      /\ c.k = Smaller(head.block, Size - (to - 1))
      /\ c.ok => Weak(to - 1, c.k) = [s1 |-> c.s1, s2 |-> c.s2]
      /\ disk = source => c.ok
  <2>1. c = ReadChunk(m.win, to - 1)
    BY <1>4, <1>8
  <2> HIDE DEF to
  <2> QED BY <1>2, <1>7, <1>8, <2>1, ReadChunkGood
<1> HIDE DEF to
<1>10. CASE ~(m.ok /\ c.ok)
  <2>1. FailedAfter(m) /\ disk # source
    BY <1>4, <1>7, <1>9, <1>10
  <2> QED BY <1>2, <1>6, <2>1, FailedAfterGood
<1>11. CASE m.ok /\ c.ok
  <2>1. /\ Sent(m) /\ win' = c.win /\ offset' = to - 1
        /\ k' = c.k /\ s1' = c.s1 /\ s2' = c.s2
        /\ pc' = IF to - 1 >= end THEN "tail" ELSE "roll"
        /\ UNCHANGED fileVars
    BY <1>4, <1>8, <1>11 DEF Summed
  <2>2. /\ m.wire \in Seq(Token)
        /\ m.assembled = Part(0, to) /\ m.hashed = Part(0, to) /\ m.lastMatch = to
        /\ \E x \in lastMatch .. Size : m.assembled = Part(0, x)
    BY <1>6, <1>11 DEF MatchedOK
  <2>3. /\ Files' /\ Size' = Size /\ end' = end
        /\ source' = source /\ disk' = disk /\ head' = head
    BY <1>2, <2>1, FilesKept
  <2>4. Good(win)' /\ pc' \in {"tail", "roll"}
    BY <1>9, <2>1, <2>3, GoodKept
  <2>5. wire' = m.wire /\ assembled' = m.assembled /\ hashed' = m.hashed /\ lastMatch' = to
    BY <2>1, <2>2 DEF Sent
  <2>6. SentPart'
    <3>1. lastMatch' \in 0 .. Size' /\ lastMatch' <= offset' + 1
      BY <1>2, <1>8, <2>1, <2>3, <2>5
    <3>2. assembled' = Part(0, lastMatch)' /\ hashed' = Part(0, lastMatch)'
      BY <2>2, <2>3, <2>5 DEF Part
    <3> QED BY <2>4, <3>1, <3>2 DEF SentPart
  <2>7. pc' = "roll" => AtOffset'
    <3>1. SUFFICES ASSUME pc' = "roll" PROVE AtOffset'
      OBVIOUS
    <3>2. offset' < end'
      BY <1>2, <1>8, <2>1, <2>3, <3>1
    <3>3. Weak(offset, k)' = [s1 |-> s1', s2 |-> s2']
      BY <1>9, <1>11, <2>1, <2>3 DEF Weak, Part
    <3>4. ShortBackup(offset, lastMatch)'
      <4>1. offset' - lastMatch' <= head.block + Chunk
        BY <1>2, <1>8, <2>1, <2>5
      <4> QED BY <2>3, <4>1 DEF ShortBackup
    <3>5. k' = Smaller(head.block, Size - offset)'
      BY <1>9, <2>1, <2>3 DEF Smaller
    <3> QED BY <3>2, <3>3, <3>4, <3>5 DEF AtOffset
  <2>9. InRange'
    <3>1. c.k \in 0 .. head.block /\ c.k \in Nat /\ (to - 1) + c.k <= Size
      BY <1>2, <1>8, <1>9 DEF Smaller
    <3>2. c.s1 \in 0 .. SumMod - 1 /\ c.s2 \in 0 .. SumMod - 1
      BY <1>2, <1>8, <1>9, <1>11, <3>1, WeakInRange DEF Files
    <3>3. to \in 0 .. Size /\ to - 1 \in 0 .. Size
      BY <1>2, <1>8
    <3>4. Part(0, to) \in Seq(Byte) /\ m.wire \in Seq(Item)
      BY <1>2, <2>2, <3>3, PrefixTyped, TokensAreItems
    <3> QED BY <2>1, <2>2, <2>3, <2>5, <3>1, <3>2, <3>3, <3>4 DEF InRange
  <2>8. SearchInv'
    BY <1>8, <2>1, <2>2, <2>3, <2>4, <2>5, <2>6, <2>7, <2>9 DEF SearchInv, Running
  <2> QED BY <2>2, <2>3, <2>4, <2>5, <2>8 DEF Sends
<1> QED BY <1>10, <1>11

\* A miss keeps the invariant.
LEMMA MissGood ==
  ASSUME SearchInv, Miss
  PROVE  SearchInv' /\ Sends
<1>1. pc = "search"
  BY DEF Miss
<1>2. /\ Running /\ Files /\ SentPart /\ AtOffset /\ Size \in Nat /\ offset \in Nat
      /\ lastMatch \in Nat /\ lastMatch <= Size /\ assembled = Part(0, lastMatch)
      /\ wire \in Seq(Token)
  BY <1>1, Standing
<1>3. /\ UNCHANGED fileVars /\ UNCHANGED <<k, s1, s2, offset, lastMatch, wire, assembled, hashed>>
      /\ pc' = (IF Candidate.ok THEN "roll" ELSE "failed") /\ win' = Candidate.win
  BY DEF Miss, sumVars, sentVars
<1>4. /\ Files' /\ Size' = Size /\ end' = end
      /\ source' = source /\ disk' = disk /\ head' = head
  BY <1>2, <1>3, FilesKept
<1>5. Candidate.ok \in BOOLEAN /\ Good(Candidate.win) /\ (disk = source => Candidate.ok)
  BY <1>1, CandidateGood
<1>6. Good(win)'
  BY <1>3, <1>4, <1>5, GoodKept
<1>7. SentPart'
  BY <1>1, <1>2, <1>3, <1>4 DEF SentPart, Part
<1>8. AtOffset'
  <2>1. Weak(offset, k)' = Weak(offset, k) /\ ShortBackup(offset, lastMatch)' = ShortBackup(offset, lastMatch)
    BY <1>3, <1>4 DEF Weak, Part, ShortBackup
  <2> QED BY <1>2, <1>3, <1>4, <2>1 DEF AtOffset
<1>12. InRange'
  BY <1>3, <1>4 DEF SearchInv, InRange
<1>9. SearchInv'
  BY <1>2, <1>3, <1>4, <1>5, <1>6, <1>7, <1>8, <1>12 DEF SearchInv, Running
<1>10. lastMatch \in lastMatch .. Size
  BY <1>2
<1>11. pc' # "done"
  BY <1>3
<1> QED BY <1>2, <1>3, <1>4, <1>9, <1>10, <1>11 DEF Sends

\* Sending up to a flush point, or not at all.
LEMMA FlushGood ==
  ASSUME SearchInv, pc = "roll", NEW w, Good(w)
  PROVE  \E to \in lastMatch .. Size :
           /\ to = lastMatch \/ to <= offset
           /\ offset + 1 < end => ShortBackup(offset + 1, to)
           /\ MatchedOK(IF MustFlush THEN Matched(w, FlushPoint, <<>>, 0) ELSE Unsent(w), to)
<1>1. /\ Running /\ Files /\ SentPart /\ AtOffset
      /\ Size \in Nat \ {0} /\ end \in Int /\ end <= Size
      /\ head.block \in Nat \ {0} /\ Chunk \in Nat \ {0}
      /\ offset \in Nat /\ offset < Size
      /\ lastMatch \in Nat /\ lastMatch <= Size
      /\ assembled = Part(0, lastMatch) /\ hashed = Part(0, lastMatch)
      /\ wire \in Seq(Token)
  BY Standing
<1>2. CASE ~MustFlush
  <2>1. lastMatch \in lastMatch .. Size
    BY <1>1
  <2>2. Unsent(w).ok = TRUE /\ Unsent(w).win = w /\ Unsent(w).wire = wire
        /\ Unsent(w).assembled = assembled /\ Unsent(w).hashed = hashed
        /\ Unsent(w).lastMatch = lastMatch
    BY DEF Unsent
  <2>3. MatchedOK(Unsent(w), lastMatch)
    <3>1. hashed \in Seq(Byte)
      BY DEF SearchInv, InRange
    <3> QED BY <1>1, <2>1, <2>2, <3>1 DEF MatchedOK
  <2>4. offset + 1 < end => ShortBackup(offset + 1, lastMatch)
    <3>1. SUFFICES ASSUME offset + 1 < end, offset + 1 - lastMatch > head.block + Chunk
                   PROVE  lastMatch >= end - head.block - 2 * Chunk
      BY <1>1 DEF ShortBackup
    <3>2. offset - lastMatch >= head.block + Chunk
      BY <1>1, <3>1
    <3>3. Backup >= head.block + Chunk
      BY <1>1, <3>2 DEF Backup, Larger
    <3>4. ~(end - offset > Chunk)
      BY <1>2, <3>3 DEF MustFlush
    <3>5. CASE offset - lastMatch <= head.block + Chunk
      BY <1>1, <3>4, <3>5
    <3>6. CASE lastMatch >= end - head.block - 2 * Chunk
      BY <3>6
    <3> QED BY <1>1, <3>5, <3>6 DEF AtOffset, ShortBackup
  <2> QED BY <1>2, <2>1, <2>3, <2>4
<1>3. CASE MustFlush
  <2>1. Backup >= head.block + Chunk
    BY <1>3 DEF MustFlush
  <2>2. /\ FlushPoint \in Nat /\ lastMatch <= FlushPoint /\ FlushPoint + 0 <= Size
        /\ FlushPoint <= offset /\ offset + 1 - FlushPoint <= head.block + Chunk
        /\ FlushPoint + 0 = FlushPoint
    BY <1>1, <2>1 DEF Backup, Larger, FlushPoint
  <2>3. Says(<<>>) = Part(FlushPoint, 0)
    <3>1. Part(FlushPoint, 0) = <<>>
      BY <2>2, SubSeqEmpty DEF Part
    <3> QED BY <3>1, SaysNothing
  <2>4. Ready(FlushPoint, 0)
    BY <1>1, <2>2 DEF Ready
  <2>5. <<>> \in Seq(Token) /\ 0 \in Nat
    OBVIOUS
  <2>6. MatchedOK(Matched(w, FlushPoint, <<>>, 0), FlushPoint + 0)
    BY <1>1, <2>2, <2>3, <2>4, <2>5, MatchedGood
  <2>7. FlushPoint \in lastMatch .. Size /\ ShortBackup(offset + 1, FlushPoint)
    BY <1>1, <2>2 DEF ShortBackup
  <2> QED BY <1>3, <2>2, <2>6, <2>7
<1> QED BY <1>2, <1>3

\* The bytes from offset on, taken out of a read that begins before it.
LEMMA UpdateGood ==
  ASSUME SearchInv, pc = "roll", NEW p,
         p.bytes = Part(offset - Backup, k + More + Backup)
  PROVE  SubSeq(p.bytes, Backup + 1, Len(p.bytes)) = Part(offset, k + More)
<1> DEFINE a == offset - Backup
           n == k + More + Backup
           l == k + More
<1>1. /\ Size \in Nat /\ offset \in Nat /\ k \in Nat \ {0} /\ offset + k <= Size
      /\ lastMatch \in Nat /\ source \in Seq(Byte)
  BY Standing DEF Files
<1>2. Backup \in Nat /\ Backup <= offset /\ More \in {0, 1} /\ offset + k + More <= Size
  BY <1>1 DEF Backup, More, Larger
<1>3. /\ a \in Nat /\ n \in Nat /\ l \in Nat \ {0} /\ a + n <= Size /\ a <= offset
      /\ offset + l <= a + n /\ offset - a + 1 = Backup + 1 /\ offset - a + l = n
  BY <1>1, <1>2
<1>4. p.bytes = SubSeq(source, a + 1, a + n)
  BY DEF Part
<1>5. Len(p.bytes) = n
  BY <1>1, <1>3, PartType
<1> HIDE DEF a, n, l
<1>6. SubSeq(SubSeq(source, a + 1, a + n), offset - a + 1, offset - a + l)
        = SubSeq(source, offset + 1, offset + l)
  BY <1>1, <1>3, BytesOfWindow DEF Size
<1>7. SubSeq(p.bytes, Backup + 1, Len(p.bytes)) = SubSeq(source, offset + 1, offset + l)
  BY <1>3, <1>4, <1>5, <1>6
<1> QED BY <1>7 DEF Part, l

\* Rolling on by a byte keeps the invariant: the unsent bytes and the block fit in
\* a window, and the new checksum is that of the bytes one further on.
LEMMA RollGood ==
  ASSUME SearchInv, Roll
  PROVE  SearchInv' /\ Sends
<1>1. pc = "roll"
  BY DEF Roll
<1>2. /\ Running /\ Files /\ Good(win) /\ SentPart /\ AtOffset
      /\ Size \in Nat \ {0} /\ end \in Int /\ end <= Size
      /\ head.block \in Nat \ {0} /\ Chunk \in Nat \ {0}
      /\ offset \in Nat /\ offset < Size
      /\ k = Smaller(head.block, Size - offset)
      /\ k \in Nat \ {0} /\ k <= head.block /\ offset + k <= Size
      /\ lastMatch \in Nat /\ lastMatch <= Size
      /\ wire \in Seq(Token)
  BY <1>1, Standing
<1>3. PICK p : /\ p = Bytes(win, offset - Backup, k + More + Backup)
               /\ \/ /\ p.ok
                     /\ \E m \in {IF MustFlush THEN Matched(p.win, FlushPoint, <<>>, 0) ELSE Unsent(p.win)} :
                          \/ /\ m.ok
                             /\ Sent(m) /\ Summed(Rolled(SubSeq(p.bytes, Backup + 1, Len(p.bytes))))
                             /\ win' = m.win /\ offset' = offset + 1
                             /\ pc' = IF offset + 1 >= end THEN "tail" ELSE "search"
                             /\ UNCHANGED fileVars
                          \/ ~m.ok /\ FailedAfter(m)
                  \/ ~p.ok /\ Failed
  BY Zenon DEF Roll
<1>4. /\ p.ok \in BOOLEAN /\ Good(p.win)
      /\ p.ok => p.bytes = Part(offset - Backup, k + More + Backup)
      /\ disk = source => p.ok
  <2>1. Backup \in Nat /\ Backup <= offset /\ More \in {0, 1} /\ offset + k + More <= Size
    BY <1>2 DEF Backup, More, Larger
  <2>2. Backup <= head.block + 2 * Chunk - 1
    <3>1. CASE offset - lastMatch <= head.block + Chunk
      BY <1>2, <3>1 DEF Backup, Larger
    <3>2. CASE lastMatch >= end - head.block - 2 * Chunk
      <4>1. offset < end \/ offset = 0
        BY <1>2 DEF AtOffset
      <4> QED BY <1>2, <3>2, <4>1, SMTT(40) DEF Backup, Larger
    <3> QED BY <1>2, <3>1, <3>2 DEF AtOffset, ShortBackup
  <2>3. /\ offset - Backup \in Nat /\ k + More + Backup \in Nat
        /\ (offset - Backup) + (k + More + Backup) <= Size
        /\ k + More + Backup <= 2 * head.block + 2 * Chunk
    <3>1. PICK b \in Nat : b = Backup
      BY <2>1
    <3>2. PICK o \in Nat : o = More
      BY <2>1
    <3>3. PICK h \in Nat : h = head.block
      BY <1>2
    <3>4. /\ offset - b \in Nat /\ k + o + b \in Nat
          /\ (offset - b) + (k + o + b) = offset + k + o
      BY <1>2, <2>1, <3>1
    <3>5. k + o + b <= 2 * h + 2 * Chunk
      <4>1. b <= (h + 2 * Chunk) - 1
        BY <2>2, <3>1, <3>3, WindowConstants
      <4>2. k \in Nat /\ k <= h /\ Chunk \in Nat
        BY <1>2, <3>3
      <4>3. o <= 1
        BY <2>1, <3>2
      <4> QED BY <4>1, <4>2, <4>3
    <3> QED BY <2>1, <3>1, <3>2, <3>3, <3>4, <3>5
  <2>4. Modest(offset - Backup, k + More + Backup)
    BY <2>3 DEF Modest
  <2>5. k + More + Backup \in Int /\ k + More + Backup >= 0
    BY <2>3
  <2> QED BY <1>2, <1>3, <2>3, <2>4, <2>5, ReadGood
<1>5. CASE ~p.ok
  BY <1>2, <1>3, <1>4, <1>5, FailedGood
<1>6. CASE p.ok
  <2>1. PICK m :
          /\ m = IF MustFlush THEN Matched(p.win, FlushPoint, <<>>, 0) ELSE Unsent(p.win)
          /\ \/ /\ m.ok
                /\ Sent(m) /\ Summed(Rolled(SubSeq(p.bytes, Backup + 1, Len(p.bytes))))
                /\ win' = m.win /\ offset' = offset + 1
                /\ pc' = IF offset + 1 >= end THEN "tail" ELSE "search"
                /\ UNCHANGED fileVars
             \/ ~m.ok /\ FailedAfter(m)
    BY <1>3, <1>6, Zenon
  <2>2. PICK to \in lastMatch .. Size :
          /\ to = lastMatch \/ to <= offset
          /\ offset + 1 < end => ShortBackup(offset + 1, to)
          /\ MatchedOK(m, to)
    BY <1>1, <1>4, <2>1, FlushGood
  <2>3. CASE ~m.ok
    <3>1. FailedAfter(m) /\ disk # source
      BY <2>1, <2>2, <2>3 DEF MatchedOK
    <3> QED BY <1>2, <2>2, <3>1, FailedAfterGood
  <2>4. CASE m.ok
    <3> DEFINE u == SubSeq(p.bytes, Backup + 1, Len(p.bytes))
               r == Rolled(u)
    <3>1. /\ Sent(m) /\ Summed(r) /\ win' = m.win /\ offset' = offset + 1
          /\ pc' = IF offset + 1 >= end THEN "tail" ELSE "search"
          /\ UNCHANGED fileVars
      BY <2>1, <2>4
    <3>2. u = Part(offset, k + More)
      BY <1>1, <1>4, <1>6, UpdateGood
    <3> HIDE DEF u
    <3>3. /\ r.k = k + More - 1
          /\ Weak(offset + 1, k + More - 1) = [s1 |-> r.s1, s2 |-> r.s2]
      <4>1. Weak(offset, k) = [s1 |-> s1, s2 |-> s2]
        BY <1>2 DEF AtOffset
      <4> QED BY <1>2, <3>2, <4>1, RolledExact
    <3> HIDE DEF r
    <3>4. k' = r.k /\ s1' = r.s1 /\ s2' = r.s2
      BY <3>1 DEF Summed
    <3>5. /\ Good(m.win) /\ m.wire \in Seq(Token)
          /\ m.assembled = Part(0, to) /\ m.hashed = Part(0, to) /\ m.lastMatch = to
          /\ \E x \in lastMatch .. Size : m.assembled = Part(0, x)
      BY <2>2, <2>4 DEF MatchedOK
    <3>6. /\ Files' /\ Size' = Size /\ end' = end
          /\ source' = source /\ disk' = disk /\ head' = head
      BY <1>2, <3>1, FilesKept
    <3>7. Good(win)' /\ pc' \in {"tail", "search"}
      BY <3>1, <3>5, <3>6, GoodKept
    <3>8. wire' = m.wire /\ assembled' = m.assembled /\ hashed' = m.hashed /\ lastMatch' = to
      BY <3>1, <3>5 DEF Sent
    <3>9. to \in 0 .. Size /\ to <= offset + 1
      <4>1. lastMatch <= offset + 1
        BY <1>1, <1>2 DEF SentPart
      <4> QED BY <1>2, <2>2, <4>1
    <3>10. SentPart'
      <4>1. lastMatch' \in 0 .. Size' /\ lastMatch' <= offset'
        BY <3>1, <3>6, <3>8, <3>9
      <4>2. assembled' = Part(0, lastMatch)' /\ hashed' = Part(0, lastMatch)'
        BY <3>5, <3>6, <3>8 DEF Part
      <4> QED BY <3>7, <4>1, <4>2 DEF SentPart
    <3>11. pc' = "search" => AtOffset'
      <4>1. SUFFICES ASSUME pc' = "search" PROVE AtOffset'
        OBVIOUS
      <4>2. offset + 1 < end
        BY <1>2, <3>1, <4>1
      <4>3. k' = Smaller(head.block, Size - offset)'
        <5>1. More = IF offset + k < Size THEN 1 ELSE 0
          BY DEF More
        <5>2. k + More - 1 = Smaller(head.block, Size - (offset + 1))
          BY <1>2, <5>1 DEF Smaller
        <5> QED BY <3>1, <3>3, <3>4, <3>6, <5>2 DEF Smaller
      <4>4. Weak(offset, k)' = [s1 |-> s1', s2 |-> s2']
        BY <3>1, <3>3, <3>4, <3>6 DEF Weak, Part
      <4>5. ShortBackup(offset, lastMatch)'
        BY <2>2, <3>1, <3>6, <3>8, <4>2 DEF ShortBackup
      <4> QED BY <3>1, <3>6, <4>2, <4>3, <4>4, <4>5 DEF AtOffset
    <3>13. InRange'
      <4> DEFINE kk == k + More - 1
      <4>1. kk \in Nat /\ kk \in 0 .. head.block /\ offset + 1 \in Nat /\ offset + 1 \in 0 .. Size
            /\ (kk = 0 \/ (offset + 1) + kk <= Size)
        <5>1. More = IF offset + k < Size THEN 1 ELSE 0
          BY DEF More
        <5> QED BY <1>2, <5>1 DEF Smaller
      <4>2. k' = kk /\ Weak(offset + 1, kk) = [s1 |-> r.s1, s2 |-> r.s2]
        BY <3>3, <3>4
      <4> HIDE DEF kk
      <4>3. r.s1 \in 0 .. SumMod - 1 /\ r.s2 \in 0 .. SumMod - 1
        BY <1>2, <4>1, <4>2, WeakInRange DEF Files
      <4>4. Part(0, to) \in Seq(Byte) /\ m.wire \in Seq(Item)
        BY <1>2, <3>5, <3>9, PrefixTyped, TokensAreItems
      <4> QED BY <3>1, <3>4, <3>5, <3>6, <3>8, <3>9, <4>1, <4>2, <4>3, <4>4 DEF InRange
    <3>12. SearchInv'
      BY <1>2, <3>1, <3>5, <3>6, <3>7, <3>8, <3>10, <3>11, <3>13 DEF SearchInv, Running
    <3> QED BY <3>5, <3>6, <3>7, <3>8, <3>12 DEF Sends
  <2> QED BY <2>3, <2>4
<1> QED BY <1>4, <1>5, <1>6

\* The tail keeps the invariant, and vouches for all of the source.
LEMMA TailGood ==
  ASSUME SearchInv, Tail1
  PROVE  SearchInv' /\ (Sends \/ Stream!Vouch)
<1>1. pc = "tail" /\ Running /\ SentPart /\ Files /\ Good(win) /\ Size \in Nat
  BY EndInFile DEF Tail1, SearchInv, Running
<1>2. lastMatch \in Nat /\ lastMatch <= Size
      /\ assembled = Part(0, lastMatch) /\ hashed = Part(0, lastMatch) /\ wire \in Seq(Token)
  BY <1>1 DEF SentPart, SearchInv
<1>3. PICK m :
        /\ m = Matched(win, Size, <<EndToken>>, 0)
        /\ \/ /\ m.ok /\ pc' = "done" /\ win' = m.win
              /\ wire' = Append(m.wire, Sum(m.hashed))
              /\ assembled' = m.assembled /\ hashed' = m.hashed /\ lastMatch' = m.lastMatch
              /\ UNCHANGED <<fileVars, sumVars, offset>>
           \/ ~m.ok /\ FailedAfter(m)
  BY Zenon DEF Tail1
<1>4. MatchedOK(m, Size + 0)
  <2>1. EndToken.t = "end" /\ EndToken.v = <<>> /\ EndToken \in Token
    <3>1. <<>> \in Seq(Byte)
      OBVIOUS
    <3> QED BY <3>1 DEF EndToken, Token
  <2>2. Meaning(EndToken) = <<>> /\ <<>> \in Seq(Byte)
    BY <2>1 DEF Meaning
  <2>3. Says(<<EndToken>>) = Part(Size, 0)
    <3>1. Part(Size, 0) = <<>>
      BY <1>1, SubSeqEmpty DEF Part
    <3> QED BY <2>2, <3>1, SaysOne
  <2>4. <<EndToken>> \in Seq(Token)
    BY <2>1
  <2>5. Ready(Size, 0) /\ 0 \in Nat
    BY <1>1, <1>2 DEF Ready
  <2> QED BY <1>1, <1>3, <2>3, <2>4, <2>5, MatchedGood
<1>5. CASE ~m.ok
  <2>1. FailedAfter(m) /\ disk # source
    BY <1>3, <1>4, <1>5 DEF MatchedOK
  <2> QED BY <1>1, <1>4, <2>1, FailedAfterGood
<1>6. CASE m.ok
  <2>1. /\ pc' = "done" /\ win' = m.win /\ wire' = Append(m.wire, Sum(m.hashed))
        /\ assembled' = m.assembled /\ lastMatch' = m.lastMatch
        /\ UNCHANGED fileVars /\ offset' = offset
    BY <1>3, <1>6
  <2>2. Size + 0 = Size /\ Part(0, Size) = source
    <3>1. 0 + Size = Size /\ 0 + 1 = 1 /\ Size + 0 = Size
      BY <1>1
    <3>2. SubSeq(source, 1, Len(source)) = source
      BY <1>1, SubSeqFull DEF Files
    <3> QED BY <3>1, <3>2 DEF Part, Size
  <2>3. /\ Good(m.win) /\ m.wire \in Seq(Token)
        /\ m.assembled = source /\ m.hashed = source
    BY <1>4, <1>6, <2>2 DEF MatchedOK
  <2>4. Files' /\ source' = source /\ disk' = disk /\ head' = head
    BY <1>1, <2>1, FilesKept
  <2>5. Good(win)'
    BY <2>1, <2>3, <2>4, GoodKept
  <2>10. InRange'
    <3>1. UNCHANGED <<k, s1, s2, offset>> /\ hashed' = m.hashed
      BY <1>3, <1>6 DEF sumVars
    <3>2. m.lastMatch = Size /\ Size \in 0 .. Size /\ source \in Seq(Byte)
      BY <1>1, <1>4, <2>2 DEF MatchedOK, Files
    <3>3. wire' \in Seq(Item)
      <4>1. Sum(m.hashed) \in Item
        BY <2>3, <3>2 DEF Sum, Item
      <4> QED BY <2>1, <2>3, <4>1, TokensAreItems, AppendProperties
    <3>4. Size' = Size
      BY <2>4 DEF Size
    <3> QED BY <2>1, <2>3, <2>4, <3>1, <3>2, <3>3, <3>4 DEF SearchInv, InRange
  <2>6. SearchInv'
    BY <2>1, <2>4, <2>5, <2>10 DEF SearchInv, Running
  <2>7. Vouched = {}
    <3>1. ASSUME NEW j \in 1 .. Len(wire) PROVE wire[j].t # "sum"
      <4>1. wire[j] \in Token
        BY <1>2, ElementOfSeq
      <4> QED BY <4>1 DEF Token
    <3> QED BY <3>1 DEF Vouched
  <2>8. Vouched' = {source}
    <3>1. Len(m.wire) \in Nat /\ Len(wire') = Len(m.wire) + 1 /\ wire'[Len(m.wire) + 1] = Sum(m.hashed)
          /\ \A j \in 1 .. Len(m.wire) : wire'[j] = m.wire[j]
      BY <2>1, <2>3, AppendProperties, LenProperties
    <3>2. ASSUME NEW j \in 1 .. Len(m.wire) PROVE m.wire[j].t # "sum"
      <4>1. m.wire[j] \in Token
        BY <2>3, ElementOfSeq
      <4> QED BY <4>1 DEF Token
    <3>3. Sum(m.hashed).t = "sum" /\ Sum(m.hashed).v = source
      BY <2>3 DEF Sum
    <3>4. {n \in 1 .. Len(wire') : wire'[n].t = "sum"} = {Len(m.wire) + 1}
      BY <3>1, <3>2, <3>3
    <3>5. Vouched' = {wire'[j].v : j \in {Len(m.wire) + 1}}
      BY <3>4 DEF Vouched
    <3> QED BY <3>1, <3>3, <3>5
  <2>9. Stream!Vouch
    BY <2>1, <2>3, <2>4, <2>7, <2>8 DEF Stream!Vouch, Vouched
  <2> QED BY <2>6, <2>9
<1> QED BY <1>5, <1>6

\* A file that is cut short keeps the invariant: it speaks of the file as opened.
LEMMA TruncateGood ==
  ASSUME SearchInv, Truncate
  PROVE  SearchInv' /\ Stream!Cut
<1>1. /\ disk = source /\ Running /\ Files /\ Good(win)
      /\ UNCHANGED <<source, basis, head, sums, pc, win, k, s1, s2, offset, lastMatch, wire, assembled, hashed>>
  BY DEF Truncate, Running, sumVars, sentVars, SearchInv
<1>2. PICK n \in 0 .. Size - 1 : disk' = SubSeq(source, 1, n)
  BY DEF Truncate
<1>3. Size \in Nat /\ Size' = Size /\ end' = end
  BY <1>1, EndInFile DEF Size, end
<1>4. disk' # source'
  <2>1. Len(SubSeq(source, 1, n)) = n
    BY <1>3
  <2>2. n # Size
    BY <1>3
  <2> QED BY <1>1, <1>2, <2>1, <2>2 DEF Size
<1>5. Shortened'
  BY <1>1, <1>2, <1>3 DEF Shortened
<1>6. Files'
  BY <1>1, <1>5 DEF Files
<1>7. Good(win)'
  BY <1>1, GoodKept
<1>8. SentPart => SentPart'
  BY <1>1, <1>3 DEF SentPart, Part
<1>9. AtOffset => AtOffset'
  BY <1>1, <1>3 DEF AtOffset, ShortBackup, Weak, Part
<1>11. InRange'
  BY <1>1, <1>3 DEF SearchInv, InRange
<1>10. SearchInv'
  BY <1>1, <1>4, <1>6, <1>7, <1>8, <1>9, <1>11 DEF SearchInv, Running
<1> QED BY <1>1, <1>4, <1>10 DEF Stream!Cut

\* SearchInv is inductive.
LEMMA SearchInvNext == SearchInv /\ [Next]_vars => SearchInv'
<1> SUFFICES ASSUME SearchInv, [Next]_vars PROVE SearchInv'
  OBVIOUS
<1>1. CASE Open
  BY <1>1, OpenGood
<1>2. CASE Match
  BY <1>2, MatchGood
<1>3. CASE Miss
  BY <1>3, MissGood
<1>4. CASE Roll
  BY <1>4, RollGood
<1>5. CASE Tail1
  BY <1>5, TailGood
<1>6. CASE Truncate
  BY <1>6, TruncateGood
<1>7. CASE UNCHANGED vars
  BY <1>7 DEF vars, SearchInv, Files, Shortened, Size, Good, Running, SentPart, Part,
              AtOffset, ShortBackup, Weak, end, InRange
<1> QED BY <1>1, <1>2, <1>3, <1>4, <1>5, <1>6, <1>7 DEF Next, Search

\* SearchInv holds in every state of a search: what the theorems below rest on.
THEOREM SearchInvariant == Spec => []SearchInv
<1>1. Init => SearchInv
  BY StartsGood
<1>2. SearchInv /\ [Next]_vars => SearchInv'
  BY SearchInvNext
<1> QED BY <1>1, <1>2, PTL DEF Spec

\* Whatever hashSearch and matched ask for, in whatever order, and whenever
\* the file is cut short: the window of mapStruct holds the bytes of the file
\* as it was when it was opened (fileio.go:79-107).
THEOREM WindowHolds == Spec => []WindowFaithful
<1>1. SearchInv => WindowFaithful
  BY DEF SearchInv, Good, Faithful, WindowFaithful
<1> QED BY <1>1, SearchInvariant, PTL

\* The variables of a search have their types in every state: nothing stands
\* behind the end of the file, no window reaches past it, the halves of the
\* checksum never leave their range, and only tokens are on the wire.
THEOREM TypeCorrect == Spec => []TypeOK
<1>1. SearchInv => TypeOK
  <2> SUFFICES ASSUME SearchInv PROVE TypeOK
    OBVIOUS
  <2>1. Files /\ InRange /\ Good(win) /\ Size \in Nat /\ source \in Seq(Byte) /\ basis \in Seq(Byte)
    BY EndInFile DEF SearchInv, Files
  <2>2. disk \in Seq(Byte)
    <3>1. PICK left \in 0 .. Size : disk = SubSeq(source, 1, left)
      BY <2>1 DEF Files, Shortened
    <3>2. left \in 0 .. Size /\ 0 + 1 = 1 /\ 0 + left = left
      BY <2>1
    <3>3. disk = Part(0, left)
      BY <3>1, <3>2 DEF Part
    <3> QED BY <2>1, <3>3, PrefixTyped
  <2>3. win \in [off : 0 .. Size, len : 0 .. Size, buf : Seq(Byte), def : Nat]
    BY <2>1 DEF Good, Windows, Faithful, Size
  <2> QED BY <2>1, <2>2, <2>3 DEF TypeOK, InRange, Item, SearchInv
<1> QED BY <1>1, SearchInvariant, PTL

\* The search fails only when somebody has cut the file: no window that it
\* asks for, with all the backup and all the alignment, reaches past the end
\* of an intact file ("file has changed mid-transfer", fileio.go:103).
THEOREM ReadsFit == Spec => []EveryReadFits
<1>1. SearchInv => EveryReadFits
  BY DEF SearchInv, EveryReadFits
<1> QED BY <1>1, SearchInvariant, PTL

\* The weak checksum updated byte by byte, also across a match and at the end
\* of the file (match.go:160-206), is the checksum of the bytes at offset.
THEOREM RollsExactly == Spec => []RollingExact
<1>1. SearchInv => RollingExact
  BY DEF SearchInv, RollingExact, AtOffset, Weak, Part
<1> QED BY <1>1, SearchInvariant, PTL

\* A shorter part is a prefix of a longer one.
LEMMA PartPrefix ==
  ASSUME source \in Seq(Byte), NEW x \in Nat, NEW y \in Nat, x <= y, y <= Size
  PROVE  Stream!IsPrefixOf(Part(0, x), Part(0, y))
<1>1. Len(Part(0, x)) = x /\ Len(Part(0, y)) = y
  <2>1. Size \in Nat
    BY LenProperties DEF Size
  <2>2. 0 \in Nat /\ 0 + x <= Size /\ 0 + y <= Size
    BY <2>1
  <2> QED BY <2>2, PartType
<1>2. SubSeq(Part(0, y), 1, x) = Part(0, x)
  <2>1. CASE x = 0
    <3>1. SubSeq(Part(0, y), 1, 0) = <<>> /\ SubSeq(source, 0 + 1, 0 + 0) = <<>>
      BY SubSeqEmpty
    <3> QED BY <2>1, <3>1 DEF Part
  <2>2. CASE x # 0
    <3>1. x \in Nat \ {0} /\ 0 \in Nat /\ 0 + y <= Len(source) /\ 0 <= 0 /\ 0 + x <= 0 + y
      BY <2>2 DEF Size
    <3>2. SubSeq(SubSeq(source, 0 + 1, 0 + y), 0 - 0 + 1, 0 - 0 + x) = SubSeq(source, 0 + 1, 0 + x)
      BY <3>1, BytesOfWindow
    <3>3. 0 - 0 + 1 = 1 /\ 0 - 0 + x = x
      OBVIOUS
    <3> QED BY <3>2, <3>3 DEF Part
  <2> QED BY <2>1, <2>2
<1> QED BY <1>1, <1>2 DEF Stream!IsPrefixOf

\* A step that sends something extends what is assembled.
LEMMA SendsExtends ==
  ASSUME SearchInv, Running, Sends
  PROVE  Stream!Extend
<1>1. Size \in Nat /\ source \in Seq(Byte) /\ lastMatch \in Nat /\ assembled = Part(0, lastMatch)
  BY LenProperties DEF SearchInv, Files, Size, SentPart
<1>2. PICK x \in lastMatch .. Size : assembled' = Part(0, x)
  BY DEF Sends
<1>3. Stream!IsPrefixOf(assembled, assembled')
  BY <1>1, <1>2, PartPrefix
<1>4. Stream!IsPrefixOf(assembled', source)
  <2>1. Part(0, Size) = source
    <3>1. 0 + Size = Size /\ 0 + 1 = 1
      BY <1>1
    <3>2. SubSeq(source, 1, Len(source)) = source
      BY <1>1, SubSeqFull
    <3> QED BY <3>1, <3>2 DEF Part, Size
  <2>2. x \in Nat /\ x <= Size
    BY <1>1, <1>2
  <2>3. Stream!IsPrefixOf(Part(0, x), Part(0, Size))
    BY <1>1, <2>2, PartPrefix
  <2> QED BY <1>2, <2>1, <2>3
<1>5. ASSUME NEW w \in Seq(Token)
      PROVE  {n \in 1 .. Len(w) : w[n].t = "sum"} = {}
  <2>1. ASSUME NEW j \in 1 .. Len(w) PROVE w[j].t # "sum"
    <3>1. w[j] \in Token
      BY ElementOfSeq
    <3> QED BY <3>1 DEF Token
  <2> QED BY <2>1
<1>6. Vouched = {} /\ Vouched' = {}
  <2>1. wire \in Seq(Token) /\ wire' \in Seq(Token)
    BY DEF SearchInv, Running, Sends
  <2>2. /\ {n \in 1 .. Len(wire) : wire[n].t = "sum"} = {}
        /\ {n \in 1 .. Len(wire') : wire'[n].t = "sum"} = {}
    BY <1>5, <2>1
  <2> QED BY <2>2 DEF Vouched
<1> QED BY <1>3, <1>4, <1>6 DEF Sends, Stream!Extend, Vouched

\* hashSearch, matched and simpleSendToken implement DeltaStream, but for its
\* liveness: what a receiver has that applied the tokens sent so far is a
\* prefix of the source, and the checksum at the end is sent for the whole of
\* it, with the whole of it assembled, or not at all.
THEOREM SendsDeltaStream ==
  Spec => Stream!StreamInit /\ [][Stream!StreamNext]_(Stream!streamVars)
<1>1. Init => Stream!StreamInit
  <2> SUFFICES ASSUME Init PROVE Stream!StreamInit
    OBVIOUS
  <2>1. source \in Seq(Byte) /\ disk = source /\ assembled = <<>>
    BY SearchedFiles DEF Init
  <2>2. {n \in 1 .. Len(wire) : wire[n].t = "sum"} = {}
    BY DEF Init
  <2> QED BY <2>1, <2>2 DEF Stream!StreamInit
<1>2. SearchInv /\ [Next]_vars => [Stream!StreamNext]_(Stream!streamVars)
  <2> SUFFICES ASSUME SearchInv, [Next]_vars
               PROVE  Stream!StreamNext \/ UNCHANGED Stream!streamVars
    OBVIOUS
  <2>1. CASE Open \/ Match \/ Miss \/ Roll \/ Tail1
    <3>1. Sends \/ Stream!Vouch
      BY <2>1, OpenGood, MatchGood, MissGood, RollGood, TailGood
    <3>2. Running
      BY <2>1 DEF Open, Match, Miss, Roll, Tail1, Running
    <3> QED BY <3>1, <3>2, SendsExtends DEF Stream!StreamNext
  <2>2. CASE Truncate
    BY <2>2, TruncateGood DEF Stream!StreamNext
  <2>3. CASE UNCHANGED vars
    BY <2>3 DEF vars, Stream!streamVars
  <2> QED BY <2>1, <2>2, <2>3 DEF Next, Search
<1> QED BY <1>1, <1>2, SearchInvariant, PTL DEF Spec

-----------------------------------------------------------------------------
(* A file identical to its basis.                                          *)

BlockStart(at) == \E i \in 0 .. head.count - 1 : at = i * head.block

\* The search is at the start of a block, with everything before it sent as
\* blocks; on its way to the next one it has sent everything up to there.
Blockwise ==
  /\ wire \in Seq(Wordless)
  /\ pc = "open" => lastMatch = 0
  /\ pc = "search" => lastMatch = offset /\ BlockStart(offset)
  /\ pc = "roll" => lastMatch = offset + 1 /\ (lastMatch = Size \/ BlockStart(lastMatch))
  /\ pc = "tail" => lastMatch = Size

\* The blocks of the request are those of the source too.
LEMMA BasisBlocks ==
  ASSUME Files, source = basis
  PROVE  BlocksOf(head, Size) /\ head.count \in Nat \ {0} /\ head.block \in Nat \ {0}
<1>1. Len(basis) = Size /\ Size \in Nat \ {0} /\ head = SumHead(Size)
  BY EndInFile DEF Files, Size
<1> QED BY <1>1, Blocks, HeadNat

\* Block i of the basis is what is found at its place in the source.
LEMMA BlockHere ==
  ASSUME Files, source = basis, NEW i \in 0 .. head.count - 1, NEW at, at = i * head.block
  PROVE  LET l == Smaller(head.block, Size - at)
         IN /\ sums[i].len = l /\ sums[i].sum1 = Weak(at, l) /\ sums[i].sum2 = Part(at, l)
<1> DEFINE l == Smaller(head.block, Size - at)
<1>1. Len(basis) = Size /\ head = SumHead(Size)
  BY DEF Files, Size
<1>2. sums[i] = [len |-> BlockLen(head, i),
                 sum1 |-> Checksum1(BlockAt(basis, head, i)),
                 sum2 |-> BlockAt(basis, head, i)]
  BY <1>1 DEF SumsOf, Files
<1>3. BlockLen(head, i) = l
  BY BasisBlocks DEF BlocksOf
<1> HIDE DEF l
<1>4. BlockAt(basis, head, i) = Part(at, l)
  BY <1>3 DEF BlockAt, BlockOffset, Part
<1> QED BY <1>2, <1>3, <1>4 DEF Weak, l

\* The loop ends after the start of the last block.
LEMMA EndHere ==
  ASSUME Files, source = basis
  PROVE  /\ end \in Nat /\ end <= Size
         /\ \A at : BlockStart(at) => at \in Nat /\ at < end
<1>1. BlocksOf(head, Size) /\ head.count \in Nat \ {0} /\ head.block \in Nat \ {0}
  BY BasisBlocks
<1>2. Size \in Nat \ {0} /\ end <= Size
  BY EndInFile
<1> DEFINE last == head.count - 1
           top == last * head.block
           l == BlockLen(head, last)
<1>3. last \in 0 .. head.count - 1
  BY <1>1
<1>4. top \in Nat /\ top < Size /\ l = Smaller(head.block, Size - top) /\ top + l = Size
  BY <1>1, <1>3 DEF BlocksOf
<1>5. sums[last].len = l
  BY <1>3, <1>4, BlockHere
<1>6. end = Size + 1 - l
  BY <1>5 DEF end
<1>7. l \in Nat
  BY <1>1, <1>2, <1>4 DEF Smaller
<1>8. end = top + 1
  <2> HIDE DEF top, l
  <2> QED BY <1>2, <1>4, <1>6, <1>7
<1>9. ASSUME NEW i \in 0 .. head.count - 1
      PROVE  i * head.block \in Nat /\ i * head.block <= top
  <2>1. PICK x \in Nat : last = i + x
    <3>1. last - i \in Nat /\ last = i + (last - i)
      BY <1>1
    <3> QED BY <3>1
  <2>2. (i + x) * head.block = i * head.block + x * head.block /\ x * head.block \in Nat
        /\ i * head.block \in Nat
    BY <1>1
  <2> HIDE DEF last
  <2> QED BY <2>1, <2>2
<1>10. ASSUME NEW at, BlockStart(at) PROVE at \in Nat /\ at < end
  <2>1. PICK i \in 0 .. head.count - 1 : at = i * head.block
    BY <1>10 DEF BlockStart
  <2>2. at \in Nat /\ at <= top
    BY <1>9, <2>1
  <2> HIDE DEF top
  <2> QED BY <1>4, <1>8, <2>2
<1>11. end \in Nat
  <2> HIDE DEF top
  <2> QED BY <1>4, <1>8
<1> QED BY <1>2, <1>10, <1>11

\* A failure after blocks only is a failure after blocks only.
LEMMA FailsBlockwise ==
  ASSUME Blockwise, pc' = "failed", wire' \in Seq(Wordless)
  PROVE  Blockwise'
BY DEF Blockwise

\* The search begins at the start of the first block.
LEMMA OpenBlockwise ==
  ASSUME SearchInv, source = basis, Blockwise, Open
  PROVE  Blockwise'
<1>1. Files /\ pc = "open" /\ offset = 0 /\ lastMatch = 0 /\ wire \in Seq(Wordless)
  BY DEF Open, SearchInv, Blockwise
<1>2. UNCHANGED <<fileVars, offset, sentVars>> /\ pc' \in {"search", "failed"}
  BY Zenon DEF Open, Failed
<1>3. head' = head /\ offset' = 0 /\ lastMatch' = 0 /\ wire' = wire
  BY <1>1, <1>2 DEF fileVars, sentVars
<1>4. BlockStart(0)
  <2>1. head.count \in Nat \ {0} /\ head.block \in Nat
    BY <1>1, BasisBlocks
  <2>2. 0 \in 0 .. head.count - 1 /\ 0 = 0 * head.block
    BY <2>1
  <2> QED BY <2>2 DEF BlockStart
<1> QED BY <1>1, <1>2, <1>3, <1>4 DEF Blockwise, BlockStart

\* At the start of a block the search finds it, if it can read the file.
LEMMA FindsBlock ==
  ASSUME SearchInv, source = basis, pc = "search", BlockStart(offset), Candidate.ok
  PROVE  Hits # {}
<1>1. /\ Files /\ Weak(offset, k) = [s1 |-> s1, s2 |-> s2]
      /\ k = Smaller(head.block, Size - offset)
  BY Standing DEF AtOffset
<1>2. PICK i \in 0 .. head.count - 1 : offset = i * head.block
  BY DEF BlockStart
<1>3. /\ sums[i].len = k /\ sums[i].sum1 = Weak(offset, k) /\ sums[i].sum2 = Part(offset, k)
  BY <1>1, <1>2, BlockHere
<1>4. i \in Alike
  BY <1>1, <1>3 DEF Alike
<1>5. Candidate.bytes = Part(offset, k)
  BY <1>4, CandidateGood
<1>6. i \in Hits
  BY <1>3, <1>4, <1>5 DEF Hits
<1> QED BY <1>6

\* A miss can only be a failed read.
LEMMA MissBlockwise ==
  ASSUME SearchInv, source = basis, Blockwise, Miss
  PROVE  Blockwise'
<1>1. /\ pc = "search" /\ Hits = {} /\ BlockStart(offset) /\ wire \in Seq(Wordless)
      /\ pc' = IF Candidate.ok THEN "roll" ELSE "failed"
      /\ wire' = wire
  BY DEF Miss, Blockwise, sentVars
<1>2. ~Candidate.ok
  BY <1>1, FindsBlock
<1> QED BY <1>1, <1>2, FailsBlockwise

\* After a match everything is sent up to the start of the next block, or to the end.
LEMMA MatchBlockwise ==
  ASSUME SearchInv, source = basis, Blockwise, Match
  PROVE  Blockwise'
<1>1. /\ pc = "search" /\ lastMatch = offset /\ BlockStart(offset) /\ wire \in Seq(Wordless)
  BY DEF Match, Blockwise
<1>2. /\ Running /\ Files /\ SentPart
      /\ Size \in Nat \ {0} /\ offset \in Nat /\ offset < Size
      /\ head.block \in Nat \ {0} /\ k = Smaller(head.block, Size - offset)
      /\ k \in Nat \ {0} /\ offset + k <= Size /\ wire \in Seq(Token)
      /\ assembled = Part(0, lastMatch) /\ hashed = Part(0, lastMatch)
  BY <1>1, Standing
<1> DEFINE Ends(i, m, c) ==
      \/ /\ m.ok /\ c.ok
         /\ Sent(m) /\ Summed(c) /\ win' = c.win /\ offset' = NextOffset(i)
         /\ pc' = IF NextOffset(i) >= end THEN "tail" ELSE "roll"
         /\ UNCHANGED fileVars
      \/ ~(m.ok /\ c.ok) /\ FailedAfter(m)
<1>3. PICK i \in Hits :
        \E m \in {Matched(Candidate.win, offset, <<Block(i)>>, sums[i].len)} :
        \E c \in {ReadChunk(m.win, NextOffset(i))} : Ends(i, m, c)
  BY Zenon DEF Match
<1> HIDE DEF Ends
<1>4. PICK m, c : m = Matched(Candidate.win, offset, <<Block(i)>>, sums[i].len) /\ Ends(i, m, c)
  BY <1>3
<1> USE DEF Ends
<1> DEFINE to == offset + k
<1>5. /\ sums[i].len = k /\ <<Block(i)>> \in Seq(Token) /\ <<Block(i)>> \in Seq(Wordless)
      /\ Says(<<Block(i)>>) = Part(offset, k)
  BY <1>1, HitsFit
<1>6. MatchedOK(m, to) /\ m.wire \in Seq(Wordless)
  <2>1. m = Matched(Candidate.win, offset, <<Block(i)>>, k)
    BY <1>4, <1>5
  <2>2. Good(Candidate.win)
    BY <1>1, CandidateGood
  <2>3. Ready(offset, k)
    BY <1>1, <1>2 DEF SentPart, Ready
  <2> QED BY <1>1, <1>2, <1>5, <2>1, <2>2, <2>3, MatchedGood
<1>7. to \in Nat /\ NextOffset(i) = to - 1 /\ to <= Size
  BY <1>2, <1>5 DEF NextOffset
<1>8. CASE ~(m.ok /\ c.ok)
  <2>1. pc' = "failed" /\ wire' = m.wire
    BY <1>4, <1>8 DEF FailedAfter
  <2> QED BY <1>6, <2>1, FailsBlockwise
<1>9. CASE m.ok /\ c.ok
  <2>1. /\ wire' = m.wire /\ lastMatch' = to /\ offset' = to - 1
        /\ pc' = IF to - 1 >= end THEN "tail" ELSE "roll"
        /\ UNCHANGED fileVars
    BY <1>4, <1>6, <1>7, <1>9 DEF Sent, MatchedOK
  <2>2. head' = head /\ Size' = Size
    BY <1>2, <2>1, FilesKept
  <2>3. to = Size \/ BlockStart(to)
    <3>1. BlocksOf(head, Size) /\ head.count \in Nat \ {0}
      BY <1>2, BasisBlocks
    <3>2. PICK j \in 0 .. head.count - 1 : offset = j * head.block
      BY <1>1 DEF BlockStart
    <3>3. BlockLen(head, j) = k
      BY <1>2, <3>1, <3>2 DEF BlocksOf
    <3>4. CASE j = head.count - 1
      BY <3>1, <3>2, <3>3, <3>4 DEF BlocksOf
    <3>5. CASE j # head.count - 1
      <4>1. to = (j + 1) * head.block
        BY <3>1, <3>2, <3>3, <3>5 DEF BlocksOf
      <4>2. j + 1 \in 0 .. head.count - 1
        BY <3>1, <3>5
      <4> QED BY <4>1, <4>2 DEF BlockStart
    <3> QED BY <3>4, <3>5
  <2>4. end <= Size /\ end \in Nat /\ (BlockStart(to) => to < end)
    BY <1>2, EndHere
  <2> HIDE DEF to
  <2>5. pc' \in {"tail", "roll"} /\ (pc' = "tail" => to = Size)
    BY <1>7, <2>1, <2>3, <2>4
  <2>6. lastMatch' = offset' + 1
    BY <1>7, <2>1
  <2>7. lastMatch' = Size' \/ BlockStart(lastMatch)'
    BY <2>1, <2>2, <2>3 DEF BlockStart
  <2> QED BY <1>6, <2>1, <2>2, <2>5, <2>6, <2>7 DEF Blockwise
<1> QED BY <1>8, <1>9

\* Nothing waits to be sent while the search rolls on to the next block.
LEMMA RollBlockwise ==
  ASSUME SearchInv, source = basis, Blockwise, Roll
  PROVE  Blockwise'
<1>1. /\ pc = "roll" /\ lastMatch = offset + 1 /\ wire \in Seq(Wordless)
      /\ lastMatch = Size \/ BlockStart(lastMatch)
  BY DEF Roll, Blockwise
<1>2. Files /\ offset \in Nat /\ Size \in Nat /\ head.block \in Nat \ {0} /\ Chunk \in Nat \ {0}
  BY <1>1, Standing
<1>3. ~MustFlush
  <2>1. Backup = 0
    BY <1>1, <1>2 DEF Backup, Larger
  <2> QED BY <1>2, <2>1 DEF MustFlush
<1>4. PICK p : /\ p = Bytes(win, offset - Backup, k + More + Backup)
               /\ \/ /\ p.ok
                     /\ \E m \in {IF MustFlush THEN Matched(p.win, FlushPoint, <<>>, 0) ELSE Unsent(p.win)} :
                          \/ /\ m.ok
                             /\ Sent(m) /\ Summed(Rolled(SubSeq(p.bytes, Backup + 1, Len(p.bytes))))
                             /\ win' = m.win /\ offset' = offset + 1
                             /\ pc' = IF offset + 1 >= end THEN "tail" ELSE "search"
                             /\ UNCHANGED fileVars
                          \/ ~m.ok /\ FailedAfter(m)
                  \/ ~p.ok /\ Failed
  BY Zenon DEF Roll
<1>5. CASE Failed
  BY <1>1, <1>5, FailsBlockwise DEF Failed, sentVars
<1>6. CASE ~Failed
  <2>1. PICK m : /\ m = Unsent(p.win)
                 /\ \/ /\ m.ok /\ Sent(m) /\ offset' = offset + 1
                       /\ pc' = IF offset + 1 >= end THEN "tail" ELSE "search"
                       /\ UNCHANGED fileVars
                    \/ ~m.ok /\ FailedAfter(m)
    BY <1>3, <1>4, <1>6, Zenon
  <2>2. m.ok /\ m.wire = wire /\ m.lastMatch = lastMatch
    BY <2>1 DEF Unsent
  <2>3. /\ wire' = wire /\ lastMatch' = lastMatch /\ offset' = offset + 1
        /\ pc' = IF offset + 1 >= end THEN "tail" ELSE "search"
        /\ UNCHANGED fileVars
    BY <2>1, <2>2 DEF Sent
  <2>4. head' = head /\ Size' = Size
    BY <1>2, <2>3, FilesKept
  <2>5. end \in Nat /\ end <= Size /\ (BlockStart(lastMatch) => lastMatch < end)
    BY <1>2, EndHere
  <2>6. /\ pc' \in {"tail", "search"}
        /\ pc' = "tail" => lastMatch = Size
        /\ pc' = "search" => BlockStart(lastMatch)
    BY <1>1, <1>2, <2>3, <2>5
  <2> QED BY <1>1, <2>3, <2>4, <2>6 DEF Blockwise, BlockStart
<1> QED BY <1>5, <1>6

\* Nothing is left for the tail but the end token and the checksum.
LEMMA TailBlockwise ==
  ASSUME SearchInv, source = basis, Blockwise, Tail1
  PROVE  Blockwise'
<1>1. pc = "tail" /\ lastMatch = Size /\ wire \in Seq(Wordless)
  BY DEF Tail1, Blockwise
<1>2. Files /\ Good(win) /\ SentPart /\ Size \in Nat /\ wire \in Seq(Token) /\ source \in Seq(Byte)
  BY <1>1, EndInFile DEF SearchInv, Running, Files
<1>3. PICK m :
        /\ m = Matched(win, Size, <<EndToken>>, 0)
        /\ \/ /\ m.ok /\ pc' = "done" /\ win' = m.win
              /\ wire' = Append(m.wire, Sum(m.hashed))
              /\ assembled' = m.assembled /\ hashed' = m.hashed /\ lastMatch' = m.lastMatch
              /\ UNCHANGED <<fileVars, sumVars, offset>>
           \/ ~m.ok /\ FailedAfter(m)
  BY Zenon DEF Tail1
<1>4. MatchedOK(m, Size + 0) /\ m.wire \in Seq(Wordless)
  <2>1. EndToken.t = "end" /\ EndToken \in Token /\ EndToken \in Wordless
    <3>1. <<>> \in Seq(Byte)
      OBVIOUS
    <3> QED BY <3>1 DEF EndToken, Token, Wordless
  <2>2. Meaning(EndToken) = <<>> /\ <<>> \in Seq(Byte)
    BY <2>1 DEF Meaning
  <2>3. Says(<<EndToken>>) = Part(Size, 0)
    <3>1. Part(Size, 0) = <<>>
      BY <1>2, SubSeqEmpty DEF Part
    <3> QED BY <2>2, <3>1, SaysOne
  <2>4. <<EndToken>> \in Seq(Token) /\ <<EndToken>> \in Seq(Wordless)
    BY <2>1
  <2>5. Ready(Size, 0) /\ 0 \in Nat
    BY <1>1, <1>2 DEF Ready, SentPart
  <2> QED BY <1>1, <1>2, <1>3, <2>3, <2>4, <2>5, MatchedGood
<1>5. CASE ~m.ok
  <2>1. pc' = "failed" /\ wire' = m.wire
    BY <1>3, <1>5 DEF FailedAfter
  <2> QED BY <1>4, <2>1, FailsBlockwise
<1>6. CASE m.ok
  <2>1. pc' = "done" /\ wire' = Append(m.wire, Sum(m.hashed))
    BY <1>3, <1>6
  <2>2. m.hashed \in Seq(Byte)
    <3>1. Size + 0 \in Nat /\ 0 + (Size + 0) <= Size /\ 0 \in Nat
      BY <1>2
    <3>2. m.hashed = Part(0, Size + 0)
      BY <1>4, <1>6 DEF MatchedOK
    <3> QED BY <1>2, <3>1, <3>2, PartType
  <2>3. Sum(m.hashed) \in Wordless
    BY <2>2 DEF Sum, Wordless
  <2>4. wire' \in Seq(Wordless)
    BY <1>4, <2>1, <2>3, AppendProperties
  <2> QED BY <2>1, <2>4 DEF Blockwise
<1> QED BY <1>5, <1>6

\* A file identical to the basis goes over as blocks only: the search finds
\* every block where it begins, so that no literal is ever due (match.go:106-168).
THEOREM IdenticalInBlocks == Spec => []IdenticalSendsNoLiterals
<1> DEFINE Inv == SearchInv /\ (source = basis => Blockwise)
<1>1. Init => Inv
  <2> SUFFICES ASSUME Init, source = basis PROVE Blockwise
    BY StartsGood
  <2>1. pc = "open" /\ lastMatch = 0 /\ wire = <<>>
    BY DEF Init
  <2> QED BY <2>1 DEF Blockwise
<1>2. Inv /\ [Next]_vars => Inv'
  <2> SUFFICES ASSUME Inv, [Next]_vars PROVE Inv'
    OBVIOUS
  <2>1. SearchInv'
    BY SearchInvNext
  <2>2. source' = source /\ basis' = basis
    BY Zenon DEF Next, Search, Open, Match, Miss, Roll, Tail1, Truncate, Failed, FailedAfter, fileVars, vars
  <2>3. SUFFICES ASSUME source = basis PROVE Blockwise'
    BY <2>1, <2>2
  <2>4. CASE Open
    BY <2>3, <2>4, OpenBlockwise
  <2>5. CASE Match
    BY <2>3, <2>5, MatchBlockwise
  <2>6. CASE Miss
    BY <2>3, <2>6, MissBlockwise
  <2>7. CASE Roll
    BY <2>3, <2>7, RollBlockwise
  <2>8. CASE Tail1
    BY <2>3, <2>8, TailBlockwise
  <2>9. CASE Truncate \/ UNCHANGED vars
    BY <2>3, <2>9 DEF Truncate, vars, sumVars, sentVars, Blockwise, BlockStart, Size
  <2> QED BY <2>4, <2>5, <2>6, <2>7, <2>8, <2>9 DEF Next, Search
<1>3. Inv => IdenticalSendsNoLiterals
  <2> SUFFICES ASSUME wire \in Seq(Wordless), NEW j \in 1 .. Len(wire) PROVE wire[j].t # "lit"
    BY DEF Blockwise, IdenticalSendsNoLiterals
  <2>1. wire[j] \in Wordless
    BY ElementOfSeq
  <2> QED BY <2>1 DEF Wordless
<1> QED BY <1>1, <1>2, <1>3, PTL DEF Spec
=============================================================================
