----------------------------- MODULE HashSearch -----------------------------
(***************************************************************************)
(* The sender's search for the blocks of the receiver's basis in a source  *)
(* file (sender/match.go), reading the source through the window of        *)
(* MapWindow while another process may cut the file short.                 *)
(*                                                                         *)
(* One iteration of the loop is Match or Miss, followed by Roll.  The      *)
(* checksum's map from a tag to the sorted targets is left out: what the   *)
(* linear search looks at is the set of blocks with that tag, in an order  *)
(* that sort.Slice does not fix.                                           *)
(***************************************************************************)
EXTENDS BlockSums, MapWindow

CONSTANTS Sources, Bases   \* source and basis files to choose from

\* An empty source is a matter of its own (MCSession_empty.cfg); a request
\* with an empty basis has no sums and is answered by sendFile.
ASSUME SearchedFiles ==
  <<>> \notin Sources \cup Bases /\ Sources \cup Bases \subseteq Seq(Byte)

VARIABLES
  source, basis,    \* the file when it was opened, the receiver's basis
  head, sums,       \* the basis as the sender knows it: receiveSums
  disk,             \* the file's content now
  pc,               \* "open", "search", "roll", "tail", "done", "failed"
  win,              \* ms
  k, s1, s2,        \* bytes under the weak checksum, and its two halves
  offset,           \* where the search is
  lastMatch,        \* the end of what was sent
  wire,             \* the tokens sent
  assembled,        \* what a receiver has written that applied them (receiveData)
  hashed            \* what was written to the hash h

fileVars == <<source, basis, head, sums, disk>>
sumVars == <<k, s1, s2>>
sentVars == <<lastMatch, wire, assembled, hashed>>
vars == <<source, basis, head, sums, disk, pc, win, k, s1, s2, offset, lastMatch, wire, assembled, hashed>>

Size == Len(source)
end == Size + 1 - sums[head.count - 1].len

\* Items on the connection.  Literals are never empty, blocks count from 0.
Lit(bytes) == [t |-> "lit",   v |-> bytes, i |-> 0]
Block(i)   == [t |-> "block", v |-> <<>>,  i |-> i]
EndToken   == [t |-> "end",   v |-> <<>>,  i |-> 0]
Sum(c)     == [t |-> "sum",   v |-> c,     i |-> 0]

Bytes(w, off, l) == Ptr(w, Size, disk, off, l)

\* A literal is written as it is, a block is read from the basis.
Meaning(token) ==
  CASE token.t = "lit"   -> token.v
    [] token.t = "block" -> BlockAt(basis, head, token.i)
    [] OTHER             -> <<>>

\* One more piece, unless it could not be read.
Joined(r, p) ==
  IF r.ok /\ p.ok THEN [ok |-> TRUE, win |-> p.win, parts |-> Append(r.parts, p.bytes)]
                  ELSE [r EXCEPT !.ok = FALSE]

\* Reads n bytes from off in pieces of at most Chunk, as simpleSendToken and
\* the hashing in matched do, until one of the reads fails.
Pieces(w, off, n) ==
  LET count == (n + Chunk - 1) \div Chunk
      Piece(r, done) == Bytes(r.win, off + done, Smaller(Chunk, n - done))
      after[j \in 0 .. count] ==
        IF j = 0 THEN [ok |-> TRUE, win |-> w, parts |-> <<>>]
        ELSE Joined(after[j - 1], Piece(after[j - 1], (j - 1) * Chunk))
  IN after[count]

\* A mistake to be caught: a matched block does not count as sent.
SentUpToBlock(at, len) == at
SentUpTo(at, len) == at + len

\* matched: the literals up to at, the token, and all of it into the hash.
\* token is <<Block(i)>> of length len, <<EndToken>>, or <<>> (the -2 of a flush).
\* A token counts for what the receiver writes when it reads it.
Matched(w, at, token, len) ==
  LET Answer(lits, hash) ==
        LET said == IF lits.ok THEN token ELSE <<>>
        IN [ok |-> lits.ok /\ hash.ok,
            win |-> hash.win,
            wire |-> wire \o [j \in 1 .. Len(lits.parts) |-> Lit(lits.parts[j])] \o said,
            assembled |-> assembled \o FlattenSeq(lits.parts)
                            \o FlattenSeq([j \in 1 .. Len(said) |-> Meaning(said[j])]),
            hashed |-> IF lits.ok THEN hashed \o FlattenSeq(hash.parts) ELSE hashed,
            lastMatch |-> SentUpTo(at, len)]
      Hash(lits) == Answer(lits, Pieces(lits.win, lastMatch, at - lastMatch + len))
  IN Hash(Pieces(w, lastMatch, at - lastMatch))

\* readChunk: the weak checksum from scratch at off.
ReadChunk(w, off) ==
  LET len == Smaller(head.block, Size - off)
      Chunked(p, sum) == [ok |-> p.ok, win |-> p.win, k |-> len, s1 |-> sum.s1, s2 |-> sum.s2]
      Read(p) == Chunked(p, Checksum1(p.bytes))
  IN Read(Bytes(w, off, len))

Sent(m) == wire' = m.wire /\ assembled' = m.assembled /\ hashed' = m.hashed /\ lastMatch' = m.lastMatch
Summed(c) == k' = c.k /\ s1' = c.s1 /\ s2' = c.s2

\* A failed read ends SendFiles; tokens written before it stay written.
FailedAfter(m) ==
  /\ pc' = "failed"
  /\ wire' = m.wire /\ assembled' = m.assembled /\ hashed' = m.hashed
  /\ UNCHANGED <<fileVars, win, sumVars, offset, lastMatch>>
Failed ==
  /\ pc' = "failed"
  /\ UNCHANGED <<fileVars, win, sumVars, offset, sentVars>>

-----------------------------------------------------------------------------
Init ==
  /\ source \in Sources /\ basis \in Bases /\ disk = source
  /\ head = SumHead(Len(basis)) /\ sums = SumsOf(basis)
  /\ pc = "open"
  /\ win = MapFile(head.block)
  /\ k = 0 /\ s1 = 0 /\ s2 = 0
  /\ offset = 0 /\ lastMatch = 0 /\ wire = <<>> /\ assembled = <<>> /\ hashed = <<>>

\* Up to the loop: the first readChunk.
Open ==
  /\ pc = "open"
  /\ \E c \in {ReadChunk(win, 0)} :
       \/ /\ c.ok /\ pc' = "search" /\ win' = c.win /\ Summed(c)
          /\ UNCHANGED <<fileVars, offset, sentVars>>
       \/ ~c.ok /\ Failed

\* The blocks whose tag, weak checksum and length fit the bytes at offset.
Alike ==
  {i \in 0 .. head.count - 1 :
     /\ Tag2(sums[i].sum1) = Tag2([s1 |-> s1, s2 |-> s2])
     /\ sums[i].sum1 = [s1 |-> s1, s2 |-> s2]
     /\ sums[i].len = Smaller(head.block, Size - offset)}

\* The bytes whose strong checksum is compared.  Without a block alike nothing
\* is read.
Candidate ==
  IF Alike = {} THEN [ok |-> TRUE, win |-> win, bytes |-> <<>>]
  ELSE Bytes(win, offset, Smaller(head.block, Size - offset))

Hits == {i \in Alike : Candidate.ok /\ sums[i].sum2 = Candidate.bytes}

\* A mistake to be caught: the search goes on after the block, and Roll drops
\* the byte that follows it.
OffsetAfter(i) == offset + sums[i].len
NextOffset(i) == offset + sums[i].len - 1

\* A block was found: send it and go on one byte before the next one, which
\* Roll will then drop.
Match ==
  /\ pc = "search"
  /\ \E i \in Hits :
     \E m \in {Matched(Candidate.win, offset, <<Block(i)>>, sums[i].len)} :
     \E c \in {ReadChunk(m.win, NextOffset(i))} :
       \/ /\ m.ok /\ c.ok
          /\ Sent(m) /\ Summed(c) /\ win' = c.win /\ offset' = NextOffset(i)
          /\ pc' = IF NextOffset(i) >= end THEN "tail" ELSE "roll"
          /\ UNCHANGED fileVars
       \/ ~(m.ok /\ c.ok) /\ FailedAfter(m)

\* No block was found, or the bytes could not be read.
Miss ==
  /\ pc = "search" /\ Hits = {}
  /\ pc' = IF Candidate.ok THEN "roll" ELSE "failed"
  /\ win' = Candidate.win
  /\ UNCHANGED <<fileVars, sumVars, offset, sentVars>>

\* The unsent bytes before offset, kept in reach for a later literal.
Backup == Larger(offset - lastMatch, 0)
More == IF offset + k < Size THEN 1 ELSE 0

\* Mistakes to be caught: the first byte is taken out of s2 once too little;
\* the halves are not cut back to 16 bits.
RolledOnceLess(update) ==
  LET drop == SignExtend(update[1])
      add  == IF More = 1 THEN SignExtend(update[k + 1]) ELSE 0
      t1   == s1 - drop + add
  IN [k |-> k + More - 1, s1 |-> t1 % SumMod, s2 |-> (s2 - (k - 1) * drop + More * t1) % SumMod]
RolledWithoutMask(update) ==
  LET drop == SignExtend(update[1])
      add  == IF More = 1 THEN SignExtend(update[k + 1]) ELSE 0
      t1   == s1 - drop + add
  IN [k |-> k + More - 1, s1 |-> t1, s2 |-> s2 - k * drop + More * t1]

\* The weak checksum without its first byte and with the one after it, and
\* the number of bytes it then covers.
Rolled(update) ==
  LET drop == SignExtend(update[1])
      t1   == s1 - drop
      t2   == s2 - k * drop
      add  == SignExtend(update[k + 1])
  IN IF More = 1
       THEN [k |-> k, s1 |-> (t1 + add) % SumMod, s2 |-> (t2 + t1 + add) % SumMod]
       ELSE [k |-> k - 1, s1 |-> t1 % SumMod, s2 |-> t2 % SumMod]

\* Literals that grow too long are sent before a block is found.
MustFlush == Backup >= head.block + Chunk /\ end - offset > Chunk

FlushPoint == offset - head.block

\* What matched leaves behind where nothing is sent.
Unsent(w) ==
  [ok |-> TRUE, win |-> w, wire |-> wire, assembled |-> assembled, hashed |-> hashed,
   lastMatch |-> lastMatch]

Roll ==
  /\ pc = "roll"
  /\ \E p \in {Bytes(win, offset - Backup, k + More + Backup)} :
       \/ /\ p.ok
          /\ \E m \in {IF MustFlush THEN Matched(p.win, FlushPoint, <<>>, 0) ELSE Unsent(p.win)} :
               \/ /\ m.ok
                  /\ Sent(m) /\ Summed(Rolled(SubSeq(p.bytes, Backup + 1, Len(p.bytes))))
                  /\ win' = m.win /\ offset' = offset + 1
                  /\ pc' = IF offset + 1 >= end THEN "tail" ELSE "search"
                  /\ UNCHANGED fileVars
               \/ ~m.ok /\ FailedAfter(m)
       \/ ~p.ok /\ Failed

\* After the loop: the rest as literals, token 0, and the file's checksum.
Tail1 ==
  /\ pc = "tail"
  /\ \E m \in {Matched(win, Size, <<EndToken>>, 0)} :
       \/ /\ m.ok /\ pc' = "done" /\ win' = m.win
          /\ wire' = Append(m.wire, Sum(m.hashed))
          /\ assembled' = m.assembled /\ hashed' = m.hashed /\ lastMatch' = m.lastMatch
          /\ UNCHANGED <<fileVars, sumVars, offset>>
       \/ ~m.ok /\ FailedAfter(m)

Search == Open \/ Match \/ Miss \/ Roll \/ Tail1

\* Another process cuts the file short, once.
Truncate ==
  /\ disk = source /\ pc \notin {"done", "failed"}
  /\ \E n \in 0 .. Size - 1 : disk' = SubSeq(source, 1, n)
  /\ UNCHANGED <<source, basis, head, sums, pc, win, sumVars, offset, sentVars>>

Next == Search \/ Truncate

\* SendFiles does not stop before it returns: WF_vars(Search), spelled out,
\* since Search is enabled exactly until the end and is what leaves disk alone.
Fairness == []<>(pc \in {"done", "failed"}) \/ []<><<UNCHANGED disk>>_vars

Spec == Init /\ [][Next]_vars /\ Fairness

-----------------------------------------------------------------------------
TypeOK ==
  /\ source \in Seq(Byte) /\ basis \in Seq(Byte) /\ disk \in Seq(Byte)
  /\ pc \in {"open", "search", "roll", "tail", "done", "failed"}
  /\ win \in [off : 0 .. Size, len : 0 .. Size, buf : Seq(Byte), def : Nat]
  /\ k \in 0 .. head.block /\ s1 \in 0 .. SumMod - 1 /\ s2 \in 0 .. SumMod - 1
  /\ offset \in 0 .. Size /\ lastMatch \in 0 .. Size
  /\ wire \in Seq([t : {"lit", "block", "end", "sum"}, v : Seq(Byte), i : Nat])
  /\ assembled \in Seq(Byte) /\ hashed \in Seq(Byte)

\* Whatever was kept, moved and read (fileio.go:79-107), the window holds
\* exactly the bytes of the file from off on.
WindowFaithful == win.buf = SubSeq(source, win.off + 1, win.off + win.len)

\* The weak checksum updated byte by byte, also across a match and at the end
\* of the file (match.go:160-206), is the checksum of the bytes at offset.
RollingExact ==
  pc \in {"search", "roll"} =>
    LET there == SubSeq(source, offset + 1, offset + k)
    IN /\ Checksum1(there) = [s1 |-> s1, s2 |-> s2]
       /\ pc = "search" => k = Smaller(head.block, Size - offset)

\* The search fails only if somebody cut the file: no window it asks for, with
\* all the backup and all the alignment, reaches past the end of an intact
\* file ("file has changed mid-transfer", fileio.go:103).
EveryReadFits == pc = "failed" => disk # source

\* A file identical to the basis goes over as blocks only.
IdenticalSendsNoLiterals ==
  source = basis => \A j \in 1 .. Len(wire) : wire[j].t # "lit"

Stream == INSTANCE DeltaStream WITH
  intact <- disk = source,
  assembled <- assembled,
  vouched <- {wire[j].v : j \in {n \in 1 .. Len(wire) : wire[n].t = "sum"}}

\* The tokens sent so far always stand for a prefix of the source, and the
\* checksum at the end vouches for the whole of it (match.go, token.go and
\* receiver.go:129-180); an intact file is sent to the end.
StreamSpec == Stream!StreamSpec
=============================================================================
