---------------------------- MODULE SessionWire ----------------------------
(***************************************************************************)
(* What the processes of one transfer session share: the options, the      *)
(* file list, the source and destination trees, and the two directions of  *)
(* the connection.                                                         *)
(*                                                                         *)
(* A connection direction is a FIFO of at most Cap items.  An item is what *)
(* one side writes without a decision in between and the other side reads  *)
(* in one piece:                                                           *)
(*   idx    a file index; from the sender, index and SumHead               *)
(*   sums   SumHead and block sums (no blocks: "send the whole file")      *)
(*   lit    a literal token with its data                                  *)
(*   match  a token that names a block of the receiver's basis file        *)
(*   end    token 0                                                        *)
(*   sum    the 16 byte checksum of the whole file                         *)
(*   done   the index -1                                                   *)
(*   stats  the three int64 of handleStats                                 *)
(* A checksum is the content it was computed from: equal checksums mean    *)
(* equal contents.  The file an item belongs to is recorded in its field   *)
(* i; the receiver reads that field of idx items only.                     *)
(***************************************************************************)
EXTENDS Naturals, Sequences

CONSTANTS
  NumFiles,       \* length of the file list
  Block,          \* block values
  NoFile,         \* "there is no such file"
  Cap,            \* items a direction of the connection holds
  DryRuns,        \* the values --dry-run has, from run to run
  WholeFile,      \* --whole-file
  PreserveTimes,  \* --times
  Check,          \* how skipFile compares: "times", "size", "ignore", "checksum"
  ServerSender,   \* the sender is the server: it sends statistics at the end
  DiskFaults      \* operations on the destination's disk may fail

ASSUME OptionsOK ==
  /\ NumFiles \in Nat
  /\ Cap \in Nat \ {0}
  /\ NoFile \notin Seq(Block)
  /\ DryRuns \subseteq BOOLEAN
  /\ {WholeFile, PreserveTimes, ServerSender, DiskFaults} \subseteq BOOLEAN
  /\ Check \in {"times", "size", "ignore", "checksum"}

Idx == 1 .. NumFiles
Content == Seq(Block)
MaybeContent == Content \cup {NoFile}
Now == 0

VARIABLES
  src, smt,     \* the source tree: contents and modification times
  dst, dmt,     \* the destination tree
  tmp,          \* the receiver's pending file, or NoFile
  lsrc, lmt,    \* the file list: what was listed (length, checksum), and mtime
  dryRun,       \* this run has --dry-run
  req, data,    \* receiver -> sender, sender -> receiver
  link          \* "up"; "closed": one side hung up; "reset": the network failed

treeVars == <<src, smt>>
destVars == <<dst, dmt>>
listVars == <<lsrc, lmt, dryRun>>

Kind == {"idx", "sums", "lit", "match", "end", "sum", "done", "stats"}
Item == [k : Kind \ {"idx"}, i : Idx \cup {0}, n : Nat, v : Content]
          \cup [k : {"idx"}, i : Idx, n : Nat, v : Content]

Index(i)      == [k |-> "idx",   i |-> i, n |-> 0, v |-> <<>>]
Sums(i, c)    == [k |-> "sums",  i |-> i, n |-> 0, v |-> c]
Literal(i, b) == [k |-> "lit",   i |-> i, n |-> 0, v |-> <<b>>]
Match(i, j)   == [k |-> "match", i |-> i, n |-> j, v |-> <<>>]
End(i)        == [k |-> "end",   i |-> i, n |-> 0, v |-> <<>>]
FileSum(i, c) == [k |-> "sum",   i |-> i, n |-> 0, v |-> c]
Done          == [k |-> "done",  i |-> 0, n |-> 0, v |-> <<>>]
Stats         == [k |-> "stats", i |-> 0, n |-> 0, v |-> <<>>]

\* Bytes of an item, for a reader that takes it for something else.  WriteInt64
\* writes a number in 4 bytes if it can, so this is the least stats may have.
Bytes(item) ==
  CASE item.k = "idx"   -> 20
    [] item.k = "done"  -> 4
    [] item.k = "stats" -> 12
    [] OTHER            -> 16
SumBytes == 16

NextIs(ch, kind) == ch # <<>> /\ Head(ch).k = kind

WriteReq(item)  == Len(req) < Cap /\ req' = Append(req, item)
WriteData(item) == Len(data) < Cap /\ data' = Append(data, item)
ReadReq  == req' = Tail(req)
ReadData == data' = Tail(data)

\* A read fails when the connection is gone; what arrived before an orderly
\* close can still be read, what arrived before a reset may be lost.
ReadFails(ch) == link = "reset" \/ (link = "closed" /\ ch = <<>>)
WriteFails    == link # "up"

Listed(i) == lsrc[i] # NoFile

\* The source file is still the version that was listed.
Fresh(i) == smt[i] = lmt[i]

\* A mistake to be caught: setPerms does not look at the option.
SetTimesAlways(i) == dmt' = [dmt EXCEPT ![i] = lmt[i]]

\* setPerms: the modification time of file i becomes the listed one.
SetTimes(i) ==
  dmt' = IF PreserveTimes /\ ~dryRun THEN [dmt EXCEPT ![i] = lmt[i]] ELSE dmt
=============================================================================
