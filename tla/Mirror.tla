------------------------------- MODULE Mirror -------------------------------
(***************************************************************************)
(* What a receiver promises about its destination, seen from outside: a    *)
(* destination file is replaced in one step, by a whole content for which  *)
(* the sender has vouched with the checksum of that very file, and it gets *)
(* the modification time of a source version only when it holds that       *)
(* version.  The first half keeps an aborted transfer from corrupting the  *)
(* destination; the second makes the quick check of a later run            *)
(* (generator.go, skipFile: same size, same mtime) safe.                   *)
(*                                                                         *)
(* Modification times are version numbers: a write to a source file gives  *)
(* it a larger one, and 0 (Now) stands for the time at which the receiver  *)
(* created the file, which is the time of no source version.               *)
(***************************************************************************)
EXTENDS Naturals, Sequences

CONSTANTS
  Idx,     \* the files, by their index in the sorted file list
  Block,   \* the block values a file is made of
  NoFile   \* "there is no such file", no content

VARIABLES
  src,   \* src[i]: the source file i, or NoFile
  smt,   \* smt[i]: its modification time
  dst,   \* dst[i]: the destination file i, or NoFile
  dmt,   \* dmt[i]: its modification time
  vouched   \* <<i, c>>: the sender has sent the checksum of c for file i

mirrorVars == <<src, smt, dst, dmt, vouched>>

Content == Seq(Block)
MaybeContent == Content \cup {NoFile}
Now == 0

\* The quick check of the next run would skip file i.
WouldSkip(i) ==
  /\ src[i] # NoFile
  /\ dst[i] # NoFile
  /\ Len(src[i]) = Len(dst[i])
  /\ smt[i] = dmt[i]

\* A file which the next run would skip (same size, same mtime) has the
\* content of the source: generator.go, skipFile, never hides a stale file.
QuickCheckSound == \A i \in Idx : WouldSkip(i) => dst[i] = src[i]

\* No destination carries the time of a source version still to be written.
NoFutureStamp == \A i \in Idx : dmt[i] <= smt[i]

MirrorTypeOK ==
  /\ src \in [Idx -> MaybeContent]
  /\ smt \in [Idx -> Nat \ {Now}]
  /\ dst \in [Idx -> MaybeContent]
  /\ dmt \in [Idx -> Nat]
  /\ vouched \subseteq Idx \X Content

MirrorInit ==
  /\ MirrorTypeOK
  /\ NoFutureStamp
  /\ QuickCheckSound
  /\ vouched = {}

\* Somebody writes, replaces or removes a source file.
Modify(i) ==
  /\ src'[i] \in MaybeContent
  /\ src' = [src EXCEPT ![i] = src'[i]]
  /\ smt' = [smt EXCEPT ![i] = @ + 1]
  /\ UNCHANGED <<dst, dmt, vouched>>

\* The sender sends a checksum for file i.
Vouch(i) ==
  /\ vouched' \subseteq Idx \X Content
  /\ \E p \in vouched' : p[1] = i /\ vouched' = vouched \cup {p}
  /\ UNCHANGED <<src, smt, dst, dmt>>

\* The receiver replaces a destination file as a whole.
Install(i) ==
  /\ \E p \in vouched : p[1] = i /\ dst' = [dst EXCEPT ![i] = p[2]]
  /\ dmt' = [dmt EXCEPT ![i] = Now]
  /\ UNCHANGED <<src, smt, vouched>>

\* The receiver gives a destination file the time m of a source version.
Stamp(i) ==
  /\ dst[i] # NoFile
  /\ \E m \in 0 .. smt[i] :
       /\ m = smt[i] => dst[i] = src[i]
       /\ dmt' = [dmt EXCEPT ![i] = m]
  /\ UNCHANGED <<src, smt, dst, vouched>>

MirrorNext == \E i \in Idx : Modify(i) \/ Vouch(i) \/ Install(i) \/ Stamp(i)

MirrorSpec == MirrorInit /\ [][MirrorNext]_mirrorVars
=============================================================================
