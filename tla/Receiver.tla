------------------------------ MODULE Receiver ------------------------------
(***************************************************************************)
(* The receiver goroutine of the receiving side (receiver.go, token.go,    *)
(* pendingfile.go): it reads what the sender sends for each requested      *)
(* file, assembles it in a pending file from literals and from blocks of   *)
(* the basis file, compares the checksum of the whole file, and renames    *)
(* the pending file into place; then it sets the metadata.                 *)
(***************************************************************************)
EXTENDS SessionWire

VARIABLES
  rpc,     \* "idx", "tok", "sum", "commit", "perms", "ok", "err", "dead"
  rcur,    \* the file being received
  rbasis,  \* the basis file as opened when its transfer started, or NoFile
  rphase,  \* number of -1 read
  rjunk    \* bytes read as a checksum that are none

recvVars == <<rpc, rcur, rbasis, rphase, rjunk>>

RecvTypeOK ==
  /\ rpc \in {"idx", "tok", "sum", "commit", "perms", "ok", "err", "dead"}
  /\ rcur \in Idx \cup {0}
  /\ rbasis \in MaybeContent
  /\ rphase \in {0, 1}
  /\ rjunk \in Nat

RecvInit ==
  rpc = "idx" /\ rcur = 0 /\ rbasis = NoFile /\ rphase = 0 /\ rjunk = 0

\* A mistake to be caught: the loop never ends.
RecvPhaseNoBreak ==
  /\ rpc = "idx" /\ NextIs(data, "done")
  /\ ReadData
  /\ rphase' = rphase + 1
  /\ UNCHANGED <<rpc, rcur, rbasis, rjunk, tmp, dst, dmt>>

\* RecvFiles: -1 ends the first phase, the next -1 the loop.
RecvPhase ==
  /\ rpc = "idx" /\ NextIs(data, "done")
  /\ ReadData
  /\ IF rphase = 0
     THEN rphase' = 1 /\ UNCHANGED rpc
     ELSE rpc' = "ok" /\ UNCHANGED rphase
  /\ UNCHANGED <<rcur, rbasis, rjunk, tmp, dst, dmt>>

\* recvFile1: a dry run is done with the index; else the basis file is
\* opened and a pending file created.
RecvIndex ==
  /\ rpc = "idx" /\ NextIs(data, "idx")
  /\ ReadData
  /\ IF dryRun
     THEN UNCHANGED <<rpc, rcur, rbasis, tmp>>
     ELSE /\ rpc' = "tok"
          /\ rcur' = Head(data).i
          /\ rbasis' = dst[Head(data).i]
          /\ tmp' = <<>>
  /\ UNCHANGED <<rphase, rjunk, dst, dmt>>

\* A mistake to be caught: the destination is written in place.
RecvLiteralInPlace ==
  /\ rpc = "tok" /\ NextIs(data, "lit")
  /\ ReadData
  /\ tmp' = tmp \o Head(data).v
  /\ dst' = [dst EXCEPT ![rcur] = tmp']
  /\ dmt' = [dmt EXCEPT ![rcur] = Now]
  /\ UNCHANGED recvVars

RecvLiteral ==
  /\ rpc = "tok" /\ NextIs(data, "lit")
  /\ ReadData
  /\ tmp' = tmp \o Head(data).v
  /\ UNCHANGED <<recvVars, dst, dmt>>

\* The block exists in the basis file.
CanCopy(n) == rbasis # NoFile /\ n \in 1 .. Len(rbasis)

RecvMatch ==
  /\ rpc = "tok" /\ NextIs(data, "match")
  /\ CanCopy(Head(data).n)
  /\ ReadData
  /\ tmp' = Append(tmp, rbasis[Head(data).n])
  /\ UNCHANGED <<recvVars, dst, dmt>>

RecvEnd ==
  /\ rpc = "tok" /\ NextIs(data, "end")
  /\ ReadData
  /\ rpc' = "sum"
  /\ UNCHANGED <<rcur, rbasis, rphase, rjunk, tmp, dst, dmt>>

SumReady == rpc = "sum" /\ rjunk = 0 /\ NextIs(data, "sum")

\* A mistake to be caught: the times are set, by name, before the rename.
RecvSumOKStampsFirst ==
  /\ SumReady
  /\ Head(data).v = tmp
  /\ ReadData
  /\ IF dst[rcur] # NoFile THEN SetTimes(rcur) ELSE UNCHANGED dmt
  /\ rpc' = "commit"
  /\ UNCHANGED <<rcur, rbasis, rphase, rjunk, tmp, dst>>

RecvSumOK ==
  /\ SumReady
  /\ Head(data).v = tmp
  /\ ReadData
  /\ rpc' = "commit"
  /\ UNCHANGED <<rcur, rbasis, rphase, rjunk, tmp, dst, dmt>>

\* CloseAtomicallyReplace: the new inode has the time of its creation.
RecvCommit ==
  /\ rpc = "commit"
  /\ dst' = [dst EXCEPT ![rcur] = tmp]
  /\ dmt' = [dmt EXCEPT ![rcur] = Now]
  /\ tmp' = NoFile
  /\ rpc' = "perms"
  /\ UNCHANGED <<rcur, rbasis, rphase, rjunk, data>>

\* A mistake to be caught: the metadata of a received file is not set.
RecvPermsForgotten ==
  /\ rpc = "perms"
  /\ rpc' = "idx"
  /\ rbasis' = NoFile
  /\ rcur' = 0
  /\ UNCHANGED <<rphase, rjunk, tmp, dst, dmt, data>>

RecvPerms ==
  /\ rpc = "perms"
  /\ SetTimes(rcur)
  /\ rpc' = "idx"
  /\ rbasis' = NoFile
  /\ rcur' = 0
  /\ UNCHANGED <<rphase, rjunk, tmp, dst, data>>

\* The sender went on without a checksum: the receiver takes the next 16
\* bytes for it, however long it has to wait for them.
RecvJunk ==
  /\ rpc = "sum" /\ data # <<>> /\ ~SumReady
  /\ rjunk + Bytes(Head(data)) < SumBytes
  /\ rjunk' = rjunk + Bytes(Head(data))
  /\ ReadData
  /\ UNCHANGED <<rpc, rcur, rbasis, rphase, tmp, dst, dmt>>

\* Every error ends RecvFiles and removes the pending file: a checksum that
\* differs, a block that cannot be copied, the connection, the disk.
RecvFail ==
  /\ \/ SumReady /\ Head(data).v # tmp
     \/ rpc = "sum" /\ data # <<>> /\ ~SumReady
        /\ rjunk + Bytes(Head(data)) >= SumBytes
     \/ rpc = "tok" /\ NextIs(data, "match") /\ ~CanCopy(Head(data).n)
     \/ rpc \in {"idx", "tok", "sum"} /\ ReadFails(data)
     \/ rpc \in {"tok", "commit", "perms"} /\ DiskFaults
  /\ rpc' = "err"
  /\ tmp' = NoFile
  /\ UNCHANGED <<rcur, rbasis, rphase, rjunk, dst, dmt, data>>

RecvNext ==
  /\ \/ RecvPhase \/ RecvIndex \/ RecvLiteral \/ RecvMatch \/ RecvEnd
     \/ RecvSumOK \/ RecvCommit \/ RecvPerms \/ RecvJunk \/ RecvFail
  /\ UNCHANGED <<treeVars, listVars, req, link>>
=============================================================================
