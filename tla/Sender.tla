------------------------------- MODULE Sender -------------------------------
(***************************************************************************)
(* The sending side after the file list was sent (sender.go, match.go,     *)
(* token.go, do.go): it answers each request with the file, as literals    *)
(* and references to blocks of the receiver's basis file, followed by the  *)
(* checksum of what it read.                                               *)
(*                                                                         *)
(* A whole file is read twice: by the loop that sends it and by a          *)
(* goroutine that opens the path again and hashes it.  A delta is read     *)
(* once, for the size the file had when it was opened.  Which of the       *)
(* possible matches hashSearch finds is left open here.                    *)
(***************************************************************************)
EXTENDS SessionWire

VARIABLES
  spc,     \* "idx", "sums", "data", "sum", "stats", "bye", "ok", "err", "panic"
  scur,    \* the file being sent
  sphase,  \* number of -1 read
  ssums,   \* the block sums the receiver sent
  sfile,   \* what reading the opened file returns
  ssize,   \* the size the file had when it was opened
  sread,   \* what was read of it and sent
  hpc,     \* the hashing goroutine: "off", "open", "read", "done", "err"
  hfile,   \* what reading its own open file returns
  hread,   \* what it hashed
  vouched  \* <<i, c>>: the checksum of c was sent for file i (history)

hashVars == <<hpc, hfile, hread>>
sendVars == <<spc, scur, sphase, ssums, sfile, ssize, sread, hashVars,
              vouched>>

SendTypeOK ==
  /\ spc \in {"idx", "sums", "data", "sum", "stats", "bye", "ok", "err", "panic"}
  /\ scur \in Idx \cup {0}
  /\ sphase \in {0, 1}
  /\ {ssums, sfile, sread, hfile, hread} \subseteq Content
  /\ ssize \in Nat
  /\ hpc \in {"off", "open", "read", "done", "err"}
  /\ vouched \subseteq Idx \X Content

Closed ==   \* no file is open
  /\ scur = 0 /\ ssums = <<>> /\ sfile = <<>> /\ ssize = 0 /\ sread = <<>>
  /\ hpc = "off" /\ hfile = <<>> /\ hread = <<>>

SendInit == spc = "idx" /\ sphase = 0 /\ Closed /\ vouched = {}

\* SendFiles: a dry run echoes the index.
SendIndex ==
  /\ spc = "idx" /\ NextIs(req, "idx")
  /\ ReadReq
  /\ IF dryRun
     THEN WriteData(Index(Head(req).i)) /\ UNCHANGED <<spc, scur>>
     ELSE spc' = "sums" /\ scur' = Head(req).i /\ UNCHANGED data
  /\ UNCHANGED <<sphase, ssums, sfile, ssize, sread, hashVars, vouched>>

\* A mistake to be caught: the first -1 is not acknowledged.
SendPhaseUnacknowledged ==
  /\ spc = "idx" /\ NextIs(req, "done")
  /\ ReadReq
  /\ IF sphase = 0
     THEN sphase' = 1 /\ UNCHANGED <<spc, data>>
     ELSE /\ spc' = (IF ServerSender THEN "stats" ELSE "bye")
          /\ WriteData(Done) /\ UNCHANGED sphase
  /\ UNCHANGED <<scur, ssums, sfile, ssize, sread, hashVars, vouched>>

\* The first -1 ends the phase, the second the loop; both are echoed.
SendPhase ==
  /\ spc = "idx" /\ NextIs(req, "done")
  /\ ReadReq
  /\ WriteData(Done)
  /\ IF sphase = 0
     THEN sphase' = 1 /\ UNCHANGED spc
     ELSE spc' = (IF ServerSender THEN "stats" ELSE "bye") /\ UNCHANGED sphase
  /\ UNCHANGED <<scur, ssums, sfile, ssize, sread, hashVars, vouched>>

\* Back to the loop: the deferred Close of the files.
ReturnTo(pc) ==
  /\ spc' = pc
  /\ scur' = 0 /\ ssums' = <<>> /\ sfile' = <<>> /\ ssize' = 0 /\ sread' = <<>>
  /\ hpc' = "off" /\ hfile' = <<>> /\ hread' = <<>>
  /\ UNCHANGED sphase

\* The file has vanished: logged, and on with the next request.
SendVanished ==
  /\ spc = "sums" /\ NextIs(req, "sums")
  /\ src[scur] = NoFile
  /\ ReadReq
  /\ ReturnTo("idx")
  /\ UNCHANGED <<data, vouched>>

\* hashSearch indexes into an empty window when the file is empty.
SendPanic ==
  /\ spc = "sums" /\ NextIs(req, "sums")
  /\ src[scur] = <<>> /\ Head(req).v # <<>>
  /\ ReadReq
  /\ WriteData(Index(scur))
  /\ ReturnTo("panic")
  /\ UNCHANGED vouched

\* The file is opened, its index and SumHead are sent; a whole file also
\* starts the hashing goroutine.
SendOpen ==
  /\ spc = "sums" /\ NextIs(req, "sums")
  /\ src[scur] # NoFile
  /\ Head(req).v # <<>> => src[scur] # <<>>
  /\ ReadReq
  /\ WriteData(Index(scur))
  /\ spc' = "data"
  /\ ssums' = Head(req).v
  /\ sfile' = src[scur]
  /\ ssize' = Len(src[scur])
  /\ hpc' = (IF Head(req).v = <<>> THEN "open" ELSE "off")
  /\ UNCHANGED <<scur, sphase, sread, hfile, hread, vouched>>

Delta == ssums # <<>>

\* There is more to read: a delta stops at the size seen by Stat.
HasMore == Len(sread) < (IF Delta THEN ssize ELSE Len(sfile))
NextBlock == sfile[Len(sread) + 1]

SendBlock ==
  /\ spc = "data" /\ HasMore /\ Len(sread) < Len(sfile)
  /\ \/ WriteData(Literal(scur, NextBlock))
     \/ \E j \in 1 .. Len(ssums) :
          ssums[j] = NextBlock /\ WriteData(Match(scur, j))
  /\ sread' = Append(sread, NextBlock)
  /\ UNCHANGED <<spc, scur, sphase, ssums, sfile, ssize, hashVars, vouched, req>>

SendEnd ==
  /\ spc = "data" /\ ~HasMore
  /\ WriteData(End(scur))
  /\ spc' = "sum"
  /\ UNCHANGED <<scur, sphase, ssums, sfile, ssize, sread, hashVars, vouched, req>>

\* The checksum of the file: of what was sent, or what the goroutine hashed.
Sum == IF Delta THEN sread ELSE hread

SendSum ==
  /\ spc = "sum"
  /\ Delta \/ hpc = "done"
  /\ WriteData(FileSum(scur, Sum))
  /\ vouched' = vouched \cup {<<scur, Sum>>}
  /\ ReturnTo("idx")
  /\ UNCHANGED req

\* The goroutine could not open the file: a PathError, so the loop goes on,
\* with index, head and data of the file already sent.
SendUnhashed ==
  /\ spc = "sum" /\ ~Delta /\ hpc = "err"
  /\ ReturnTo("idx")
  /\ UNCHANGED <<req, data, vouched>>

HashOpen ==
  /\ hpc = "open"
  /\ IF src[scur] = NoFile
     THEN hpc' = "err" /\ UNCHANGED <<hfile, hread>>
     ELSE hpc' = "read" /\ hfile' = src[scur] /\ UNCHANGED hread
  /\ UNCHANGED <<spc, scur, sphase, ssums, sfile, ssize, sread, req, data, vouched>>

HashBlock ==
  /\ hpc = "read"
  /\ IF Len(hread) < Len(hfile)
     THEN hread' = Append(hread, hfile[Len(hread) + 1]) /\ UNCHANGED hpc
     ELSE hpc' = "done" /\ UNCHANGED hread
  /\ UNCHANGED <<spc, scur, sphase, ssums, sfile, ssize, sread, hfile, req, data, vouched>>

\* handleStats, then the receiver's goodbye.
SendStats ==
  /\ spc = "stats"
  /\ WriteData(Stats)
  /\ spc' = "bye"
  /\ UNCHANGED <<scur, sphase, ssums, sfile, ssize, sread, hashVars, vouched, req>>

SendBye ==
  /\ spc = "bye" /\ NextIs(req, "done")
  /\ ReadReq
  /\ spc' = "ok"
  /\ UNCHANGED <<scur, sphase, ssums, sfile, ssize, sread, hashVars, vouched, data>>

SenderEnded == spc \in {"ok", "err", "panic"}

\* The connection fails, or a delta finds the file shorter than Stat said.
SendFail ==
  /\ \/ spc \in {"idx", "sums", "bye"} /\ ReadFails(req)
     \/ spc \in {"data", "sum", "stats"} /\ WriteFails
     \/ spc \in {"idx", "sums"} /\ req # <<>> /\ WriteFails
     \/ spc = "data" /\ HasMore /\ Len(sread) >= Len(sfile)
  /\ ReturnTo("err")
  /\ UNCHANGED <<req, data, vouched>>

SendNext ==
  /\ \/ SendIndex \/ SendPhase \/ SendVanished \/ SendPanic \/ SendOpen
     \/ SendBlock \/ SendEnd \/ SendSum \/ SendUnhashed
     \/ HashOpen \/ HashBlock \/ SendStats \/ SendBye \/ SendFail
  /\ UNCHANGED <<treeVars, destVars, listVars, tmp, link>>
=============================================================================
