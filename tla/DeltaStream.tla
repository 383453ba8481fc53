---------------------------- MODULE DeltaStream ----------------------------
(***************************************************************************)
(* What the sender's answer to a request for one file means, whatever the  *)
(* basis: the tokens build up the source file from front to back, a prefix *)
(* of it at any time, and the stream ends either with the whole file and   *)
(* its checksum, or without a checksum after a file that was cut short.    *)
(***************************************************************************)
EXTENDS Naturals, Sequences

CONSTANT Byte

VARIABLES
  source,     \* the file as it was when it was opened
  intact,     \* it still has all its bytes
  assembled,  \* what a receiver has that applied the tokens sent so far
  vouched     \* contents whose checksum was sent: none, or one

streamVars == <<source, intact, assembled, vouched>>

IsPrefixOf(s, t) == Len(s) <= Len(t) /\ SubSeq(t, 1, Len(s)) = s

StreamInit ==
  /\ source \in Seq(Byte)
  /\ intact = TRUE
  /\ assembled = <<>>
  /\ vouched = {}

\* Tokens: the receiver has more of the file, never anything else.
Extend ==
  /\ vouched = {}
  /\ IsPrefixOf(assembled, assembled')
  /\ IsPrefixOf(assembled', source)
  /\ UNCHANGED <<source, intact, vouched>>

\* The last tokens and the checksum.
Vouch ==
  /\ vouched = {}
  /\ assembled' = source
  /\ vouched' = {source}
  /\ UNCHANGED <<source, intact>>

\* Somebody cuts the file short.
Cut == intact /\ intact' = FALSE /\ UNCHANGED <<source, assembled, vouched>>

StreamNext == Extend \/ Vouch \/ Cut

\* As long as nobody cuts the file, the checksum is sent in the end.
StreamEnds == []<>(vouched # {} \/ ~intact)

StreamSpec == StreamInit /\ [][StreamNext]_streamVars /\ StreamEnds
=============================================================================
