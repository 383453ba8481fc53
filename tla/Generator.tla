----------------------------- MODULE Generator -----------------------------
(***************************************************************************)
(* The generator goroutine of the receiving side (generator.go): it walks  *)
(* the file list in order and, for every regular file the quick check does *)
(* not skip, requests the file: with the block sums of the destination     *)
(* file if there is one, else as a whole.                                  *)
(***************************************************************************)
EXTENDS SessionWire

VARIABLES
  gpc,   \* "entry", "sums", "last", or how it ended: "ok", "err", "dead"
  gi     \* the file list entry being looked at

genVars == <<gpc, gi>>

GenTypeOK ==
  /\ gpc \in {"entry", "sums", "last", "ok", "err", "dead"}
  /\ gi \in 1 .. NumFiles + 1

GenInit == gpc = "entry" /\ gi = 1

\* A mistake to be caught: equal times make the checksum unnecessary.
SkipFileTimesFirst(i) ==
  /\ dst[i] # NoFile
  /\ Len(dst[i]) = Len(lsrc[i])
  /\ dmt[i] = lmt[i] \/ (Check = "checksum" /\ dst[i] = lsrc[i])

SkipFile(i) ==
  /\ dst[i] # NoFile
  /\ Len(dst[i]) = Len(lsrc[i])
  /\ CASE Check = "checksum" -> dst[i] = lsrc[i]
       [] Check = "size"     -> TRUE
       [] Check = "ignore"   -> FALSE
       [] Check = "times"    -> dmt[i] = lmt[i]

AtEntry == gpc = "entry" /\ gi \in Idx /\ Listed(gi)

\* An index the file list does not have.
GenUnlisted ==
  /\ gpc = "entry" /\ gi \in Idx /\ ~Listed(gi)
  /\ gi' = gi + 1
  /\ UNCHANGED <<gpc, dst, dmt, req>>

\* The file is up to date: only its metadata is set.
GenSkip ==
  /\ AtEntry
  /\ SkipFile(gi)
  /\ SetTimes(gi)
  /\ gi' = gi + 1
  /\ UNCHANGED <<gpc, dst, req>>

\* The file is requested; a dry run sends no sums.
GenRequest ==
  /\ AtEntry
  /\ ~SkipFile(gi)
  /\ WriteReq(Index(gi))
  /\ IF dryRun
     THEN gi' = gi + 1 /\ UNCHANGED gpc
     ELSE gpc' = "sums" /\ UNCHANGED gi
  /\ UNCHANGED <<dst, dmt>>

\* The blocks offered as basis: none if there is no file, if delta transfer
\* is off, or if the file cannot be opened.
Basis(i) ==
  IF dst[i] = NoFile \/ WholeFile THEN {<<>>}
  ELSE {dst[i]} \cup (IF DiskFaults THEN {<<>>} ELSE {})

GenSums ==
  /\ gpc = "sums"
  /\ \E c \in Basis(gi) : WriteReq(Sums(gi, c))
  /\ gi' = gi + 1
  /\ gpc' = "entry"
  /\ UNCHANGED <<dst, dmt>>

\* A mistake to be caught: the loop ends before the last entry.
GenDoneEarly ==
  /\ \/ gpc = "entry" /\ gi = NumFiles /\ gpc' = "last"
     \/ gpc = "last" /\ gpc' = "ok"
  /\ WriteReq(Done)
  /\ UNCHANGED <<gi, dst, dmt>>

\* The end of the first and of the (empty) second phase.
GenDone ==
  /\ \/ gpc = "entry" /\ gi = NumFiles + 1 /\ gpc' = "last"
     \/ gpc = "last" /\ gpc' = "ok"
  /\ WriteReq(Done)
  /\ UNCHANGED <<gi, dst, dmt>>

\* A write fails with the connection; reading the basis file or setting
\* metadata fails.
GenFail ==
  /\ \/ WriteFails /\ (gpc \in {"sums", "last"} \/ gi \notin Idx)
     \/ WriteFails /\ AtEntry /\ ~SkipFile(gi)
     \/ DiskFaults /\ (gpc = "sums" \/ (AtEntry /\ SkipFile(gi)))
  /\ gpc \in {"entry", "sums", "last"}
  /\ gpc' = "err"
  /\ UNCHANGED <<gi, dst, dmt, req>>

GenNext ==
  /\ GenUnlisted \/ GenSkip \/ GenRequest \/ GenSums \/ GenDone \/ GenFail
  /\ UNCHANGED <<treeVars, listVars, tmp, data, link>>
=============================================================================
