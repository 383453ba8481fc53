------------------------------ MODULE Session ------------------------------
(***************************************************************************)
(* A transfer session, from the moment both sides have the file list: the  *)
(* generator and the receiver goroutine, Do which waits for them, the      *)
(* sender, and the connection between them; and the world around them:     *)
(* source files that change under the sender, a network that fails, a      *)
(* receiving process that is killed, and the user running rsync again.     *)
(***************************************************************************)
EXTENDS Generator, Receiver, Sender

CONSTANTS
  SrcInits,      \* the source trees to start from
  DstInits,      \* the destination trees to start from
  NewContents,   \* what a source file may be changed to
  ChangeKinds,   \* how: subset of {"write", "replace", "unlink"}
  MaxChanges,    \* bound: changes of source files
  MaxSessions,   \* bound: runs of rsync
  MayReset,      \* the network may fail
  MayCrash       \* the receiving process may be killed

ASSUME WorldOK ==
  /\ SrcInits \subseteq [Idx -> MaybeContent]
  /\ DstInits \subseteq [Idx -> MaybeContent]
  /\ NewContents \subseteq Content
  /\ ChangeKinds \subseteq {"write", "replace", "unlink"}
  /\ {MaxChanges, MaxSessions} \subseteq Nat
  /\ {MayReset, MayCrash} \subseteq BOOLEAN

VARIABLES
  dpc,       \* Do: "wait", "report", "bye", "ok", "err", "dead"
  changes,   \* changes of source files so far
  sessions   \* runs of rsync so far

boundVars == <<changes, sessions>>
chanVars  == <<req, data, link>>
vars == <<treeVars, destVars, tmp, listVars, chanVars,
          genVars, recvVars, sendVars, dpc, boundVars>>

WorldTypeOK ==
  /\ src \in [Idx -> MaybeContent] /\ smt \in [Idx -> Nat \ {Now}]
  /\ dst \in [Idx -> MaybeContent] /\ dmt \in [Idx -> Nat]
  /\ lsrc \in [Idx -> MaybeContent] /\ lmt \in [Idx -> Nat \ {Now}]
  /\ dryRun \in BOOLEAN
  /\ tmp \in MaybeContent
  /\ req \in Seq(Item) /\ data \in Seq(Item)
  /\ link \in {"up", "closed", "reset"}
  /\ dpc \in {"wait", "report", "bye", "ok", "err", "dead"}
  /\ changes \in Nat /\ sessions \in Nat

\* The types of all of it.
TypeOK == GenTypeOK /\ RecvTypeOK /\ SendTypeOK /\ WorldTypeOK

QuickCheck == INSTANCE Mirror

\* A file the quick check of a later run would skip is up to date: neither
\* the order of rename and Chtimes in receiveData, nor a crash between them,
\* nor a source file that changes while it is sent ever hides a stale file.
QuickCheckSound == QuickCheck!QuickCheckSound

InitAny ==
  /\ src \in SrcInits
  /\ smt = [i \in Idx |-> 1]
  /\ dst \in DstInits
  /\ dmt \in [Idx -> {Now, 1}]
  /\ tmp = NoFile
  /\ lsrc = src /\ lmt = smt /\ dryRun \in DryRuns
  /\ req = <<>> /\ data = <<>> /\ link = "up"
  /\ GenInit /\ RecvInit /\ SendInit
  /\ dpc = "wait" /\ changes = 0 /\ sessions = 1

\* Nobody but rsync gave a destination file the time of a source version.
Init == InitAny /\ QuickCheckSound
-----------------------------------------------------------------------------
(* Do and the end of the two processes.                                    *)

Generate == GenNext /\ UNCHANGED <<recvVars, sendVars, dpc, boundVars>>
Receive  == RecvNext /\ UNCHANGED <<genVars, sendVars, dpc, boundVars>>
Send     == SendNext /\ UNCHANGED <<genVars, recvVars, dpc, boundVars>>

doOnly == <<treeVars, destVars, listVars, tmp, genVars, recvVars, sendVars,
            boundVars>>

\* A mistake to be caught: Do waits for both goroutines, failed or not.
DoFailWaits ==
  /\ dpc = "wait"
  /\ gpc = "err" \/ rpc = "err"
  /\ {gpc, rpc} \subseteq {"ok", "err"}
  /\ dpc' = "err"
  /\ UNCHANGED <<doOnly, chanVars>>

\* waitFor: the first error of a goroutine ends Do; the other one goes on.
DoFail ==
  /\ dpc = "wait"
  /\ gpc = "err" \/ rpc = "err"
  /\ dpc' = "err"
  /\ UNCHANGED <<doOnly, chanVars>>

\* A mistake to be caught: Do waits for the generator only.
DoJoinGenerator ==
  /\ dpc = "wait"
  /\ gpc = "ok"
  /\ dpc' = (IF ServerSender THEN "report" ELSE "bye")
  /\ UNCHANGED <<doOnly, chanVars>>

DoJoin ==
  /\ dpc = "wait"
  /\ gpc = "ok" /\ rpc = "ok"
  /\ dpc' = (IF ServerSender THEN "report" ELSE "bye")
  /\ UNCHANGED <<doOnly, chanVars>>

DoReport ==
  /\ dpc = "report" /\ NextIs(data, "stats")
  /\ ReadData
  /\ dpc' = "bye"
  /\ UNCHANGED <<doOnly, req, link>>

DoBye ==
  /\ dpc = "bye"
  /\ WriteReq(Done)
  /\ dpc' = "ok"
  /\ UNCHANGED <<doOnly, data, link>>

DoLost ==
  /\ \/ dpc = "report" /\ ReadFails(data)
     \/ dpc = "bye" /\ WriteFails
  /\ dpc' = "err"
  /\ UNCHANGED <<doOnly, chanVars>>

Do == DoFail \/ DoJoin \/ DoReport \/ DoBye \/ DoLost

\* The connection is closed when Do returns, and when the sender ends.
Hangup ==
  /\ link = "up"
  /\ dpc \in {"ok", "err"} \/ SenderEnded
  /\ link' = "closed"
  /\ UNCHANGED <<doOnly, dpc, req, data>>
-----------------------------------------------------------------------------
(* The world around the session.                                           *)

\* A source file changes.  A write reaches the open files of the sender, a
\* replacement or a removal leaves them with the old content.
Change ==
  /\ changes < MaxChanges
  /\ changes' = changes + 1
  /\ \E i \in Idx, kind \in ChangeKinds :
       \E c \in IF kind = "unlink" THEN {NoFile} ELSE NewContents :
         /\ src[i] # NoFile /\ c # src[i]
         /\ src' = [src EXCEPT ![i] = c]
         /\ smt' = [smt EXCEPT ![i] = @ + 1]
         /\ sfile' = IF kind = "write" /\ scur = i /\ spc = "data"
                     THEN c ELSE sfile
         /\ hfile' = IF kind = "write" /\ scur = i /\ hpc = "read"
                     THEN c ELSE hfile
  /\ UNCHANGED <<destVars, listVars, tmp, chanVars, genVars, recvVars, dpc,
                 spc, scur, sphase, ssums, ssize, sread, hpc, hread, vouched,
                 sessions>>

Reset ==
  /\ MayReset /\ link # "reset"
  /\ link' = "reset"
  /\ UNCHANGED <<doOnly, dpc, req, data>>

\* Do has returned and both goroutines have ended.
Returned == {dpc, gpc, rpc} \subseteq {"ok", "err"}

\* The receiving process is killed, or exits after Do with a goroutine still
\* running: what is on disk stays, the pending file included.
Crash ==
  /\ MayCrash
  /\ dpc # "dead" /\ ~Returned
  /\ dpc' = "dead" /\ gpc' = "dead" /\ rpc' = "dead"
  /\ link' = (IF link = "up" THEN "closed" ELSE link)
  /\ UNCHANGED <<treeVars, destVars, listVars, tmp, req, data, gi, rcur, rbasis,
                 rphase, rjunk, sendVars, boundVars>>

SessionEnded ==
  /\ Returned \/ dpc = "dead"
  /\ SenderEnded

\* rsync is run again, on what is there now.
Rerun ==
  /\ SessionEnded
  /\ sessions < MaxSessions
  /\ sessions' = sessions + 1
  /\ lsrc' = src /\ lmt' = smt /\ dryRun' \in DryRuns
  /\ tmp' = NoFile
  /\ req' = <<>> /\ data' = <<>> /\ link' = "up"
  /\ gpc' = "entry" /\ gi' = 1
  /\ rpc' = "idx" /\ rcur' = 0 /\ rbasis' = NoFile /\ rphase' = 0 /\ rjunk' = 0
  /\ spc' = "idx" /\ sphase' = 0
  /\ UNCHANGED <<treeVars, destVars, scur, ssums, sfile, ssize, sread, hashVars,
                 vouched, changes>>
  /\ dpc' = "wait"

Next ==
  \/ Generate \/ Receive \/ Send \/ Do \/ Hangup
  \/ Change \/ Reset \/ Crash \/ Rerun

Spec == Init /\ [][Next]_vars

\* Somebody did, a restored backup for instance.
MisdatedSpec == InitAny /\ [][Next]_vars

\* Goroutines and processes are scheduled; nothing obliges the world.
Fairness ==
  /\ WF_vars(Generate) /\ WF_vars(Receive) /\ WF_vars(Send)
  /\ WF_vars(Do) /\ WF_vars(Hangup)

FairSpec == Spec /\ Fairness
FairMisdatedSpec == MisdatedSpec /\ Fairness
-----------------------------------------------------------------------------
(* Properties.                                                             *)

\* The destination and its metadata change only the way Mirror allows:
\* receiveData replaces whole files, by a content whose checksum the sender
\* sent for that file, and setPerms gives the listed time only to the listed
\* version.
MirrorSpec == QuickCheck!MirrorSpec

\* Do reports success only when every listed file has arrived, unless the
\* source changed since it was listed: no request is lost between the
\* generator's -1, the sender's echoes and the receiver's count of them.
SuccessMeansSynced ==
  dpc = "ok" /\ ~dryRun =>
    \A i \in Idx : Listed(i) /\ Fresh(i) => dst[i] = src[i]

\* Success also means that a later run skips the file (times are preserved).
SuccessMeansStamped ==
  dpc = "ok" /\ ~dryRun /\ PreserveTimes =>
    \A i \in Idx : Listed(i) /\ Fresh(i) => dmt[i] = smt[i]

\* Once Do has returned success, no goroutine of it touches the destination.
QuietAfterSuccess == [][dpc = "ok" => UNCHANGED <<destVars, tmp>>]_vars

\* A dry run changes nothing at the destination.
DryRunTouchesNothing == [][dryRun => UNCHANGED <<destVars, tmp>>]_vars

\* Every session ends, on both sides, whatever fails: the generator, the
\* receiver and the sender never wait for each other in a circle.
Terminates == (dpc = "wait") ~> SessionEnded

\* A source file has changed, the network has failed, or the receiver was
\* killed.
Disturbed == changes > 0 \/ link = "reset" \/ dpc = "dead"

\* Undisturbed, the session succeeds on both sides: phases, echoes, statistics
\* and the goodbye fit together.
Succeeds == (dpc = "wait") ~> (dpc = "ok" /\ spc = "ok") \/ Disturbed

\* No source file ends the sender by a runtime panic: out-of-sync content is
\* updated whatever it is.  (hashSearch does not expect an empty file.)
SenderSurvives == spc # "panic"
=============================================================================
