----------------------------- MODULE MCSession -----------------------------
(***************************************************************************)
(* Session on two files of at most two blocks.                             *)
(***************************************************************************)
EXTENDS Session

CONSTANTS a, b

MCBlock == {a, b}

\* The first file has two blocks, so that it can be torn; the second one.
MCSrcInits == {<<<<a, b>>, <<b>>>>}

\* A basis with the same blocks in another order, or no file; no file, or a
\* basis of the same size.
MCDstInits == {<<<<b, a>>, NoFile>>, <<NoFile, <<a>>>>}

\* Same size as the first file; empty.
MCNewContents == {<<b, a>>, <<>>}

\* One destination tree, for the liveness runs.
OneDstInit == {<<<<b, a>>, NoFile>>}

\* A source file that has become empty.
EmptySrcInits == {<<<<>>, <<b>>>>}
=============================================================================
