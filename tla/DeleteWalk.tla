----------------------------- MODULE DeleteWalk -----------------------------
(***************************************************************************)
(* --delete: deleteFiles (receiver/do.go) walks the destination with       *)
(* fs.WalkDir before the transfer and removes what the file list does not  *)
(* name.                                                                   *)
(*                                                                         *)
(* The entries of the destination are numbered in the order of the walk    *)
(* (each directory before its entries, these sorted by name), so that the  *)
(* entries under n are those from n + 1 to last[n].                        *)
(***************************************************************************)
EXTENDS Integers, FiniteSetsExt

CONSTANTS
  NumEntries,  \* bound: entries of the destination
  MaxTops,     \* bound: how often the list names "." (once per source "dir/")
  MaxErrors,   \* bound: I/O errors counted while the list was received
  Windows      \* the list's names have backslashes, WalkDir's have slashes

ASSUME WalkOK ==
  /\ {NumEntries, MaxTops, MaxErrors} \subseteq Nat
  /\ Windows \in BOOLEAN

Entry == 1 .. NumEntries

VARIABLES
  last,      \* the tree: the last entry under each entry
  dir,       \* which are directories (a symbolic link is none)
  list,      \* the entries the file list names
  tops,      \* how many "." entries the list has
  walks,     \* how many of them were looked at
  IOErrors,
  DryRun,    \* --dry-run
  mayFail,   \* removing something or reading a directory may fail in this run
  alive,     \* the entries that exist
  at,        \* the next entry of the walk
  pc         \* "list", "walk", "ok", "err"

givenVars == <<last, dir, list, tops, IOErrors, DryRun, mayFail>>
delVars == <<givenVars, walks, alive, at, pc>>

Subtree(n) == n .. last[n]

Tree ==
  /\ \A n \in Entry :
       /\ n <= last[n]
       /\ \A m \in Subtree(n) : last[m] <= last[n]
       /\ last[n] > n => n \in dir
  \* The sender lists no file without its directory.
  /\ \A n \in Entry : Subtree(n) \cap list # {} => n \in list

Init ==
  /\ last \in [Entry -> Entry]
  /\ dir \in SUBSET Entry
  /\ list \in SUBSET Entry
  /\ Tree
  /\ tops \in 0 .. MaxTops
  /\ IOErrors \in 0 .. MaxErrors
  /\ DryRun \in BOOLEAN /\ mayFail \in BOOLEAN
  /\ alive = Entry
  /\ walks = 0
  /\ at = 1
  /\ pc = "list"

\* The directory that holds n, unless it is the top.
Holders(n) == {m \in Entry : m < n /\ n <= last[m]}
TopLevel(n) == Holders(n) = {}
Holder(n) == CHOOSE m \in Holders(n) : \A k \in Holders(n) : k <= m

\* findInFileList: the walk's path is among the list's names.
Found(n) == n \in list /\ (Windows => TopLevel(n))

\* A mistake to be caught: the count of I/O errors is not looked at.
NextTopDespiteErrors ==
  /\ pc = "list"
  /\ IF walks = tops
     THEN pc' = "ok" /\ UNCHANGED <<walks, at>>
     ELSE pc' = "walk" /\ walks' = walks + 1 /\ at' = 1
  /\ UNCHANGED <<givenVars, alive>>

\* A mistake to be caught: one walk more than there are ".".
NextTopOneMore ==
  /\ pc = "list"
  /\ IF IOErrors > 0 \/ walks > tops
     THEN pc' = "ok" /\ UNCHANGED <<walks, at>>
     ELSE pc' = "walk" /\ walks' = walks + 1 /\ at' = 1
  /\ UNCHANGED <<givenVars, alive>>

\* The loop over the list: a walk for every "."; none after an I/O error.
NextTop ==
  /\ pc = "list"
  /\ IF IOErrors > 0 \/ walks = tops
     THEN pc' = "ok" /\ UNCHANGED <<walks, at>>
     ELSE pc' = "walk" /\ walks' = walks + 1 /\ at' = 1
  /\ UNCHANGED <<givenVars, alive>>

\* The next entry of the walk that still exists.
Reach(n) == IF \E m \in alive : m >= n THEN Min({m \in alive : m >= n})
                                       ELSE NumEntries + 1

Visiting == pc = "walk" /\ Reach(at) \in Entry

\* A listed entry stays, and so, in a dry run, does any other.
VisitKeep ==
  /\ Visiting
  /\ Found(Reach(at)) \/ DryRun
  /\ at' = Reach(at) + 1
  /\ UNCHANGED <<givenVars, walks, alive, pc>>

\* A mistake to be caught: RemoveAll of the directory that holds the entry.
VisitDeleteHolder ==
  LET n == Reach(at)
  IN /\ Visiting /\ ~Found(n) /\ ~DryRun
     /\ alive' = alive \ (IF TopLevel(n) THEN Subtree(n) ELSE Subtree(Holder(n)))
     /\ at' = last[n] + 1
     /\ UNCHANGED <<givenVars, walks, pc>>

\* A mistake to be caught: fs.SkipAll where fs.SkipDir is meant, and before
\* anything is removed.
VisitSkipsAll ==
  /\ Visiting /\ ~Found(Reach(at)) /\ ~DryRun
  /\ at' = NumEntries + 1
  /\ UNCHANGED <<givenVars, walks, alive, pc>>

\* What RemoveAll leaves of n when it fails: some entries, with the
\* directories that hold them.
Leftovers(n) ==
  {{}} \cup
  (IF mayFail
   THEN {s \in SUBSET (Subtree(n) \cap alive) :
           \A m \in s : (Holders(m) \cap Subtree(n)) \subseteq s}
   ELSE {})

\* Another one is removed.  SkipDir skips the directory, and after a file all
\* that follows in the directory that holds it.
VisitDelete ==
  LET n == Reach(at)
  IN /\ Visiting /\ ~Found(n) /\ ~DryRun
     /\ \E s \in Leftovers(n) : alive' = (alive \ Subtree(n)) \cup s
     /\ at' = CASE n \in dir    -> last[n] + 1
                [] n \notin dir /\ TopLevel(n)  -> NumEntries + 1
                [] n \notin dir /\ ~TopLevel(n) -> last[Holder(n)] + 1
     /\ UNCHANGED <<givenVars, walks, pc>>

\* Reading a directory fails: the walk ends with the error, which is none if
\* it says that the directory does not exist.
WalkFail ==
  /\ mayFail
  /\ pc = "walk"
  /\ pc' \in {"err", "ok"}
  /\ UNCHANGED <<givenVars, walks, alive, at>>

WalkEnd ==
  /\ pc = "walk" /\ ~Visiting
  /\ pc' = "list"
  /\ UNCHANGED <<givenVars, walks, alive, at>>

Next == NextTop \/ VisitKeep \/ VisitDelete \/ WalkFail \/ WalkEnd

Spec == Init /\ [][Next]_delVars
-----------------------------------------------------------------------------
\* The types; the list's "." entries bound the number of walks.
TypeOK ==
  /\ last \in [Entry -> Entry] /\ dir \subseteq Entry /\ list \subseteq Entry
  /\ tops \in 0 .. MaxTops /\ IOErrors \in 0 .. MaxErrors /\ walks \in 0 .. tops
  /\ DryRun \in BOOLEAN /\ mayFail \in BOOLEAN
  /\ alive \subseteq Entry
  /\ at \in 1 .. NumEntries + 1
  /\ pc \in {"list", "walk", "ok", "err"}

\* No listed file is deleted: RemoveAll of an unlisted directory never takes
\* a listed entry with it, whatever fails.
KeepsListed == list \subseteq alive

\* Nothing is deleted when the list cannot be relied on (the sender had an
\* I/O error), when the destination is no copy of a directory (no "." in the
\* list), and in a dry run.
DeletesOnlyWhenSafe == alive # Entry => IOErrors = 0 /\ tops > 0 /\ ~DryRun

Deleting == pc = "ok" /\ IOErrors = 0 /\ tops > 0 /\ ~DryRun

\* A run without failures that leaves something to delete has deleted something,
\* so that running it again gets rid of everything in the end.
DeletesSome == Deleting /\ ~mayFail => alive \subseteq list \/ alive # Entry

\* README.md: --delete deletes extraneous files from the target directory.
\* (After a file, the walk skips what follows in the same directory.)
DeletesAll == Deleting /\ ~mayFail => alive \subseteq list
=============================================================================
