--------------------------- MODULE DeleteWalkProof ---------------------------
(***************************************************************************)
(* deleteFiles keeps every listed file, for any tree and any list: a file  *)
(* is listed only with the directories that hold it, so that the subtree   *)
(* of an unlisted entry holds no listed one.  It deletes nothing at all    *)
(* unless the list can be relied on, and then it deletes something if      *)
(* there is something to delete: until it has, it has passed only listed   *)
(* entries.                                                                *)
(***************************************************************************)
EXTENDS DeleteWalk, WellFoundedInduction, TLAPS

DInv ==
  /\ last \in [Entry -> Entry] /\ list \subseteq Entry /\ alive \subseteq Entry
  /\ Tree /\ KeepsListed

\* The entry visited is one of the destination's.
LEMMA VisitingAlive ==
  ASSUME DInv, Visiting
  PROVE  Reach(at) \in Entry
  BY DEF Visiting

\* Every step of the walk leaves the listed entries alone: what is removed
\* with an unlisted entry lies under it, and nothing under it is listed.
LEMMA KeepsListedStep ==
  ASSUME ~Windows, DInv, [Next]_delVars
  PROVE  DInv'
<1>1. CASE VisitDelete
  <2> DEFINE n == Reach(at)
  <2>1. n \in Entry /\ ~Found(n) /\ UNCHANGED givenVars
    BY <1>1, VisitingAlive DEF VisitDelete
  <2>2. PICK s \in Leftovers(n) : alive' = (alive \ Subtree(n)) \cup s
    BY <1>1 DEF VisitDelete
  <2>3. s \subseteq alive
    BY <2>2 DEF Leftovers
  <2>4. Subtree(n) \cap list = {}
    BY <2>1 DEF DInv, Tree, Found
  <2> HIDE DEF n
  <2> QED BY <2>1, <2>2, <2>3, <2>4 DEF DInv, Tree, Subtree, KeepsListed, givenVars
<1>2. CASE ~VisitDelete
  <2>1. UNCHANGED <<givenVars, alive>>
    BY <1>2 DEF Next, NextTop, VisitKeep, WalkFail, WalkEnd, delVars
  <2> QED BY <2>1 DEF DInv, Tree, Subtree, KeepsListed, givenVars
<1> QED BY <1>1, <1>2

\* Where names on both sides have the same separator, no listed file is
\* deleted, whichever entries cannot be removed or read.
THEOREM ListedKept ==
  ASSUME ~Windows
  PROVE  Spec => []KeepsListed
<1>1. Init => DInv
  BY DEF Init, DInv, KeepsListed
<1>2. DInv /\ [Next]_delVars => DInv'
  BY KeepsListedStep
<1>3. DInv => KeepsListed
  BY DEF DInv
<1> QED BY <1>1, <1>2, <1>3, PTL DEF Spec

-----------------------------------------------------------------------------
\* A walk begins only with a complete list that has a "." in it.
SInv ==
  /\ tops \in Nat /\ IOErrors \in Nat /\ walks \in 0 .. tops
  /\ pc = "walk" => IOErrors = 0 /\ tops > 0
  /\ DeletesOnlyWhenSafe

\* SInv is inductive.
LEMMA SafeStep ==
  ASSUME SInv, [Next]_delVars
  PROVE  SInv'
<1>1. CASE NextTop
  <2>1. UNCHANGED <<tops, IOErrors, DryRun, alive>>
    BY <1>1 DEF NextTop, givenVars
  <2>2. CASE IOErrors > 0 \/ walks = tops
    BY <1>1, <2>1, <2>2 DEF NextTop, SInv, DeletesOnlyWhenSafe
  <2>3. CASE ~(IOErrors > 0 \/ walks = tops)
    <3>1. IOErrors = 0 /\ tops > 0 /\ walks + 1 \in 0 .. tops
      BY <2>3 DEF SInv
    <3>2. pc' = "walk" /\ walks' = walks + 1
      BY <1>1, <2>3 DEF NextTop
    <3> QED BY <2>1, <3>1, <3>2 DEF SInv, DeletesOnlyWhenSafe
  <2> QED BY <2>2, <2>3
<1>2. CASE VisitDelete
  <2>1. pc = "walk" /\ ~DryRun /\ UNCHANGED <<tops, IOErrors, DryRun, walks, pc>>
    BY <1>2 DEF VisitDelete, Visiting, givenVars
  <2> QED BY <2>1 DEF SInv, DeletesOnlyWhenSafe
<1>3. CASE VisitKeep \/ WalkFail \/ WalkEnd \/ UNCHANGED delVars
  <2>1. UNCHANGED <<tops, IOErrors, DryRun, walks, alive>> /\ (pc' = "walk" => pc = "walk")
    BY <1>3 DEF VisitKeep, WalkFail, WalkEnd, delVars, givenVars
  <2> QED BY <2>1 DEF SInv, DeletesOnlyWhenSafe
<1> QED BY <1>1, <1>2, <1>3 DEF Next

\* deleteFiles removes nothing after an I/O error of the sender, without a "."
\* in the list, or in a dry run, for any tree, any list and any failure.
THEOREM SafeDeletion == Spec => []DeletesOnlyWhenSafe
<1>1. Init => SInv
  BY WalkOK DEF Init, SInv, DeletesOnlyWhenSafe
<1>2. SInv => DeletesOnlyWhenSafe
  BY DEF SInv
<1> QED BY <1>1, <1>2, SafeStep, PTL DEF Spec

-----------------------------------------------------------------------------
\* Every set of numbers has a least one.
LEMMA LeastNat ==
  ASSUME NEW T, T \subseteq Nat, T # {}
  PROVE  \E x \in T : \A y \in T : x <= y
<1> DEFINE R == {p \in Nat \X Nat : p[1] < p[2]}
<1>1. R = OpToRel(<, Nat)
  BY DEF OpToRel
<1>2. IsWellFoundedOn(R, Nat)
  BY <1>1, NatLessThanWellFounded
<1>3. \E x \in T : \A y \in T : ~(<<y, x>> \in R)
  <2> HIDE DEF R
  <2> QED BY <1>2, WFMin
<1>4. PICK x \in T : \A y \in T : ~(<<y, x>> \in R)
  BY <1>3
<1>5. ASSUME NEW y \in T PROVE x <= y
  <2>1. ~(<<y, x>> \in R)
    BY <1>4
  <2>2. x \in Nat /\ y \in Nat
    OBVIOUS
  <2>3. ~(y < x)
    BY <2>1, <2>2
  <2> QED BY <2>2, <2>3
<1> QED BY <1>5

\* The walk goes on at the first entry that is left.
LEMMA ReachIs ==
  ASSUME alive \subseteq Entry, at \in Nat, Reach(at) \in Entry
  PROVE  /\ Reach(at) \in alive /\ Reach(at) >= at
         /\ \A m \in alive : m >= at => m >= Reach(at)
<1> DEFINE ahead == {m \in alive : m >= at}
<1>1. ahead # {}
  BY WalkOK DEF Reach, Entry
<1>2. \E x \in ahead : \A y \in ahead : x <= y
  <2>1. ahead \subseteq Nat
    <3>1. Entry \subseteq Nat
      BY WalkOK DEF Entry
    <3> QED BY <3>1
  <2> HIDE DEF ahead
  <2> QED BY <1>1, <2>1, LeastNat
<1>3. Reach(at) = Min(ahead)
  BY <1>1 DEF Reach
<1>4. Min(ahead) \in ahead /\ \A y \in ahead : Min(ahead) <= y
  <2> HIDE DEF ahead
  <2> QED BY <1>2, Zenon DEF Min
<1> QED BY <1>3, <1>4

\* The directory that holds an entry is one of the entries before it.
LEMMA HolderIs ==
  ASSUME NEW n \in Entry, ~TopLevel(n)
  PROVE  Holder(n) \in Holders(n)
<1> DEFINE back == {j \in Nat : n - j \in Holders(n)}
<1>1. back # {}
  <2>1. PICK m \in Holders(n) : TRUE
    BY DEF TopLevel
  <2>2. m \in Nat /\ n - m \in Nat /\ n - (n - m) = m
    BY <2>1, WalkOK DEF Holders, Entry
  <2> QED BY <2>1, <2>2
<1>2. PICK j \in back : \A y \in back : j <= y
  <2> HIDE DEF back
  <2>1. back \subseteq Nat
    BY DEF back
  <2> QED BY <1>1, <2>1, LeastNat
<1>3. n - j \in Holders(n) /\ \A k \in Holders(n) : k <= n - j
  <2>1. ASSUME NEW k \in Holders(n) PROVE k <= n - j
    <3>1. k \in Nat /\ n \in Nat /\ n - k \in Nat /\ n - (n - k) = k /\ j \in Nat
      BY WalkOK DEF Holders, Entry
    <3>2. n - k \in back
      BY <3>1
    <3> QED BY <1>2, <3>1, <3>2
  <2> QED BY <1>2, <2>1
<1> QED BY <1>3, Zenon DEF Holder

\* Types, the shape of the tree, and what has been passed as long as nothing
\* was removed: listed entries only.
PassedListed ==
  ~mayFail /\ ~DryRun /\ alive = Entry /\ IOErrors = 0 =>
    /\ pc = "walk" => \A m \in Entry : m < at => m \in list
    /\ pc \in {"list", "ok"} /\ walks > 0 => Entry \subseteq list

WInv ==
  /\ TypeOK /\ Tree /\ PassedListed
  /\ pc = "ok" /\ ~mayFail => IOErrors > 0 \/ walks = tops

\* WInv is inductive.
LEMMA WalkStep ==
  ASSUME WInv, [Next]_delVars
  PROVE  WInv'
<1> USE DEF WInv
<1>1. /\ NumEntries \in Nat /\ MaxTops \in Nat /\ MaxErrors \in Nat
      /\ tops \in Nat /\ walks \in 0 .. tops /\ IOErrors \in Nat
      /\ at \in 1 .. NumEntries + 1 /\ at \in Nat /\ alive \subseteq Entry
      /\ last \in [Entry -> Entry]
  BY WalkOK DEF TypeOK
<1>2. UNCHANGED givenVars
  BY DEF Next, NextTop, VisitKeep, VisitDelete, WalkFail, WalkEnd, delVars
<1>3. Tree'
  BY <1>2 DEF Tree, Subtree, givenVars
<1>4. CASE NextTop
  <2>1. alive' = alive /\ pc = "list"
    BY <1>4 DEF NextTop
  <2>2. CASE IOErrors > 0 \/ walks = tops
    BY <1>1, <1>2, <1>3, <1>4, <2>1, <2>2 DEF NextTop, TypeOK, PassedListed, givenVars
  <2>3. CASE ~(IOErrors > 0 \/ walks = tops)
    <3>1. pc' = "walk" /\ walks' = walks + 1 /\ at' = 1
      BY <1>4, <2>3 DEF NextTop
    <3>2. walks + 1 \in 0 .. tops /\ 1 \in 1 .. NumEntries + 1
      BY <1>1, <2>3
    <3>3. \A m \in Entry : ~(m < 1)
      BY DEF Entry
    <3> QED BY <1>2, <1>3, <2>1, <3>1, <3>2, <3>3 DEF TypeOK, PassedListed, givenVars
  <2> QED BY <2>2, <2>3
<1>5. CASE VisitKeep
  <2> DEFINE n == Reach(at)
  <2>1. n \in Entry /\ pc = "walk" /\ (Found(n) \/ DryRun) /\ at' = n + 1
        /\ UNCHANGED <<walks, alive, pc>>
    BY <1>5 DEF VisitKeep, Visiting
  <2>2. n \in alive /\ n >= at /\ \A m \in alive : m >= at => m >= n
    BY <1>1, <2>1, ReachIs
  <2> HIDE DEF n
  <2>3. n + 1 \in 1 .. NumEntries + 1
    BY <1>1, <2>1 DEF Entry
  <2>4. ASSUME ~mayFail, ~DryRun, alive = Entry, IOErrors = 0, NEW m \in Entry, m < n + 1
        PROVE  m \in list
    <3>1. m \in Nat /\ n \in Nat
      BY <1>1, <2>1 DEF Entry
    <3>2. CASE m < at
      BY <2>1, <2>4, <3>2 DEF PassedListed
    <3>3. CASE ~(m < at)
      <4>1. m = n
        BY <1>1, <2>2, <2>4, <3>1, <3>3
      <4> QED BY <2>1, <2>4, <4>1 DEF Found
    <3> QED BY <3>2, <3>3
  <2> QED BY <1>2, <1>3, <2>1, <2>3, <2>4 DEF TypeOK, PassedListed, givenVars
<1>6. CASE VisitDelete
  <2> DEFINE n == Reach(at)
  <2>1. /\ n \in Entry /\ pc = "walk" /\ ~DryRun /\ UNCHANGED <<walks, pc>>
        /\ at' = CASE n \in dir    -> last[n] + 1
                   [] n \notin dir /\ TopLevel(n)  -> NumEntries + 1
                   [] n \notin dir /\ ~TopLevel(n) -> last[Holder(n)] + 1
    BY <1>6 DEF VisitDelete, Visiting
  <2>2. PICK s \in Leftovers(n) : alive' = (alive \ Subtree(n)) \cup s
    BY <1>6 DEF VisitDelete
  <2> HIDE DEF n
  <2>3. s \subseteq alive /\ (~mayFail => s = {})
    BY <2>2 DEF Leftovers
  <2>4. n \in Subtree(n)
    BY <1>1, <2>1 DEF Tree, Subtree, Entry
  <2>5. alive' \subseteq Entry /\ (~mayFail => alive' # Entry)
    BY <1>1, <2>1, <2>2, <2>3, <2>4
  <2>6. at' \in 1 .. NumEntries + 1
    <3>1. ASSUME NEW m \in Entry PROVE last[m] + 1 \in 1 .. NumEntries + 1
      <4>1. last[m] \in Entry
        BY <1>1
      <4> QED BY <1>1, <4>1 DEF Entry
    <3>2. ~TopLevel(n) => Holder(n) \in Entry
      BY <2>1, HolderIs DEF Holders
    <3>3. NumEntries + 1 \in 1 .. NumEntries + 1
      BY <1>1
    <3> QED BY <2>1, <3>1, <3>2, <3>3
  <2> QED BY <1>2, <1>3, <2>1, <2>5, <2>6 DEF TypeOK, PassedListed, givenVars
<1>7. CASE WalkFail
  BY <1>2, <1>3, <1>7 DEF WalkFail, TypeOK, PassedListed, givenVars
<1>8. CASE WalkEnd
  <2>1. pc = "walk" /\ ~(Reach(at) \in Entry) /\ pc' = "list" /\ UNCHANGED <<walks, alive, at>>
    BY <1>8 DEF WalkEnd, Visiting
  <2>2. ASSUME alive = Entry, NEW m \in Entry PROVE m < at
    <3>1. SUFFICES ASSUME ~(m < at) PROVE FALSE
      OBVIOUS
    <3> DEFINE ahead == {j \in alive : j >= at}
    <3>2. m \in ahead
      BY <1>1, <2>2, <3>1 DEF Entry
    <3>3. Reach(at) = Min(ahead)
      BY <3>2 DEF Reach
    <3>4. \E x \in ahead : \A y \in ahead : x <= y
      <4>1. ahead \subseteq Nat
        <5>1. Entry \subseteq Nat
          BY WalkOK DEF Entry
        <5> QED BY <1>1, <5>1
      <4> HIDE DEF ahead
      <4> QED BY <3>2, <4>1, LeastNat
    <3>5. Min(ahead) \in ahead
      <4> HIDE DEF ahead
      <4> QED BY <3>4, Zenon DEF Min
    <3> QED BY <1>1, <2>1, <3>3, <3>5
  <2>3. ASSUME ~mayFail, ~DryRun, alive = Entry, IOErrors = 0 PROVE Entry \subseteq list
    BY <2>1, <2>2, <2>3 DEF PassedListed
  <2> QED BY <1>2, <1>3, <2>1, <2>3 DEF TypeOK, PassedListed, givenVars
<1>9. CASE UNCHANGED delVars
  BY <1>2, <1>3, <1>9 DEF delVars, TypeOK, PassedListed, givenVars
<1> QED BY <1>4, <1>5, <1>6, <1>7, <1>8, <1>9 DEF Next

\* WInv holds in every state of a walk.
LEMMA WalkInvariant == Spec => []WInv
<1>1. Init => WInv
  BY WalkOK DEF Init, WInv, TypeOK, PassedListed, Entry
<1> QED BY <1>1, WalkStep, PTL DEF Spec

\* The walk stays in the destination, and there are no more walks than "."
\* entries in the list (do.go: deleteFiles).
THEOREM WalkTypeCorrect == Spec => []TypeOK
<1>1. WInv => TypeOK
  BY DEF WInv
<1> QED BY <1>1, WalkInvariant, PTL

\* A run of deleteFiles that is allowed to delete, and in which nothing fails,
\* deletes something if there is something to delete, for any tree and list.
THEOREM SomeDeleted == Spec => []DeletesSome
<1>1. WInv => DeletesSome
  <2> SUFFICES ASSUME WInv, Deleting, ~mayFail, alive = Entry PROVE alive \subseteq list
    BY DEF DeletesSome
  <2>1. walks = tops /\ tops > 0 /\ IOErrors = 0 /\ ~DryRun /\ pc = "ok"
    BY DEF WInv, Deleting
  <2> QED BY <2>1 DEF WInv, PassedListed
<1> QED BY <1>1, WalkInvariant, PTL
=============================================================================
