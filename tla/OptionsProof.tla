---------------------------- MODULE OptionsProof ----------------------------
(***************************************************************************)
(* The command line a client writes for its server, and what the server    *)
(* makes of it: ServerOptions and ParseArguments belong together, for any  *)
(* options and any paths (ServerHears), a client's own options have their  *)
(* types (ParsesSane), and a daemon behind a remote shell finds that it is *)
(* one (DaemonHears).                                                      *)
(*                                                                         *)
(* Items and ParseArguments are recursive functions.  What they compute is *)
(* shown with the least number principle (LeastNat, UpTo): a function that *)
(* satisfies the recursion exists up to every length, it is unique, and so *)
(* it is the one that is chosen; one item more is one Apply more.          *)
(***************************************************************************)
EXTENDS Options, Functions, SequenceTheorems, WellFoundedInduction, TLAPS

\* Every set of numbers has a least one: what stands in for induction here.
LEMMA LeastNat ==
  ASSUME NEW T, T \subseteq Nat, T # {}
  PROVE  \E x \in T : \A y \in T : x <= y
<1> DEFINE R == {p \in Nat \X Nat : p[1] < p[2]}
<1>1. R = OpToRel(<, Nat)
  BY DEF OpToRel
<1>2. IsWellFoundedOn(R, Nat)
  BY <1>1, NatLessThanWellFounded
<1>3. \E x \in T : \A y \in T : ~(<<y, x>> \in R)
  <2> HIDE DEF R
  <2> QED BY <1>2, WFMin
<1>4. PICK x \in T : \A y \in T : ~(<<y, x>> \in R)
  BY <1>3
<1>5. ASSUME NEW y \in T PROVE x <= y
  <2>1. ~(<<y, x>> \in R)
    BY <1>4
  <2>2. x \in Nat /\ y \in Nat
    OBVIOUS
  <2>3. ~(y < x)
    BY <2>1, <2>2
  <2> QED BY <2>2, <2>3
<1> QED BY <1>5

\* What holds of 0, and of j if it does of j - 1, holds up to m.
LEMMA UpTo ==
  ASSUME NEW m \in Nat, NEW T, 0 \in T, \A j \in 1 .. m : j - 1 \in T => j \in T
  PROVE  \A j \in 0 .. m : j \in T
<1> DEFINE bad == {j \in 0 .. m : j \notin T}
<1>1. SUFFICES ASSUME bad # {} PROVE FALSE
  OBVIOUS
<1>2. PICK x \in bad : \A y \in bad : x <= y
  <2>1. bad \subseteq Nat
    OBVIOUS
  <2> HIDE DEF bad
  <2> QED BY <1>1, <2>1, LeastNat
<1>3. x \in 1 .. m /\ x \notin T
  BY <1>2
<1>4. x - 1 \in 0 .. m /\ x - 1 < x
  BY <1>3
<1>5. x - 1 \in T
  BY <1>2, <1>4
<1> QED BY <1>3, <1>5

-----------------------------------------------------------------------------
(* Sequences of items.                                                     *)

\* A sequence, of whatever it holds.
IsSeq(s) == s \in Seq(Range(s))

\* A sequence of elements of S is a sequence of its own elements.
LEMMA SeqIntro ==
  ASSUME NEW S, NEW s \in Seq(S)
  PROVE  IsSeq(s) /\ Range(s) \subseteq S
<1>1. Len(s) \in Nat /\ DOMAIN s = 1 .. Len(s) /\ s = [i \in 1 .. Len(s) |-> s[i]]
  OBVIOUS
<1>2. \A i \in 1 .. Len(s) : s[i] \in Range(s) /\ s[i] \in S
  BY <1>1 DEF Range
<1>3. [i \in 1 .. Len(s) |-> s[i]] \in Seq(Range(s))
  BY <1>1, <1>2
<1> QED BY <1>1, <1>2, <1>3 DEF IsSeq, Range

\* The length and the elements of a sequence.
LEMMA SeqFacts ==
  ASSUME NEW s, IsSeq(s)
  PROVE  /\ Len(s) \in Nat
         /\ Len(s) = 0 <=> s = <<>>
         /\ s = <<>> => Range(s) = {}
         /\ \A i \in DOMAIN s : i \in 1 .. Len(s) /\ s[i] \in Range(s)
BY DEF IsSeq, Range

\* Reading one item leaves the others.
LEMMA TailFacts ==
  ASSUME NEW s, IsSeq(s), s # <<>>
  PROVE  /\ IsSeq(Tail(s)) /\ Len(Tail(s)) = Len(s) - 1
         /\ Range(Tail(s)) \subseteq Range(s)
         /\ Head(s) \in Range(s)
<1>1. Tail(s) \in Seq(Range(s)) /\ Len(Tail(s)) = Len(s) - 1 /\ Len(s) \in Nat /\ Len(s) # 0
  BY DEF IsSeq
<1>2. \A i \in 1 .. Len(s) - 1 : Tail(s)[i] = s[i + 1]
  BY <1>1 DEF IsSeq
<1>3. DOMAIN Tail(s) = 1 .. Len(s) - 1 /\ DOMAIN s = 1 .. Len(s)
  BY <1>1 DEF IsSeq
<1>4. Range(Tail(s)) \subseteq Range(s)
  BY <1>1, <1>2, <1>3 DEF Range
<1>5. Head(s) = s[1] /\ 1 \in DOMAIN s
  BY <1>1, <1>3 DEF IsSeq
<1>6. IsSeq(Tail(s))
  BY <1>1, SeqIntro
<1> QED BY <1>1, <1>4, <1>5, <1>6 DEF Range

\* Sending adds the items that are sent.
LEMMA ConcatFacts ==
  ASSUME NEW s, IsSeq(s), NEW t, IsSeq(t)
  PROVE  /\ IsSeq(s \o t) /\ Len(s \o t) = Len(s) + Len(t)
         /\ Range(s \o t) \subseteq Range(s) \cup Range(t)
<1>1. s \in Seq(Range(s) \cup Range(t)) /\ t \in Seq(Range(s) \cup Range(t))
  BY DEF IsSeq
<1>2. s \o t \in Seq(Range(s) \cup Range(t)) /\ Len(s \o t) = Len(s) + Len(t)
  BY <1>1
<1>3. IsSeq(s \o t)
  BY <1>2, SeqIntro
<1>4. Range(s \o t) \subseteq Range(s) \cup Range(t)
  BY <1>2 DEF Range
<1> QED BY <1>2, <1>3, <1>4

\* A fill splits what is on its way in two, and loses nothing.
LEMMA SplitFacts ==
  ASSUME NEW s, IsSeq(s), NEW n \in DOMAIN s
  PROVE  /\ IsSeq(SubSeq(s, 1, n)) /\ IsSeq(SubSeq(s, n + 1, Len(s)))
         /\ Len(SubSeq(s, 1, n)) + Len(SubSeq(s, n + 1, Len(s))) = Len(s)
         /\ Range(SubSeq(s, 1, n)) \subseteq Range(s)
         /\ Range(SubSeq(s, n + 1, Len(s))) \subseteq Range(s)
<1>1. Len(s) \in Nat /\ DOMAIN s = 1 .. Len(s) /\ n \in 1 .. Len(s)
  BY DEF IsSeq
<1>2. SubSeq(s, 1, n) = [i \in 1 .. n |-> s[i]]
  BY <1>1
<1>3. SubSeq(s, n + 1, Len(s)) = [i \in 1 .. Len(s) - n |-> s[i + n]]
  BY <1>1
<1> DEFINE a == SubSeq(s, 1, n)
           b == SubSeq(s, n + 1, Len(s))
<1>4. a \in Seq(Range(s)) /\ Len(a) = n
  BY <1>1, <1>2 DEF Range
<1>5. b \in Seq(Range(s)) /\ Len(b) = Len(s) - n
  BY <1>1, <1>3 DEF Range
<1> HIDE DEF a, b
<1>6. IsSeq(a) /\ Range(a) \subseteq Range(s)
  BY <1>4, SeqIntro
<1>7. IsSeq(b) /\ Range(b) \subseteq Range(s)
  BY <1>5, SeqIntro
<1> QED BY <1>1, <1>4, <1>5, <1>6, <1>7 DEF a, b

\* A message of one item.
LEMMA OneFacts ==
  ASSUME NEW x
  PROVE  IsSeq(<<x>>) /\ Len(<<x>>) = 1 /\ Range(<<x>>) = {x} /\ Head(<<x>>) = x
BY DEF IsSeq, Range

\* A message of two items.
LEMMA TwoFacts ==
  ASSUME NEW x, NEW y
  PROVE  IsSeq(<<x, y>>) /\ Range(<<x, y>>) \subseteq {x, y}
<1>1. <<x, y>> \in Seq({x, y})
  OBVIOUS
<1> QED BY <1>1, SeqIntro

\* Nothing on its way.
LEMMA EmptyFacts == IsSeq(<<>>) /\ Len(<<>>) = 0 /\ Range(<<>>) = {}
BY DEF IsSeq, Range

-----------------------------------------------------------------------------
(* Options are parsed one after the other.                                 *)

\* The options o, and then items; all is the whole command line.
Parsed(o, items, all) ==
  LET after[i \in 0 .. Len(items)] ==
        IF i = 0 THEN o ELSE Apply(after[i - 1], items[i], all)
  IN after[Len(items)]

Reads(f, o, items, n, all) ==
  /\ f = [j \in 0 .. n |-> f[j]]
  /\ f[0] = o
  /\ \A j \in 1 .. n : f[j] = Apply(f[j - 1], items[j], all)

\* There is such a function,
LEMMA ReadsExists ==
  ASSUME NEW o, NEW items, NEW all, NEW n \in Nat
  PROVE  \E f : Reads(f, o, items, n, all)
<1> DEFINE T == {m \in 0 .. n : \E f : Reads(f, o, items, m, all)}
<1>1. 0 \in T
  <2> DEFINE g == [j \in 0 .. 0 |-> o]
  <2>1. Reads(g, o, items, 0, all)
    BY DEF Reads
  <2> HIDE DEF g
  <2> QED BY <2>1
<1>2. ASSUME NEW m \in 1 .. n, m - 1 \in T
      PROVE  m \in T
  <2>1. PICK f : Reads(f, o, items, m - 1, all)
    BY <1>2
  <2> DEFINE g == [j \in 0 .. m |-> IF j = m THEN Apply(f[m - 1], items[m], all) ELSE f[j]]
  <2>2. \A j \in 0 .. m - 1 : g[j] = f[j]
    OBVIOUS
  <2>3. g[m] = Apply(f[m - 1], items[m], all)
    OBVIOUS
  <2>4. g = [j \in 0 .. m |-> g[j]]
    OBVIOUS
  <2> HIDE DEF g
  <2>5. ASSUME NEW j \in 1 .. m PROVE g[j] = Apply(g[j - 1], items[j], all)
    <3>1. CASE j = m
      <4>1. g[m - 1] = f[m - 1]
        BY <2>2
      <4> QED BY <2>3, <3>1, <4>1
    <3>2. CASE j # m
      <4>1. j \in 1 .. m - 1 /\ j \in 0 .. m - 1 /\ j - 1 \in 0 .. m - 1
        BY <3>2
      <4>2. f[j] = Apply(f[j - 1], items[j], all)
        BY <2>1, <4>1 DEF Reads
      <4> QED BY <2>2, <4>1, <4>2
    <3> QED BY <3>1, <3>2
  <2>6. g[0] = o
    <3>1. 0 \in 0 .. m - 1
      OBVIOUS
    <3> QED BY <2>1, <2>2, <3>1 DEF Reads
  <2>7. Reads(g, o, items, m, all)
    BY <2>4, <2>5, <2>6 DEF Reads
  <2> QED BY <2>7
<1>3. n \in T
  <2> HIDE DEF T
  <2>1. \A j \in 0 .. n : j \in T
    BY <1>1, <1>2, UpTo
  <2> QED BY <2>1
<1> QED BY <1>3

\* and only one as far as it goes,
LEMMA ReadsUnique ==
  ASSUME NEW o, NEW items, NEW all, NEW n \in Nat, NEW m \in Nat, n <= m,
         NEW f, NEW g, Reads(f, o, items, n, all), Reads(g, o, items, m, all)
  PROVE  g[n] = f[n]
<1> DEFINE T == {j \in 0 .. n : g[j] = f[j]}
<1>1. 0 \in T
  BY DEF Reads
<1>2. ASSUME NEW j \in 1 .. n, j - 1 \in T
      PROVE  j \in T
  <2>1. j \in 1 .. m /\ j \in 0 .. n
    OBVIOUS
  <2>2. f[j] = Apply(f[j - 1], items[j], all) /\ g[j] = Apply(g[j - 1], items[j], all)
    BY <2>1 DEF Reads
  <2> QED BY <1>2, <2>1, <2>2
<1>3. n \in T
  <2> HIDE DEF T
  <2>1. \A j \in 0 .. n : j \in T
    BY <1>1, <1>2, UpTo
  <2> QED BY <2>1
<1> QED BY <1>3

\* so that it is the one Parsed chooses.
LEMMA ParsedReads ==
  ASSUME NEW o, NEW items, NEW all, Len(items) \in Nat,
         NEW f, Reads(f, o, items, Len(items), all)
  PROVE  Parsed(o, items, all) = f[Len(items)]
<1> DEFINE n == Len(items)
           eq(h) == h = [i \in 0 .. n |-> IF i = 0 THEN o ELSE Apply(h[i - 1], items[i], all)]
           after == CHOOSE h : eq(h)
<1>1. eq(f)
  <2>1. \A i \in 0 .. n : f[i] = IF i = 0 THEN o ELSE Apply(f[i - 1], items[i], all)
    <3>1. SUFFICES ASSUME NEW i \in 0 .. n, i # 0
                   PROVE f[i] = Apply(f[i - 1], items[i], all)
      BY DEF Reads
    <3>2. i \in 1 .. n
      BY <3>1
    <3> QED BY <3>2 DEF Reads
  <2>2. f = [j \in 0 .. n |-> f[j]]
    BY DEF Reads
  <2> QED BY <2>1, <2>2
<1>2. eq(after)
  <2> HIDE DEF eq
  <2> QED BY <1>1
<1> HIDE DEF after
<1>3. Reads(after, o, items, n, all)
  <2>1. \A j \in 0 .. n : after[j] = IF j = 0 THEN o ELSE Apply(after[j - 1], items[j], all)
    BY <1>2
  <2>2. after = [j \in 0 .. n |-> after[j]]
    BY <1>2
  <2> HIDE DEF eq
  <2>3. \A j \in 1 .. n : j \in 0 .. n /\ j # 0
    OBVIOUS
  <2>4. 0 \in 0 .. n
    OBVIOUS
  <2> QED BY <2>1, <2>2, <2>3, <2>4 DEF Reads
<1>4. after[n] = f[n]
  BY <1>3, ReadsUnique
<1>5. Parsed(o, items, all) = after[n]
  BY DEF Parsed, after
<1> QED BY <1>4, <1>5

\* When nothing is read the options stay as they are.
LEMMA ParsedNothing ==
  ASSUME NEW o, NEW all
  PROVE  Parsed(o, <<>>, all) = o
<1>1. PICK f : Reads(f, o, <<>>, 0, all)
  BY ReadsExists
<1>2. Len(<<>>) = 0
  OBVIOUS
<1>3. Parsed(o, <<>>, all) = f[0]
  BY <1>1, <1>2, ParsedReads
<1> QED BY <1>1, <1>3 DEF Reads

\* One item more is one more Apply.
LEMMA ParsedSteps ==
  ASSUME NEW S, NEW items \in Seq(S), NEW x \in S, NEW o, NEW all
  PROVE  Parsed(o, Append(items, x), all) = Apply(Parsed(o, items, all), x, all)
<1> DEFINE n == Len(items)
           more == Append(items, x)
<1>2. n \in Nat /\ Len(more) = n + 1 /\ more[n + 1] = x /\ \A j \in 1 .. n : more[j] = items[j]
  OBVIOUS
<1> HIDE DEF more
<1>3. PICK g : Reads(g, o, more, n + 1, all)
  <2>1. PICK k \in Nat : k = n + 1
    BY <1>2
  <2>2. \E g : Reads(g, o, more, k, all)
    BY ReadsExists
  <2> QED BY <2>1, <2>2
<1>4. PICK f : Reads(f, o, items, n, all)
  BY <1>2, ReadsExists
<1>5. Reads(f, o, more, n, all)
  BY <1>2, <1>4 DEF Reads
<1>6. g[n] = f[n]
  BY <1>2, <1>3, <1>5, ReadsUnique
<1>7. g[n + 1] = Apply(g[n], x, all)
  <2>1. n + 1 \in 1 .. n + 1 /\ (n + 1) - 1 = n
    BY <1>2
  <2> QED BY <1>2, <1>3, <2>1 DEF Reads
<1>8. Parsed(o, more, all) = g[n + 1] /\ Parsed(o, items, all) = f[n]
  <2>1. Len(more) = n + 1 /\ n + 1 \in Nat
    BY <1>2
  <2>2. Parsed(o, more, all) = g[Len(more)]
    BY <1>3, <2>1, ParsedReads
  <2>3. Parsed(o, items, all) = f[n]
    BY <1>2, <1>4, ParsedReads
  <2> QED BY <2>1, <2>2, <2>3
<1> QED BY <1>6, <1>7, <1>8 DEF more
-----------------------------------------------------------------------------
(* A cluster of letters is as many options.                                *)

Split(arg) ==
  IF IsCluster(arg) THEN [j \in 1 .. Len(arg) - 1 |-> <<"-", arg[j + 1]>>]
  ELSE <<arg>>

\* What an argument is split into are arguments.
LEMMA SplitType ==
  ASSUME NEW P, "-" \in P, NEW a \in Seq(P)
  PROVE  Split(a) \in Seq(Seq(P))
<1>1. CASE IsCluster(a)
  <2>1. Len(a) - 1 \in Nat
    BY <1>1 DEF IsCluster
  <2>2. \A j \in 1 .. Len(a) - 1 : <<"-", a[j + 1]>> \in Seq(P)
    <3>1. SUFFICES ASSUME NEW j \in 1 .. Len(a) - 1 PROVE <<"-", a[j + 1]>> \in Seq(P)
      OBVIOUS
    <3>2. a[j + 1] \in P
      BY <2>1
    <3> QED BY <3>2
  <2>3. Split(a) = [j \in 1 .. Len(a) - 1 |-> <<"-", a[j + 1]>>]
    BY <1>1 DEF Split
  <2> QED BY <2>1, <2>2, <2>3
<1>2. CASE ~IsCluster(a)
  BY <1>2 DEF Split
<1> QED BY <1>1, <1>2

Splits(f, args, n) ==
  /\ f = [j \in 0 .. n |-> f[j]]
  /\ f[0] = <<>>
  /\ \A j \in 1 .. n : f[j] = f[j - 1] \o Split(args[j])

\* There is such a function,
LEMMA SplitsExists ==
  ASSUME NEW args, NEW n \in Nat
  PROVE  \E f : Splits(f, args, n)
<1> DEFINE T == {m \in 0 .. n : \E f : Splits(f, args, m)}
<1>1. 0 \in T
  <2> DEFINE g == [j \in 0 .. 0 |-> <<>>]
  <2>1. Splits(g, args, 0)
    BY DEF Splits
  <2> HIDE DEF g
  <2> QED BY <2>1
<1>2. ASSUME NEW m \in 1 .. n, m - 1 \in T
      PROVE  m \in T
  <2>1. PICK f : Splits(f, args, m - 1)
    BY <1>2
  <2> DEFINE g == [j \in 0 .. m |-> IF j = m THEN f[m - 1] \o Split(args[m]) ELSE f[j]]
  <2>2. \A j \in 0 .. m - 1 : g[j] = f[j]
    OBVIOUS
  <2>3. g[m] = f[m - 1] \o Split(args[m])
    OBVIOUS
  <2>4. g = [j \in 0 .. m |-> g[j]]
    OBVIOUS
  <2> HIDE DEF g
  <2>5. ASSUME NEW j \in 1 .. m PROVE g[j] = g[j - 1] \o Split(args[j])
    <3>1. CASE j = m
      <4>1. g[m - 1] = f[m - 1]
        BY <2>2
      <4> QED BY <2>3, <3>1, <4>1
    <3>2. CASE j # m
      <4>1. j \in 1 .. m - 1 /\ j \in 0 .. m - 1 /\ j - 1 \in 0 .. m - 1
        BY <3>2
      <4>2. f[j] = f[j - 1] \o Split(args[j])
        BY <2>1, <4>1 DEF Splits
      <4> QED BY <2>2, <4>1, <4>2
    <3> QED BY <3>1, <3>2
  <2>6. g[0] = <<>>
    <3>1. 0 \in 0 .. m - 1
      OBVIOUS
    <3> QED BY <2>1, <2>2, <3>1 DEF Splits
  <2>7. Splits(g, args, m)
    BY <2>4, <2>5, <2>6 DEF Splits
  <2> QED BY <2>7
<1>3. n \in T
  <2> HIDE DEF T
  <2>1. \A j \in 0 .. n : j \in T
    BY <1>1, <1>2, UpTo
  <2> QED BY <2>1
<1> QED BY <1>3

\* and only one as far as it goes,
LEMMA SplitsUnique ==
  ASSUME NEW args, NEW n \in Nat, NEW m \in Nat, n <= m,
         NEW f, NEW g, Splits(f, args, n), Splits(g, args, m)
  PROVE  g[n] = f[n]
<1> DEFINE T == {j \in 0 .. n : g[j] = f[j]}
<1>1. 0 \in T
  BY DEF Splits
<1>2. ASSUME NEW j \in 1 .. n, j - 1 \in T
      PROVE  j \in T
  <2>1. j \in 1 .. m /\ j \in 0 .. n
    OBVIOUS
  <2>2. f[j] = f[j - 1] \o Split(args[j]) /\ g[j] = g[j - 1] \o Split(args[j])
    BY <2>1 DEF Splits
  <2> QED BY <1>2, <2>1, <2>2
<1>3. n \in T
  <2> HIDE DEF T
  <2>1. \A j \in 0 .. n : j \in T
    BY <1>1, <1>2, UpTo
  <2> QED BY <2>1
<1> QED BY <1>3

\* so that it is the one Items chooses.
LEMMA ItemsSplits ==
  ASSUME NEW args, Len(args) \in Nat, NEW f, Splits(f, args, Len(args))
  PROVE  Items(args) = f[Len(args)]
<1> DEFINE n == Len(args)
           eq(h) == h = [i \in 0 .. n |->
                           IF i = 0 THEN <<>>
                           ELSE h[i - 1] \o
                                (IF IsCluster(args[i])
                                 THEN [j \in 1 .. Len(args[i]) - 1 |-> <<"-", args[i][j + 1]>>]
                                 ELSE <<args[i]>>)]
           split(h) == h = [i \in 0 .. n |->
                              IF i = 0 THEN <<>> ELSE h[i - 1] \o Split(args[i])]
           items == CHOOSE h : eq(h)
<1>1. \A h : eq(h) <=> split(h)
  BY DEF Split
<1>2. eq(f)
  <2>1. \A i \in 0 .. n : f[i] = IF i = 0 THEN <<>> ELSE f[i - 1] \o Split(args[i])
    <3>1. SUFFICES ASSUME NEW i \in 0 .. n, i # 0
                   PROVE f[i] = f[i - 1] \o Split(args[i])
      BY DEF Splits
    <3>2. i \in 1 .. n
      BY <3>1
    <3> QED BY <3>2 DEF Splits
  <2>2. f = [j \in 0 .. n |-> f[j]]
    BY DEF Splits
  <2>3. split(f)
    BY <2>1, <2>2
  <2> HIDE DEF eq, split
  <2> QED BY <1>1, <2>3
<1>3. split(items)
  <2> HIDE DEF eq, split
  <2> QED BY <1>1, <1>2
<1>4. Items(args) = items[n]
  BY DEF Items, items
<1> HIDE DEF items, eq
<1>5. Splits(items, args, n)
  <2>1. \A j \in 0 .. n : items[j] = IF j = 0 THEN <<>> ELSE items[j - 1] \o Split(args[j])
    BY <1>3
  <2>2. items = [j \in 0 .. n |-> items[j]]
    BY <1>3
  <2> HIDE DEF split
  <2>3. \A j \in 1 .. n : j \in 0 .. n /\ j # 0
    OBVIOUS
  <2>4. 0 \in 0 .. n
    OBVIOUS
  <2> QED BY <2>1, <2>2, <2>3, <2>4 DEF Splits
<1>6. items[n] = f[n]
  BY <1>5, SplitsUnique
<1> QED BY <1>4, <1>6

\* No arguments, no items.
LEMMA ItemsNothing == Items(<<>>) = <<>>
<1>1. PICK f : Splits(f, <<>>, 0)
  BY SplitsExists
<1>2. Len(<<>>) = 0
  OBVIOUS
<1>3. Items(<<>>) = f[0]
  BY <1>1, <1>2, ItemsSplits
<1> QED BY <1>1, <1>3 DEF Splits

\* One argument more is split and added.
LEMMA ItemsSteps ==
  ASSUME NEW S, NEW args \in Seq(S), NEW a \in S
  PROVE  Items(Append(args, a)) = Items(args) \o Split(a)
<1> DEFINE n == Len(args)
           more == Append(args, a)
<1>2. n \in Nat /\ Len(more) = n + 1 /\ more[n + 1] = a /\ \A j \in 1 .. n : more[j] = args[j]
  OBVIOUS
<1> HIDE DEF more
<1>3. PICK g : Splits(g, more, n + 1)
  <2>1. PICK k \in Nat : k = n + 1
    BY <1>2
  <2>2. \E g : Splits(g, more, k)
    BY SplitsExists
  <2> QED BY <2>1, <2>2
<1>4. PICK f : Splits(f, args, n)
  BY <1>2, SplitsExists
<1>5. Splits(f, more, n)
  BY <1>2, <1>4 DEF Splits
<1>6. g[n] = f[n]
  BY <1>2, <1>3, <1>5, SplitsUnique
<1>7. g[n + 1] = g[n] \o Split(a)
  <2>1. n + 1 \in 1 .. n + 1 /\ (n + 1) - 1 = n
    BY <1>2
  <2> QED BY <1>2, <1>3, <2>1 DEF Splits
<1>8. Items(more) = g[n + 1] /\ Items(args) = f[n]
  <2>1. Len(more) = n + 1 /\ n + 1 \in Nat
    BY <1>2
  <2>2. Items(more) = g[Len(more)]
    BY <1>3, <2>1, ItemsSplits
  <2>3. Items(args) = f[n]
    BY <1>2, <1>4, ItemsSplits
  <2> QED BY <2>1, <2>2, <2>3
<1> QED BY <1>6, <1>7, <1>8 DEF more

\* The items of arguments are arguments.
LEMMA ItemsType ==
  ASSUME NEW P, "-" \in P, NEW args \in Seq(Seq(P))
  PROVE  Items(args) \in Seq(Seq(P))
<1>1. PICK n \in Nat : n = Len(args)
  OBVIOUS
<1>0. PICK f : Splits(f, args, n)
  BY SplitsExists
<1> DEFINE T == {j \in 0 .. n : f[j] \in Seq(Seq(P))}
<1>2. 0 \in T
  <2>1. <<>> \in Seq(Seq(P))
    OBVIOUS
  <2>2. f[0] = <<>>
    BY <1>0 DEF Splits
  <2>3. f[0] \in Seq(Seq(P))
    BY <2>1, <2>2, Zenon
  <2>4. 0 \in 0 .. n
    OBVIOUS
  <2> QED BY <2>3, <2>4, Zenon
<1>3. ASSUME NEW j \in 1 .. n, j - 1 \in T
      PROVE  j \in T
  <2>1. j \in 0 .. n /\ args[j] \in Seq(P)
    BY <1>1
  <2>2. f[j] = f[j - 1] \o Split(args[j])
    BY <1>0 DEF Splits
  <2>3. Split(args[j]) \in Seq(Seq(P))
    BY <2>1, SplitType
  <2>4. f[j - 1] \in Seq(Seq(P))
    BY <1>3
  <2>5. f[j] \in Seq(Seq(P))
    BY <2>2, <2>3, <2>4, ConcatProperties
  <2> QED BY <2>1, <2>5
<1>4. n \in T
  <2> HIDE DEF T
  <2>1. \A j \in 0 .. n : j \in T
    BY <1>2, <1>3, UpTo
  <2> QED BY <2>1
<1> QED BY <1>0, <1>1, <1>4, ItemsSplits
-----------------------------------------------------------------------------
(* The options a client tells its server.                                  *)

Fields == DOMAIN Defaults

\* An option without a name is not found by one.
LEMMA Named ==
  /\ None \notin {"n", "r", "d", "p", "t", "o", "g", "l", "I", "u", "W", "c", "v", "a", "D",
                  "H", "f", "e"}
  /\ None \notin {"server", "sender", "size-only", "timeout", "delete", "daemon"}
  BY Zenon DEF None

\* A letter finds the one row it names.
LEMMA ShortFound ==
  ASSUME NEW l, NEW row \in rsyncTable, row.short = l,
         \A other \in rsyncTable : other.short = l => other = row
  PROVE  findOption(rsyncTable, <<"-", l>>) = {row}
<1>1. ~IsLong(<<"-", l>>) /\ <<"-", l>>[2] = l
  BY DEF IsLong
<1>2. {r \in rsyncTable : r.short = l} = {row}
  OBVIOUS
<1> QED BY <1>1, <1>2 DEF findOption

\* And so does a long name.
LEMMA LongFound ==
  ASSUME NEW item, item[1] = "--", NEW row \in rsyncTable, row.long = item[2],
         \A other \in rsyncTable : other.long = item[2] => other = row
  PROVE  findOption(rsyncTable, item) = {row}
<1>1. IsLong(item)
  BY DEF IsLong
<1>2. {r \in rsyncTable : r.long = item[2]} = {row}
  OBVIOUS
<1> QED BY <1>1, <1>2 DEF findOption

\* The letters ServerOptions uses, and the rows of the table they find.
LEMMA LettersFound ==
  /\ findOption(rsyncTable, <<"-", "v">>) = {Row("verbose", "v", "special", 0)}
  /\ findOption(rsyncTable, <<"-", "u">>) = {Row("update", "u", "update_only", 1)}
  /\ findOption(rsyncTable, <<"-", "n">>) = {Row("dry-run", "n", "dry_run", 1)}
  /\ findOption(rsyncTable, <<"-", "l">>) = {Row("links", "l", "preserve_links", 1)}
  /\ findOption(rsyncTable, <<"-", "W">>) = {Row("whole-file", "W", "whole_file", 1)}
  /\ findOption(rsyncTable, <<"-", "o">>) = {Row("owner", "o", "preserve_uid", 1)}
  /\ findOption(rsyncTable, <<"-", "g">>) = {Row("group", "g", "preserve_gid", 1)}
  /\ findOption(rsyncTable, <<"-", "D">>) = {Row(None, "D", "special", 0)}
  /\ findOption(rsyncTable, <<"-", "t">>) = {Row("times", "t", "preserve_mtimes", 1)}
  /\ findOption(rsyncTable, <<"-", "p">>) = {Row("perms", "p", "preserve_perms", 1)}
  /\ findOption(rsyncTable, <<"-", "r">>) = {Row("recursive", "r", "recurse", 2)}
  /\ findOption(rsyncTable, <<"-", "c">>) = {Row("checksum", "c", "always_checksum", 1)}
  /\ findOption(rsyncTable, <<"-", "I">>) = {Row("ignore-times", "I", "ignore_times", 1)}
  /\ findOption(rsyncTable, <<"-", "d">>) = {Row("dirs", "d", "xfer_dirs", 2)}
<1>1. findOption(rsyncTable, <<"-", "v">>) = {Row("verbose", "v", "special", 0)}
  <2>1. Row("verbose", "v", "special", 0) \in rsyncTable /\ Row("verbose", "v", "special", 0).short = "v"
    BY DEF rsyncTable, SwitchTable, OtherTable, Row
  <2>2. ASSUME NEW other \in rsyncTable, other.short = "v"
        PROVE  other = Row("verbose", "v", "special", 0)
    BY <2>2, Named DEF rsyncTable, SwitchTable, OtherTable, Row
  <2> QED BY <2>1, <2>2, ShortFound
<1>2. findOption(rsyncTable, <<"-", "u">>) = {Row("update", "u", "update_only", 1)}
  <2>1. Row("update", "u", "update_only", 1) \in rsyncTable /\ Row("update", "u", "update_only", 1).short = "u"
    BY DEF rsyncTable, SwitchTable, OtherTable, Row
  <2>2. ASSUME NEW other \in rsyncTable, other.short = "u"
        PROVE  other = Row("update", "u", "update_only", 1)
    BY <2>2, Named DEF rsyncTable, SwitchTable, OtherTable, Row
  <2> QED BY <2>1, <2>2, ShortFound
<1>3. findOption(rsyncTable, <<"-", "n">>) = {Row("dry-run", "n", "dry_run", 1)}
  <2>1. Row("dry-run", "n", "dry_run", 1) \in rsyncTable /\ Row("dry-run", "n", "dry_run", 1).short = "n"
    BY DEF rsyncTable, SwitchTable, OtherTable, Row
  <2>2. ASSUME NEW other \in rsyncTable, other.short = "n"
        PROVE  other = Row("dry-run", "n", "dry_run", 1)
    BY <2>2, Named DEF rsyncTable, SwitchTable, OtherTable, Row
  <2> QED BY <2>1, <2>2, ShortFound
<1>4. findOption(rsyncTable, <<"-", "l">>) = {Row("links", "l", "preserve_links", 1)}
  <2>1. Row("links", "l", "preserve_links", 1) \in rsyncTable /\ Row("links", "l", "preserve_links", 1).short = "l"
    BY DEF rsyncTable, SwitchTable, OtherTable, Row
  <2>2. ASSUME NEW other \in rsyncTable, other.short = "l"
        PROVE  other = Row("links", "l", "preserve_links", 1)
    BY <2>2, Named DEF rsyncTable, SwitchTable, OtherTable, Row
  <2> QED BY <2>1, <2>2, ShortFound
<1>5. findOption(rsyncTable, <<"-", "W">>) = {Row("whole-file", "W", "whole_file", 1)}
  <2>1. Row("whole-file", "W", "whole_file", 1) \in rsyncTable /\ Row("whole-file", "W", "whole_file", 1).short = "W"
    BY DEF rsyncTable, SwitchTable, OtherTable, Row
  <2>2. ASSUME NEW other \in rsyncTable, other.short = "W"
        PROVE  other = Row("whole-file", "W", "whole_file", 1)
    BY <2>2, Named DEF rsyncTable, SwitchTable, OtherTable, Row
  <2> QED BY <2>1, <2>2, ShortFound
<1>6. findOption(rsyncTable, <<"-", "o">>) = {Row("owner", "o", "preserve_uid", 1)}
  <2>1. Row("owner", "o", "preserve_uid", 1) \in rsyncTable /\ Row("owner", "o", "preserve_uid", 1).short = "o"
    BY DEF rsyncTable, SwitchTable, OtherTable, Row
  <2>2. ASSUME NEW other \in rsyncTable, other.short = "o"
        PROVE  other = Row("owner", "o", "preserve_uid", 1)
    BY <2>2, Named DEF rsyncTable, SwitchTable, OtherTable, Row
  <2> QED BY <2>1, <2>2, ShortFound
<1>7. findOption(rsyncTable, <<"-", "g">>) = {Row("group", "g", "preserve_gid", 1)}
  <2>1. Row("group", "g", "preserve_gid", 1) \in rsyncTable /\ Row("group", "g", "preserve_gid", 1).short = "g"
    BY DEF rsyncTable, SwitchTable, OtherTable, Row
  <2>2. ASSUME NEW other \in rsyncTable, other.short = "g"
        PROVE  other = Row("group", "g", "preserve_gid", 1)
    BY <2>2, Named DEF rsyncTable, SwitchTable, OtherTable, Row
  <2> QED BY <2>1, <2>2, ShortFound
<1>8. findOption(rsyncTable, <<"-", "D">>) = {Row(None, "D", "special", 0)}
  <2>1. Row(None, "D", "special", 0) \in rsyncTable /\ Row(None, "D", "special", 0).short = "D"
    BY DEF rsyncTable, SwitchTable, OtherTable, Row
  <2>2. ASSUME NEW other \in rsyncTable, other.short = "D"
        PROVE  other = Row(None, "D", "special", 0)
    BY <2>2, Named DEF rsyncTable, SwitchTable, OtherTable, Row
  <2> QED BY <2>1, <2>2, ShortFound
<1>9. findOption(rsyncTable, <<"-", "t">>) = {Row("times", "t", "preserve_mtimes", 1)}
  <2>1. Row("times", "t", "preserve_mtimes", 1) \in rsyncTable /\ Row("times", "t", "preserve_mtimes", 1).short = "t"
    BY DEF rsyncTable, SwitchTable, OtherTable, Row
  <2>2. ASSUME NEW other \in rsyncTable, other.short = "t"
        PROVE  other = Row("times", "t", "preserve_mtimes", 1)
    BY <2>2, Named DEF rsyncTable, SwitchTable, OtherTable, Row
  <2> QED BY <2>1, <2>2, ShortFound
<1>10. findOption(rsyncTable, <<"-", "p">>) = {Row("perms", "p", "preserve_perms", 1)}
  <2>1. Row("perms", "p", "preserve_perms", 1) \in rsyncTable /\ Row("perms", "p", "preserve_perms", 1).short = "p"
    BY DEF rsyncTable, SwitchTable, OtherTable, Row
  <2>2. ASSUME NEW other \in rsyncTable, other.short = "p"
        PROVE  other = Row("perms", "p", "preserve_perms", 1)
    BY <2>2, Named DEF rsyncTable, SwitchTable, OtherTable, Row
  <2> QED BY <2>1, <2>2, ShortFound
<1>11. findOption(rsyncTable, <<"-", "r">>) = {Row("recursive", "r", "recurse", 2)}
  <2>1. Row("recursive", "r", "recurse", 2) \in rsyncTable /\ Row("recursive", "r", "recurse", 2).short = "r"
    BY DEF rsyncTable, SwitchTable, OtherTable, Row
  <2>2. ASSUME NEW other \in rsyncTable, other.short = "r"
        PROVE  other = Row("recursive", "r", "recurse", 2)
    BY <2>2, Named DEF rsyncTable, SwitchTable, OtherTable, Row
  <2> QED BY <2>1, <2>2, ShortFound
<1>12. findOption(rsyncTable, <<"-", "c">>) = {Row("checksum", "c", "always_checksum", 1)}
  <2>1. Row("checksum", "c", "always_checksum", 1) \in rsyncTable /\ Row("checksum", "c", "always_checksum", 1).short = "c"
    BY DEF rsyncTable, SwitchTable, OtherTable, Row
  <2>2. ASSUME NEW other \in rsyncTable, other.short = "c"
        PROVE  other = Row("checksum", "c", "always_checksum", 1)
    BY <2>2, Named DEF rsyncTable, SwitchTable, OtherTable, Row
  <2> QED BY <2>1, <2>2, ShortFound
<1>13. findOption(rsyncTable, <<"-", "I">>) = {Row("ignore-times", "I", "ignore_times", 1)}
  <2>1. Row("ignore-times", "I", "ignore_times", 1) \in rsyncTable /\ Row("ignore-times", "I", "ignore_times", 1).short = "I"
    BY DEF rsyncTable, SwitchTable, OtherTable, Row
  <2>2. ASSUME NEW other \in rsyncTable, other.short = "I"
        PROVE  other = Row("ignore-times", "I", "ignore_times", 1)
    BY <2>2, Named DEF rsyncTable, SwitchTable, OtherTable, Row
  <2> QED BY <2>1, <2>2, ShortFound
<1>14. findOption(rsyncTable, <<"-", "d">>) = {Row("dirs", "d", "xfer_dirs", 2)}
  <2>1. Row("dirs", "d", "xfer_dirs", 2) \in rsyncTable /\ Row("dirs", "d", "xfer_dirs", 2).short = "d"
    BY DEF rsyncTable, SwitchTable, OtherTable, Row
  <2>2. ASSUME NEW other \in rsyncTable, other.short = "d"
        PROVE  other = Row("dirs", "d", "xfer_dirs", 2)
    BY <2>2, Named DEF rsyncTable, SwitchTable, OtherTable, Row
  <2> QED BY <2>1, <2>2, ShortFound
<1> QED BY <1>1, <1>2, <1>3, <1>4, <1>5, <1>6, <1>7, <1>8, <1>9, <1>10, <1>11, <1>12, <1>13, <1>14

\* And the long options.
LEMMA NamesFound ==
  /\ findOption(rsyncTable, <<"--", "server">>) = {Row("server", None, "special", 0)}
  /\ findOption(rsyncTable, <<"--", "sender">>) = {Row("sender", None, "special", 0)}
  /\ findOption(rsyncTable, <<"--", "size-only">>) = {Row("size-only", None, "size_only", 1)}
  /\ findOption(rsyncTable, <<"--", "delete">>) = {Row("delete", None, "delete_mode", 1)}
  /\ findOption(rsyncTable, <<"--", "daemon">>) = {Row("daemon", None, "daemon", 0)}
  /\ \A value : findOption(rsyncTable, <<"--", "timeout", value>>) = {Row("timeout", None, "argument", 0)}
<1>1. findOption(rsyncTable, <<"--", "server">>) = {Row("server", None, "special", 0)}
  <2>1. Row("server", None, "special", 0) \in rsyncTable /\ Row("server", None, "special", 0).long = "server"
    BY DEF rsyncTable, SwitchTable, OtherTable, Row
  <2>2. ASSUME NEW other \in rsyncTable, other.long = "server"
        PROVE  other = Row("server", None, "special", 0)
    BY <2>2, Named DEF rsyncTable, SwitchTable, OtherTable, Row
  <2>3. <<"--", "server">>[1] = "--" /\ <<"--", "server">>[2] = "server"
    OBVIOUS
  <2> QED BY <2>1, <2>2, <2>3, LongFound
<1>2. findOption(rsyncTable, <<"--", "sender">>) = {Row("sender", None, "special", 0)}
  <2>1. Row("sender", None, "special", 0) \in rsyncTable /\ Row("sender", None, "special", 0).long = "sender"
    BY DEF rsyncTable, SwitchTable, OtherTable, Row
  <2>2. ASSUME NEW other \in rsyncTable, other.long = "sender"
        PROVE  other = Row("sender", None, "special", 0)
    BY <2>2, Named DEF rsyncTable, SwitchTable, OtherTable, Row
  <2>3. <<"--", "sender">>[1] = "--" /\ <<"--", "sender">>[2] = "sender"
    OBVIOUS
  <2> QED BY <2>1, <2>2, <2>3, LongFound
<1>3. findOption(rsyncTable, <<"--", "size-only">>) = {Row("size-only", None, "size_only", 1)}
  <2>1. Row("size-only", None, "size_only", 1) \in rsyncTable /\ Row("size-only", None, "size_only", 1).long = "size-only"
    BY DEF rsyncTable, SwitchTable, OtherTable, Row
  <2>2. ASSUME NEW other \in rsyncTable, other.long = "size-only"
        PROVE  other = Row("size-only", None, "size_only", 1)
    BY <2>2, Named DEF rsyncTable, SwitchTable, OtherTable, Row
  <2>3. <<"--", "size-only">>[1] = "--" /\ <<"--", "size-only">>[2] = "size-only"
    OBVIOUS
  <2> QED BY <2>1, <2>2, <2>3, LongFound
<1>4. findOption(rsyncTable, <<"--", "delete">>) = {Row("delete", None, "delete_mode", 1)}
  <2>1. Row("delete", None, "delete_mode", 1) \in rsyncTable /\ Row("delete", None, "delete_mode", 1).long = "delete"
    BY DEF rsyncTable, SwitchTable, OtherTable, Row
  <2>2. ASSUME NEW other \in rsyncTable, other.long = "delete"
        PROVE  other = Row("delete", None, "delete_mode", 1)
    BY <2>2, Named DEF rsyncTable, SwitchTable, OtherTable, Row
  <2>3. <<"--", "delete">>[1] = "--" /\ <<"--", "delete">>[2] = "delete"
    OBVIOUS
  <2> QED BY <2>1, <2>2, <2>3, LongFound
<1>5. findOption(rsyncTable, <<"--", "daemon">>) = {Row("daemon", None, "daemon", 0)}
  <2>1. Row("daemon", None, "daemon", 0) \in rsyncTable /\ Row("daemon", None, "daemon", 0).long = "daemon"
    BY DEF rsyncTable, SwitchTable, OtherTable, Row
  <2>2. ASSUME NEW other \in rsyncTable, other.long = "daemon"
        PROVE  other = Row("daemon", None, "daemon", 0)
    BY <2>2, Named DEF rsyncTable, SwitchTable, OtherTable, Row
  <2>3. <<"--", "daemon">>[1] = "--" /\ <<"--", "daemon">>[2] = "daemon"
    OBVIOUS
  <2> QED BY <2>1, <2>2, <2>3, LongFound
<1>6. ASSUME NEW value
      PROVE  findOption(rsyncTable, <<"--", "timeout", value>>) = {Row("timeout", None, "argument", 0)}
  <2>1. Row("timeout", None, "argument", 0) \in rsyncTable /\ Row("timeout", None, "argument", 0).long = "timeout"
    BY DEF rsyncTable, SwitchTable, OtherTable, Row
  <2>2. ASSUME NEW other \in rsyncTable, other.long = "timeout"
        PROVE  other = Row("timeout", None, "argument", 0)
    BY <2>2, Named DEF rsyncTable, SwitchTable, OtherTable, Row
  <2>3. <<"--", "timeout", value>>[1] = "--" /\ <<"--", "timeout", value>>[2] = "timeout"
    OBVIOUS
  <2> QED BY <2>1, <2>2, <2>3, LongFound
<1> QED BY <1>1, <1>2, <1>3, <1>4, <1>5, <1>6

\* An option that only sets a field.
LEMMA SwitchApplies ==
  ASSUME NEW p, ~p.failed, p.am_daemon # 1, NEW item, Len(item) = 2,
         NEW row, findOption(rsyncTable, item) = {row},
         row.field \notin {"special", "argument", "daemon"}, NEW all
  PROVE  Apply(p, item, all) = [p EXCEPT ![row.field] = row.val]
<1>1. (CHOOSE x \in findOption(rsyncTable, item) : TRUE) = row
  OBVIOUS
<1>2. findOption(rsyncTable, item) # {} /\ ~(Len(item) = 1) /\ ~(Len(item) > 2)
  OBVIOUS
<1>3. ~(row.field = "special") /\ ~(row.field = "argument") /\ ~(row.field = "daemon")
  OBVIOUS
<1>4. ~(p.failed \/ p.am_daemon = 1)
  OBVIOUS
<1> QED BY <1>1, <1>2, <1>3, <1>4, Zenon DEF Apply

\* An option ParseArguments is asked about.
LEMMA SpecialApplies ==
  ASSUME NEW p, ~p.failed, p.am_daemon # 1, NEW item, Len(item) = 2,
         NEW row, findOption(rsyncTable, item) = {row}, row.field = "special", NEW all
  PROVE  Apply(p, item, all)
           = Special(p, IF row.long = None THEN row.short ELSE row.long)
<1>1. (CHOOSE x \in findOption(rsyncTable, item) : TRUE) = row
  OBVIOUS
<1>2. findOption(rsyncTable, item) # {} /\ ~(Len(item) = 1) /\ ~(Len(item) > 2)
  OBVIOUS
<1>3. ~(row.field = "daemon")
  OBVIOUS
<1>4. ~(p.failed \/ p.am_daemon = 1)
  OBVIOUS
<1> QED BY <1>1, <1>2, <1>3, <1>4, Zenon DEF Apply

\* The switches that are told if they are on.
ToldAsIs ==
  {"size_only", "verbose", "update_only", "dry_run", "preserve_links", "preserve_uid",
   "preserve_gid", "preserve_devices", "preserve_mtimes", "preserve_perms",
   "always_checksum", "ignore_times"}

\* What a server makes of the options its client tells it, before it looks at
\* what follows from them.
Told(o) ==
  [f \in Fields |->
     IF f = "am_server" THEN 1
     ELSE IF f = "am_sender" THEN (IF Sender(o) THEN 0 ELSE 1)
     ELSE IF f = "whole_file" THEN (IF On(o, f) THEN 1 ELSE -1)
     ELSE IF f = "preserve_specials" THEN (IF On(o, "preserve_devices") THEN 1 ELSE 0)
     ELSE IF f = "recurse" THEN (IF On(o, f) THEN 2 ELSE 0)
     ELSE IF f = "xfer_dirs" THEN (IF ~Recurse(o) /\ On(o, f) THEN 2 ELSE -1)
     ELSE IF f = "io_timeout" THEN o.io_timeout
     ELSE IF f = "delete_mode" THEN (IF DeleteMode(o) THEN 1 ELSE 0)
     ELSE IF f \in ToldAsIs THEN (IF On(o, f) THEN 1 ELSE 0)
     ELSE Defaults[f]]

\* p has heard of the fields in F.
Learnt(p, o, F) ==
  /\ p = [f \in Fields |-> p[f]]
  /\ \A f \in Fields : p[f] = IF f \in F THEN Told(o)[f] ELSE Defaults[f]

\* The fields, one by one.
LEMMA FieldsAre ==
  Fields = {"am_server", "am_sender", "am_daemon", "local_server", "dry_run",
    "preserve_links", "preserve_uid", "preserve_gid", "preserve_devices",
    "preserve_specials", "preserve_mtimes", "preserve_perms", "preserve_hard_links",
    "recurse", "xfer_dirs", "always_checksum", "delete_mode", "update_only",
    "ignore_times", "size_only", "whole_file", "list_only", "verbose", "io_timeout",
    "shell_cmd", "filterRules", "remaining", "failed"}
  BY DEF Fields, Defaults

\* The fields and their values, one by one.
LEMMA ToldIs ==
  ASSUME NEW o
  PROVE  /\ Told(o).am_server = 1 /\ Told(o).am_sender = (IF Sender(o) THEN 0 ELSE 1)
         /\ \A f \in ToldAsIs : Told(o)[f] = (IF On(o, f) THEN 1 ELSE 0)
         /\ Told(o).preserve_specials = (IF On(o, "preserve_devices") THEN 1 ELSE 0)
         /\ Told(o).whole_file = (IF On(o, "whole_file") THEN 1 ELSE -1)
         /\ Told(o).recurse = (IF On(o, "recurse") THEN 2 ELSE 0)
         /\ Told(o).xfer_dirs = (IF ~Recurse(o) /\ On(o, "xfer_dirs") THEN 2 ELSE -1)
         /\ Told(o).io_timeout = o.io_timeout
         /\ Told(o).delete_mode = (IF DeleteMode(o) THEN 1 ELSE 0)
         /\ \A f \in {"failed", "am_daemon", "local_server", "preserve_hard_links",
                       "list_only", "shell_cmd", "filterRules", "remaining"} :
              Told(o)[f] = Defaults[f]
         /\ Told(o) = [f \in Fields |-> Told(o)[f]]
<1>1. Told(o).am_server = 1 /\ Told(o).am_sender = (IF Sender(o) THEN 0 ELSE 1)
  BY FieldsAre DEF Told
<1>2. \A f \in ToldAsIs : Told(o)[f] = (IF On(o, f) THEN 1 ELSE 0)
  BY FieldsAre DEF Told, ToldAsIs
<1>3. /\ Told(o).preserve_specials = (IF On(o, "preserve_devices") THEN 1 ELSE 0)
      /\ Told(o).whole_file = (IF On(o, "whole_file") THEN 1 ELSE -1)
      /\ Told(o).recurse = (IF On(o, "recurse") THEN 2 ELSE 0)
  BY FieldsAre DEF Told
<1>4. /\ Told(o).xfer_dirs = (IF ~Recurse(o) /\ On(o, "xfer_dirs") THEN 2 ELSE -1)
      /\ Told(o).io_timeout = o.io_timeout
      /\ Told(o).delete_mode = (IF DeleteMode(o) THEN 1 ELSE 0)
  BY FieldsAre DEF Told
<1>5. \A f \in {"failed", "am_daemon", "local_server", "preserve_hard_links", "list_only",
                 "shell_cmd", "filterRules", "remaining"} : Told(o)[f] = Defaults[f]
  BY FieldsAre DEF Told, ToldAsIs
<1>6. Told(o) = [f \in Fields |-> Told(o)[f]]
  BY DEF Told
<1> QED BY <1>1, <1>2, <1>3, <1>4, <1>5, <1>6

\* Before anything is told, every field has its default.
LEMMA LearntStarts ==
  ASSUME NEW o
  PROVE  Learnt(Defaults, o, {})
  BY DEF Learnt, Fields, Defaults

\* A field is told, or it is not, because it has its default.
LEMMA LearntMore ==
  ASSUME NEW p, NEW o, NEW F, Learnt(p, o, F), NEW field \in Fields
  PROVE  /\ Learnt([p EXCEPT ![field] = Told(o)[field]], o, F \cup {field})
         /\ Told(o)[field] = Defaults[field] => Learnt(p, o, F \cup {field})
<1> DEFINE next == [p EXCEPT ![field] = Told(o)[field]]
<1>1. DOMAIN p = Fields
  BY DEF Learnt
<1>2. next = [f \in Fields |-> next[f]]
  BY <1>1
<1>3. \A f \in Fields : next[f] = IF f = field THEN Told(o)[field] ELSE p[f]
  BY <1>1
<1> HIDE DEF next
<1>4. Learnt(next, o, F \cup {field})
  BY <1>2, <1>3 DEF Learnt
<1>5. Told(o)[field] = Defaults[field] => Learnt(p, o, F \cup {field})
  BY DEF Learnt
<1> QED BY <1>4, <1>5 DEF next

\* Nothing that is told ends the parsing.
LEMMA LearntOpen ==
  ASSUME NEW p, NEW o, NEW F, Learnt(p, o, F)
  PROVE  ~p.failed /\ p.am_daemon # 1
<1>1. Defaults.failed = FALSE /\ Defaults.am_daemon = 0
  BY DEF Defaults
<1>2. Told(o)["failed"] = Defaults["failed"] /\ Told(o)["am_daemon"] = Defaults["am_daemon"]
  BY ToldIs
<1>3. p["failed"] = FALSE /\ p["am_daemon"] = 0
  BY <1>1, <1>2, FieldsAre DEF Learnt
<1> QED BY <1>3

Dashed(str) == [j \in 1 .. Len(str) |-> <<"-", str[j]>>]

\* The options after some arguments and some letters of a cluster.
After(args, str, all) == Parsed(Defaults, Items(args) \o Dashed(str), all)

\* The letters of a cluster as options of their own: none, or one more.
LEMMA DashedSteps ==
  ASSUME NEW P, "-" \in P, NEW str \in Seq(P), NEW l \in P
  PROVE  /\ Dashed(<<>>) = <<>>
         /\ Dashed(str) \in Seq(Seq(P))
         /\ Dashed(str \o <<l>>) = Append(Dashed(str), <<"-", l>>)
         /\ str # <<>> => Split(<<"-">> \o str) = Dashed(str)
<1>1. Dashed(<<>>) = <<>>
  BY DEF Dashed
<1>2. Dashed(str) \in Seq(Seq(P))
  <2>1. \A j \in 1 .. Len(str) : <<"-", str[j]>> \in Seq(P)
    <3>1. SUFFICES ASSUME NEW j \in 1 .. Len(str) PROVE <<"-", str[j]>> \in Seq(P)
      OBVIOUS
    <3>2. str[j] \in P
      OBVIOUS
    <3> QED BY <3>2
  <2> QED BY <2>1 DEF Dashed
<1>3. Dashed(str \o <<l>>) = Append(Dashed(str), <<"-", l>>)
  <2> DEFINE more == str \o <<l>>
  <2>1. Len(more) = Len(str) + 1 /\ more[Len(str) + 1] = l
        /\ (\A j \in 1 .. Len(str) : more[j] = str[j]) /\ Len(str) \in Nat
    OBVIOUS
  <2> HIDE DEF more
  <2>2. Dashed(more) = [j \in 1 .. Len(str) + 1 |-> <<"-", more[j]>>]
    BY <2>1 DEF Dashed
  <2>3. Len(Dashed(str)) = Len(str) /\ \A j \in 1 .. Len(str) : Dashed(str)[j] = <<"-", str[j]>>
    BY <2>1 DEF Dashed
  <2>4. <<"-", l>> \in Seq(P)
    OBVIOUS
  <2>5. Append(Dashed(str), <<"-", l>>)
          = [j \in 1 .. Len(str) + 1 |-> IF j = Len(str) + 1 THEN <<"-", l>> ELSE Dashed(str)[j]]
    BY <1>2, <2>1, <2>3, <2>4
  <2>6. \A j \in 1 .. Len(str) + 1 :
          <<"-", more[j]>> = IF j = Len(str) + 1 THEN <<"-", l>> ELSE Dashed(str)[j]
    <3>1. SUFFICES ASSUME NEW j \in 1 .. Len(str) + 1, j # Len(str) + 1
                   PROVE  <<"-", more[j]>> = Dashed(str)[j]
      BY <2>1
    <3>2. j \in 1 .. Len(str)
      BY <2>1, <3>1
    <3> QED BY <2>1, <2>3, <3>2
  <2> QED BY <2>2, <2>5, <2>6 DEF more
<1>4. ASSUME str # <<>> PROVE Split(<<"-">> \o str) = Dashed(str)
  <2> DEFINE a == <<"-">> \o str
  <2>1. Len(str) \in Nat /\ Len(str) > 0
    BY <1>4
  <2>2. Len(a) = Len(str) + 1 /\ a[1] = "-" /\ \A j \in 1 .. Len(str) : a[j + 1] = str[j]
    BY <2>1
  <2> HIDE DEF a
  <2>3. IsCluster(a) /\ Len(a) - 1 = Len(str)
    BY <2>1, <2>2 DEF IsCluster
  <2>4. Split(a) = [j \in 1 .. Len(str) |-> <<"-", a[j + 1]>>]
    BY <2>3 DEF Split
  <2> QED BY <2>2, <2>4 DEF Dashed, a
<1> QED BY <1>1, <1>2, <1>3, <1>4

\* Without arguments everything has its default.
LEMMA AfterNothing ==
  ASSUME NEW all
  PROVE  After(<<>>, <<>>, all) = Defaults
<1>1. Items(<<>>) = <<>>
  BY ItemsNothing
<1>2. Dashed(<<>>) = <<>> /\ <<>> \o <<>> = <<>>
  BY DEF Dashed
<1>3. Parsed(Defaults, <<>>, all) = Defaults
  BY ParsedNothing
<1> QED BY <1>1, <1>2, <1>3 DEF After

\* One letter more.
LEMMA AfterLetter ==
  ASSUME NEW P, "-" \in P, NEW args \in Seq(Seq(P)), NEW str \in Seq(P), NEW l \in P, NEW all
  PROVE  After(args, str \o <<l>>, all) = Apply(After(args, str, all), <<"-", l>>, all)
<1> DEFINE before == Items(args) \o Dashed(str)
           x == <<"-", l>>
<1>1. Items(args) \in Seq(Seq(P)) /\ Dashed(str) \in Seq(Seq(P))
  BY ItemsType, DashedSteps
<1>2. before \in Seq(Seq(P)) /\ x \in Seq(P)
  BY <1>1, ConcatProperties
<1>3. Items(args) \o Append(Dashed(str), x) = Append(before, x)
  BY <1>1, <1>2
<1>4. Dashed(str \o <<l>>) = Append(Dashed(str), x)
  BY DashedSteps
<1> HIDE DEF before, x
<1>5. Parsed(Defaults, Append(before, x), all) = Apply(Parsed(Defaults, before, all), x, all)
  BY <1>2, ParsedSteps
<1> QED BY <1>3, <1>4, <1>5 DEF After, before, x

\* One argument more, that is no cluster.
LEMMA AfterArgument ==
  ASSUME NEW P, "-" \in P, NEW args \in Seq(Seq(P)), NEW a \in Seq(P), ~IsCluster(a), NEW all
  PROVE  After(args \o <<a>>, <<>>, all) = Apply(After(args, <<>>, all), a, all)
<1>1. Items(args) \in Seq(Seq(P)) /\ Dashed(<<>>) = <<>>
  BY ItemsType DEF Dashed
<1>2. Items(args \o <<a>>) = Append(Items(args), a)
  <2>1. Items(Append(args, a)) = Items(args) \o Split(a)
    BY ItemsSteps
  <2>2. Split(a) = <<a>>
    BY DEF Split
  <2>3. Items(args) \o <<a>> = Append(Items(args), a) /\ args \o <<a>> = Append(args, a)
    BY <1>1
  <2> QED BY <2>1, <2>2, <2>3
<1>3. Append(Items(args), a) \in Seq(Seq(P))
  BY <1>1
<1>4. Parsed(Defaults, Append(Items(args), a), all)
        = Apply(Parsed(Defaults, Items(args), all), a, all)
  BY <1>1, ParsedSteps
<1>5. /\ Append(Items(args), a) \o <<>> = Append(Items(args), a)
      /\ Items(args) \o <<>> = Items(args)
  BY <1>1, <1>3
<1> QED BY <1>1, <1>2, <1>4, <1>5 DEF After

\* The letters so far are a cluster, and it ends.
LEMMA AfterCluster ==
  ASSUME NEW P, "-" \in P, NEW args \in Seq(Seq(P)), NEW str \in Seq(P), str # <<>>, NEW all
  PROVE  After(args \o << <<"-">> \o str >>, <<>>, all) = After(args, str, all)
<1> DEFINE x == <<"-">> \o str
<1>1. Items(args) \in Seq(Seq(P)) /\ Dashed(str) \in Seq(Seq(P)) /\ Dashed(<<>>) = <<>>
  BY ItemsType, DashedSteps
<1>2. x \in Seq(P)
  OBVIOUS
<1>3. Split(x) = Dashed(str)
  BY DashedSteps
<1> HIDE DEF x
<1>4. Items(args \o <<x>>) = Items(args) \o Dashed(str)
  <2>1. Items(Append(args, x)) = Items(args) \o Split(x)
    BY <1>2, ItemsSteps
  <2>2. args \o <<x>> = Append(args, x)
    BY <1>2
  <2> QED BY <1>3, <2>1, <2>2
<1>5. Items(args) \o Dashed(str) \in Seq(Seq(P))
  BY <1>1, ConcatProperties
<1>6. (Items(args) \o Dashed(str)) \o <<>> = Items(args) \o Dashed(str)
  BY <1>5
<1> QED BY <1>1, <1>4, <1>6 DEF After, x

\* A letter that is there or not.
LEMMA LetterTold ==
  ASSUME NEW P, "-" \in P, NEW args \in Seq(Seq(P)), NEW str \in Seq(P), NEW l \in P, NEW all,
         NEW o, NEW F, Learnt(After(args, str, all), o, F),
         NEW row, findOption(rsyncTable, <<"-", l>>) = {row}, row.field \in Fields,
         NEW piece,
         \/ piece = <<l>> /\ row.val = Told(o)[row.field]
         \/ piece = <<>> /\ Told(o)[row.field] = Defaults[row.field]
  PROVE  /\ str \o piece \in Seq(P)
         /\ Learnt(After(args, str \o piece, all), o, F \cup {row.field})
<1>1. str \o piece \in Seq(P)
  <2>1. str \o <<l>> \in Seq(P) /\ str \o <<>> \in Seq(P)
    OBVIOUS
  <2> QED BY <2>1, Zenon
<1> DEFINE p == After(args, str, all)
<1>2. CASE piece = <<l>> /\ row.val = Told(o)[row.field]
  <2>1. After(args, str \o piece, all) = Apply(p, <<"-", l>>, all)
    <3>1. After(args, str \o <<l>>, all) = Apply(p, <<"-", l>>, all)
      BY AfterLetter
    <3> QED BY <1>2, <3>1, Zenon
  <2>2. ~p.failed /\ p.am_daemon # 1
    BY LearntOpen
  <2>3. Len(<<"-", l>>) = 2
    OBVIOUS
  <2>4. row.field \notin {"special", "argument", "daemon"}
    BY FieldsAre
  <2>5. Apply(p, <<"-", l>>, all) = [p EXCEPT ![row.field] = row.val]
    <3>1. PICK item : item = <<"-", l>>
      OBVIOUS
    <3>2. findOption(rsyncTable, item) = {row} /\ Len(item) = 2
      BY <2>3, <3>1
    <3> HIDE DEF p
    <3>3. Apply(p, item, all) = [p EXCEPT ![row.field] = row.val]
      <4>1. (CHOOSE x \in findOption(rsyncTable, item) : TRUE) = row
        BY <3>2
      <4>2. /\ ~(row.field = "special") /\ ~(row.field = "argument") /\ ~(row.field = "daemon")
            /\ findOption(rsyncTable, item) # {} /\ ~(Len(item) = 1) /\ ~(Len(item) > 2)
            /\ ~(p.failed \/ p.am_daemon = 1)
        BY <2>2, <2>4, <3>2
      <4> QED BY <4>1, <4>2, Zenon DEF Apply
    <3> QED BY <3>1, <3>3, Zenon
  <2>6. Learnt([p EXCEPT ![row.field] = Told(o)[row.field]], o, F \cup {row.field})
    BY LearntMore
  <2> HIDE DEF p
  <2> QED BY <1>1, <1>2, <2>1, <2>5, <2>6, Zenon
<1>3. CASE piece = <<>> /\ Told(o)[row.field] = Defaults[row.field]
  <2>1. str \o piece = str
    BY <1>3
  <2>2. Learnt(p, o, F \cup {row.field})
    BY <1>3, LearntMore
  <2> QED BY <1>1, <2>1, <2>2, Zenon
<1> QED BY <1>2, <1>3

\* A long option that only sets a field, and is there or not.
LEMMA SwitchTold ==
  ASSUME NEW P, "-" \in P, NEW args \in Seq(Seq(P)), NEW a \in Seq(P), Len(a) = 2,
         ~IsCluster(a), NEW all,
         NEW o, NEW F, Learnt(After(args, <<>>, all), o, F),
         NEW row, findOption(rsyncTable, a) = {row}, row.field \in Fields,
         NEW piece,
         \/ piece = <<a>> /\ row.val = Told(o)[row.field]
         \/ piece = <<>> /\ Told(o)[row.field] = Defaults[row.field]
  PROVE  /\ args \o piece \in Seq(Seq(P))
         /\ Learnt(After(args \o piece, <<>>, all), o, F \cup {row.field})
<1>1. args \o piece \in Seq(Seq(P))
  <2>1. args \o <<a>> \in Seq(Seq(P)) /\ args \o <<>> \in Seq(Seq(P))
    OBVIOUS
  <2> QED BY <2>1, Zenon
<1> DEFINE p == After(args, <<>>, all)
<1>2. CASE piece = <<a>> /\ row.val = Told(o)[row.field]
  <2>1. After(args \o piece, <<>>, all) = Apply(p, a, all)
    <3>1. After(args \o <<a>>, <<>>, all) = Apply(p, a, all)
      BY AfterArgument
    <3> QED BY <1>2, <3>1, Zenon
  <2>2. ~p.failed /\ p.am_daemon # 1
    BY LearntOpen
  <2>4. row.field \notin {"special", "argument", "daemon"}
    BY FieldsAre
  <2>5. Apply(p, a, all) = [p EXCEPT ![row.field] = row.val]
    BY <2>2, <2>4, SwitchApplies
  <2>6. Learnt([p EXCEPT ![row.field] = Told(o)[row.field]], o, F \cup {row.field})
    BY LearntMore
  <2> HIDE DEF p
  <2> QED BY <1>1, <1>2, <2>1, <2>5, <2>6, Zenon
<1>3. CASE piece = <<>> /\ Told(o)[row.field] = Defaults[row.field]
  <2>1. args \o piece = args
    BY <1>3
  <2>2. Learnt(p, o, F \cup {row.field})
    BY <1>3, LearntMore
  <2> QED BY <1>1, <2>1, <2>2, Zenon
<1> QED BY <1>2, <1>3

\* The same for a row that is written out.
LEMMA RowTold ==
  ASSUME NEW P, "-" \in P, NEW args \in Seq(Seq(P)), NEW str \in Seq(P), NEW l \in P, NEW all,
         NEW o, NEW F, Learnt(After(args, str, all), o, F),
         NEW long, NEW field \in Fields, NEW val,
         findOption(rsyncTable, <<"-", l>>) = {Row(long, l, field, val)},
         NEW piece,
         \/ piece = <<l>> /\ Told(o)[field] = val
         \/ piece = <<>> /\ Told(o)[field] = Defaults[field]
  PROVE  /\ str \o piece \in Seq(P)
         /\ Learnt(After(args, str \o piece, all), o, F \cup {field})
<1> DEFINE row == Row(long, l, field, val)
<1>1. row.field = field /\ row.val = val
  BY DEF Row
<1> HIDE DEF row
<1>2. findOption(rsyncTable, <<"-", l>>) = {row} /\ row.field \in Fields
  BY <1>1 DEF row
<1>3. \/ piece = <<l>> /\ row.val = Told(o)[row.field]
      \/ piece = <<>> /\ Told(o)[row.field] = Defaults[row.field]
  BY <1>1
<1>4. /\ str \o piece \in Seq(P)
      /\ Learnt(After(args, str \o piece, all), o, F \cup {row.field})
  BY <1>2, <1>3, LetterTold
<1> QED BY <1>1, <1>4

\* The row of -v is asked for by its long name.
LEMMA VerboseNamed == "verbose" # None
  BY Zenon DEF None

\* What ParseArguments makes of the two letters that are not in SwitchTable.
LEMMA SpecialLetters ==
  ASSUME NEW p, ~p.failed, p.am_daemon # 1, NEW all
  PROVE  /\ Apply(p, <<"-", "v">>, all) = [p EXCEPT !["verbose"] = p["verbose"] + 1]
         /\ Apply(p, <<"-", "D">>, all)
              = [[p EXCEPT !["preserve_devices"] = 1] EXCEPT !["preserve_specials"] = 1]
<1>1. Apply(p, <<"-", "v">>, all) = Special(p, "verbose")
  <2> DEFINE row == Row("verbose", "v", "special", 0)
  <2>1. row.field = "special" /\ row.long = "verbose" /\ row.long # None
    BY VerboseNamed DEF Row
  <2> HIDE DEF row
  <2>2. findOption(rsyncTable, <<"-", "v">>) = {row}
    BY LettersFound DEF row
  <2>3. Len(<<"-", "v">>) = 2
    OBVIOUS
  <2> QED BY <2>1, <2>2, <2>3, SpecialApplies
<1>2. Apply(p, <<"-", "D">>, all) = Special(p, "D")
  <2> DEFINE row == Row(None, "D", "special", 0)
  <2>1. row.field = "special" /\ row.long = None /\ row.short = "D"
    BY DEF Row
  <2> HIDE DEF row
  <2>2. findOption(rsyncTable, <<"-", "D">>) = {row}
    BY LettersFound DEF row
  <2>3. Len(<<"-", "D">>) = 2
    OBVIOUS
  <2> QED BY <2>1, <2>2, <2>3, SpecialApplies
<1>3. Special(p, "verbose") = [p EXCEPT !["verbose"] = p["verbose"] + 1]
  BY DEF Special
<1>4. Special(p, "D")
        = [[p EXCEPT !["preserve_devices"] = 1] EXCEPT !["preserve_specials"] = 1]
  BY DEF Special
<1> QED BY <1>1, <1>2, <1>3, <1>4

\* The words a client's own options are made of.
Words ==
  {"-", "--", "server", "sender", "size-only", "timeout", "delete", "v", "u", "n", "l", "W",
   "o", "g", "D", "t", "p", "r", "c", "I", "d"}

\* The letters of ServerOptions, one after the other.
LEMMA LettersTold ==
  ASSUME NEW P, Words \subseteq P, NEW args \in Seq(Seq(P)), NEW all,
         NEW o, NEW F, Learnt(After(args, <<>>, all), o, F), "verbose" \notin F
  PROVE  /\ args \o Letters(o) \in Seq(Seq(P))
         /\ Learnt(After(args \o Letters(o), <<>>, all), o,
                   F \cup {"verbose", "update_only", "dry_run", "preserve_links",
                      "whole_file", "preserve_uid", "preserve_gid",
                      "preserve_devices", "preserve_specials", "preserve_mtimes",
                      "preserve_perms", "recurse", "always_checksum", "ignore_times",
                      "xfer_dirs"})
<1> DEFINE letter(field, l) == IF On(o, field) THEN <<l>> ELSE <<>>
           s0 == letter("verbose", "v")
           F0 == F \cup {"verbose"}
           s1 == s0 \o letter("update_only", "u")
           F1 == F0 \cup {"update_only"}
           s2 == s1 \o letter("dry_run", "n")
           F2 == F1 \cup {"dry_run"}
           s3 == s2 \o letter("preserve_links", "l")
           F3 == F2 \cup {"preserve_links"}
           s4 == s3 \o letter("whole_file", "W")
           F4 == F3 \cup {"whole_file"}
           s5 == s4 \o letter("preserve_uid", "o")
           F5 == F4 \cup {"preserve_uid"}
           s6 == s5 \o letter("preserve_gid", "g")
           F6 == F5 \cup {"preserve_gid"}
           s7 == s6 \o letter("preserve_devices", "D")
           F7 == (F6 \cup {"preserve_devices"}) \cup {"preserve_specials"}
           s8 == s7 \o letter("preserve_mtimes", "t")
           F8 == F7 \cup {"preserve_mtimes"}
           s9 == s8 \o letter("preserve_perms", "p")
           F9 == F8 \cup {"preserve_perms"}
           s10 == s9 \o letter("recurse", "r")
           F10 == F9 \cup {"recurse"}
           s11 == s10 \o letter("always_checksum", "c")
           F11 == F10 \cup {"always_checksum"}
           s12 == s11 \o letter("ignore_times", "I")
           F12 == F11 \cup {"ignore_times"}
           s13 == s12 \o (IF Recurse(o) THEN <<>> ELSE letter("xfer_dirs", "d"))
           F13 == F12 \cup {"xfer_dirs"}
<1> HIDE DEF s0, F0, s1, F1, s2, F2, s3, F3, s4, F4, s5, F5, s6, F6, s7, F7, s8, F8, s9, F9, s10, F10, s11, F11, s12, F12, s13, F13
<1>0. "-" \in P
  BY DEF Words
<1>1. s0 \in Seq(P) /\ Learnt(After(args, s0, all), o, F0)
  <2> DEFINE p == After(args, <<>>, all)
  <2>0. <<>> \in Seq(P) /\ <<"v">> \in Seq(P) /\ "v" \in P /\ <<>> \o <<"v">> = <<"v">>
    BY DEF Words
  <2>1. CASE On(o, "verbose")
    <3>1. s0 = <<"v">>
      BY <2>1 DEF s0
    <3>2. After(args, <<>> \o <<"v">>, all) = Apply(p, <<"-", "v">>, all)
      BY <1>0, <2>0, AfterLetter
    <3>3. ~p.failed /\ p.am_daemon # 1
      BY LearntOpen
    <3>4. Apply(p, <<"-", "v">>, all) = [p EXCEPT !["verbose"] = p["verbose"] + 1]
      BY <3>3, SpecialLetters
    <3>5. p["verbose"] = 0 /\ Told(o)["verbose"] = 1
      <4>1. "verbose" \in Fields /\ Defaults["verbose"] = 0
        BY DEF Fields, Defaults
      <4> HIDE DEF p
      <4> QED BY <2>1, <4>1, ToldIs DEF Learnt, p, ToldAsIs
    <3>6. Learnt([p EXCEPT !["verbose"] = Told(o)["verbose"]], o, F0)
      BY LearntMore, FieldsAre DEF F0
    <3>7. p["verbose"] + 1 = Told(o)["verbose"]
      BY <3>5
    <3> HIDE DEF p
    <3> QED BY <2>0, <3>1, <3>2, <3>4, <3>6, <3>7
  <2>2. CASE ~On(o, "verbose")
    <3>1. s0 = <<>>
      BY <2>2 DEF s0
    <3>2. Told(o)["verbose"] = Defaults["verbose"]
      BY <2>2, ToldIs DEF Defaults, ToldAsIs
    <3> QED BY <2>0, <3>1, <3>2, LearntMore, FieldsAre DEF F0
  <2> QED BY <2>1, <2>2
<1>2. s1 \in Seq(P) /\ Learnt(After(args, s1, all), o, F1)
  <2> DEFINE piece == letter("update_only", "u")
  <2>1. \/ piece = <<"u">> /\ Told(o)["update_only"] = 1
        \/ piece = <<>> /\ Told(o)["update_only"] = Defaults["update_only"]
    BY ToldIs DEF Defaults, ToldAsIs
  <2>2. "u" \in P /\ "update_only" \in Fields
    BY FieldsAre DEF Words
  <2>3. findOption(rsyncTable, <<"-", "u">>) = {Row("update", "u", "update_only", 1)}
    BY LettersFound
  <2>4. s1 = s0 \o piece /\ F1 = F0 \cup {"update_only"}
    BY DEF s1, F1
  <2> HIDE DEF piece
  <2> QED BY <1>0, <1>1, <2>1, <2>2, <2>3, <2>4, RowTold
<1>3. s2 \in Seq(P) /\ Learnt(After(args, s2, all), o, F2)
  <2> DEFINE piece == letter("dry_run", "n")
  <2>1. \/ piece = <<"n">> /\ Told(o)["dry_run"] = 1
        \/ piece = <<>> /\ Told(o)["dry_run"] = Defaults["dry_run"]
    BY ToldIs DEF Defaults, ToldAsIs
  <2>2. "n" \in P /\ "dry_run" \in Fields
    BY FieldsAre DEF Words
  <2>3. findOption(rsyncTable, <<"-", "n">>) = {Row("dry-run", "n", "dry_run", 1)}
    BY LettersFound
  <2>4. s2 = s1 \o piece /\ F2 = F1 \cup {"dry_run"}
    BY DEF s2, F2
  <2> HIDE DEF piece
  <2> QED BY <1>0, <1>2, <2>1, <2>2, <2>3, <2>4, RowTold
<1>4. s3 \in Seq(P) /\ Learnt(After(args, s3, all), o, F3)
  <2> DEFINE piece == letter("preserve_links", "l")
  <2>1. \/ piece = <<"l">> /\ Told(o)["preserve_links"] = 1
        \/ piece = <<>> /\ Told(o)["preserve_links"] = Defaults["preserve_links"]
    BY ToldIs DEF Defaults, ToldAsIs
  <2>2. "l" \in P /\ "preserve_links" \in Fields
    BY FieldsAre DEF Words
  <2>3. findOption(rsyncTable, <<"-", "l">>) = {Row("links", "l", "preserve_links", 1)}
    BY LettersFound
  <2>4. s3 = s2 \o piece /\ F3 = F2 \cup {"preserve_links"}
    BY DEF s3, F3
  <2> HIDE DEF piece
  <2> QED BY <1>0, <1>3, <2>1, <2>2, <2>3, <2>4, RowTold
<1>5. s4 \in Seq(P) /\ Learnt(After(args, s4, all), o, F4)
  <2> DEFINE piece == letter("whole_file", "W")
  <2>1. \/ piece = <<"W">> /\ Told(o)["whole_file"] = 1
        \/ piece = <<>> /\ Told(o)["whole_file"] = Defaults["whole_file"]
    BY ToldIs DEF Defaults, ToldAsIs
  <2>2. "W" \in P /\ "whole_file" \in Fields
    BY FieldsAre DEF Words
  <2>3. findOption(rsyncTable, <<"-", "W">>) = {Row("whole-file", "W", "whole_file", 1)}
    BY LettersFound
  <2>4. s4 = s3 \o piece /\ F4 = F3 \cup {"whole_file"}
    BY DEF s4, F4
  <2> HIDE DEF piece
  <2> QED BY <1>0, <1>4, <2>1, <2>2, <2>3, <2>4, RowTold
<1>6. s5 \in Seq(P) /\ Learnt(After(args, s5, all), o, F5)
  <2> DEFINE piece == letter("preserve_uid", "o")
  <2>1. \/ piece = <<"o">> /\ Told(o)["preserve_uid"] = 1
        \/ piece = <<>> /\ Told(o)["preserve_uid"] = Defaults["preserve_uid"]
    BY ToldIs DEF Defaults, ToldAsIs
  <2>2. "o" \in P /\ "preserve_uid" \in Fields
    BY FieldsAre DEF Words
  <2>3. findOption(rsyncTable, <<"-", "o">>) = {Row("owner", "o", "preserve_uid", 1)}
    BY LettersFound
  <2>4. s5 = s4 \o piece /\ F5 = F4 \cup {"preserve_uid"}
    BY DEF s5, F5
  <2> HIDE DEF piece
  <2> QED BY <1>0, <1>5, <2>1, <2>2, <2>3, <2>4, RowTold
<1>7. s6 \in Seq(P) /\ Learnt(After(args, s6, all), o, F6)
  <2> DEFINE piece == letter("preserve_gid", "g")
  <2>1. \/ piece = <<"g">> /\ Told(o)["preserve_gid"] = 1
        \/ piece = <<>> /\ Told(o)["preserve_gid"] = Defaults["preserve_gid"]
    BY ToldIs DEF Defaults, ToldAsIs
  <2>2. "g" \in P /\ "preserve_gid" \in Fields
    BY FieldsAre DEF Words
  <2>3. findOption(rsyncTable, <<"-", "g">>) = {Row("group", "g", "preserve_gid", 1)}
    BY LettersFound
  <2>4. s6 = s5 \o piece /\ F6 = F5 \cup {"preserve_gid"}
    BY DEF s6, F6
  <2> HIDE DEF piece
  <2> QED BY <1>0, <1>6, <2>1, <2>2, <2>3, <2>4, RowTold
<1>8. s7 \in Seq(P) /\ Learnt(After(args, s7, all), o, F7)
  <2> DEFINE p == After(args, s6, all)
             mid == [p EXCEPT !["preserve_devices"] = Told(o)["preserve_devices"]]
  <2>0. "D" \in P /\ "preserve_devices" \in Fields /\ "preserve_specials" \in Fields
    BY FieldsAre DEF Words
  <2>1. CASE On(o, "preserve_devices")
    <3>1. s7 = s6 \o <<"D">>
      BY <2>1 DEF s7
    <3>2. After(args, s7, all) = Apply(p, <<"-", "D">>, all)
      BY <1>0, <1>7, <2>0, <3>1, AfterLetter
    <3>3. ~p.failed /\ p.am_daemon # 1
      BY <1>7, LearntOpen
    <3>4. Told(o)["preserve_devices"] = 1 /\ Told(o)["preserve_specials"] = 1
      BY <2>1, ToldIs DEF ToldAsIs
    <3>5. Learnt(p, o, F6)
      BY <1>7
    <3> HIDE DEF p
    <3>6. Apply(p, <<"-", "D">>, all)
            = [mid EXCEPT !["preserve_specials"] = Told(o)["preserve_specials"]]
      BY <3>3, <3>4, SpecialLetters
    <3>7. Learnt(mid, o, F6 \cup {"preserve_devices"})
      BY <2>0, <3>5, LearntMore
    <3> HIDE DEF mid
    <3>8. Learnt([mid EXCEPT !["preserve_specials"] = Told(o)["preserve_specials"]], o, F7)
      BY <2>0, <3>7, LearntMore DEF F7
    <3>9. s7 \in Seq(P)
      BY <1>7, <2>0, <3>1
    <3> QED BY <3>2, <3>6, <3>8, <3>9
  <2>2. CASE ~On(o, "preserve_devices")
    <3>1. s7 = s6
      BY <1>7, <2>2 DEF s7
    <3>2. /\ Told(o)["preserve_devices"] = Defaults["preserve_devices"]
          /\ Told(o)["preserve_specials"] = Defaults["preserve_specials"]
      BY <2>2, ToldIs DEF Defaults, ToldAsIs
    <3>3. Learnt(p, o, F6 \cup {"preserve_devices"})
      BY <1>7, <2>0, <3>2, LearntMore
    <3>4. Learnt(p, o, F7)
      BY <2>0, <3>2, <3>3, LearntMore DEF F7
    <3> QED BY <1>7, <3>1, <3>4
  <2> QED BY <2>1, <2>2
<1>9. s8 \in Seq(P) /\ Learnt(After(args, s8, all), o, F8)
  <2> DEFINE piece == letter("preserve_mtimes", "t")
  <2>1. \/ piece = <<"t">> /\ Told(o)["preserve_mtimes"] = 1
        \/ piece = <<>> /\ Told(o)["preserve_mtimes"] = Defaults["preserve_mtimes"]
    BY ToldIs DEF Defaults, ToldAsIs
  <2>2. "t" \in P /\ "preserve_mtimes" \in Fields
    BY FieldsAre DEF Words
  <2>3. findOption(rsyncTable, <<"-", "t">>) = {Row("times", "t", "preserve_mtimes", 1)}
    BY LettersFound
  <2>4. s8 = s7 \o piece /\ F8 = F7 \cup {"preserve_mtimes"}
    BY DEF s8, F8
  <2> HIDE DEF piece
  <2> QED BY <1>0, <1>8, <2>1, <2>2, <2>3, <2>4, RowTold
<1>10. s9 \in Seq(P) /\ Learnt(After(args, s9, all), o, F9)
  <2> DEFINE piece == letter("preserve_perms", "p")
  <2>1. \/ piece = <<"p">> /\ Told(o)["preserve_perms"] = 1
        \/ piece = <<>> /\ Told(o)["preserve_perms"] = Defaults["preserve_perms"]
    BY ToldIs DEF Defaults, ToldAsIs
  <2>2. "p" \in P /\ "preserve_perms" \in Fields
    BY FieldsAre DEF Words
  <2>3. findOption(rsyncTable, <<"-", "p">>) = {Row("perms", "p", "preserve_perms", 1)}
    BY LettersFound
  <2>4. s9 = s8 \o piece /\ F9 = F8 \cup {"preserve_perms"}
    BY DEF s9, F9
  <2> HIDE DEF piece
  <2> QED BY <1>0, <1>9, <2>1, <2>2, <2>3, <2>4, RowTold
<1>11. s10 \in Seq(P) /\ Learnt(After(args, s10, all), o, F10)
  <2> DEFINE piece == letter("recurse", "r")
  <2>1. \/ piece = <<"r">> /\ Told(o)["recurse"] = 2
        \/ piece = <<>> /\ Told(o)["recurse"] = Defaults["recurse"]
    BY ToldIs DEF Defaults, ToldAsIs
  <2>2. "r" \in P /\ "recurse" \in Fields
    BY FieldsAre DEF Words
  <2>3. findOption(rsyncTable, <<"-", "r">>) = {Row("recursive", "r", "recurse", 2)}
    BY LettersFound
  <2>4. s10 = s9 \o piece /\ F10 = F9 \cup {"recurse"}
    BY DEF s10, F10
  <2> HIDE DEF piece
  <2> QED BY <1>0, <1>10, <2>1, <2>2, <2>3, <2>4, RowTold
<1>12. s11 \in Seq(P) /\ Learnt(After(args, s11, all), o, F11)
  <2> DEFINE piece == letter("always_checksum", "c")
  <2>1. \/ piece = <<"c">> /\ Told(o)["always_checksum"] = 1
        \/ piece = <<>> /\ Told(o)["always_checksum"] = Defaults["always_checksum"]
    BY ToldIs DEF Defaults, ToldAsIs
  <2>2. "c" \in P /\ "always_checksum" \in Fields
    BY FieldsAre DEF Words
  <2>3. findOption(rsyncTable, <<"-", "c">>) = {Row("checksum", "c", "always_checksum", 1)}
    BY LettersFound
  <2>4. s11 = s10 \o piece /\ F11 = F10 \cup {"always_checksum"}
    BY DEF s11, F11
  <2> HIDE DEF piece
  <2> QED BY <1>0, <1>11, <2>1, <2>2, <2>3, <2>4, RowTold
<1>13. s12 \in Seq(P) /\ Learnt(After(args, s12, all), o, F12)
  <2> DEFINE piece == letter("ignore_times", "I")
  <2>1. \/ piece = <<"I">> /\ Told(o)["ignore_times"] = 1
        \/ piece = <<>> /\ Told(o)["ignore_times"] = Defaults["ignore_times"]
    BY ToldIs DEF Defaults, ToldAsIs
  <2>2. "I" \in P /\ "ignore_times" \in Fields
    BY FieldsAre DEF Words
  <2>3. findOption(rsyncTable, <<"-", "I">>) = {Row("ignore-times", "I", "ignore_times", 1)}
    BY LettersFound
  <2>4. s12 = s11 \o piece /\ F12 = F11 \cup {"ignore_times"}
    BY DEF s12, F12
  <2> HIDE DEF piece
  <2> QED BY <1>0, <1>12, <2>1, <2>2, <2>3, <2>4, RowTold
<1>14. s13 \in Seq(P) /\ Learnt(After(args, s13, all), o, F13)
  <2> DEFINE piece == (IF Recurse(o) THEN <<>> ELSE letter("xfer_dirs", "d"))
  <2>1. \/ piece = <<"d">> /\ Told(o)["xfer_dirs"] = 2
        \/ piece = <<>> /\ Told(o)["xfer_dirs"] = Defaults["xfer_dirs"]
    BY ToldIs DEF Defaults, ToldAsIs
  <2>2. "d" \in P /\ "xfer_dirs" \in Fields
    BY FieldsAre DEF Words
  <2>3. findOption(rsyncTable, <<"-", "d">>) = {Row("dirs", "d", "xfer_dirs", 2)}
    BY LettersFound
  <2>4. s13 = s12 \o piece /\ F13 = F12 \cup {"xfer_dirs"}
    BY DEF s13, F13
  <2> HIDE DEF piece
  <2> QED BY <1>0, <1>13, <2>1, <2>2, <2>3, <2>4, RowTold
<1>15. Letters(o) = IF s13 = <<>> THEN <<>> ELSE << <<"-">> \o s13 >>
  BY DEF Letters, s0, s1, s2, s3, s4, s5, s6, s7, s8, s9, s10, s11, s12, s13
<1>16. F13 = F \cup {"verbose", "update_only", "dry_run", "preserve_links",
                    "whole_file", "preserve_uid", "preserve_gid",
                    "preserve_devices", "preserve_specials", "preserve_mtimes",
                    "preserve_perms", "recurse", "always_checksum", "ignore_times",
                    "xfer_dirs"}
  BY DEF F0, F1, F2, F3, F4, F5, F6, F7, F8, F9, F10, F11, F12, F13
<1>17. CASE s13 = <<>>
  <2>1. args \o Letters(o) = args
    BY <1>15, <1>17
  <2> QED BY <1>14, <1>16, <1>17, <2>1
<1>18. CASE s13 # <<>>
  <2>1. Letters(o) = << <<"-">> \o s13 >>
    BY <1>15, <1>18
  <2>2. After(args \o << <<"-">> \o s13 >>, <<>>, all) = After(args, s13, all)
    BY <1>0, <1>14, <1>18, AfterCluster
  <2>3. <<"-">> \o s13 \in Seq(P)
    BY <1>0, <1>14
  <2>4. args \o Letters(o) \in Seq(Seq(P))
    <3> DEFINE x == <<"-">> \o s13
    <3> HIDE DEF x
    <3>1. x \in Seq(P)
      BY <2>3 DEF x
    <3>2. args \o <<x>> \in Seq(Seq(P))
      BY <3>1
    <3> QED BY <2>1, <3>2 DEF x
  <2> QED BY <1>14, <1>16, <2>1, <2>2, <2>4
<1> QED BY <1>17, <1>18

\* What the server hears of its mode.
LEMMA ModeTold ==
  ASSUME NEW P, Words \subseteq P, NEW all, NEW o
  PROVE  /\ ServerMode(o) \in Seq(Seq(P))
         /\ Learnt(After(ServerMode(o), <<>>, all), o, {"am_server", "am_sender"})
<1> DEFINE server == <<"--", "server">>
           sender == <<"--", "sender">>
           told == <<server>>
           p == [Defaults EXCEPT !["am_server"] = Told(o)["am_server"]]
<1>1. "-" \in P /\ server \in Seq(P) /\ sender \in Seq(P) /\ Len(server) = 2 /\ Len(sender) = 2
  BY DEF Words
<1>2. ~IsCluster(server) /\ ~IsCluster(sender)
  BY DEF IsCluster
<1>3. ~Defaults.failed /\ Defaults.am_daemon # 1
  BY DEF Defaults
<1>4. Apply(Defaults, server, all) = p
  <2> DEFINE row == Row("server", None, "special", 0)
  <2>1. row.field = "special" /\ row.long = "server" /\ row.long # None
    BY Named DEF Row
  <2> HIDE DEF row
  <2>2. findOption(rsyncTable, server) = {row}
    BY NamesFound DEF row
  <2>3. Apply(Defaults, server, all) = Special(Defaults, "server")
    BY <1>1, <1>3, <2>1, <2>2, SpecialApplies
  <2>4. Special(Defaults, "server") = [Defaults EXCEPT !["am_server"] = 1]
    BY DEF Special
  <2>5. Told(o)["am_server"] = 1
    BY ToldIs
  <2> QED BY <2>3, <2>4, <2>5
<1>5. Learnt(p, o, {"am_server"})
  <2>1. Learnt(p, o, {} \cup {"am_server"})
    BY LearntStarts, LearntMore, FieldsAre
  <2> QED BY <2>1
<1>6. p.am_server # 0
  <2>1. p["am_server"] = Told(o)["am_server"]
    BY <1>5, FieldsAre DEF Learnt
  <2>2. Told(o)["am_server"] = 1
    BY ToldIs
  <2> QED BY <2>1, <2>2
<1> HIDE DEF server, sender, p
<1>7. told \in Seq(Seq(P)) /\ After(told, <<>>, all) = p
  <2>1. <<>> \in Seq(Seq(P)) /\ <<>> \o <<server>> = told
    BY <1>1
  <2>2. After(<<>> \o <<server>>, <<>>, all) = Apply(After(<<>>, <<>>, all), server, all)
    BY <1>1, <1>2, <2>1, AfterArgument
  <2>3. After(<<>>, <<>>, all) = Defaults
    BY AfterNothing
  <2> QED BY <1>1, <1>4, <2>1, <2>2, <2>3
<1> HIDE DEF told
<1>8. CASE Sender(o)
  <2>1. ServerMode(o) = told
    <3>1. ServerMode(o) = told \o <<>>
      BY <1>8 DEF ServerMode, told, server
    <3> QED BY <1>7, <3>1
  <2>2. Told(o)["am_sender"] = Defaults["am_sender"]
    BY <1>8, ToldIs DEF Defaults
  <2>3. Learnt(p, o, {"am_server"} \cup {"am_sender"})
    BY <1>5, <2>2, LearntMore, FieldsAre
  <2>4. {"am_server"} \cup {"am_sender"} = {"am_server", "am_sender"}
    OBVIOUS
  <2> QED BY <1>7, <2>1, <2>3, <2>4
<1>9. CASE ~Sender(o)
  <2>1. ServerMode(o) = told \o <<sender>>
    BY <1>9 DEF ServerMode, told, server, sender
  <2>2. After(told \o <<sender>>, <<>>, all) = Apply(p, sender, all)
    BY <1>1, <1>2, <1>7, AfterArgument
  <2>3. Apply(p, sender, all) = [p EXCEPT !["am_sender"] = 1]
    <3> DEFINE row == Row("sender", None, "special", 0)
    <3>1. row.field = "special" /\ row.long = "sender" /\ row.long # None
      BY Named DEF Row
    <3> HIDE DEF row
    <3>2. findOption(rsyncTable, sender) = {row}
      BY NamesFound DEF row, sender
    <3>3. ~p.failed /\ p.am_daemon # 1
      BY <1>5, LearntOpen
    <3>4. Apply(p, sender, all) = Special(p, "sender")
      BY <1>1, <3>1, <3>2, <3>3, SpecialApplies
    <3>5. Special(p, "sender") = [p EXCEPT !["am_sender"] = 1]
      BY <1>6 DEF Special
    <3> QED BY <3>4, <3>5
  <2>4. Told(o)["am_sender"] = 1
    BY <1>9, ToldIs
  <2>5. Learnt([p EXCEPT !["am_sender"] = Told(o)["am_sender"]], o, {"am_server"} \cup {"am_sender"})
    BY <1>5, LearntMore, FieldsAre
  <2>6. {"am_server"} \cup {"am_sender"} = {"am_server", "am_sender"}
    OBVIOUS
  <2>7. told \o <<sender>> \in Seq(Seq(P))
    BY <1>1, <1>7
  <2> QED BY <2>1, <2>2, <2>3, <2>4, <2>5, <2>6, <2>7
<1> QED BY <1>8, <1>9

\* An option with an argument.
LEMMA TimeoutTold ==
  ASSUME NEW P, Words \subseteq P, NEW args \in Seq(Seq(P)), NEW all,
         NEW o, o.io_timeout \in P, NEW F, Learnt(After(args, <<>>, all), o, F),
         NEW piece,
         piece = IF o.io_timeout = None THEN <<>> ELSE << <<"--", "timeout", o.io_timeout>> >>
  PROVE  /\ args \o piece \in Seq(Seq(P))
         /\ Learnt(After(args \o piece, <<>>, all), o, F \cup {"io_timeout"})
<1> DEFINE p == After(args, <<>>, all)
           value == o.io_timeout
           item == <<"--", "timeout", value>>
<1>1. "-" \in P /\ item \in Seq(P) /\ Len(item) = 3 /\ item[3] = value
  BY DEF Words
<1>2. ~IsCluster(item)
  BY DEF IsCluster
<1>3. Told(o)["io_timeout"] = value
  BY ToldIs
<1>4. CASE value = None
  <2>1. args \o piece = args
    BY <1>4
  <2>2. Told(o)["io_timeout"] = Defaults["io_timeout"]
    BY <1>3, <1>4 DEF Defaults
  <2> QED BY <2>1, <2>2, LearntMore, FieldsAre
<1>5. CASE value # None
  <2>0. findOption(rsyncTable, item) = {Row("timeout", None, "argument", 0)}
    BY NamesFound
  <2>1. piece = <<item>>
    BY <1>5
  <2> HIDE DEF item, value
  <2>2. args \o <<item>> \in Seq(Seq(P))
    BY <1>1
  <2>3. After(args \o <<item>>, <<>>, all) = Apply(p, item, all)
    BY <1>1, <1>2, AfterArgument
  <2>4. ~p.failed /\ p.am_daemon # 1
    BY LearntOpen
  <2> HIDE DEF p
  <2>5. Apply(p, item, all) = Argument(p, "timeout", value)
    <3> DEFINE row == Row("timeout", None, "argument", 0)
    <3>1. row.field = "argument" /\ row.long = "timeout" /\ row.long # None
      BY Named DEF Row
    <3> HIDE DEF row
    <3>2. findOption(rsyncTable, item) = {row}
      BY <2>0 DEF row
    <3>3. (CHOOSE x \in findOption(rsyncTable, item) : TRUE) = row
      BY <3>2
    <3>4. findOption(rsyncTable, item) # {} /\ ~(Len(item) = 1) /\ ~(Len(item) = 2)
      BY <1>1, <3>2
    <3>5. ~(row.field = "daemon") /\ ~(row.field = "special")
      BY <3>1
    <3>6. ~(p.failed \/ p.am_daemon = 1)
      BY <2>4
    <3> QED BY <1>1, <3>1, <3>3, <3>4, <3>5, <3>6, Zenon DEF Apply
  <2>6. Argument(p, "timeout", value) = [p EXCEPT !["io_timeout"] = value]
    BY DEF Argument
  <2>7. Learnt([p EXCEPT !["io_timeout"] = Told(o)["io_timeout"]], o, F \cup {"io_timeout"})
    BY LearntMore, FieldsAre DEF p
  <2> QED BY <1>3, <2>1, <2>2, <2>3, <2>5, <2>6, <2>7
<1> QED BY <1>4, <1>5

\* Everything is told, and nothing else.
LEMMA LearntAll ==
  ASSUME NEW p, NEW o, NEW F, Learnt(p, o, F),
         {"am_server", "am_sender", "size_only", "verbose", "update_only", "dry_run",
          "preserve_links", "whole_file", "preserve_uid", "preserve_gid", "preserve_devices",
          "preserve_specials", "preserve_mtimes", "preserve_perms", "recurse",
          "always_checksum", "ignore_times", "xfer_dirs", "io_timeout", "delete_mode"}
           \subseteq F
  PROVE  p = Told(o)
<1>1. ASSUME NEW f \in Fields, f \notin F
      PROVE  Told(o)[f] = Defaults[f]
  <2>1. f \in {"am_daemon", "local_server", "preserve_hard_links", "list_only", "shell_cmd",
               "filterRules", "remaining", "failed"}
    BY <1>1, FieldsAre
  <2> QED BY <2>1, ToldIs
<1>2. \A f \in Fields : p[f] = Told(o)[f]
  BY <1>1 DEF Learnt
<1>3. p = [f \in Fields |-> p[f]]
  BY DEF Learnt
<1>4. Told(o) = [f \in Fields |-> Told(o)[f]]
  BY ToldIs
<1> QED BY <1>2, <1>3, <1>4

\* The whole of what a client tells its server.
LEMMA OptionsTold ==
  ASSUME NEW P, Words \subseteq P, NEW all, NEW o, o.io_timeout \in P
  PROVE  /\ ServerOptions(o) \in Seq(Seq(P))
         /\ After(ServerOptions(o), <<>>, all) = Told(o)
<1> DEFINE size == IF On(o, "size_only") THEN << <<"--", "size-only">> >> ELSE <<>>
           time == IF o.io_timeout = None THEN <<>>
                   ELSE << <<"--", "timeout", o.io_timeout>> >>
           a1 == ServerMode(o)
           a2 == a1 \o size
           a3 == a2 \o Letters(o)
           a4 == a3 \o time
           a5 == a4 \o DeleteArg(o)
           F1 == {"am_server", "am_sender"}
           F2 == F1 \cup {"size_only"}
           F3 == F2 \cup {"verbose", "update_only", "dry_run", "preserve_links",
                      "whole_file", "preserve_uid", "preserve_gid",
                      "preserve_devices", "preserve_specials", "preserve_mtimes",
                      "preserve_perms", "recurse", "always_checksum", "ignore_times",
                      "xfer_dirs"}
           F4 == F3 \cup {"io_timeout"}
           F5 == F4 \cup {"delete_mode"}
           row2 == Row("size-only", None, "size_only", 1)
           row5 == Row("delete", None, "delete_mode", 1)
           x2 == <<"--", "size-only">>
           x5 == <<"--", "delete">>
<1>0. /\ x2 \in Seq(P) /\ x5 \in Seq(P) /\ Len(x2) = 2 /\ Len(x5) = 2
      /\ ~IsCluster(x2) /\ ~IsCluster(x5) /\ "-" \in P
  BY DEF Words, IsCluster
<1>1. /\ row2.field = "size_only" /\ row2.val = 1 /\ row5.field = "delete_mode" /\ row5.val = 1
      /\ "size_only" \in Fields /\ "delete_mode" \in Fields /\ "verbose" \notin F2
  BY FieldsAre DEF Row
<1>2. findOption(rsyncTable, x2) = {row2} /\ findOption(rsyncTable, x5) = {row5}
  BY NamesFound
<1>3. \/ size = <<x2>> /\ row2.val = Told(o)[row2.field]
      \/ size = <<>> /\ Told(o)[row2.field] = Defaults[row2.field]
  <2>1. Told(o)["size_only"] = (IF On(o, "size_only") THEN 1 ELSE 0) /\ Defaults["size_only"] = 0
    BY ToldIs DEF Defaults, ToldAsIs
  <2> QED BY <1>1, <2>1
<1>4. \/ DeleteArg(o) = <<x5>> /\ row5.val = Told(o)[row5.field]
      \/ DeleteArg(o) = <<>> /\ Told(o)[row5.field] = Defaults[row5.field]
  <2>1. /\ Told(o)["delete_mode"] = (IF DeleteMode(o) THEN 1 ELSE 0)
        /\ Defaults["delete_mode"] = 0
    BY ToldIs DEF Defaults
  <2> QED BY <1>1, <2>1 DEF DeleteArg
<1>5. ServerOptions(o) = a5
  BY DEF ServerOptions
<1>6. {"am_server", "am_sender", "size_only", "verbose", "update_only", "dry_run",
          "preserve_links", "whole_file", "preserve_uid", "preserve_gid", "preserve_devices",
          "preserve_specials", "preserve_mtimes", "preserve_perms", "recurse",
          "always_checksum", "ignore_times", "xfer_dirs", "io_timeout", "delete_mode"}
        \subseteq F5
  OBVIOUS
<1> HIDE DEF size, a1, a2, a3, a4, a5, row2, row5, x2, x5, F1, F2, F3, F4, F5
<1>7. a1 \in Seq(Seq(P)) /\ Learnt(After(a1, <<>>, all), o, F1)
  BY ModeTold DEF a1, F1
<1>8. a2 \in Seq(Seq(P)) /\ Learnt(After(a2, <<>>, all), o, F2)
  <2>1. a2 = a1 \o size /\ F2 = F1 \cup {row2.field}
    BY <1>1 DEF a2, F2
  <2>2. row2.field \in Fields
    BY <1>1
  <2>3. a1 \o size \in Seq(Seq(P)) /\ Learnt(After(a1 \o size, <<>>, all), o, F1 \cup {row2.field})
    BY <1>0, <1>2, <1>3, <1>7, <2>2, SwitchTold
  <2> QED BY <2>1, <2>3
<1>9. a3 \in Seq(Seq(P)) /\ Learnt(After(a3, <<>>, all), o, F3)
  BY <1>1, <1>8, LettersTold DEF a3, F3
<1>10. a4 \in Seq(Seq(P)) /\ Learnt(After(a4, <<>>, all), o, F4)
  BY <1>9, TimeoutTold DEF a4, F4
<1>11. a5 \in Seq(Seq(P)) /\ Learnt(After(a5, <<>>, all), o, F5)
  <2>1. a5 = a4 \o DeleteArg(o) /\ F5 = F4 \cup {row5.field}
    BY <1>1 DEF a5, F5
  <2>2. row5.field \in Fields
    BY <1>1
  <2>3. /\ a4 \o DeleteArg(o) \in Seq(Seq(P))
        /\ Learnt(After(a4 \o DeleteArg(o), <<>>, all), o, F4 \cup {row5.field})
    BY <1>0, <1>2, <1>4, <1>10, <2>2, SwitchTold
  <2> QED BY <2>1, <2>3, Zenon
<1>12. After(a5, <<>>, all) = Told(o)
  BY <1>6, <1>11, LearntAll
<1> QED BY <1>5, <1>11, <1>12

\* Parsing goes on.
GoesOn(p) == ~p.failed /\ p.am_daemon # 1

Operand(p, x) == [p EXCEPT !.remaining = Append(p.remaining, x)]

\* An operand after the options.
LEMMA OperandAfter ==
  ASSUME NEW P, "-" \in P, NEW args \in Seq(Seq(P)), NEW x \in P, NEW all,
         GoesOn(After(args, <<>>, all)), NEW item, item = <<x>>
  PROVE  /\ args \o <<item>> \in Seq(Seq(P))
         /\ After(args \o <<item>>, <<>>, all) = Operand(After(args, <<>>, all), x)
<1> DEFINE p == After(args, <<>>, all)
<1>1. item \in Seq(P) /\ Len(item) = 1 /\ item[1] = x /\ ~IsCluster(item)
  BY DEF IsCluster
<1> HIDE DEF p
<1>2. After(args \o <<item>>, <<>>, all) = Apply(p, item, all)
  BY <1>1, AfterArgument DEF p
<1>3. ~(p.failed \/ p.am_daemon = 1)
  BY DEF p, GoesOn
<1>4. Apply(p, item, all) = [p EXCEPT !.remaining = Append(@, item[1])]
  BY <1>1, <1>3, Zenon DEF Apply
<1>5. args \o <<item>> \in Seq(Seq(P))
  BY <1>1
<1> QED BY <1>1, <1>2, <1>4, <1>5 DEF p, Operand

\* Operands are kept in their order.
LEMMA AppendOne == ASSUME NEW x PROVE Append(<<>>, x) = <<x>>
OBVIOUS

\* One thing after another.
LEMMA AppendTwo == ASSUME NEW x, NEW y PROVE Append(<<x>>, y) = <<x, y>>
<1> DEFINE s == Append(<<x>>, y)
           t == <<x, y>>
<1>1. <<x>> \in Seq({x, y}) /\ Len(<<x>>) = 1 /\ <<x>>[1] = x
  OBVIOUS
<1>2. s \in Seq({x, y}) /\ Len(s) = 2 /\ s[1] = x /\ s[2] = y
  BY <1>1
<1>3. t \in Seq({x, y}) /\ Len(t) = 2 /\ t[1] = x /\ t[2] = y
  OBVIOUS
<1> HIDE DEF s, t
<1>4. s = [i \in 1 .. 2 |-> s[i]] /\ t = [i \in 1 .. 2 |-> t[i]]
  BY <1>2, <1>3
<1>5. \A i \in 1 .. 2 : s[i] = t[i]
  BY <1>2, <1>3
<1> QED BY <1>4, <1>5 DEF s, t

\* The last step of ParseArguments.
LEMMA ParseIs ==
  ASSUME NEW args, NEW o, o = Parsed(Defaults, Items(args), Items(args))
  PROVE  ParseArguments(args) = IF o.failed \/ o.am_daemon = 1 THEN o ELSE Implied(o)
<1> DEFINE items == Items(args)
           after == CHOOSE h : h = [i \in 0 .. Len(items) |->
                                      IF i = 0 THEN Defaults
                                      ELSE Apply(h[i - 1], items[i], items)]
           last == after[Len(items)]
<1>1. o = last
  BY DEF Parsed
<1>2. ParseArguments(args) = IF last.failed \/ last.am_daemon = 1 THEN last ELSE Implied(last)
  BY DEF ParseArguments
<1> HIDE DEF last
<1> QED BY <1>1, <1>2, Zenon

\* What the server of a client has parsed, before what follows from it.
Server1(o, path) == [Told(o) EXCEPT !.remaining = <<".", path>>]

\* A server hears exactly what its client tells it (serveroptions.go, and rsyncopts.go
\* again), whatever the client's options are.
THEOREM ServerHears ==
  ASSUME NEW o, NEW path
  PROVE  ParseArguments(CommandOptions(o, path)) = Implied(Server1(o, path))
<1> DEFINE P == Words \cup {".", path, o.io_timeout}
           args == CommandOptions(o, path)
           all == Items(args)
           told == ServerOptions(o)
           p1 == [Told(o) EXCEPT !.remaining = Append(Told(o).remaining, ".")]
           p2 == [p1 EXCEPT !.remaining = Append(p1.remaining, path)]
<1>1. Words \subseteq P /\ "-" \in P /\ "." \in P /\ path \in P /\ o.io_timeout \in P
  BY DEF Words
<1>2. ~Told(o).failed /\ Told(o).am_daemon # 1 /\ Told(o).remaining = <<>>
      /\ Told(o) = [f \in Fields |-> Told(o)[f]]
  <2>1. Told(o)["failed"] = Defaults["failed"] /\ Told(o)["am_daemon"] = Defaults["am_daemon"]
        /\ Told(o)["remaining"] = Defaults["remaining"]
        /\ Told(o) = [f \in Fields |-> Told(o)[f]]
    BY ToldIs
  <2>2. Defaults["failed"] = FALSE /\ Defaults["am_daemon"] = 0 /\ Defaults["remaining"] = <<>>
    BY DEF Defaults
  <2> QED BY <2>1, <2>2
<1>3. p2 = Server1(o, path) /\ ~p1.failed /\ p1.am_daemon # 1 /\ ~p2.failed /\ p2.am_daemon # 1
  <2>1. "remaining" \in Fields /\ "failed" \in Fields /\ "am_daemon" \in Fields
    BY FieldsAre
  <2>2. Append(<<>>, ".") = <<".">> /\ Append(<<".">>, path) = <<".", path>>
    BY AppendOne, AppendTwo
  <2>3. DOMAIN Told(o) = Fields
    BY <1>2
  <2>4. p1 = [Told(o) EXCEPT !.remaining = <<".">>] /\ p1.remaining = <<".">>
    BY <1>2, <2>1, <2>2, <2>3
  <2>5. p2 = [p1 EXCEPT !.remaining = <<".", path>>]
    BY <2>2, <2>4
  <2>6. p2 = [Told(o) EXCEPT !.remaining = <<".", path>>]
    <3> HIDE DEF p1, p2
    <3> QED BY <2>4, <2>5
  <2>7. p1["failed"] = Told(o)["failed"] /\ p1["am_daemon"] = Told(o)["am_daemon"]
        /\ p2["failed"] = Told(o)["failed"] /\ p2["am_daemon"] = Told(o)["am_daemon"]
    BY <2>1, <2>3
  <2> QED BY <1>2, <2>6, <2>7 DEF Server1
<1>4. told \in Seq(Seq(P)) /\ After(told, <<>>, all) = Told(o)
  <2> HIDE DEF P, all
  <2> QED BY <1>1, OptionsTold
<1> HIDE DEF P, all, told, p1, p2
<1>5. /\ told \o << <<".">> >> \in Seq(Seq(P))
      /\ After(told \o << <<".">> >>, <<>>, all) = p1
  <2> DEFINE dot == "."
             item == <<dot>>
  <2>1. GoesOn(After(told, <<>>, all))
    BY <1>2, <1>4 DEF GoesOn
  <2> HIDE DEF dot, item
  <2>2. dot \in P /\ item = <<dot>>
    BY <1>1 DEF dot, item
  <2>3. /\ told \o <<item>> \in Seq(Seq(P))
        /\ After(told \o <<item>>, <<>>, all) = Operand(After(told, <<>>, all), dot)
    BY <1>1, <1>4, <2>1, <2>2, OperandAfter
  <2> QED BY <1>4, <2>3 DEF dot, item, p1, Operand
<1>6. /\ (told \o << <<".">> >>) \o << <<path>> >> \in Seq(Seq(P))
      /\ After((told \o << <<".">> >>) \o << <<path>> >>, <<>>, all) = p2
  <2> DEFINE args1 == told \o << <<".">> >>
             item == <<path>>
  <2>1. /\ GoesOn(After(args1, <<>>, all)) /\ args1 \in Seq(Seq(P))
        /\ After(args1, <<>>, all) = p1
    BY <1>3, <1>5 DEF GoesOn
  <2>2. item = <<path>>
    OBVIOUS
  <2> HIDE DEF args1, item
  <2>3. /\ args1 \o <<item>> \in Seq(Seq(P))
        /\ After(args1 \o <<item>>, <<>>, all) = Operand(After(args1, <<>>, all), path)
    BY <1>1, <2>1, <2>2, OperandAfter
  <2> QED BY <2>1, <2>3 DEF args1, item, p2, Operand
<1>7. args = (told \o << <<".">> >>) \o << <<path>> >>
  <2>1. args = told \o << <<".">>, <<path>> >>
    BY DEF CommandOptions, told
  <2>2. <<".">> \in Seq(P) /\ <<path>> \in Seq(P)
    BY <1>1
  <2> DEFINE a == <<".">>
             b == <<path>>
  <2> HIDE DEF a, b
  <2>3. told \o <<a, b>> = (told \o <<a>>) \o <<b>>
    BY <1>4, <2>2 DEF a, b
  <2> QED BY <2>1, <2>3 DEF a, b
<1>8. args \in Seq(Seq(P)) /\ After(args, <<>>, all) = p2
  BY <1>6, <1>7, Zenon
<1>9. Parsed(Defaults, all, all) = p2
  <2>1. Items(args) \in Seq(Seq(P))
    BY <1>1, <1>8, ItemsType
  <2>2. Items(args) \o Dashed(<<>>) = Items(args)
    <3>1. Dashed(<<>>) = <<>>
      BY DEF Dashed
    <3> QED BY <2>1, <3>1
  <2> QED BY <1>8, <2>2 DEF After, all
<1>10. ParseArguments(args) = IF p2.failed \/ p2.am_daemon = 1 THEN p2 ELSE Implied(p2)
  BY <1>9, ParseIs DEF all
<1>11. ~(p2.failed \/ p2.am_daemon = 1)
  BY <1>3
<1>12. ParseArguments(args) = Implied(p2)
  BY <1>10, <1>11, Zenon
<1> QED BY <1>3, <1>12
-----------------------------------------------------------------------------
(* What a command line can make of the options.                            *)

\* Arguments have at least one part.
NonEmpty(P) == Seq(P) \ {<<>>}

\* Nothing that is split is lost.
LEMMA SplitNonEmpty ==
  ASSUME NEW P, "-" \in P, NEW a \in NonEmpty(P)
  PROVE  Split(a) \in Seq(NonEmpty(P))
<1>1. CASE IsCluster(a)
  <2>1. Len(a) - 1 \in Nat
    BY <1>1 DEF IsCluster, NonEmpty
  <2>2. \A j \in 1 .. Len(a) - 1 : <<"-", a[j + 1]>> \in NonEmpty(P)
    <3>1. SUFFICES ASSUME NEW j \in 1 .. Len(a) - 1 PROVE <<"-", a[j + 1]>> \in NonEmpty(P)
      OBVIOUS
    <3>2. a[j + 1] \in P
      BY <2>1 DEF NonEmpty
    <3>3. <<"-", a[j + 1]>> \in Seq(P) /\ Len(<<"-", a[j + 1]>>) = 2
      BY <3>2
    <3> QED BY <3>3 DEF NonEmpty
  <2>3. Split(a) = [j \in 1 .. Len(a) - 1 |-> <<"-", a[j + 1]>>]
    BY <1>1 DEF Split
  <2> QED BY <2>1, <2>2, <2>3
<1>2. CASE ~IsCluster(a)
  BY <1>2 DEF Split
<1> QED BY <1>1, <1>2

\* Nor is anything lost of a whole command line.
LEMMA ItemsNonEmpty ==
  ASSUME NEW P, "-" \in P, NEW args \in Seq(NonEmpty(P))
  PROVE  Items(args) \in Seq(NonEmpty(P))
<1>1. PICK n \in Nat : n = Len(args)
  OBVIOUS
<1>0. PICK f : Splits(f, args, n)
  BY SplitsExists
<1> DEFINE T == {j \in 0 .. n : f[j] \in Seq(NonEmpty(P))}
<1>2. 0 \in T
  <2>1. <<>> \in Seq(NonEmpty(P))
    OBVIOUS
  <2>2. f[0] = <<>>
    BY <1>0 DEF Splits
  <2>3. f[0] \in Seq(NonEmpty(P))
    BY <2>1, <2>2, Zenon
  <2>4. 0 \in 0 .. n
    OBVIOUS
  <2> QED BY <2>3, <2>4, Zenon
<1>3. ASSUME NEW j \in 1 .. n, j - 1 \in T
      PROVE  j \in T
  <2>1. j \in 0 .. n /\ args[j] \in NonEmpty(P)
    BY <1>1
  <2>2. f[j] = f[j - 1] \o Split(args[j])
    BY <1>0 DEF Splits
  <2>3. Split(args[j]) \in Seq(NonEmpty(P))
    BY <2>1, SplitNonEmpty
  <2>4. f[j - 1] \in Seq(NonEmpty(P))
    BY <1>3
  <2>5. f[j] \in Seq(NonEmpty(P))
    BY <2>2, <2>3, <2>4, ConcatProperties
  <2> QED BY <2>1, <2>5
<1>4. n \in T
  <2> HIDE DEF T
  <2>1. \A j \in 0 .. n : j \in T
    BY <1>2, <1>3, UpTo
  <2> QED BY <2>1
<1> QED BY <1>0, <1>1, <1>4, ItemsSplits

\* The fields that hold a number which is not negative once it is set.
Counts ==
  {"am_server", "am_sender", "local_server", "dry_run", "preserve_links",
   "preserve_uid", "preserve_gid", "preserve_devices", "preserve_specials",
   "preserve_mtimes", "preserve_perms", "preserve_hard_links", "recurse",
   "always_checksum", "delete_mode", "update_only", "ignore_times", "size_only",
   "list_only"}

\* Filter rules made of the parts of arguments.
RuleWords(P) == P \cup ({"- ", "+ "} \X P)

\* The types of the fields that decide what is sent.
Sane(o, P) ==
  /\ o = [f \in Fields |-> o[f]]
  /\ \A f \in Counts : o[f] \in Nat
  /\ o["xfer_dirs"] \in Int
  /\ o["filterRules"] \in Seq(RuleWords(P))

\* tridgeDefaults are such options.
LEMMA DefaultsSane == ASSUME NEW P PROVE Sane(Defaults, P)
<1>1. \A f \in Counts : Defaults[f] \in Nat
  BY DEF Counts, Defaults
<1>2. Defaults["xfer_dirs"] \in Int /\ Defaults["filterRules"] \in Seq(RuleWords(P))
  BY DEF Defaults
<1>3. Defaults = [f \in Fields |-> Defaults[f]]
  BY DEF Defaults, Fields
<1> QED BY <1>1, <1>2, <1>3 DEF Sane

\* Fields are set to values of their types.
LEMMA SaneSet ==
  ASSUME NEW P, NEW o, Sane(o, P), NEW f \in Fields, NEW v,
         f \in Counts => v \in Nat, f = "xfer_dirs" => v \in Int,
         f = "filterRules" => v \in Seq(RuleWords(P))
  PROVE  Sane([o EXCEPT ![f] = v], P)
<1> DEFINE next == [o EXCEPT ![f] = v]
<1>1. DOMAIN o = Fields /\ Counts \subseteq Fields /\ "xfer_dirs" \in Fields
      /\ "filterRules" \in Fields
  BY FieldsAre DEF Sane, Counts
<1>2. next = [g \in Fields |-> next[g]]
  BY <1>1
<1>3. \A g \in Fields : next[g] = IF g = f THEN v ELSE o[g]
  BY <1>1
<1> HIDE DEF next
<1> QED BY <1>1, <1>2, <1>3 DEF Sane, next

\* The rows of the table set numbers, or ask for a special treatment of their names.
LEMMA RowsAre ==
  ASSUME NEW row \in rsyncTable
  PROVE  \/ row.field \in (Counts \cup {"xfer_dirs", "verbose", "whole_file"}) /\ row.val \in Nat
         \/ /\ row.field = "special"
            /\ (IF row.long = None THEN row.short ELSE row.long) \in
                 {"server", "sender", "archive", "D", "no-D", "hard-links", "verbose",
                  "no-timeout"}
         \/ /\ row.field = "argument"
            /\ (IF row.long = None THEN row.short ELSE row.long) \in
                 {"filter", "exclude", "include", "timeout", "rsh"}
         \/ row.field = "daemon"
<1>1. CASE row \in SwitchTable
  BY <1>1 DEF SwitchTable, Row, Counts
<1>2. CASE row \in OtherTable
  <2>1. None \notin {"verbose", "archive", "no-D", "hard-links", "filter", "exclude", "include",
                     "no-timeout", "rsh"}
    BY Zenon DEF None
  <2> QED BY <1>2, <2>1, Named DEF OtherTable, Row, Counts
<1> QED BY <1>1, <1>2 DEF rsyncTable

\* A mistake in the arguments changes no option.
LEMMA SaneFail ==
  ASSUME NEW P, NEW o, Sane(o, P)
  PROVE  Sane(Fail(o), P)
<1>1. Fail(o) = [o EXCEPT !["failed"] = TRUE]
  BY DEF Fail
<1>2. "failed" \in Fields /\ "failed" \notin Counts
  BY FieldsAre DEF Counts
<1>3. Sane([o EXCEPT !["failed"] = TRUE], P)
  BY <1>2, SaneSet
<1> QED BY <1>1, <1>3

\* ParseArguments, for the options it is asked about.
LEMMA SaneSpecial ==
  ASSUME NEW P, NEW o, Sane(o, P),
         NEW name \in {"server", "sender", "archive", "D", "no-D", "hard-links", "verbose",
                       "no-timeout"}
  PROVE  Sane(Special(o, name), P)
<1>1. ASSUME NEW p, Sane(p, P), NEW f \in Counts, NEW v \in Nat
      PROVE  Sane([p EXCEPT ![f] = v], P)
  <2>1. f \in Fields /\ f # "xfer_dirs" /\ f # "filterRules"
    BY FieldsAre DEF Counts
  <2> QED BY <1>1, <2>1, SaneSet
<1>2. ASSUME NEW f \in {"verbose", "io_timeout"}, NEW v
      PROVE  Sane([o EXCEPT ![f] = v], P)
  <2>1. f \in Fields /\ f \notin Counts /\ f # "xfer_dirs" /\ f # "filterRules"
    BY FieldsAre DEF Counts
  <2> QED BY <2>1, SaneSet
<1>3. CASE name = "server"
  <2>1. Special(o, "server") = [o EXCEPT !["am_server"] = 1]
    BY DEF Special
  <2>2. Sane([o EXCEPT !["am_server"] = 1], P)
    BY <1>1 DEF Counts
  <2> QED BY <1>3, <2>1, <2>2
<1>4. CASE name = "sender"
  <2>1. Special(o, "sender") = IF o.am_server = 0 THEN Fail(o) ELSE [o EXCEPT !["am_sender"] = 1]
    BY DEF Special
  <2>2. Sane([o EXCEPT !["am_sender"] = 1], P)
    BY <1>1 DEF Counts
  <2> QED BY <1>4, <2>1, <2>2, SaneFail
<1>5. CASE name = "archive"
  <2> DEFINE o1 == [o EXCEPT !["recurse"] = IF o["recurse"] = 0 THEN 1 ELSE o["recurse"]]
             o2 == [o1 EXCEPT !["preserve_links"] = 1]
             o3 == [o2 EXCEPT !["preserve_perms"] = 1]
             o4 == [o3 EXCEPT !["preserve_mtimes"] = 1]
             o5 == [o4 EXCEPT !["preserve_gid"] = 1]
             o6 == [o5 EXCEPT !["preserve_uid"] = 1]
             o7 == [o6 EXCEPT !["preserve_devices"] = 1]
             o8 == [o7 EXCEPT !["preserve_specials"] = 1]
  <2>1. Special(o, "archive") = o8
    BY DEF Special
  <2>2. (IF o["recurse"] = 0 THEN 1 ELSE o["recurse"]) \in Nat
    BY DEF Sane, Counts
  <2>3. {"recurse", "preserve_links", "preserve_perms", "preserve_mtimes", "preserve_gid",
         "preserve_uid", "preserve_devices", "preserve_specials"} \subseteq Counts
    BY DEF Counts
  <2>4. Sane(o1, P)
    BY <1>1, <2>2, <2>3
  <2> HIDE DEF o1
  <2>5. Sane(o2, P)
    BY <1>1, <2>3, <2>4
  <2> HIDE DEF o2
  <2>6. Sane(o3, P)
    BY <1>1, <2>3, <2>5
  <2> HIDE DEF o3
  <2>7. Sane(o4, P)
    BY <1>1, <2>3, <2>6
  <2> HIDE DEF o4
  <2>8. Sane(o5, P)
    BY <1>1, <2>3, <2>7
  <2> HIDE DEF o5
  <2>9. Sane(o6, P)
    BY <1>1, <2>3, <2>8
  <2> HIDE DEF o6
  <2>10. Sane(o7, P)
    BY <1>1, <2>3, <2>9
  <2> HIDE DEF o7
  <2>11. Sane(o8, P)
    BY <1>1, <2>3, <2>10
  <2> HIDE DEF o8
  <2> QED BY <1>5, <2>1, <2>11
<1>6. ASSUME NEW v \in {0, 1}, name = (IF v = 1 THEN "D" ELSE "no-D")
      PROVE  Sane(Special(o, name), P)
  <2> DEFINE o1 == [o EXCEPT !["preserve_devices"] = v]
             o2 == [o1 EXCEPT !["preserve_specials"] = v]
  <2>1. Special(o, name) = o2
    <3>1. CASE v = 1
      <4>1. Special(o, "D") = [[o EXCEPT !["preserve_devices"] = 1] EXCEPT !["preserve_specials"] = 1]
        BY DEF Special
      <4> QED BY <1>6, <3>1, <4>1
    <3>2. CASE v = 0
      <4>1. Special(o, "no-D") = [[o EXCEPT !["preserve_devices"] = 0] EXCEPT !["preserve_specials"] = 0]
        BY DEF Special
      <4> QED BY <1>6, <3>2, <4>1
    <3> QED BY <3>1, <3>2
  <2>2. Sane(o1, P)
    BY <1>1 DEF Counts
  <2> HIDE DEF o1
  <2>3. Sane(o2, P)
    BY <1>1, <2>2 DEF Counts
  <2> QED BY <2>1, <2>3
<1>7. CASE name = "hard-links"
  <2>1. Special(o, "hard-links") = [o EXCEPT !["preserve_hard_links"] = 1]
    BY DEF Special
  <2>2. Sane([o EXCEPT !["preserve_hard_links"] = 1], P)
    BY <1>1 DEF Counts
  <2> QED BY <1>7, <2>1, <2>2
<1>8. CASE name = "verbose"
  <2>1. Special(o, "verbose") = [o EXCEPT !["verbose"] = o["verbose"] + 1]
    BY DEF Special
  <2> QED BY <1>2, <1>8, <2>1
<1>9. CASE name = "no-timeout"
  <2>1. Special(o, "no-timeout") = [o EXCEPT !["io_timeout"] = None]
    BY DEF Special
  <2> QED BY <1>2, <1>9, <2>1
<1> QED BY <1>3, <1>4, <1>5, <1>6, <1>7, <1>8, <1>9

\* The options with an argument.
LEMMA SaneArgument ==
  ASSUME NEW P, NEW o, Sane(o, P), NEW value \in P,
         NEW name \in {"filter", "exclude", "include", "timeout", "rsh"}
  PROVE  Sane(Argument(o, name, value), P)
<1>1. ASSUME NEW rule \in RuleWords(P)
      PROVE  Sane([o EXCEPT !["filterRules"] = Append(o["filterRules"], rule)], P)
  <2>1. Append(o["filterRules"], rule) \in Seq(RuleWords(P))
    BY DEF Sane
  <2>2. "filterRules" \in Fields /\ "filterRules" \notin Counts
    BY FieldsAre DEF Counts
  <2> QED BY <2>1, <2>2, SaneSet
<1>2. ASSUME NEW f \in {"shell_cmd", "io_timeout"}
      PROVE  Sane([o EXCEPT ![f] = value], P)
  <2>1. f \in Fields /\ f \notin Counts /\ f # "xfer_dirs" /\ f # "filterRules"
    BY FieldsAre DEF Counts
  <2> QED BY <2>1, SaneSet
<1>3. value \in RuleWords(P) /\ <<"- ", value>> \in RuleWords(P) /\ <<"+ ", value>> \in RuleWords(P)
  BY DEF RuleWords
<1>4. CASE name = "filter"
  <2>1. Argument(o, "filter", value) = [o EXCEPT !["filterRules"] = Append(o["filterRules"], value)]
    BY DEF Argument
  <2> QED BY <1>1, <1>3, <1>4, <2>1
<1>5. CASE name = "exclude"
  <2>1. Argument(o, "exclude", value)
          = [o EXCEPT !["filterRules"] = Append(o["filterRules"], <<"- ", value>>)]
    BY DEF Argument
  <2> QED BY <1>1, <1>3, <1>5, <2>1
<1>6. CASE name = "include"
  <2>1. Argument(o, "include", value)
          = [o EXCEPT !["filterRules"] = Append(o["filterRules"], <<"+ ", value>>)]
    BY DEF Argument
  <2> QED BY <1>1, <1>3, <1>6, <2>1
<1>7. CASE name = "timeout"
  <2>1. Argument(o, "timeout", value) = [o EXCEPT !["io_timeout"] = value]
    BY DEF Argument
  <2> QED BY <1>2, <1>7, <2>1
<1>8. CASE name = "rsh"
  <2>1. Argument(o, "rsh", value) = [o EXCEPT !["shell_cmd"] = value]
    BY DEF Argument
  <2> QED BY <1>2, <1>8, <2>1
<1> QED BY <1>4, <1>5, <1>6, <1>7, <1>8

\* The whole command line once more.
LEMMA SaneDaemon ==
  ASSUME NEW P, NEW o, Sane(o, P), NEW items
  PROVE  Sane(ParseDaemon(o, items), P)
<1> DEFINE bad == \E i \in DOMAIN items : NotForDaemon(items[i])
           vs == DaemonVerbose(o["verbose"], items)
           server == IF \E i \in DOMAIN items : items[i] = <<"--", "server">>
                     THEN 1 ELSE o["am_server"]
           o1 == [o EXCEPT !["am_daemon"] = 1]
           o2 == [o1 EXCEPT !["verbose"] = vs]
           o3 == [o2 EXCEPT !["am_server"] = server]
<1>1. server \in Nat
  BY DEF Sane, Counts
<1>2. /\ "am_daemon" \in Fields /\ "verbose" \in Fields /\ "am_server" \in Fields
      /\ "am_daemon" \notin Counts /\ "verbose" \notin Counts
  BY FieldsAre DEF Counts
<1>3. ParseDaemon(o, items) = IF bad THEN Fail(o) ELSE o3
  BY DEF ParseDaemon
<1> HIDE DEF bad, vs, server
<1>4. Sane(o1, P)
  BY <1>2, SaneSet
<1> HIDE DEF o1
<1>5. Sane(o2, P)
  BY <1>2, <1>4, SaneSet
<1> HIDE DEF o2
<1>6. Sane(o3, P)
  BY <1>1, <1>2, <1>5, SaneSet
<1> HIDE DEF o3
<1> QED BY <1>3, <1>6, SaneFail

\* Every option leaves the options sane.
LEMMA SaneApply ==
  ASSUME NEW P, NEW o, Sane(o, P), NEW item \in NonEmpty(P), NEW items
  PROVE  Sane(Apply(o, item, items), P)
<1>1. item \in Seq(P) /\ Len(item) \in Nat /\ Len(item) # 0
  BY DEF NonEmpty
<1>2. CASE o.failed \/ o.am_daemon = 1
  <2>1. Apply(o, item, items) = o
    BY <1>2, Zenon DEF Apply
  <2> QED BY <2>1
<1>3. CASE ~(o.failed \/ o.am_daemon = 1) /\ Len(item) = 1
  <2>1. Apply(o, item, items) = [o EXCEPT !.remaining = Append(@, item[1])]
    BY <1>3, Zenon DEF Apply
  <2>2. "remaining" \in Fields /\ "remaining" \notin Counts
    BY FieldsAre DEF Counts
  <2>3. Sane([o EXCEPT !["remaining"] = Append(o["remaining"], item[1])], P)
    BY <2>2, SaneSet
  <2> QED BY <2>1, <2>3
<1>4. CASE ~(o.failed \/ o.am_daemon = 1) /\ ~(Len(item) = 1) /\ findOption(rsyncTable, item) = {}
  <2>1. Apply(o, item, items) = Fail(o)
    BY <1>4, Zenon DEF Apply
  <2> QED BY <2>1, SaneFail
<1>5. CASE ~(o.failed \/ o.am_daemon = 1) /\ ~(Len(item) = 1) /\ findOption(rsyncTable, item) # {}
  <2> DEFINE row == CHOOSE row \in findOption(rsyncTable, item) : TRUE
             name == IF row.long = None THEN row.short ELSE row.long
  <2>1. row \in rsyncTable
    <3>1. findOption(rsyncTable, item) \subseteq rsyncTable
      BY DEF findOption
    <3>2. row \in findOption(rsyncTable, item)
      BY <1>5
    <3> QED BY <3>1, <3>2
  <2>2. CASE row.field = "daemon"
    <3>1. Apply(o, item, items) = ParseDaemon(o, items)
      BY <1>5, <2>2, Zenon DEF Apply
    <3> QED BY <3>1, SaneDaemon
  <2>3. CASE row.field = "special"
    <3>1. name \in {"server", "sender", "archive", "D", "no-D", "hard-links", "verbose",
                    "no-timeout"}
      <4> HIDE DEF row
      <4> QED BY <2>1, <2>3, RowsAre DEF Counts
    <3>2. ~(row.field = "daemon")
      BY <2>3
    <3>3. Apply(o, item, items) = IF Len(item) > 2 THEN Fail(o) ELSE Special(o, name)
      BY <1>5, <2>3, <3>2, Zenon DEF Apply
    <3> HIDE DEF name, row
    <3> QED BY <3>1, <3>3, SaneFail, SaneSpecial
  <2>4. CASE row.field = "argument"
    <3>1. name \in {"filter", "exclude", "include", "timeout", "rsh"}
      <4> HIDE DEF row
      <4> QED BY <2>1, <2>4, RowsAre DEF Counts
    <3>2. ~(row.field = "daemon") /\ ~(row.field = "special")
      BY <2>4
    <3>3. Apply(o, item, items) = IF Len(item) = 2 THEN Fail(o) ELSE Argument(o, name, item[3])
      BY <1>5, <2>4, <3>2, Zenon DEF Apply
    <3>4. Len(item) # 2 => item[3] \in P
      <4>1. Len(item) # 2 => 3 \in 1 .. Len(item)
        <5>1. ~(Len(item) = 1)
          BY <1>5, Zenon
        <5> HIDE DEF row, name
        <5>2. PICK n \in Nat : n = Len(item) /\ n # 0 /\ n # 1
          BY <1>1, <5>1
        <5> QED BY <5>2
      <4>2. \A i \in 1 .. Len(item) : item[i] \in P
        BY <1>1
      <4> QED BY <4>1, <4>2
    <3> HIDE DEF name, row
    <3> QED BY <3>1, <3>3, <3>4, SaneFail, SaneArgument
  <2>5. CASE row.field \notin {"daemon", "special", "argument"}
    <3>1. row.field \in (Counts \cup {"xfer_dirs", "verbose", "whole_file"}) /\ row.val \in Nat
      <4> HIDE DEF row
      <4> QED BY <2>1, <2>5, RowsAre
    <3>2. ~(row.field = "daemon") /\ ~(row.field = "special") /\ ~(row.field = "argument")
      BY <2>5
    <3>3. Apply(o, item, items) = IF Len(item) > 2 THEN Fail(o) ELSE [o EXCEPT ![row.field] = row.val]
      BY <1>5, <3>2, Zenon DEF Apply
    <3> HIDE DEF name, row
    <3>4. row.field \in Fields /\ row.field # "filterRules"
      BY <3>1, FieldsAre DEF Counts
    <3>5. Sane([o EXCEPT ![row.field] = row.val], P)
      <4> DEFINE f == row.field
                 v == row.val
      <4>1. f \in Fields /\ f # "filterRules" /\ v \in Nat
        BY <3>1, <3>4
      <4> HIDE DEF f, v
      <4>2. /\ f \in Counts => v \in Nat
            /\ f = "xfer_dirs" => v \in Int
            /\ f = "filterRules" => v \in Seq(RuleWords(P))
        BY <4>1
      <4>3. Sane([o EXCEPT ![f] = v], P)
        BY <4>1, <4>2, SaneSet, Zenon
      <4> QED BY <4>3 DEF f, v
    <3>6. Sane(Fail(o), P)
      BY SaneFail
    <3> QED BY <3>3, <3>5, <3>6, Zenon
  <2> QED BY <2>2, <2>3, <2>4, <2>5
<1> QED BY <1>2, <1>3, <1>4, <1>5

\* And so does a whole command line.
LEMMA ParsedSane ==
  ASSUME NEW P, NEW items \in Seq(NonEmpty(P)), NEW all
  PROVE  Sane(Parsed(Defaults, items, all), P)
<1>1. PICK n \in Nat : n = Len(items)
  OBVIOUS
<1>2. PICK f : Reads(f, Defaults, items, n, all)
  BY ReadsExists
<1> DEFINE T == {j \in 0 .. n : Sane(f[j], P)}
<1>3. 0 \in T
  BY <1>2, DefaultsSane DEF Reads
<1>4. ASSUME NEW j \in 1 .. n, j - 1 \in T
      PROVE  j \in T
  <2>1. items[j] \in NonEmpty(P) /\ j \in 0 .. n
    BY <1>1
  <2>2. f[j] = Apply(f[j - 1], items[j], all)
    BY <1>2 DEF Reads
  <2>3. Sane(f[j - 1], P)
    BY <1>4
  <2> QED BY <2>1, <2>2, <2>3, SaneApply
<1>5. n \in T
  <2> HIDE DEF T
  <2>1. \A j \in 0 .. n : j \in T
    BY <1>3, <1>4, UpTo
  <2> QED BY <2>1
<1> QED BY <1>1, <1>2, <1>5, ParsedReads

\* What follows from other options: the directories are settled.
Settled(o) ==
  /\ o["recurse"] # 0 => o["xfer_dirs"] = 1
  /\ o["recurse"] = 0 => o["xfer_dirs"] >= 0

\* The options that a command line leads to have their types, and if it is accepted
\* (parseArguments returns no error, and is not that of a daemon) they are settled.
THEOREM ParsesSane ==
  ASSUME NEW P, "-" \in P, NEW args \in Seq(NonEmpty(P)), NEW o, o = ParseArguments(args)
  PROVE  Sane(o, P) /\ (o.failed \/ o.am_daemon = 1 \/ Settled(o))
<1> DEFINE p == Parsed(Defaults, Items(args), Items(args))
<1>1. Sane(p, P)
  BY ItemsNonEmpty, ParsedSane
<1>2. o = IF p.failed \/ p.am_daemon = 1 THEN p ELSE Implied(p)
  BY ParseIs
<1> HIDE DEF p
<1>3. CASE p.failed \/ p.am_daemon = 1
  <2>1. o = p
    BY <1>2, <1>3, Zenon
  <2> QED BY <1>1, <1>3, <2>1
<1>4. CASE ~(p.failed \/ p.am_daemon = 1)
  <2> DEFINE x == IF p["recurse"] # 0 THEN 1
                  ELSE IF p["xfer_dirs"] >= 0 THEN p["xfer_dirs"]
                  ELSE IF p["list_only"] # 0 THEN 1 ELSE 0
  <2>1. o = Implied(p)
    BY <1>2, <1>4, Zenon
  <2>2. Implied(p) = [p EXCEPT !["xfer_dirs"] = x]
    BY DEF Implied
  <2>3. x \in Int /\ (p["recurse"] # 0 => x = 1) /\ (p["recurse"] = 0 => x >= 0)
    BY <1>1 DEF Sane
  <2> HIDE DEF x
  <2>4. "xfer_dirs" \in Fields /\ "xfer_dirs" \notin Counts /\ "recurse" \in Fields
    BY FieldsAre DEF Counts
  <2>5. Sane([p EXCEPT !["xfer_dirs"] = x], P)
    BY <1>1, <2>3, <2>4, SaneSet
  <2>6. o["xfer_dirs"] = x /\ o["recurse"] = p["recurse"]
    BY <1>1, <2>1, <2>2, <2>4 DEF Sane
  <2> QED BY <2>1, <2>2, <2>3, <2>5, <2>6 DEF Settled
<1> QED BY <1>3, <1>4

\* One argument.
LEMMA OneThing == ASSUME NEW S, NEW x \in S PROVE <<>> \o <<x>> = <<x>> /\ <<x>> \in Seq(S)
OBVIOUS

\* Two, one after the other.
LEMMA TwoThings == ASSUME NEW S, NEW x \in S, NEW y \in S PROVE <<x>> \o <<y>> = <<x, y>>
<1>1. <<x>> \in Seq(S)
  OBVIOUS
<1>2. Append(<<x>>, y) = <<x>> \o <<y>>
  BY <1>1, AppendIsConcat
<1> QED BY <1>2, AppendTwo

\* Three, one after the other.
LEMMA AppendThree ==
  ASSUME NEW x, NEW y, NEW z
  PROVE  Append(<<x, y>>, z) = <<x, y, z>>
<1> DEFINE s == Append(<<x, y>>, z)
           t == <<x, y, z>>
           S == {x, y, z}
<1>1. <<x, y>> \in Seq(S) /\ Len(<<x, y>>) = 2 /\ <<x, y>>[1] = x /\ <<x, y>>[2] = y
  OBVIOUS
<1>2. s \in Seq(S) /\ Len(s) = 3 /\ s[1] = x /\ s[2] = y /\ s[3] = z
  BY <1>1
<1>3. t \in Seq(S) /\ Len(t) = 3 /\ t[1] = x /\ t[2] = y /\ t[3] = z
  OBVIOUS
<1> HIDE DEF s, t
<1>4. s = [i \in 1 .. 3 |-> s[i]] /\ t = [i \in 1 .. 3 |-> t[i]]
  BY <1>2, <1>3
<1>5. \A i \in 1 .. 3 : s[i] = t[i]
  BY <1>2, <1>3
<1> QED BY <1>4, <1>5 DEF s, t

\* Three, one after the other.
LEMMA ThreeThings ==
  ASSUME NEW S, NEW x \in S, NEW y \in S, NEW z \in S
  PROVE  <<x, y>> \o <<z>> = <<x, y, z>>
<1>1. <<x, y>> \in Seq(S)
  OBVIOUS
<1>2. Append(<<x, y>>, z) = <<x, y>> \o <<z>>
  BY <1>1, AppendIsConcat
<1> QED BY <1>2, AppendThree

\* The command line of a daemon behind a remote shell (clientmaincmd.go) makes one
\* (ParseArguments, by the other table), and not a server with another mode.
THEOREM DaemonHears ==
  LET o == ParseArguments(<< <<"--", "server">>, <<"--", "daemon">>, <<".">> >>)
  IN  ~o.failed /\ o.am_daemon = 1
<1> DEFINE P == Words \cup {".", "daemon"}
           a == <<"--", "server">>
           b == <<"--", "daemon">>
           c == <<".">>
           all == <<a, b, c>>
           o1 == Special(Defaults, "server")
           o2 == ParseDaemon(o1, all)
<1>1. "-" \in P /\ a \in Seq(P) /\ b \in Seq(P) /\ c \in Seq(P) /\ Len(a) = 2 /\ Len(b) = 2
      /\ Len(c) = 1
  BY DEF Words
<1>2. ~IsCluster(a) /\ ~IsCluster(b) /\ ~IsCluster(c)
  BY DEF IsCluster
<1>3. ~Defaults.failed /\ Defaults.am_daemon # 1
  BY DEF Defaults
<1>4. Apply(Defaults, a, all) = o1
  <2> DEFINE row == Row("server", None, "special", 0)
  <2>1. row.field = "special" /\ row.long = "server" /\ row.long # None
    BY Named DEF Row
  <2>2. findOption(rsyncTable, a) = {row}
    BY NamesFound
  <2> HIDE DEF row, a, all, o1
  <2>3. Apply(Defaults, a, all) = Special(Defaults, "server")
    BY <1>1, <1>3, <2>1, <2>2, SpecialApplies
  <2> QED BY <2>3 DEF o1
<1>5. ~o1.failed /\ o1.am_daemon # 1 /\ DOMAIN o1 = Fields
  <2>1. o1 = [Defaults EXCEPT !["am_server"] = 1]
    BY DEF Special
  <2> HIDE DEF o1
  <2>2. o1["failed"] = Defaults["failed"] /\ o1["am_daemon"] = Defaults["am_daemon"]
        /\ DOMAIN o1 = DOMAIN Defaults
    BY <2>1, FieldsAre DEF Fields
  <2> QED BY <1>3, <2>2 DEF Fields
<1>6. Apply(o1, b, all) = o2
  <2> DEFINE row == Row("daemon", None, "daemon", 0)
  <2>1. row.field = "daemon"
    BY DEF Row
  <2>2. findOption(rsyncTable, b) = {row}
    BY NamesFound
  <2> HIDE DEF row, a, b, all, o1
  <2>3. (CHOOSE x \in findOption(rsyncTable, b) : TRUE) = row
    BY <2>2
  <2>4. findOption(rsyncTable, b) # {} /\ ~(Len(b) = 1)
    BY <1>1, <2>2
  <2>5. ~(o1.failed \/ o1.am_daemon = 1)
    BY <1>5
  <2> QED BY <2>1, <2>3, <2>4, <2>5, Zenon DEF Apply
<1>7. ~o2.failed /\ o2.am_daemon = 1
  <2>1. ~\E i \in DOMAIN all : NotForDaemon(all[i])
    <3>1. findOption(daemonTable, a) # {}
      <4>1. Row("server", None, "am_server", 1) \in daemonTable /\ IsLong(a)
            /\ Row("server", None, "am_server", 1).long = a[2]
        BY DEF daemonTable, IsLong, Row
      <4> QED BY <4>1 DEF findOption
    <3>2. findOption(daemonTable, b) # {}
      <4>1. Row("daemon", None, "daemon", 0) \in daemonTable /\ IsLong(b)
            /\ Row("daemon", None, "daemon", 0).long = b[2]
        BY DEF daemonTable, IsLong, Row
      <4> QED BY <4>1 DEF findOption
    <3>3. \A i \in DOMAIN all : all[i] \in {a, b, c}
      <4> HIDE DEF a, b, c
      <4> QED OBVIOUS
    <3> HIDE DEF a, b, c, all
    <3>4. ~NotForDaemon(a) /\ ~NotForDaemon(b) /\ ~NotForDaemon(c)
      <4>1. ~(Len(a) > 2) /\ ~(Len(b) > 2) /\ ~(Len(c) > 1)
        BY <1>1
      <4> HIDE DEF a, b, c
      <4>2. ~NotForDaemon(a) /\ ~NotForDaemon(b)
        BY <3>1, <3>2, <4>1, Zenon DEF NotForDaemon
      <4>3. ~NotForDaemon(c)
        BY <4>1, Zenon DEF NotForDaemon
      <4> QED BY <4>2, <4>3
    <3> QED BY <3>3, <3>4
  <2> DEFINE vs == DaemonVerbose(o1["verbose"], all)
             server == IF \E i \in DOMAIN all : all[i] = <<"--", "server">>
                       THEN 1 ELSE o1["am_server"]
             bad == \E i \in DOMAIN all : NotForDaemon(all[i])
             p1 == [o1 EXCEPT !["am_daemon"] = 1]
             p2 == [p1 EXCEPT !["verbose"] = vs]
             p3 == [p2 EXCEPT !["am_server"] = server]
  <2> HIDE DEF all, o1
  <2>2. o2 = IF bad THEN Fail(o1) ELSE p3
    BY DEF ParseDaemon
  <2> HIDE DEF vs, server
  <2>3. o2 = p3
    BY <2>1, <2>2
  <2>4. p3["am_daemon"] = 1 /\ p3["failed"] = o1["failed"]
    BY <1>5, FieldsAre
  <2> QED BY <1>5, <2>3, <2>4
<1>8. Apply(o2, c, all) = o2
  <2> HIDE DEF o2, c, all
  <2> QED BY <1>7, Zenon DEF Apply
<1>9. <<>> \in Seq(Seq(P)) /\ <<>> \o <<a>> = <<a>> /\ <<a>> \in Seq(Seq(P))
      /\ <<a>> \o <<b>> = <<a, b>> /\ <<a, b>> \in Seq(Seq(P)) /\ <<a, b>> \o <<c>> = all
      /\ all \in Seq(Seq(P))
  <2> DEFINE S == Seq(P)
  <2> HIDE DEF a, b, c, P
  <2>1. a \in S
    BY <1>1
  <2>2. b \in S
    BY <1>1
  <2>3. c \in S
    BY <1>1
  <2> HIDE DEF S
  <2>4. <<>> \o <<a>> = <<a>> /\ <<a>> \o <<b>> = <<a, b>>
    <3>1. <<>> \o <<a>> = <<a>>
      BY <2>1, OneThing
    <3>2. <<a>> \o <<b>> = <<a, b>>
      BY <2>1, <2>2, TwoThings
    <3> QED BY <3>1, <3>2
  <2>5. <<a, b>> \o <<c>> = <<a, b, c>>
    BY <2>1, <2>2, <2>3, ThreeThings
  <2>6. <<>> \in Seq(S) /\ <<a>> \in Seq(S)
    BY <2>1
  <2>7. <<a, b>> \in Seq(S)
    BY <2>1, <2>2
  <2>8. <<a, b, c>> \in Seq(S)
    BY <2>1, <2>2, <2>3
  <2> QED BY <2>4, <2>5, <2>6, <2>7, <2>8 DEF S, all
<1> HIDE DEF P, a, b, c, all, o1, o2
<1>10. After(<<>>, <<>>, all) = Defaults
  BY AfterNothing
<1>11. After(<<a>>, <<>>, all) = o1
  <2>1. After(<<>> \o <<a>>, <<>>, all) = Apply(After(<<>>, <<>>, all), a, all)
    BY <1>1, <1>2, <1>9, AfterArgument
  <2> QED BY <1>4, <1>9, <1>10, <2>1
<1>12. After(<<a, b>>, <<>>, all) = o2
  <2>1. After(<<a>> \o <<b>>, <<>>, all) = Apply(After(<<a>>, <<>>, all), b, all)
    BY <1>1, <1>2, <1>9, AfterArgument
  <2> QED BY <1>6, <1>9, <1>11, <2>1
<1>13. After(all, <<>>, all) = o2
  <2>1. After(<<a, b>> \o <<c>>, <<>>, all) = Apply(After(<<a, b>>, <<>>, all), c, all)
    BY <1>1, <1>2, <1>9, AfterArgument
  <2> QED BY <1>8, <1>9, <1>12, <2>1
<1>14. Items(all) = all
  <2>1. Split(a) = <<a>> /\ Split(b) = <<b>> /\ Split(c) = <<c>>
    BY <1>2 DEF Split
  <2>2. <<a>> = Append(<<>>, a) /\ <<a, b>> = Append(<<a>>, b) /\ all = Append(<<a, b>>, c)
    <3>1. <<a>> = Append(<<>>, a)
      BY AppendOne
    <3>2. <<a, b>> = Append(<<a>>, b)
      BY AppendTwo
    <3>3. all = Append(<<a, b>>, c)
      BY AppendThree DEF all
    <3> QED BY <3>1, <3>2, <3>3
  <2>3. Items(<<a>>) = Items(<<>>) \o <<a>>
    BY <1>1, <1>9, <2>1, <2>2, ItemsSteps
  <2>4. Items(<<a, b>>) = Items(<<a>>) \o <<b>>
    BY <1>1, <1>9, <2>1, <2>2, ItemsSteps
  <2>5. Items(all) = Items(<<a, b>>) \o <<c>>
    BY <1>1, <1>9, <2>1, <2>2, ItemsSteps
  <2> QED BY <1>9, <2>3, <2>4, <2>5, ItemsNothing
<1>15. Parsed(Defaults, Items(all), Items(all)) = o2
  <2>1. all \o Dashed(<<>>) = all
    <3>1. Dashed(<<>>) = <<>>
      BY DEF Dashed
    <3>2. PICK S : all \in Seq(S)
      BY <1>9, Zenon
    <3> QED BY <3>1, <3>2
  <2> QED BY <1>13, <1>14, <2>1 DEF After
<1>16. ParseArguments(all) = IF o2.failed \/ o2.am_daemon = 1 THEN o2 ELSE Implied(o2)
  BY <1>15, ParseIs
<1>17. ParseArguments(all) = o2
  BY <1>7, <1>16, Zenon
<1> QED BY <1>7, <1>17 DEF all, a, b, c

\* Pieces of a command line, none of whose arguments is empty.
LEMMA PieceNonEmpty ==
  ASSUME NEW P, NEW a \in NonEmpty(P), NEW s \in Seq(NonEmpty(P)),
         NEW t, t = <<>> \/ t = <<a>>
  PROVE  s \o t \in Seq(NonEmpty(P))
<1>1. <<a>> \in Seq(NonEmpty(P)) /\ <<>> \in Seq(NonEmpty(P))
  OBVIOUS
<1> QED BY <1>1, ConcatProperties

\* A letter more, or none.
LEMMA LetterMore ==
  ASSUME NEW P, NEW s \in Seq(P), NEW l \in P, NEW t, t = <<>> \/ t = <<l>>
  PROVE  s \o t \in Seq(P)
<1>1. <<l>> \in Seq(P) /\ <<>> \in Seq(P)
  OBVIOUS
<1> QED BY <1>1, ConcatProperties

\* ServerOptions never writes an empty argument, which would end the flags.
LEMMA ToldNonEmpty ==
  ASSUME NEW o, NEW P, Words \subseteq P, o.io_timeout \in P
  PROVE  ServerOptions(o) \in Seq(NonEmpty(P))
<1> DEFINE letter(field, l) == IF On(o, field) THEN <<l>> ELSE <<>>
           s0 == letter("verbose", "v")
           s1 == s0 \o letter("update_only", "u")
           s2 == s1 \o letter("dry_run", "n")
           s3 == s2 \o letter("preserve_links", "l")
           s4 == s3 \o letter("whole_file", "W")
           s5 == s4 \o letter("preserve_uid", "o")
           s6 == s5 \o letter("preserve_gid", "g")
           s7 == s6 \o letter("preserve_devices", "D")
           s8 == s7 \o letter("preserve_mtimes", "t")
           s9 == s8 \o letter("preserve_perms", "p")
           s10 == s9 \o letter("recurse", "r")
           s11 == s10 \o letter("always_checksum", "c")
           s12 == s11 \o letter("ignore_times", "I")
           last == IF Recurse(o) THEN <<>> ELSE letter("xfer_dirs", "d")
           s13 == s12 \o last
<1>1. Letters(o) = IF s13 = <<>> THEN <<>> ELSE << <<"-">> \o s13 >>
  BY DEF Letters
<1>2. /\ "v" \in P /\ "u" \in P /\ "n" \in P /\ "l" \in P /\ "W" \in P /\ "o" \in P
      /\ "g" \in P /\ "D" \in P /\ "t" \in P /\ "p" \in P /\ "r" \in P /\ "c" \in P
      /\ "I" \in P /\ "d" \in P /\ "-" \in P
  BY DEF Words
<1>3. \A field, l : letter(field, l) = <<>> \/ letter(field, l) = <<l>>
  OBVIOUS
<1>4. s0 \in Seq(P)
  BY <1>2
<1>5. last = <<>> \/ last = <<"d">>
  OBVIOUS
<1> HIDE DEF letter, last
<1> HIDE DEF s0, s1, s2, s3, s4, s5, s6, s7, s8, s9, s10, s11, s12, s13
<1>6. s1 \in Seq(P)
  BY <1>2, <1>3, <1>4, LetterMore DEF s1
<1>7. s2 \in Seq(P)
  BY <1>2, <1>3, <1>6, LetterMore DEF s2
<1>8. s3 \in Seq(P)
  BY <1>2, <1>3, <1>7, LetterMore DEF s3
<1>9. s4 \in Seq(P)
  BY <1>2, <1>3, <1>8, LetterMore DEF s4
<1>10. s5 \in Seq(P)
  BY <1>2, <1>3, <1>9, LetterMore DEF s5
<1>11. s6 \in Seq(P)
  BY <1>2, <1>3, <1>10, LetterMore DEF s6
<1>12. s7 \in Seq(P)
  BY <1>2, <1>3, <1>11, LetterMore DEF s7
<1>13. s8 \in Seq(P)
  BY <1>2, <1>3, <1>12, LetterMore DEF s8
<1>14. s9 \in Seq(P)
  BY <1>2, <1>3, <1>13, LetterMore DEF s9
<1>15. s10 \in Seq(P)
  BY <1>2, <1>3, <1>14, LetterMore DEF s10
<1>16. s11 \in Seq(P)
  BY <1>2, <1>3, <1>15, LetterMore DEF s11
<1>17. s12 \in Seq(P)
  BY <1>2, <1>3, <1>16, LetterMore DEF s12
<1>18. s13 \in Seq(P)
  BY <1>2, <1>5, <1>17, LetterMore DEF s13
<1>19. <<"-">> \o s13 \in NonEmpty(P)
  <2>1. <<"-">> \in Seq(P) /\ Len(<<"-">>) = 1
    BY <1>2
  <2>2. <<"-">> \o s13 \in Seq(P) /\ Len(<<"-">> \o s13) = 1 + Len(s13) /\ Len(s13) \in Nat
    BY <1>18, <2>1, ConcatProperties
  <2> QED BY <2>2 DEF NonEmpty
<1> DEFINE x0 == <<"--", "server">>
           x1 == <<"--", "sender">>
           x2 == <<"--", "size-only">>
           x3 == <<"-">> \o s13
           x4 == <<"--", "timeout", o.io_timeout>>
           x5 == <<"--", "delete">>
           t1 == IF Sender(o) THEN <<>> ELSE <<x1>>
           t2 == IF On(o, "size_only") THEN <<x2>> ELSE <<>>
           t3 == Letters(o)
           t4 == IF o.io_timeout = None THEN <<>> ELSE <<x4>>
           t5 == DeleteArg(o)
           a1 == <<x0>> \o t1
           a2 == a1 \o t2
           a3 == a2 \o t3
           a4 == a3 \o t4
<1>20. ServerOptions(o) = a4 \o t5
  BY DEF ServerOptions, ServerMode
<1>21. /\ x0 \in NonEmpty(P) /\ x1 \in NonEmpty(P) /\ x2 \in NonEmpty(P) /\ x4 \in NonEmpty(P)
       /\ x5 \in NonEmpty(P)
  BY DEF Words, NonEmpty
<1>22. /\ t1 = <<>> \/ t1 = <<x1>>
       /\ t2 = <<>> \/ t2 = <<x2>>
       /\ t4 = <<>> \/ t4 = <<x4>>
  OBVIOUS
<1>23. t3 = <<>> \/ t3 = <<x3>>
  BY <1>1
<1>24. t5 = <<>> \/ t5 = <<x5>>
  BY DEF DeleteArg
<1>25. x3 \in NonEmpty(P)
  BY <1>19
<1> HIDE DEF x0, x1, x2, x3, x4, x5, t1, t2, t3, t4, t5
<1>26. <<x0>> \in Seq(NonEmpty(P))
  BY <1>21
<1>27. a1 \in Seq(NonEmpty(P))
  BY <1>21, <1>22, <1>26, PieceNonEmpty DEF a1
<1> HIDE DEF a1
<1>28. a2 \in Seq(NonEmpty(P))
  BY <1>21, <1>22, <1>27, PieceNonEmpty
<1> HIDE DEF a2
<1>29. a3 \in Seq(NonEmpty(P))
  BY <1>23, <1>25, <1>28, PieceNonEmpty
<1> HIDE DEF a3
<1>30. a4 \in Seq(NonEmpty(P))
  BY <1>21, <1>22, <1>29, PieceNonEmpty
<1> HIDE DEF a4
<1>31. a4 \o t5 \in Seq(NonEmpty(P))
  BY <1>21, <1>24, <1>30, PieceNonEmpty
<1> QED BY <1>20, <1>31

\* Sequences over a set are sequences over a larger one.
LEMMA SeqMono ==
  ASSUME NEW S, NEW T, S \subseteq T, NEW s \in Seq(S)
  PROVE  s \in Seq(T)
<1>1. Len(s) \in Nat /\ s = [i \in 1 .. Len(s) |-> s[i]] /\ \A i \in 1 .. Len(s) : s[i] \in S
  OBVIOUS
<1>2. \A i \in 1 .. Len(s) : s[i] \in T
  BY <1>1
<1> QED BY <1>1, <1>2

-----------------------------------------------------------------------------
(* Rules on a client's command line.                                       *)

\* Only a daemon looks at the whole command line.
LEMMA ApplySame ==
  ASSUME NEW P, NEW o, Sane(o, P), NEW item \in NonEmpty(P), NEW all, NEW other,
         GoesOn(Apply(o, item, all))
  PROVE  GoesOn(o) /\ Apply(o, item, other) = Apply(o, item, all)
<1>1. CASE o.failed \/ o.am_daemon = 1
  <2>1. Apply(o, item, all) = o
    BY <1>1, Zenon DEF Apply
  <2> QED BY <1>1, <2>1 DEF GoesOn
<1>2. CASE ~(o.failed \/ o.am_daemon = 1)
  <2> DEFINE row == CHOOSE row \in findOption(rsyncTable, item) : TRUE
  <2>1. CASE Len(item) = 1 \/ findOption(rsyncTable, item) = {} \/ row.field # "daemon"
    <3>1. CASE Len(item) = 1
      <4>1. \A a : Apply(o, item, a) = [o EXCEPT !.remaining = Append(@, item[1])]
        BY <1>2, <3>1, Zenon DEF Apply
      <4> QED BY <1>2, <4>1 DEF GoesOn
    <3>2. CASE ~(Len(item) = 1) /\ findOption(rsyncTable, item) = {}
      <4>1. \A a : Apply(o, item, a) = Fail(o)
        BY <1>2, <3>2, Zenon DEF Apply
      <4> QED BY <1>2, <4>1 DEF GoesOn
    <3>3. CASE ~(Len(item) = 1) /\ findOption(rsyncTable, item) # {} /\ row.field # "daemon"
      <4> DEFINE name == IF row.long = None THEN row.short ELSE row.long
                 next == CASE row.field = "special"  ->
                                IF Len(item) > 2 THEN Fail(o) ELSE Special(o, name)
                           [] row.field = "argument" ->
                                IF Len(item) = 2 THEN Fail(o) ELSE Argument(o, name, item[3])
                           [] OTHER ->
                                IF Len(item) > 2 THEN Fail(o)
                                ELSE [o EXCEPT ![row.field] = row.val]
      <4>1. CASE row.field = "special"
        <5>1. \A a : Apply(o, item, a) = IF Len(item) > 2 THEN Fail(o) ELSE Special(o, name)
          BY <1>2, <3>3, <4>1, Zenon DEF Apply
        <5> QED BY <1>2, <5>1 DEF GoesOn
      <4>2. CASE row.field = "argument"
        <5>1. ~(row.field = "special")
          BY <4>2
        <5>2. \A a : Apply(o, item, a)
                       = IF Len(item) = 2 THEN Fail(o) ELSE Argument(o, name, item[3])
          BY <1>2, <3>3, <4>2, <5>1, Zenon DEF Apply
        <5> QED BY <1>2, <5>2 DEF GoesOn
      <4>3. CASE ~(row.field = "special") /\ ~(row.field = "argument")
        <5>1. \A a : Apply(o, item, a) = IF Len(item) > 2 THEN Fail(o)
                                         ELSE [o EXCEPT ![row.field] = row.val]
          BY <1>2, <3>3, <4>3, Zenon DEF Apply
        <5> QED BY <1>2, <5>1 DEF GoesOn
      <4> QED BY <4>1, <4>2, <4>3
    <3> QED BY <2>1, <3>1, <3>2, <3>3
  <2>2. CASE ~(Len(item) = 1) /\ findOption(rsyncTable, item) # {} /\ row.field = "daemon"
    <3> SUFFICES FALSE
      OBVIOUS
    <3>1. Apply(o, item, all) = ParseDaemon(o, all)
      BY <1>2, <2>2, Zenon DEF Apply
    <3> DEFINE bad == \E i \in DOMAIN all : NotForDaemon(all[i])
               vs == DaemonVerbose(o["verbose"], all)
               server == IF \E i \in DOMAIN all : all[i] = <<"--", "server">>
                         THEN 1 ELSE o["am_server"]
               o1 == [o EXCEPT !["am_daemon"] = 1]
               o2 == [o1 EXCEPT !["verbose"] = vs]
               o3 == [o2 EXCEPT !["am_server"] = server]
    <3>2. ParseDaemon(o, all) = IF bad THEN Fail(o) ELSE o3
      BY DEF ParseDaemon
    <3> HIDE DEF bad, vs, server
    <3>3. DOMAIN o = Fields /\ "am_daemon" \in Fields /\ "failed" \in Fields
          /\ "am_daemon" # "verbose" /\ "am_daemon" # "am_server"
      BY FieldsAre DEF Sane
    <3>4. o1["am_daemon"] = 1
      BY <3>3
    <3>5. o2["am_daemon"] = 1
      <4> HIDE DEF o1
      <4>1. DOMAIN o1 = Fields
        BY <3>3 DEF o1
      <4> QED BY <3>3, <3>4, <4>1
    <3>6. o3["am_daemon"] = 1
      <4> HIDE DEF o2
      <4>1. DOMAIN o2 = Fields
        BY <3>3 DEF o2
      <4> QED BY <3>3, <3>5, <4>1
    <3>7. Fail(o)["failed"] = TRUE
      BY <3>3 DEF Fail
    <3> HIDE DEF o3
    <3>8. CASE bad
      <4>1. Apply(o, item, all) = Fail(o)
        BY <3>1, <3>2, <3>8
      <4>2. Fail(o).failed
        BY <3>7, Zenon
      <4>3. ~Apply(o, item, all).failed
        BY DEF GoesOn
      <4> QED BY <4>1, <4>2, <4>3, Zenon
    <3>9. CASE ~bad
      BY <3>1, <3>2, <3>6, <3>9 DEF GoesOn
    <3> QED BY <3>8, <3>9
  <2> QED BY <2>1, <2>2
<1> QED BY <1>1, <1>2

\* Of a command line that goes on, and so is no daemon's, the parser looks at one
\* item after the other.
LEMMA ParsedSame ==
  ASSUME NEW P, NEW items \in Seq(NonEmpty(P)), NEW all, NEW other,
         GoesOn(Parsed(Defaults, items, all))
  PROVE  Parsed(Defaults, items, other) = Parsed(Defaults, items, all)
<1>1. PICK n \in Nat : n = Len(items)
  OBVIOUS
<1>2. PICK f : Reads(f, Defaults, items, n, all)
  BY ReadsExists
<1>3. PICK g : Reads(g, Defaults, items, n, other)
  BY ReadsExists
<1> DEFINE T == {j \in 0 .. n : Sane(f[j], P) /\ (GoesOn(f[j]) => g[j] = f[j])}
<1>4. 0 \in T
  BY <1>2, <1>3, DefaultsSane DEF Reads
<1>5. ASSUME NEW j \in 1 .. n, j - 1 \in T PROVE j \in T
  <2>1. items[j] \in NonEmpty(P) /\ j \in 0 .. n
    BY <1>1
  <2>2. f[j] = Apply(f[j - 1], items[j], all) /\ g[j] = Apply(g[j - 1], items[j], other)
    BY <1>2, <1>3 DEF Reads
  <2>3. Sane(f[j - 1], P) /\ (GoesOn(f[j - 1]) => g[j - 1] = f[j - 1])
    BY <1>5
  <2>4. Sane(f[j], P)
    BY <2>1, <2>2, <2>3, SaneApply
  <2>5. ASSUME GoesOn(f[j]) PROVE g[j] = f[j]
    <3>1. GoesOn(f[j - 1]) /\ Apply(f[j - 1], items[j], other) = Apply(f[j - 1], items[j], all)
      BY <2>1, <2>2, <2>3, <2>5, ApplySame
    <3> QED BY <2>2, <2>3, <3>1
  <2> QED BY <2>1, <2>4, <2>5
<1>6. n \in T
  <2> HIDE DEF T
  <2>1. \A j \in 0 .. n : j \in T
    BY <1>4, <1>5, UpTo
  <2> QED BY <2>1
<1>7. Parsed(Defaults, items, all) = f[n] /\ Parsed(Defaults, items, other) = g[n]
  BY <1>1, <1>2, <1>3, ParsedReads
<1> QED BY <1>6, <1>7

\* How a rule is said on the command line, and what the parser makes of it.
Saying(include) == IF include THEN "include" ELSE "exclude"
Sign(include) == IF include THEN "+ " ELSE "- "

\* A rule on the command line is one rule more.
LEMMA RuleApplies ==
  ASSUME NEW p, GoesOn(p), NEW include \in BOOLEAN, NEW value, NEW all,
         NEW word, word = Saying(include), NEW sign, sign = Sign(include)
  PROVE  Apply(p, <<"--", word, value>>, all)
           = [p EXCEPT !["filterRules"] = Append(p["filterRules"], <<sign, value>>)]
<1>1. PICK item : item = <<"--", word, value>>
  OBVIOUS
<1>2. item[1] = "--" /\ item[2] = word /\ item[3] = value /\ Len(item) = 3
  BY <1>1
<1>3. ~(Len(item) = 1) /\ ~(Len(item) = 2)
  BY <1>2
<1>4. PICK row : row = Row(word, None, "argument", 0)
  OBVIOUS
<1>5. row.long = word /\ row.field = "argument"
  BY <1>4 DEF Row
<1>6. word \in {"include", "exclude"}
  BY DEF Saying
<1>7. findOption(rsyncTable, item) = {row}
  <2>1. "include" # None /\ "exclude" # None
    BY Zenon DEF None
  <2>2. row \in rsyncTable
    BY <1>4, <1>6 DEF rsyncTable, OtherTable
  <2>3. ASSUME NEW other \in rsyncTable, other.long = word PROVE other = row
    BY <1>4, <1>6, <2>1, <2>3 DEF rsyncTable, SwitchTable, OtherTable, Row
  <2> QED BY <1>2, <1>5, <2>2, <2>3, LongFound
<1>8. (CHOOSE x \in findOption(rsyncTable, item) : TRUE) = row /\ findOption(rsyncTable, item) # {}
  BY <1>7
<1>9. ~(p.failed \/ p.am_daemon = 1)
  BY DEF GoesOn
<1>10. ~(row.field = "daemon") /\ ~(row.field = "special")
  BY <1>5
<1>11. word # None
  BY <1>6, Zenon DEF None
<1>12. Apply(p, item, all) = Argument(p, word, value)
  BY <1>2, <1>3, <1>5, <1>8, <1>9, <1>10, <1>11, Zenon DEF Apply
<1>13. CASE include
  <2>1. Argument(p, "include", value)
          = [p EXCEPT !["filterRules"] = Append(p["filterRules"], <<"+ ", value>>)]
    BY DEF Argument
  <2>2. sign = "+ " /\ word = "include"
    BY <1>13, Zenon DEF Sign, Saying
  <2> QED BY <1>1, <1>12, <2>1, <2>2, Zenon
<1>14. CASE ~include
  <2>1. Argument(p, "exclude", value)
          = [p EXCEPT !["filterRules"] = Append(p["filterRules"], <<"- ", value>>)]
    BY DEF Argument
  <2>2. sign = "- " /\ word = "exclude"
    BY <1>14, Zenon DEF Sign, Saying
  <2> QED BY <1>1, <1>12, <2>1, <2>2, Zenon
<1> QED BY <1>13, <1>14

\* The first elements of a sequence, one more.
LEMMA OneMore ==
  ASSUME NEW S, NEW s \in Seq(S), NEW t \in Seq(S), NEW i \in 1 .. Len(t)
  PROVE  /\ t[i] \in S
         /\ s \o SubSeq(t, 1, i - 1) \in Seq(S)
         /\ s \o SubSeq(t, 1, i) = Append(s \o SubSeq(t, 1, i - 1), t[i])
<1> DEFINE u == s \o SubSeq(t, 1, i - 1)
           v == s \o SubSeq(t, 1, i)
<1>1. Len(s) \in Nat /\ Len(t) \in Nat /\ i \in Nat
      /\ (\A k \in 1 .. Len(s) : s[k] \in S)
      /\ (\A k \in 1 .. Len(t) : t[k] \in S)
  OBVIOUS
<1>2. PICK m \in Nat : m = Len(s)
  BY <1>1
<1>3. SubSeq(t, 1, i - 1) \in Seq(S) /\ Len(SubSeq(t, 1, i - 1)) = i - 1
      /\ \A k \in 1 .. i - 1 : SubSeq(t, 1, i - 1)[k] = t[k]
  BY <1>1
<1>4. SubSeq(t, 1, i) \in Seq(S) /\ Len(SubSeq(t, 1, i)) = i
      /\ \A k \in 1 .. i : SubSeq(t, 1, i)[k] = t[k]
  BY <1>1
<1>5. u \in Seq(S) /\ Len(u) = m + i - 1
      /\ \A k \in 1 .. m + i - 1 : u[k] = IF k <= m THEN s[k] ELSE t[k - m]
  BY <1>1, <1>2, <1>3
<1>6. v \in Seq(S) /\ Len(v) = m + i
      /\ \A k \in 1 .. m + i : v[k] = IF k <= m THEN s[k] ELSE t[k - m]
  BY <1>1, <1>2, <1>4
<1> HIDE DEF u, v
<1>7. v = Append(u, t[i])
  <2>1. t[i] \in S
    BY <1>1
  <2>2. Append(u, t[i]) \in Seq(S) /\ Len(Append(u, t[i])) = m + i
        /\ \A k \in 1 .. m + i : Append(u, t[i])[k] = IF k <= m + i - 1 THEN u[k] ELSE t[i]
    BY <1>1, <1>5, <2>1
  <2>3. \A k \in 1 .. m + i : Append(u, t[i])[k] = v[k]
    <3>1. SUFFICES ASSUME NEW k \in 1 .. m + i PROVE Append(u, t[i])[k] = v[k]
      OBVIOUS
    <3>2. CASE k = m + i
      <4>1. ~(k <= m + i - 1) /\ ~(k <= m) /\ k - m = i
        BY <1>1, <3>2
      <4> QED BY <1>6, <2>2, <4>1
    <3>3. CASE k # m + i
      <4>1. k \in 1 .. m + i - 1 /\ k <= m + i - 1
        <5>1. PICK j \in Nat : j = i
          BY <1>1
        <5>2. k \in 1 .. m + j /\ k # m + j
          BY <3>1, <3>3, <5>1
        <5>3. k \in 1 .. m + j - 1 /\ k <= m + j - 1
          BY <5>2
        <5> QED BY <5>1, <5>3
      <4> QED BY <1>5, <1>6, <2>2, <4>1
    <3> QED BY <3>2, <3>3
  <2>4. PICK w : w = Append(u, t[i])
    OBVIOUS
  <2>5. w \in Seq(S) /\ Len(w) = m + i /\ \A k \in 1 .. m + i : w[k] = v[k]
    BY <2>2, <2>3, <2>4
  <2>6. w = [k \in 1 .. m + i |-> w[k]] /\ v = [k \in 1 .. m + i |-> v[k]]
    BY <1>6, <2>5
  <2> QED BY <2>4, <2>5, <2>6
<1> QED BY <1>1, <1>5, <1>7 DEF u, v

\* And one more on either side.
LEMMA AppendTo ==
  ASSUME NEW i \in Nat \ {0}, NEW l
  PROVE  Append([k \in 1 .. i - 1 |-> l[k]], l[i]) = [k \in 1 .. i |-> l[k]]
<1> DEFINE s == [k \in 1 .. i - 1 |-> l[k]]
           S == {l[k] : k \in 1 .. i}
<1>1. PICK x : x = l[i]
  OBVIOUS
<1>2. PICK m \in Nat : m = i - 1
  OBVIOUS
<1>3. s \in Seq(S) /\ Len(s) = m /\ x \in S
  BY <1>1, <1>2
<1>4. \A k \in 1 .. m : s[k] = l[k]
  BY <1>2
<1> HIDE DEF s, S
<1>5. Append(s, x) \in Seq(S) /\ Len(Append(s, x)) = i
  BY <1>2, <1>3
<1>6. \A k \in 1 .. i : Append(s, x)[k] = l[k]
  BY <1>1, <1>2, <1>3, <1>4
<1>7. PICK w : w = Append(s, x)
  OBVIOUS
<1>8. w = [k \in 1 .. i |-> w[k]] /\ \A k \in 1 .. i : w[k] = l[k]
  <2>1. w \in Seq(S) /\ Len(w) = i
    BY <1>5, <1>7
  <2>2. w = [k \in 1 .. i |-> w[k]]
    BY <2>1
  <2> QED BY <1>6, <1>7, <2>2
<1>9. w = [k \in 1 .. i |-> l[k]]
  BY <1>8
<1> QED BY <1>1, <1>7, <1>9 DEF s
=============================================================================
