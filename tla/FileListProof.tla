---------------------------- MODULE FileListProof ----------------------------
(***************************************************************************)
(* The file list arrives as it was sent, for any tree, any names of users  *)
(* and any command line that asks for --devices and --specials together or *)
(* for neither of them.                                                    *)
(*                                                                         *)
(* Nothing on the wire says what a token is.  The argument: an entry has   *)
(* one plan, the fields after its mode, that follows from the client's     *)
(* options alone, as its server heard them (ServerHears); what the sender  *)
(* writes fits it (AttrsPlanned), and so does what the receiver means to   *)
(* read once it knows the mode (AfterModeIs).  So there is one catalogue   *)
(* of entries for both sides, and what is on the wire is always the rest   *)
(* of the entry the receiver is reading, the entries that follow, and the  *)
(* end of the list (Framed).  A step of the receiver takes its token from  *)
(* the front of that, a step of the sender adds to its end.                *)
(*                                                                         *)
(* The list is what was asked for.  dowild means what the parts of a       *)
(* pattern mean (WildMeans), the parser keeps the rules of a command line  *)
(* (RulesParsed), and the walk has either sent what is asked for, or will  *)
(* come to it, or has noted an error (PassedBy).                           *)
(***************************************************************************)
EXTENDS FileList, OptionsProof, FiniteSetTheorems

-----------------------------------------------------------------------------
(* Orders, and sorting.                                                    *)

\* R orders S strictly.
Strict(R, S) ==
  /\ \A x \in S : <<x, x>> \notin R
  /\ \A x, y, z \in S : <<x, y>> \in R /\ <<y, z>> \in R => <<x, z>> \in R
  /\ \A x, y \in S : x # y => <<x, y>> \in R \/ <<y, x>> \in R

\* In a finite set, everything has a rank of its own.
LEMMA Ranks ==
  ASSUME NEW S, IsFiniteSet(S), NEW R, Strict(R, S)
  PROVE  LET Rank(i) == Cardinality({j \in S : <<j, i>> \in R})
         IN /\ \A k \in 1 .. Cardinality(S) : \E i \in S : Rank(i) = k - 1
            /\ \A i \in S : Rank(i) + 1 \in 1 .. Cardinality(S)
            /\ \A i, j \in S : Rank(i) = Rank(j) => i = j
<1> DEFINE n == Cardinality(S)
           Below(i) == {j \in S : <<j, i>> \in R}
           Rank(i) == Cardinality(Below(i))
           rank == [i \in S |-> Rank(i)]
<1>1. n \in Nat
  BY FS_CardinalityType
<1>2. ASSUME NEW i \in S
      PROVE  IsFiniteSet(Below(i)) /\ Rank(i) \in 0 .. n - 1
  <2>1. Below(i) \in SUBSET (S \ {i})
    BY DEF Strict
  <2>2. IsFiniteSet(S \ {i}) /\ Cardinality(S \ {i}) = n - 1
    BY FS_RemoveElement
  <2> HIDE DEF Below, n
  <2>3. IsFiniteSet(Below(i)) /\ Rank(i) <= n - 1
    BY <2>1, <2>2, FS_Subset
  <2>4. Rank(i) \in Nat
    BY <2>3, FS_CardinalityType
  <2> QED BY <1>1, <2>3, <2>4
<1>3. ASSUME NEW i \in S, NEW j \in S, <<i, j>> \in R
      PROVE  Rank(i) # Rank(j)
  <2>1. Below(i) \in SUBSET Below(j)
    BY <1>3 DEF Strict
  <2>2. i \in Below(j) /\ i \notin Below(i)
    BY <1>3 DEF Strict
  <2> HIDE DEF Below
  <2>3. Below(i) # Below(j)
    BY <2>2
  <2> QED BY <1>2, <2>1, <2>3, FS_Subset
<1>4. ASSUME NEW i \in S, NEW j \in S, Rank(i) = Rank(j)
      PROVE  i = j
  <2> HIDE DEF Rank
  <2> QED BY <1>3, <1>4 DEF Strict
<1>5. rank \in Surjection(S, 0 .. n - 1)
  <2>1. rank \in Injection(S, 0 .. n - 1)
    <3> HIDE DEF Rank, n
    <3>1. rank \in [S -> 0 .. n - 1]
      BY <1>2
    <3>2. \A i, j \in S : rank[i] = rank[j] => i = j
      BY <1>4
    <3> QED BY <3>1, <3>2 DEF Injection, IsInjective
  <2>2. IsFiniteSet(0 .. n - 1) /\ Cardinality(0 .. n - 1) = n
    <3> HIDE DEF n
    <3>1. n - 1 \in Int /\ 0 \in Int
      BY <1>1
    <3>2. /\ IsFiniteSet(0 .. n - 1)
          /\ Cardinality(0 .. n - 1) = IF 0 > n - 1 THEN 0 ELSE (n - 1) - 0 + 1
      BY <3>1, FS_Interval
    <3> QED BY <1>1, <3>2
  <2> HIDE DEF rank
  <2> QED BY <2>1, <2>2, FS_Injection
<1>6. ASSUME NEW k \in 1 .. n
      PROVE  \E i \in S : Rank(i) = k - 1
  <2>1. k - 1 \in 0 .. n - 1
    BY <1>1
  <2> HIDE DEF Rank, n
  <2> QED BY <1>5, <2>1 DEF Surjection
<1>7. ASSUME NEW i \in S PROVE Rank(i) + 1 \in 1 .. n
  <2>1. Rank(i) \in 0 .. n - 1
    BY <1>2
  <2> DEFINE x == Rank(i)
  <2> HIDE DEF x, n
  <2>2. x \in 0 .. n - 1 => x + 1 \in 1 .. n
    BY <1>1
  <2> QED BY <2>1, <2>2 DEF x
<1> HIDE DEF Rank, n
<1>8. /\ \A k \in 1 .. n : \E i \in S : Rank(i) = k - 1
      /\ \A i \in S : Rank(i) + 1 \in 1 .. n
      /\ \A i, j \in S : Rank(i) = Rank(j) => i = j
  BY <1>4, <1>6, <1>7
<1> QED BY <1>8 DEF Rank, n

\* Words in the order of their first different letters, a prefix first.
Lower(R, s, t) ==
  \/ Len(s) < Len(t) /\ \A i \in 1 .. Len(s) : s[i] = t[i]
  \/ \E k \in 1 .. Len(s) :
       /\ k <= Len(t) /\ <<s[k], t[k]>> \in R
       /\ \A i \in 1 .. k - 1 : s[i] = t[i]
LowerRel(R, S) == {pair \in Seq(S) \X Seq(S) : Lower(R, pair[1], pair[2])}

\* Two different words are ordered if their letters are.
LEMMA LexTotal ==
  ASSUME NEW S, NEW R, Strict(R, S), NEW s \in Seq(S), NEW t \in Seq(S), s # t
  PROVE  Lower(R, s, t) \/ Lower(R, t, s)
<1> DEFINE common == {i \in Nat \ {0} : i <= Len(s) /\ i <= Len(t) /\ s[i] # t[i]}
<1>1. CASE common = {}
  <2>1. \A i \in Nat \ {0} : i <= Len(s) /\ i <= Len(t) => s[i] = t[i]
    BY <1>1
  <2>2. Len(s) # Len(t)
    <3>1. SUFFICES ASSUME Len(s) = Len(t) PROVE s = t
      OBVIOUS
    <3>2. \A i \in 1 .. Len(s) : s[i] = t[i]
      BY <2>1, <3>1
    <3> QED BY <3>1, <3>2
  <2> HIDE DEF common
  <2>3. Len(s) < Len(t) \/ Len(t) < Len(s)
    BY <2>2
  <2>4. ASSUME Len(s) < Len(t) PROVE \A i \in 1 .. Len(s) : s[i] = t[i]
    BY <2>1, <2>4
  <2>5. ASSUME Len(t) < Len(s) PROVE \A i \in 1 .. Len(t) : t[i] = s[i]
    BY <2>1, <2>5
  <2> QED BY <2>3, <2>4, <2>5 DEF Lower
<1>2. CASE common # {}
  <2>1. PICK k \in common : \A i \in common : k <= i
    <3>1. common \subseteq Nat
      OBVIOUS
    <3> HIDE DEF common
    <3> QED BY <1>2, <3>1, LeastNat
  <2>2. k \in Nat \ {0} /\ k <= Len(s) /\ k <= Len(t) /\ s[k] # t[k]
    OBVIOUS
  <2>3. \A i \in 1 .. k - 1 : s[i] = t[i]
    BY <2>1, <2>2
  <2> HIDE DEF common
  <2>4. k \in 1 .. Len(s) /\ k \in 1 .. Len(t)
    BY <2>2
  <2>5. s[k] \in S /\ t[k] \in S
    BY <2>4
  <2>6. <<s[k], t[k]>> \in R \/ <<t[k], s[k]>> \in R
    BY <2>2, <2>5 DEF Strict
  <2> QED BY <2>2, <2>3, <2>4, <2>6 DEF Lower
<1> QED BY <1>1, <1>2

\* The order of words is strict if that of their letters is.
LEMMA LexStrict ==
  ASSUME NEW S, NEW R, Strict(R, S)
  PROVE  Strict(LowerRel(R, S), Seq(S))
<1>1. ASSUME NEW s \in Seq(S) PROVE ~Lower(R, s, s)
  <2>1. \A k \in 1 .. Len(s) : s[k] \in S
    OBVIOUS
  <2>2. \A k \in 1 .. Len(s) : <<s[k], s[k]>> \notin R
    BY <2>1 DEF Strict
  <2>3. ~(Len(s) < Len(s))
    OBVIOUS
  <2> QED BY <2>2, <2>3 DEF Lower
<1>2. ASSUME NEW s \in Seq(S), NEW t \in Seq(S), NEW u \in Seq(S),
             Lower(R, s, t), Lower(R, t, u)
      PROVE  Lower(R, s, u)
  <2> DEFINE Pre(a, b) == Len(a) < Len(b) /\ \A i \in 1 .. Len(a) : a[i] = b[i]
             At(a, b, k) == /\ k \in 1 .. Len(a) /\ k <= Len(b) /\ <<a[k], b[k]>> \in R
                            /\ \A i \in 1 .. k - 1 : a[i] = b[i]
  <2>1. \A a, b : Lower(R, a, b) <=> Pre(a, b) \/ \E k : At(a, b, k)
    BY DEF Lower
  <2>2. CASE Pre(s, t) /\ Pre(t, u)
    <3>1. Pre(s, u)
      BY <2>2
    <3> QED BY <2>1, <3>1
  <2>3. ASSUME Pre(s, t), NEW k, At(t, u, k) PROVE Lower(R, s, u)
    <3>1. CASE k <= Len(s)
      <4>2. k \in 1 .. Len(s)
        BY <2>3, <3>1
      <4>3. s[k] = t[k] /\ \A i \in 1 .. k - 1 : i \in 1 .. Len(s)
        BY <2>3, <4>2
      <4>1. At(s, u, k)
        BY <2>3, <4>2, <4>3
      <4> QED BY <2>1, <4>1
    <3>2. CASE ~(k <= Len(s))
      <4>1. Pre(s, u)
        BY <2>3, <3>2
      <4> QED BY <2>1, <4>1
    <3> QED BY <3>1, <3>2
  <2>4. ASSUME NEW k, At(s, t, k), Pre(t, u) PROVE Lower(R, s, u)
    <3>2. k \in 1 .. Len(t) /\ \A i \in 1 .. k - 1 : i \in 1 .. Len(t)
      BY <2>4
    <3>3. t[k] = u[k] /\ k <= Len(u)
      BY <2>4, <3>2
    <3>1. At(s, u, k)
      BY <2>4, <3>2, <3>3
    <3> QED BY <2>1, <3>1
  <2>5. ASSUME NEW k, At(s, t, k), NEW l, At(t, u, l) PROVE Lower(R, s, u)
    <3>1. k \in Nat /\ l \in Nat /\ s[k] \in S /\ t[k] \in S /\ t[l] \in S /\ u[l] \in S
      BY <2>5
    <3>2. CASE k < l
      <4>2. t[k] = u[k] /\ k <= Len(u) /\ \A i \in 1 .. k - 1 : i \in 1 .. l - 1
        BY <2>5, <3>1, <3>2
      <4>1. At(s, u, k)
        BY <2>5, <4>2
      <4> QED BY <2>1, <4>1
    <3>3. CASE l < k
      <4>2. s[l] = t[l] /\ l \in 1 .. Len(s) /\ \A i \in 1 .. l - 1 : i \in 1 .. k - 1
        BY <2>5, <3>1, <3>3
      <4>1. At(s, u, l)
        BY <2>5, <4>2
      <4> QED BY <2>1, <4>1
    <3>4. CASE k = l
      <4>1. <<s[k], u[k]>> \in R
        BY <2>5, <3>1, <3>4 DEF Strict
      <4>2. At(s, u, k)
        BY <2>5, <3>1, <3>4, <4>1
      <4> QED BY <2>1, <4>2
    <3> QED BY <3>1, <3>2, <3>3, <3>4
  <2> HIDE DEF Pre, At
  <2> QED BY <1>2, <2>1, <2>2, <2>3, <2>4, <2>5
<1>3. ASSUME NEW s \in Seq(S), NEW t \in Seq(S)
      PROVE  <<s, t>> \in LowerRel(R, S) <=> Lower(R, s, t)
  <2>1. <<s, t>> \in Seq(S) \X Seq(S) /\ <<s, t>>[1] = s /\ <<s, t>>[2] = t
    OBVIOUS
  <2> QED BY <2>1 DEF LowerRel
<1>4. \A s, t \in Seq(S) : s # t => Lower(R, s, t) \/ Lower(R, t, s)
  BY LexTotal
<1> HIDE DEF LowerRel
<1> QED BY <1>1, <1>2, <1>3, <1>4 DEF Strict

\* A word is a strict prefix of another.
LEMMA StrictPrefix ==
  ASSUME NEW S, NEW s \in Seq(S), NEW t \in Seq(S)
  PROVE  IsStrictPrefix(s, t) <=> Len(s) < Len(t) /\ \A i \in 1 .. Len(s) : s[i] = t[i]
<1>1. Len(s) \in Nat /\ Len(t) \in Nat
  OBVIOUS
<1>2. ASSUME Len(s) <= Len(t)
      PROVE  SubSeq(s, 1, Len(s)) = SubSeq(t, 1, Len(s)) <=> \A i \in 1 .. Len(s) : s[i] = t[i]
  <2>1. SubSeq(s, 1, Len(s)) = [i \in 1 .. Len(s) |-> s[i]]
    OBVIOUS
  <2>2. SubSeq(t, 1, Len(s)) = [i \in 1 .. Len(s) |-> t[i]]
    BY <1>2
  <2> QED BY <2>1, <2>2
<1>3. ASSUME Len(s) = Len(t), \A i \in 1 .. Len(s) : s[i] = t[i]
      PROVE  s = t
  BY <1>3
<1>4. IsStrictPrefix(s, t) <=> Len(s) <= Len(t) /\ (\A i \in 1 .. Len(s) : s[i] = t[i]) /\ s # t
  BY <1>2 DEF IsStrictPrefix, IsPrefix
<1> QED BY <1>1, <1>3, <1>4

NatRel == {pair \in Nat \X Nat : pair[1] < pair[2]}
LessRel == {pair \in Seq(Nat) \X Seq(Nat) : Less(pair[1], pair[2])}
BeforeRel == {pair \in Seq(Seq(Nat)) \X Seq(Seq(Nat)) : Before(pair[1], pair[2])}

\* Byte order is a strict order of strings.
LEMMA LessStrict == Strict(LessRel, Seq(Nat))
<1>1. \A x, y \in Nat : <<x, y>> \in NatRel <=> x < y
  BY DEF NatRel
<1>2. Strict(NatRel, Nat)
  BY <1>1 DEF Strict
<1>3. ASSUME NEW s \in Seq(Nat), NEW t \in Seq(Nat)
      PROVE  Less(s, t) <=> Lower(NatRel, s, t)
  <2>1. DOMAIN s = 1 .. Len(s) /\ DOMAIN t = 1 .. Len(t) /\ Len(s) \in Nat /\ Len(t) \in Nat
    OBVIOUS
  <2>2. \A k \in 1 .. Len(s) : k \in DOMAIN t <=> k <= Len(t)
    BY <2>1
  <2>3. \A k \in DOMAIN s \cap DOMAIN t : s[k] < t[k] <=> <<s[k], t[k]>> \in NatRel
    BY <1>1
  <2>4. ASSUME NEW k \in DOMAIN s \cap DOMAIN t
        PROVE  k \in 1 .. Len(s) /\ k <= Len(t)
    BY <2>1
  <2>5. ASSUME NEW k \in 1 .. Len(s), k <= Len(t)
        PROVE  k \in DOMAIN s \cap DOMAIN t
    BY <2>1, <2>2, <2>5
  <2>0. IsStrictPrefix(s, t) <=> Len(s) < Len(t) /\ \A i \in 1 .. Len(s) : s[i] = t[i]
    BY StrictPrefix
  <2> DEFINE Same(k) == \A j \in 1 .. k - 1 : s[j] = t[j]
             A == \E k \in DOMAIN s \cap DOMAIN t : <<s[k], t[k]>> \in NatRel /\ Same(k)
             B == \E k \in 1 .. Len(s) : k <= Len(t) /\ <<s[k], t[k]>> \in NatRel /\ Same(k)
             P == Len(s) < Len(t) /\ \A i \in 1 .. Len(s) : s[i] = t[i]
  <2>6. A <=> B
    <3> HIDE DEF Same
    <3> QED BY <2>4, <2>5
  <2>7. Less(s, t) <=> IsStrictPrefix(s, t) \/ A
    BY <2>3 DEF Less
  <2>8. IsStrictPrefix(s, t) <=> P
    BY <2>0, Zenon
  <2>9. Lower(NatRel, s, t) <=> P \/ B
    BY DEF Lower
  <2> HIDE DEF A, B, P
  <2> QED BY <2>6, <2>7, <2>8, <2>9
<1>4. LessRel = LowerRel(NatRel, Nat)
  BY <1>3 DEF LessRel, LowerRel
<1> QED BY <1>2, <1>4, LexStrict

\* The order of a walk is a strict order of paths.
LEMMA BeforeStrict == Strict(BeforeRel, Seq(Seq(Nat)))
<1>1. \A x, y \in Seq(Nat) : <<x, y>> \in LessRel <=> Less(x, y)
  <2>1. \A x, y \in Seq(Nat) : <<x, y>> \in Seq(Nat) \X Seq(Nat)
    OBVIOUS
  <2>2. \A x, y : <<x, y>>[1] = x /\ <<x, y>>[2] = y
    OBVIOUS
  <2> QED BY <2>1, <2>2 DEF LessRel
<1>2. ASSUME NEW s \in Seq(Seq(Nat)), NEW t \in Seq(Seq(Nat))
      PROVE  Before(s, t) <=> Lower(LessRel, s, t)
  <2>1. DOMAIN s = 1 .. Len(s) /\ DOMAIN t = 1 .. Len(t) /\ Len(s) \in Nat /\ Len(t) \in Nat
    OBVIOUS
  <2>2. \A k \in 1 .. Len(s) : k \in DOMAIN t <=> k <= Len(t)
    BY <2>1
  <2>3. \A k \in DOMAIN s \cap DOMAIN t : Less(s[k], t[k]) <=> <<s[k], t[k]>> \in LessRel
    BY <1>1
  <2>4. ASSUME NEW k \in DOMAIN s \cap DOMAIN t
        PROVE  k \in 1 .. Len(s) /\ k <= Len(t)
    BY <2>1
  <2>5. ASSUME NEW k \in 1 .. Len(s), k <= Len(t)
        PROVE  k \in DOMAIN s \cap DOMAIN t
    BY <2>1, <2>2, <2>5
  <2> DEFINE Same(k) == \A j \in 1 .. k - 1 : s[j] = t[j]
             A == \E k \in DOMAIN s \cap DOMAIN t : <<s[k], t[k]>> \in LessRel /\ Same(k)
             B == \E k \in 1 .. Len(s) : k <= Len(t) /\ <<s[k], t[k]>> \in LessRel /\ Same(k)
             P == Len(s) < Len(t) /\ \A i \in 1 .. Len(s) : s[i] = t[i]
  <2>6. A <=> B
    <3> HIDE DEF Same
    <3> QED BY <2>4, <2>5
  <2>7. Before(s, t) <=> IsStrictPrefix(s, t) \/ A
    BY <2>3 DEF Before
  <2>8. IsStrictPrefix(s, t) <=> P
    BY StrictPrefix
  <2>9. Lower(LessRel, s, t) <=> P \/ B
    BY DEF Lower
  <2> HIDE DEF A, B, P
  <2> QED BY <2>6, <2>7, <2>8, <2>9
<1>3. BeforeRel = LowerRel(LessRel, Seq(Nat))
  BY <1>2 DEF BeforeRel, LowerRel
<1> QED BY <1>3, LessStrict, LexStrict

\* Part of a strict order.
LEMMA StrictSub ==
  ASSUME NEW R, NEW S, Strict(R, S), NEW T, T \subseteq S
  PROVE  Strict(R, T)
BY DEF Strict

\* What is finite and not empty has a first element.
LEMMA FirstOf ==
  ASSUME NEW S, IsFiniteSet(S), S # {}, NEW R, Strict(R, S)
  PROVE  \E p \in S : \A q \in S \ {p} : <<p, q>> \in R
<1> DEFINE Below(i) == {j \in S : <<j, i>> \in R}
           Rank(i) == Cardinality(Below(i))
<1>1. Cardinality(S) \in Nat /\ Cardinality(S) # 0
  BY FS_CardinalityType, FS_EmptySet
<1>2. \A k \in 1 .. Cardinality(S) : \E i \in S : Rank(i) = k - 1
  BY Ranks, ZenonT(40)
<1> HIDE DEF Rank
<1>3. PICK p \in S : Rank(p) = 0
  <2>1. 1 \in 1 .. Cardinality(S) /\ 1 - 1 = 0
    BY <1>1
  <2> QED BY <1>2, <2>1
<1>4. Below(p) = {}
  <2>1. Below(p) \in SUBSET S
    OBVIOUS
  <2> HIDE DEF Below
  <2>2. IsFiniteSet(Below(p))
    BY <2>1, FS_Subset
  <2> QED BY <1>3, <2>2, FS_EmptySet DEF Rank
<1>5. ASSUME NEW q \in S \ {p} PROVE <<p, q>> \in R
  <2>1. <<q, p>> \notin R
    BY <1>4
  <2> QED BY <2>1 DEF Strict
<1> QED BY <1>5

\* There is a path that comes next.
LEMMA ThisFound ==
  ASSUME rest \subseteq DOMAIN Tree, rest # {}
  PROVE  This \in rest /\ \A q \in rest \ {This} : Before(This, q)
<1>1. IsFiniteSet(rest) /\ rest \subseteq Seq(Seq(Nat))
  BY ListConstants, FS_Subset
<1>2. Strict(BeforeRel, rest)
  BY <1>1, BeforeStrict, StrictSub
<1>3. PICK p \in rest : \A q \in rest \ {p} : <<p, q>> \in BeforeRel
  BY <1>1, <1>2, FirstOf
<1>4. \A q \in rest \ {p} : Before(p, q)
  <2>1. \A q : <<p, q>>[1] = p /\ <<p, q>>[2] = q
    OBVIOUS
  <2> QED BY <1>3, <2>1 DEF BeforeRel
<1> QED BY <1>4 DEF This

\* Sorting puts everything in its place.
LEMMA OrderPermutes ==
  ASSUME NEW names \in Seq(Seq(Nat))
  PROVE  /\ Order(names) \in [1 .. Len(names) -> 1 .. Len(names)]
         /\ \A i \in 1 .. Len(names) : \E k \in 1 .. Len(names) : Order(names)[k] = i
<1> DEFINE n == Len(names)
           S == 1 .. n
           R == {pair \in S \X S : Sooner(names, pair[1], pair[2])}
           Rank(i) == Cardinality({j \in S : Sooner(names, j, i)})
<1>1. n \in Nat /\ DOMAIN names = S /\ \A i \in S : names[i] \in Seq(Nat)
  OBVIOUS
<1>2. \A i, j \in S : <<i, j>> \in R <=> Sooner(names, i, j)
  <2>1. \A i, j : <<i, j>>[1] = i /\ <<i, j>>[2] = j
    OBVIOUS
  <2>2. \A i, j \in S : <<i, j>> \in S \X S
    OBVIOUS
  <2> QED BY <2>1, <2>2
<1>3. IsFiniteSet(S) /\ Cardinality(S) = n
  <2> HIDE DEF n
  <2>1. IsFiniteSet(1 .. n) /\ Cardinality(1 .. n) = IF 1 > n THEN 0 ELSE (n - 1) + 1
    BY <1>1, FS_Interval
  <2> QED BY <1>1, <2>1
<1>4. \A s, t \in Seq(Nat) : <<s, t>> \in LessRel <=> Less(s, t)
  <2>1. \A x, y \in Seq(Nat) : <<x, y>> \in Seq(Nat) \X Seq(Nat)
    OBVIOUS
  <2>2. \A x, y : <<x, y>>[1] = x /\ <<x, y>>[2] = y
    OBVIOUS
  <2> QED BY <2>1, <2>2 DEF LessRel
<1>5. Strict(R, S)
  <2> DEFINE Name(i) == names[i]
  <2>1. \A i, j \in S : <<i, j>> \in R <=> (<<Name(i), Name(j)>> \in LessRel \/ (Name(i) = Name(j) /\ i < j))
    BY <1>1, <1>2, <1>4 DEF Sooner
  <2>2. \A i \in S : Name(i) \in Seq(Nat) /\ i \in Int
    BY <1>1
  <2> DEFINE All == Seq(Nat)
  <2>0. /\ \A x \in All : <<x, x>> \notin LessRel
        /\ \A x, y, z \in All : <<x, y>> \in LessRel /\ <<y, z>> \in LessRel => <<x, z>> \in LessRel
        /\ \A x, y \in All : x # y => <<x, y>> \in LessRel \/ <<y, x>> \in LessRel
    BY LessStrict DEF Strict
  <2>6. \A i \in S : Name(i) \in All
    BY <2>2
  <2> HIDE DEF R, S, Name, All
  <2> DEFINE Lt(i, j) == <<Name(i), Name(j)>> \in LessRel
  <2>7. /\ \A i \in S : ~Lt(i, i)
        /\ \A i, j, k \in S : Lt(i, j) /\ Lt(j, k) => Lt(i, k)
        /\ \A i, j \in S : Name(i) # Name(j) => Lt(i, j) \/ Lt(j, i)
        /\ \A i, j, k \in S : Name(i) = Name(j) => (Lt(i, k) <=> Lt(j, k)) /\ (Lt(k, i) <=> Lt(k, j))
    BY <2>0, <2>6
  <2>8. \A i, j \in S : <<i, j>> \in R <=> (Lt(i, j) \/ (Name(i) = Name(j) /\ i < j))
    BY <2>1
  <2> HIDE DEF Lt
  <2>9. \A i \in S : i \in Int
    BY <2>2
  <2>3. \A i \in S : <<i, i>> \notin R
    BY <2>7, <2>8, <2>9
  <2>4. ASSUME NEW i \in S, NEW j \in S, NEW k \in S, <<i, j>> \in R, <<j, k>> \in R
        PROVE  <<i, k>> \in R
    BY <2>4, <2>7, <2>8, <2>9
  <2>5. ASSUME NEW i \in S, NEW j \in S, i # j
        PROVE <<i, j>> \in R \/ <<j, i>> \in R
    BY <2>5, <2>7, <2>8, <2>9
  <2> QED BY <2>3, <2>4, <2>5 DEF Strict
<1>6. \A i \in S : {j \in S : <<j, i>> \in R} = {j \in S : Sooner(names, j, i)}
  BY <1>2
<1>7. /\ \A k \in S : \E i \in S : Rank(i) = k - 1
      /\ \A i \in S : Rank(i) + 1 \in S
      /\ \A i, j \in S : Rank(i) = Rank(j) => i = j
  <2> DEFINE Q(i) == Cardinality({j \in S : <<j, i>> \in R})
  <2>1. \A i \in S : Q(i) = Rank(i)
    BY <1>6
  <2>2. /\ \A k \in 1 .. Cardinality(S) : \E i \in S : Q(i) = k - 1
        /\ \A i \in S : Q(i) + 1 \in 1 .. Cardinality(S)
        /\ \A i, j \in S : Q(i) = Q(j) => i = j
    <3> HIDE DEF R, S
    <3> QED BY <1>3, <1>5, Ranks
  <2> HIDE DEF Q, Rank, R
  <2>3. 1 .. Cardinality(S) = S
    BY <1>3
  <2> HIDE DEF S
  <2> QED BY <2>1, <2>2, <2>3
<1> DEFINE order == [k \in S |-> CHOOSE i \in S : Rank(i) = k - 1]
<1>8. Order(names) = order
  BY <1>1 DEF Order
<1> HIDE DEF Rank, R
<1>9. \A k \in S : order[k] \in S /\ Rank(order[k]) = k - 1
  BY <1>7
<1>10. order \in [S -> S]
  BY <1>7
<1>11. ASSUME NEW i \in S PROVE \E k \in S : order[k] = i
  <2> DEFINE k == Rank(i) + 1
  <2>1. k \in S
    BY <1>7
  <2>2. Rank(order[k]) = k - 1 /\ order[k] \in S
    BY <1>9, <2>1
  <2>3. Rank(i) = k - 1
    <3> DEFINE x == Rank(i)
    <3>1. x + 1 \in Int
      BY <2>1
    <3> HIDE DEF x
    <3>2. Rank(i) \in Nat
      <4>1. {j \in S : Sooner(names, j, i)} \in SUBSET S
        OBVIOUS
      <4> HIDE DEF S
      <4>2. IsFiniteSet({j \in S : Sooner(names, j, i)})
        BY <1>3, <4>1, FS_Subset
      <4> QED BY <4>2, FS_CardinalityType DEF Rank
    <3> QED BY <3>2
  <2> HIDE DEF k, order
  <2> QED BY <1>7, <2>1, <2>2, <2>3
<1> HIDE DEF order
<1> QED BY <1>8, <1>10, <1>11

\* Sorting loses nothing and invents nothing.
LEMMA InOrderFacts ==
  ASSUME NEW S, NEW list \in Seq(S), NEW names \in Seq(Seq(Nat)), Len(names) = Len(list)
  PROVE  /\ InOrder(list, names) \in Seq(S) /\ Len(InOrder(list, names)) = Len(list)
         /\ ToSet(InOrder(list, names)) = ToSet(list)
<1> DEFINE n == Len(list)
<1>1. PICK order : order = Order(names)
  OBVIOUS
<1>2. order \in [1 .. n -> 1 .. n] /\ \A i \in 1 .. n : \E k \in 1 .. n : order[k] = i
  BY <1>1, OrderPermutes
<1>3. n \in Nat /\ DOMAIN list = 1 .. n
  OBVIOUS
<1>4. InOrder(list, names) = [k \in 1 .. n |-> list[order[k]]]
  BY <1>1, <1>3, Zenon DEF InOrder
<1>5. [k \in 1 .. n |-> list[order[k]]] \in Seq(S) /\ Len([k \in 1 .. n |-> list[order[k]]]) = n
  <2>1. \A i \in 1 .. n : list[i] \in S
    OBVIOUS
  <2> HIDE DEF n
  <2>2. \A k \in 1 .. n : order[k] \in 1 .. n
    BY <1>2
  <2>3. \A k \in 1 .. n : list[order[k]] \in S
    BY <2>1, <2>2
  <2> QED BY <1>3, <2>3
<1>6. ToSet([k \in 1 .. n |-> list[order[k]]]) = ToSet(list)
  BY <1>2, <1>3 DEF ToSet
<1> QED BY <1>4, <1>5, <1>6

\* One element more.
LEMMA AppendSet ==
  ASSUME NEW S, NEW s \in Seq(S), NEW x \in S
  PROVE  Append(s, x) \in Seq(S) /\ ToSet(Append(s, x)) = ToSet(s) \cup {x}
<1>1. /\ Append(s, x) \in Seq(S) /\ DOMAIN s = 1 .. Len(s) /\ Len(s) \in Nat
      /\ DOMAIN Append(s, x) = 1 .. Len(s) + 1
      /\ \A i \in 1 .. Len(s) : Append(s, x)[i] = s[i]
      /\ Append(s, x)[Len(s) + 1] = x
  OBVIOUS
<1>2. 1 .. Len(s) + 1 = (1 .. Len(s)) \cup {Len(s) + 1}
  BY <1>1
<1> QED BY <1>1, <1>2 DEF ToSet

-----------------------------------------------------------------------------
(* Strings and tokens.                                                     *)

\* h goes on from x by g.
Iterated(n, S, x, g) ==
  \E h \in [0 .. n -> S] : h[0] = x /\ \A k \in 1 .. n : h[k] = g[<<k, h[k - 1]>>]

\* A recursion over numbers has a solution.
LEMMA Iterates ==
  ASSUME NEW n \in Nat, NEW S, NEW x \in S, NEW g \in [(1 .. n) \X S -> S]
  PROVE  Iterated(n, S, x, g)
<1> DEFINE Good(h, j) == /\ h \in [0 .. j -> S] /\ h[0] = x
                         /\ \A k \in 1 .. j : h[k] = g[<<k, h[k - 1]>>]
           T == {j \in 0 .. n : \E h : Good(h, j)}
<1>1. 0 \in T
  <2>1. Good([k \in 0 .. 0 |-> x], 0)
    OBVIOUS
  <2>2. 0 \in 0 .. n
    OBVIOUS
  <2> HIDE DEF Good
  <2> QED BY <2>1, <2>2
<1>2. ASSUME NEW j \in 1 .. n, j - 1 \in T
      PROVE  j \in T
  <2>1. PICK h : Good(h, j - 1)
    BY <1>2
  <2>2. j - 1 \in 0 .. j - 1 /\ h[j - 1] \in S /\ j \in 0 .. n
    BY <2>1
  <2> DEFINE i == [k \in 0 .. j |-> IF k = j THEN g[<<j, h[j - 1]>>] ELSE h[k]]
  <2>3. <<j, h[j - 1]>> \in (1 .. n) \X S
    BY <2>2
  <2>4. g[<<j, h[j - 1]>>] \in S
    BY <2>3
  <2>5. \A k \in 0 .. j : k # j => k \in 0 .. j - 1
    OBVIOUS
  <2>6. i \in [0 .. j -> S]
    BY <2>1, <2>4, <2>5
  <2>7. i[0] = x
    BY <2>1
  <2>8. ASSUME NEW k \in 1 .. j PROVE i[k] = g[<<k, i[k - 1]>>]
    <3>1. k \in 0 .. j /\ k - 1 \in 0 .. j /\ k - 1 # j
      OBVIOUS
    <3>2. i[k - 1] = h[k - 1]
      BY <3>1
    <3>3. CASE k = j
      BY <3>1, <3>2, <3>3
    <3>4. CASE k # j
      <4>1. k \in 1 .. j - 1
        BY <3>4
      <4>2. h[k] = g[<<k, h[k - 1]>>]
        BY <2>1, <4>1
      <4> QED BY <3>1, <3>2, <3>4, <4>2
    <3> QED BY <3>3, <3>4
  <2> HIDE DEF i
  <2>9. Good(i, j)
    BY <2>6, <2>7, <2>8
  <2> HIDE DEF Good
  <2> QED BY <2>2, <2>9
<1>3. n \in T
  <2> HIDE DEF T
  <2>1. \A j \in 0 .. n : j \in T
    BY <1>1, <1>2, UpTo
  <2> QED BY <2>1
<1> QED BY <1>3 DEF Iterated

\* The text of a path is a string.
LEMMA TextType ==
  ASSUME NEW path \in Seq(Seq(Nat))
  PROVE  Text(path) \in Seq(Nat)
<1>1. CASE path = <<>>
  BY <1>1 DEF Text, Dot
<1>2. CASE path # <<>>
  <2> DEFINE n == Len(path)
             g == [p \in (1 .. n - 1) \X Seq(Nat) |-> p[2] \o <<Slash>> \o path[p[1] + 1]]
             eq(t) == t = [k \in 1 .. n |-> IF k = 1 THEN path[1]
                                            ELSE t[k - 1] \o <<Slash>> \o path[k]]
             text == CHOOSE t : eq(t)
  <2>1. n \in Nat /\ n - 1 \in Nat /\ \A k \in 1 .. n : path[k] \in Seq(Nat)
    BY <1>2
  <2>2. \A s \in Seq(Nat), k \in 1 .. n : s \o <<Slash>> \o path[k] \in Seq(Nat)
    <3>1. <<Slash>> \in Seq(Nat)
      BY DEF Slash
    <3> HIDE DEF n
    <3> QED BY <2>1, <3>1
  <2>3. g \in [(1 .. n - 1) \X Seq(Nat) -> Seq(Nat)]
    <3>1. \A p \in (1 .. n - 1) \X Seq(Nat) : p[2] \in Seq(Nat) /\ p[1] + 1 \in 1 .. n
      <4> HIDE DEF n
      <4> QED BY <2>1
    <3> HIDE DEF n
    <3> QED BY <2>2, <3>1
  <2>4. path[1] \in Seq(Nat)
    BY <2>1
  <2>5. PICK h \in [0 .. n - 1 -> Seq(Nat)] :
          h[0] = path[1] /\ \A k \in 1 .. n - 1 : h[k] = g[<<k, h[k - 1]>>]
    <3> HIDE DEF n, g
    <3>1. Iterated(n - 1, Seq(Nat), path[1], g)
      BY <2>1, <2>3, <2>4, Iterates
    <3> QED BY <3>1 DEF Iterated
  <2>6. eq([k \in 1 .. n |-> h[k - 1]])
    <3> DEFINE t == [k \in 1 .. n |-> h[k - 1]]
    <3>1. ASSUME NEW k \in 1 .. n
          PROVE  t[k] = IF k = 1 THEN path[1] ELSE t[k - 1] \o <<Slash>> \o path[k]
      <4>1. CASE k = 1
        BY <2>5, <4>1
      <4>2. CASE k # 1
        <5>1. k - 1 \in 1 .. n - 1 /\ k - 1 \in 1 .. n /\ (k - 1) + 1 = k /\ k - 2 \in 0 .. n - 1
              /\ (k - 1) - 1 = k - 2
          BY <2>1, <4>2
        <5>2. t[k] = h[k - 1] /\ t[k - 1] = h[k - 2] /\ h[k - 2] \in Seq(Nat)
          BY <2>1, <5>1
        <5>3. <<k - 1, h[k - 2]>> \in (1 .. n - 1) \X Seq(Nat)
          BY <5>1, <5>2
        <5>4. h[k - 1] = g[<<k - 1, h[k - 2]>>]
          BY <2>5, <5>1
        <5>5. g[<<k - 1, h[k - 2]>>] = h[k - 2] \o <<Slash>> \o path[k]
          <6> HIDE DEF n
          <6> QED BY <5>1, <5>3
        <5> HIDE DEF t, g, n
        <5> QED BY <4>2, <5>2, <5>4, <5>5
      <4> QED BY <4>1, <4>2
    <3>2. t = [k \in 1 .. n |-> t[k]]
      OBVIOUS
    <3> HIDE DEF t, n
    <3>3. eq(t)
      BY <3>1, <3>2
    <3> QED BY <3>3 DEF t
  <2>7. eq(text)
    <3> HIDE DEF eq
    <3> QED BY <2>6
  <2>8. Text(path) = text[n]
    BY <1>2 DEF Text
  <2> HIDE DEF text, g
  <2>9. \A k \in 1 .. n : text[k] = IF k = 1 THEN path[1] ELSE text[k - 1] \o <<Slash>> \o path[k]
    <3> HIDE DEF n
    <3> QED BY <2>7
  <2> HIDE DEF eq
  <2>10. n \in 1 .. n /\ n # 0 /\ 0 \in 0 .. n
    BY <2>1
  <2> HIDE DEF n
  <2> DEFINE T == {j \in 0 .. n : j = 0 \/ text[j] \in Seq(Nat)}
  <2>11. 0 \in T
    BY <2>10
  <2>12. ASSUME NEW j \in 1 .. n, j - 1 \in T
         PROVE  j \in T
    <3>1. j \in 0 .. n
      OBVIOUS
    <3>2. CASE j = 1
      BY <2>1, <2>9, <3>1, <3>2
    <3>3. CASE j # 1
      <4>1. text[j - 1] \in Seq(Nat)
        BY <2>12, <3>3
      <4> QED BY <2>2, <2>9, <3>1, <3>3, <4>1
    <3> QED BY <3>2, <3>3
  <2> HIDE DEF T
  <2>13. \A j \in 0 .. n : j \in T
    BY <2>1, <2>11, <2>12, UpTo
  <2>14. n \in T
    BY <2>10, <2>13
  <2> QED BY <2>8, <2>10, <2>14 DEF T
<1> QED BY <1>1, <1>2

\* What is on the wire.
Tokens == [kind : {"byte", "int", "long", "bytes"}, val : Int \cup Seq(Nat)]

\* What is written are tokens.
LEMMA TokenType ==
  /\ \A v \in Int \cup Seq(Nat) :
       Byte(v) \in Tokens /\ Int32(v) \in Tokens /\ Long(v) \in Tokens /\ Bytes(v) \in Tokens
BY DEF Tokens, Byte, Int32, Long, Bytes

\* An id and its name are tokens.
LEMMA IdType ==
  ASSUME NEW id \in DOMAIN SenderNames
  PROVE  Id(id) \in Seq(Tokens)
<1>1. id \in Int /\ SenderNames[id] \in Seq(Nat) /\ Len(SenderNames[id]) \in Int
  BY ListConstants
<1>2. /\ Int32(id) \in Tokens /\ Byte(Len(SenderNames[id])) \in Tokens
      /\ Bytes(SenderNames[id]) \in Tokens
  BY <1>1, TokenType
<1> QED BY <1>2 DEF Id

\* A list of ids is an id after the other, and a zero.
LEMMA IdListSteps ==
  ASSUME NEW order \in Seq(DOMAIN SenderNames)
  PROVE  \E L \in [0 .. Len(order) -> Seq(Tokens)] :
           /\ L[0] = IdList(order) /\ L[Len(order)] = <<Int32(0)>>
           /\ \A i \in 1 .. Len(order) : L[i - 1] = Id(order[i]) \o L[i]
<1> DEFINE n == Len(order)
           g == [p \in (1 .. n) \X Seq(Tokens) |-> Id(order[n - p[1] + 1]) \o p[2]]
           eq(t) == t = [k \in 0 .. n |-> IF k = 0 THEN <<Int32(0)>>
                                          ELSE Id(order[n - k + 1]) \o t[k - 1]]
           last == CHOOSE t : eq(t)
<1>1. n \in Nat /\ \A k \in 1 .. n : order[k] \in DOMAIN SenderNames
  OBVIOUS
<1>2. \A k \in 1 .. n : n - k + 1 \in 1 .. n
  <2> HIDE DEF n
  <2> QED BY <1>1
<1>3. \A k \in 1 .. n, s \in Seq(Tokens) : Id(order[n - k + 1]) \o s \in Seq(Tokens)
  <2>1. \A k \in 1 .. n : Id(order[n - k + 1]) \in Seq(Tokens)
    <3> HIDE DEF n
    <3> QED BY <1>1, <1>2, IdType
  <2> HIDE DEF n
  <2> QED BY <2>1
<1>4. <<Int32(0)>> \in Seq(Tokens)
  <2>1. Int32(0) \in Tokens
    BY TokenType
  <2> QED BY <2>1
<1>5. g \in [(1 .. n) \X Seq(Tokens) -> Seq(Tokens)]
  <2> HIDE DEF n
  <2> QED BY <1>3
<1>6. PICK h \in [0 .. n -> Seq(Tokens)] :
        h[0] = <<Int32(0)>> /\ \A k \in 1 .. n : h[k] = g[<<k, h[k - 1]>>]
  <2> HIDE DEF n, g
  <2>1. Iterated(n, Seq(Tokens), <<Int32(0)>>, g)
    BY <1>1, <1>4, <1>5, Iterates
  <2> QED BY <2>1 DEF Iterated
<1>7. eq(h)
  <2>1. ASSUME NEW k \in 0 .. n, k # 0
        PROVE  h[k] = Id(order[n - k + 1]) \o h[k - 1]
    <3>1. k \in 1 .. n /\ k - 1 \in 0 .. n
      BY <1>1, <2>1
    <3>2. h[k - 1] \in Seq(Tokens)
      BY <3>1
    <3>3. <<k, h[k - 1]>> \in (1 .. n) \X Seq(Tokens)
      BY <3>1, <3>2
    <3>4. h[k] = g[<<k, h[k - 1]>>]
      BY <1>6, <3>1
    <3> HIDE DEF n
    <3> QED BY <3>3, <3>4
  <2>2. h = [k \in 0 .. n |-> h[k]]
    OBVIOUS
  <2> HIDE DEF n
  <2> QED BY <1>6, <2>1, <2>2
<1>8. eq(last)
  <2> HIDE DEF eq
  <2> QED BY <1>7
<1>9. IdList(order) = last[n]
  BY DEF IdList
<1> HIDE DEF last, g, n
<1>10. last[0] = <<Int32(0)>> /\ \A k \in 1 .. n : last[k] = Id(order[n - k + 1]) \o last[k - 1]
  <2>1. \A k \in 0 .. n : last[k] = IF k = 0 THEN <<Int32(0)>>
                                   ELSE Id(order[n - k + 1]) \o last[k - 1]
    BY <1>8
  <2>2. 0 \in 0 .. n /\ \A k \in 1 .. n : k \in 0 .. n /\ k # 0
    BY <1>1
  <2> HIDE DEF eq
  <2> QED BY <2>1, <2>2
<1> HIDE DEF eq
<1> DEFINE T == {j \in 0 .. n : last[j] \in Seq(Tokens)}
<1>11. \A j \in 0 .. n : j \in T
  <2>1. 0 \in T
    <3>1. 0 \in 0 .. n
      BY <1>1
    <3>2. last[0] \in Seq(Tokens)
      BY <1>4, <1>10
    <3> QED BY <3>1, <3>2
  <2>2. ASSUME NEW j \in 1 .. n, j - 1 \in T
        PROVE  j \in T
    <3>1. j \in 0 .. n /\ last[j - 1] \in Seq(Tokens)
      BY <2>2
    <3>2. last[j] = Id(order[n - j + 1]) \o last[j - 1]
      BY <1>10
    <3>3. last[j] \in Seq(Tokens)
      BY <1>3, <3>1, <3>2
    <3> QED BY <3>1, <3>3
  <2> HIDE DEF T
  <2> QED BY <1>1, <2>1, <2>2, UpTo
<1> DEFINE L == [i \in 0 .. n |-> last[n - i]]
<1>12. \A i \in 0 .. n : n - i \in 0 .. n
  BY <1>1
<1>13. L \in [0 .. n -> Seq(Tokens)]
  BY <1>11, <1>12
<1>14. L[0] = IdList(order) /\ L[n] = <<Int32(0)>>
  <2>1. n - 0 = n /\ n - n = 0 /\ 0 \in 0 .. n /\ n \in 0 .. n
    BY <1>1
  <2> QED BY <1>9, <1>10, <2>1
<1>15. ASSUME NEW i \in 1 .. n PROVE L[i - 1] = Id(order[i]) \o L[i]
  <2>1. n - i + 1 \in 1 .. n /\ i \in 0 .. n /\ i - 1 \in 0 .. n
        /\ n - (i - 1) = n - i + 1 /\ (n - i + 1) - 1 = n - i
    BY <1>1
  <2>2. n - (n - i + 1) + 1 = i
    BY <1>1
  <2>3. last[n - i + 1] = Id(order[n - (n - i + 1) + 1]) \o last[(n - i + 1) - 1]
    BY <1>10, <2>1
  <2>4. L[i - 1] = last[n - i + 1] /\ L[i] = last[n - i]
    BY <2>1
  <2> HIDE DEF L
  <2> QED BY <2>1, <2>2, <2>3, <2>4
<1> HIDE DEF L
<1> QED BY <1>13, <1>14, <1>15 DEF n

\* One token, and then what follows.
Then(x, w) == <<x>> \o w

\* The first of a sequence and the rest of it.
LEMMA ThenFacts ==
  ASSUME NEW S, NEW x \in S, NEW w \in Seq(S)
  PROVE  /\ Then(x, w) \in Seq(S) /\ Then(x, w) # <<>>
         /\ Head(Then(x, w)) = x /\ Tail(Then(x, w)) = w
         /\ \A v \in Seq(S) : Then(x, w) \o v = Then(x, w \o v)
<1>1. <<x>> \in Seq(S) /\ Len(<<x>>) = 1 /\ <<x>>[1] = x
  OBVIOUS
<1>2. Then(x, w) \in Seq(S) /\ Len(Then(x, w)) = Len(w) + 1
  BY <1>1 DEF Then
<1>3. Then(x, w)[1] = x /\ \A i \in 1 .. Len(w) : Then(x, w)[i + 1] = w[i]
  BY <1>1 DEF Then
<1>4. Head(Then(x, w)) = x /\ Then(x, w) # <<>>
  BY <1>2, <1>3
<1>5. Tail(Then(x, w)) = w
  <2>1. /\ Tail(Then(x, w)) \in Seq(S) /\ Len(Tail(Then(x, w))) = Len(w)
        /\ \A i \in 1 .. Len(w) : Tail(Then(x, w))[i] = Then(x, w)[i + 1]
    BY <1>2
  <2> QED BY <1>3, <2>1
<1>6. ASSUME NEW v \in Seq(S) PROVE Then(x, w) \o v = Then(x, w \o v)
  BY <1>1 DEF Then
<1> QED BY <1>2, <1>4, <1>5, <1>6

\* Where the parentheses are does not matter.
LEMMA Assoc ==
  \A a, b, c \in Seq(Tokens) : (a \o b) \o c = a \o (b \o c)
<1> SUFFICES ASSUME NEW a \in Seq(Tokens), NEW b \in Seq(Tokens), NEW c \in Seq(Tokens)
             PROVE  (a \o b) \o c = a \o (b \o c)
  OBVIOUS
<1> QED OBVIOUS

\* Nothing changes nothing.
LEMMA NoneFacts ==
  ASSUME NEW S, NEW a \in Seq(S)
  PROVE  a \o <<>> = a /\ <<>> \o a = a /\ <<>> \in Seq(S)
OBVIOUS

\* What is in two sequences together.
LEMMA RangeBoth ==
  ASSUME NEW S, NEW a \in Seq(S), NEW b \in Seq(S)
  PROVE  Range(a \o b) = Range(a) \cup Range(b)
<1>1. a \o b \in Seq(S) /\ Len(a \o b) = Len(a) + Len(b) /\ Len(a) \in Nat /\ Len(b) \in Nat
  OBVIOUS
<1>2. /\ \A i \in 1 .. Len(a) : (a \o b)[i] = a[i]
      /\ \A i \in 1 .. Len(b) : (a \o b)[i + Len(a)] = b[i]
  OBVIOUS
<1>3. /\ DOMAIN (a \o b) = 1 .. Len(a) + Len(b) /\ DOMAIN a = 1 .. Len(a)
      /\ DOMAIN b = 1 .. Len(b)
  BY <1>1
<1>4. ASSUME NEW y \in Range(a \o b) PROVE y \in Range(a) \cup Range(b)
  <2>1. PICK i \in 1 .. Len(a) + Len(b) : y = (a \o b)[i]
    BY <1>3 DEF Range
  <2>2. CASE i <= Len(a)
    BY <1>1, <1>2, <1>3, <2>1, <2>2 DEF Range
  <2>3. CASE ~(i <= Len(a))
    <3>1. i - Len(a) \in 1 .. Len(b) /\ (i - Len(a)) + Len(a) = i
      BY <1>1, <2>3
    <3> QED BY <1>2, <1>3, <2>1, <3>1 DEF Range
  <2> QED BY <2>2, <2>3
<1>5. ASSUME NEW y \in Range(a) PROVE y \in Range(a \o b)
  <2>1. PICK i \in 1 .. Len(a) : y = a[i]
    BY <1>3 DEF Range
  <2>2. i \in 1 .. Len(a) + Len(b)
    BY <1>1
  <2> QED BY <1>2, <1>3, <2>1, <2>2 DEF Range
<1>6. ASSUME NEW y \in Range(b) PROVE y \in Range(a \o b)
  <2>1. PICK i \in 1 .. Len(b) : y = b[i]
    BY <1>3 DEF Range
  <2>2. i + Len(a) \in 1 .. Len(a) + Len(b)
    BY <1>1
  <2> QED BY <1>2, <1>3, <2>1, <2>2 DEF Range
<1> QED BY <1>4, <1>5, <1>6

\* What is one sequence and then another.
LEMMA Joined ==
  ASSUME NEW S, NEW x \in Seq(S), NEW y \in Seq(S), NEW z \in Seq(S),
         Len(z) = Len(x) + Len(y), \A i \in 1 .. Len(x) : z[i] = x[i],
         \A i \in 1 .. Len(y) : z[i + Len(x)] = y[i]
  PROVE  z = x \o y
<1>1. x \o y \in Seq(S) /\ Len(x \o y) = Len(x) + Len(y) /\ Len(x) \in Nat /\ Len(y) \in Nat
  OBVIOUS
<1>2. /\ \A i \in 1 .. Len(x) : (x \o y)[i] = x[i]
      /\ \A i \in 1 .. Len(y) : (x \o y)[i + Len(x)] = y[i]
  OBVIOUS
<1>3. ASSUME NEW i \in 1 .. Len(z) PROVE z[i] = (x \o y)[i]
  <2>1. CASE i <= Len(x)
    BY <1>1, <1>2, <2>1
  <2>2. CASE ~(i <= Len(x))
    <3>1. i - Len(x) \in 1 .. Len(y) /\ (i - Len(x)) + Len(x) = i
      BY <1>1, <2>2
    <3>2. z[(i - Len(x)) + Len(x)] = (x \o y)[(i - Len(x)) + Len(x)]
      BY <1>2, <3>1
    <3> QED BY <3>1, <3>2
  <2> QED BY <2>1, <2>2
<1> QED BY <1>1, <1>3

\* Two tokens, one after the other.
LEMMA PairThen ==
  ASSUME NEW S, NEW a \in S, NEW b \in S, NEW s \in Seq(S)
  PROVE  <<a, b>> \o s = Then(a, Then(b, s))
<1>1. PICK x, y, xy : x = <<a>> /\ y = <<b>> /\ xy = <<a, b>>
  OBVIOUS
<1>2. /\ x \in Seq(S) /\ Len(x) = 1 /\ x[1] = a /\ y \in Seq(S) /\ Len(y) = 1 /\ y[1] = b
      /\ xy \in Seq(S) /\ Len(xy) = 2 /\ xy[1] = a /\ xy[2] = b
  BY <1>1
<1>3. xy = x \o y
  <2>1. /\ Len(xy) = Len(x) + Len(y) /\ \A i \in 1 .. Len(x) : xy[i] = x[i]
        /\ \A i \in 1 .. Len(y) : xy[i + Len(x)] = y[i]
    BY <1>2
  <2> QED BY <1>2, <2>1, Joined
<1>4. (x \o y) \o s = x \o (y \o s)
  BY <1>2
<1> QED BY <1>1, <1>3, <1>4, Zenon DEF Then

\* Three tokens.
LEMMA TripleThen ==
  ASSUME NEW S, NEW a \in S, NEW b \in S, NEW c \in S, NEW s \in Seq(S)
  PROVE  <<a, b, c>> \o s = Then(a, Then(b, Then(c, s)))
<1>1. PICK x, yz, xyz : x = <<a>> /\ yz = <<b, c>> /\ xyz = <<a, b, c>>
  OBVIOUS
<1>2. /\ x \in Seq(S) /\ Len(x) = 1 /\ x[1] = a
      /\ yz \in Seq(S) /\ Len(yz) = 2 /\ yz[1] = b /\ yz[2] = c
      /\ xyz \in Seq(S) /\ Len(xyz) = 3 /\ xyz[1] = a /\ xyz[2] = b /\ xyz[3] = c
  BY <1>1
<1>3. xyz = x \o yz
  <2>1. /\ Len(xyz) = Len(x) + Len(yz) /\ \A i \in 1 .. Len(x) : xyz[i] = x[i]
        /\ \A i \in 1 .. Len(yz) : xyz[i + Len(x)] = yz[i]
    BY <1>2
  <2> QED BY <1>2, <2>1, Joined
<1>4. (x \o yz) \o s = x \o (yz \o s)
  BY <1>2
<1>5. <<b, c>> \o s = Then(b, Then(c, s))
  BY PairThen
<1> QED BY <1>1, <1>3, <1>4, <1>5, Zenon DEF Then

\* The rest of a short list.
LEMMA TupleTail ==
  ASSUME NEW a, NEW b, NEW c, NEW d, NEW e
  PROVE  /\ Head(<<a, b, c, d, e>>) = a /\ Tail(<<a, b, c, d, e>>) = <<b, c, d, e>>
         /\ Head(<<a, b, c, d>>) = a /\ Tail(<<a, b, c, d>>) = <<b, c, d>>
         /\ Head(<<a, b, c>>) = a /\ Tail(<<a, b, c>>) = <<b, c>>
         /\ Head(<<a, b>>) = a /\ Tail(<<a, b>>) = <<b>>
         /\ Head(<<a>>) = a /\ Tail(<<a>>) = <<>>
<1>1. Tail(<<a, b, c, d, e>>) = <<b, c, d, e>>
  OBVIOUS
<1>2. Tail(<<a, b, c, d>>) = <<b, c, d>>
  OBVIOUS
<1>3. Tail(<<a, b, c>>) = <<b, c>>
  OBVIOUS
<1>4. Tail(<<a, b>>) = <<b>>
  OBVIOUS
<1>5. Tail(<<a>>) = <<>>
  OBVIOUS
<1>6. Head(<<a, b, c, d, e>>) = a /\ Head(<<a, b, c, d>>) = a /\ Head(<<a, b, c>>) = a
      /\ Head(<<a, b>>) = a /\ Head(<<a>>) = a
  OBVIOUS
<1> QED BY <1>1, <1>2, <1>3, <1>4, <1>5, <1>6

\* The token that is read, and what follows it.
LEMMA ThenReads ==
  ASSUME NEW x \in Tokens, NEW r \in Seq(Tokens), NEW w \in Seq(Tokens)
  PROVE  /\ Then(x, r) \o w # <<>> /\ Head(Then(x, r) \o w) = x
         /\ Tail(Then(x, r) \o w) = r \o w
<1>1. Then(x, r) \o w = Then(x, r \o w)
  <2>1. <<x>> \in Seq(Tokens)
    OBVIOUS
  <2> QED BY <2>1, Assoc DEF Then
<1>2. r \o w \in Seq(Tokens)
  OBVIOUS
<1>3. Then(x, r \o w) # <<>> /\ Head(Then(x, r \o w)) = x /\ Tail(Then(x, r \o w)) = r \o w
  BY <1>2, ThenFacts
<1> QED BY <1>1, <1>3

-----------------------------------------------------------------------------
(* The fields of an entry, and what both sides plan.                       *)

\* The fields that follow the mode.
Attributes == {"Uid", "Gid", "Rdev", "linklen", "LinkTarget", "Checksum"}

\* What token i of r has to be for the field that is read from it.
Suits(says, plan, r, i) ==
  /\ r[i].kind = Width(plan[i])
  /\ plan[i] = "linklen" => r[i].val = Len(says.LinkTarget)
  /\ plan[i] # "linklen" => r[i].val = says[plan[i]]
  /\ plan[i] = "LinkTarget" /\ i > 1 => plan[i - 1] = "linklen"
  /\ plan[i] = "linklen" => i < Len(plan)

\* A plan for the fields that follow the mode fits the tokens there are.
Planned(says, plan, r) ==
  /\ plan \in Seq(Attributes) /\ r \in Seq(Tokens) /\ Len(plan) = Len(r)
  /\ \A i \in 1 .. Len(plan) : Suits(says, plan, r, i)

\* The empty plan fits no tokens.
LEMMA PlannedNone == ASSUME NEW says PROVE Planned(says, <<>>, <<>>)
BY DEF Planned

\* A plan of one field.
LEMMA PlannedOne ==
  ASSUME NEW says, NEW field \in Attributes \ {"linklen", "LinkTarget"}, NEW token \in Tokens,
         token.kind = Width(field), token.val = says[field]
  PROVE  Planned(says, <<field>>, <<token>>)
<1>1. /\ <<field>> \in Seq(Attributes) /\ <<token>> \in Seq(Tokens) /\ Len(<<field>>) = 1
      /\ Len(<<token>>) = 1 /\ <<field>>[1] = field /\ <<token>>[1] = token
  OBVIOUS
<1>2. ASSUME NEW i \in 1 .. 1 PROVE Suits(says, <<field>>, <<token>>, i)
  <2>1. i = 1 /\ ~(i > 1)
    OBVIOUS
  <2> QED BY <1>1, <2>1 DEF Suits
<1> QED BY <1>1, <1>2 DEF Planned

\* A plan for the target of a link.
LEMMA PlannedLink ==
  ASSUME NEW says, says.LinkTarget \in Seq(Nat)
  PROVE  Planned(says, <<"linklen", "LinkTarget">>,
              <<Int32(Len(says.LinkTarget)), Bytes(says.LinkTarget)>>)
<1> DEFINE plan == <<"linklen", "LinkTarget">>
           r == <<Int32(Len(says.LinkTarget)), Bytes(says.LinkTarget)>>
<1>1. plan \in Seq(Attributes) /\ Len(plan) = 2 /\ plan[1] = "linklen" /\ plan[2] = "LinkTarget"
  <2>1. "linklen" \in Attributes /\ "LinkTarget" \in Attributes
    BY DEF Attributes
  <2> QED BY <2>1
<1>2. Int32(Len(says.LinkTarget)) \in Tokens /\ Bytes(says.LinkTarget) \in Tokens
  <2>1. Len(says.LinkTarget) \in Int \cup Seq(Nat) /\ says.LinkTarget \in Int \cup Seq(Nat)
    OBVIOUS
  <2> QED BY <2>1, TokenType
<1>3. r \in Seq(Tokens) /\ Len(r) = 2
  BY <1>2
<1>4. /\ r[1].kind = "int" /\ r[1].val = Len(says.LinkTarget)
      /\ r[2].kind = "bytes" /\ r[2].val = says.LinkTarget
  BY DEF Int32, Bytes
<1>5. Width("linklen") = "int" /\ Width("LinkTarget") = "bytes"
  BY DEF Width
<1>6. Suits(says, plan, r, 1)
  <2> HIDE DEF plan, r
  <2> QED BY <1>1, <1>4, <1>5 DEF Suits
<1>7. Suits(says, plan, r, 2)
  <2>1. says["LinkTarget"] = says.LinkTarget /\ 2 - 1 = 1
    OBVIOUS
  <2> HIDE DEF plan, r
  <2> QED BY <1>1, <1>4, <1>5, <2>1 DEF Suits
<1> HIDE DEF plan, r
<1>8. \A i \in 1 .. 2 : i = 1 \/ i = 2
  OBVIOUS
<1>9. \A i \in 1 .. 2 : Suits(says, plan, r, i)
  BY <1>6, <1>7, <1>8
<1>10. Planned(says, plan, r)
  BY <1>1, <1>3, <1>9 DEF Planned
<1> QED BY <1>10 DEF plan, r

\* One plan after the other.
LEMMA PlannedBoth ==
  ASSUME NEW says, NEW a, NEW b, NEW c, NEW d, Planned(says, a, b), Planned(says, c, d),
         c = <<>> \/ c[1] # "LinkTarget"
  PROVE  Planned(says, a \o c, b \o d)
<1>1. /\ a \in Seq(Attributes) /\ b \in Seq(Tokens) /\ c \in Seq(Attributes) /\ d \in Seq(Tokens)
      /\ Len(a) = Len(b) /\ Len(c) = Len(d) /\ Len(a) \in Nat /\ Len(c) \in Nat
  BY DEF Planned
<1> DEFINE plan == a \o c
           r == b \o d
<1>2. /\ plan \in Seq(Attributes) /\ r \in Seq(Tokens)
      /\ Len(plan) = Len(a) + Len(c) /\ Len(r) = Len(b) + Len(d)
  BY <1>1
<1>3. ASSUME NEW i \in 1 .. Len(a) PROVE Suits(says, plan, r, i)
  <2>1. plan[i] = a[i] /\ r[i] = b[i]
    BY <1>1
  <2>2. ASSUME i > 1 PROVE plan[i - 1] = a[i - 1]
    <3>1. i - 1 \in 1 .. Len(a)
      BY <1>1, <2>2
    <3> QED BY <1>1, <3>1
  <2>3. Suits(says, a, b, i)
    BY DEF Planned
  <2>4. i < Len(a) => i < Len(plan)
    BY <1>1, <1>2
  <2> HIDE DEF plan, r
  <2> QED BY <2>1, <2>2, <2>3, <2>4 DEF Suits
<1>4. ASSUME NEW i \in 1 .. Len(c) PROVE Suits(says, plan, r, i + Len(a))
  <2>1. plan[i + Len(a)] = c[i] /\ r[i + Len(a)] = d[i]
    BY <1>1
  <2>2. ASSUME i > 1 PROVE plan[(i + Len(a)) - 1] = c[i - 1]
    <3>1. i - 1 \in 1 .. Len(c) /\ (i + Len(a)) - 1 = (i - 1) + Len(a)
      BY <1>1, <2>2
    <3> QED BY <1>1, <3>1
  <2>3. Suits(says, c, d, i)
    BY DEF Planned
  <2>4. i = 1 => c[i] # "LinkTarget"
    BY <1>1
  <2>5. i > 1 \/ i = 1
    BY <1>1
  <2>6. i < Len(c) => i + Len(a) < Len(plan)
    BY <1>1, <1>2
  <2> HIDE DEF plan, r
  <2> QED BY <2>1, <2>2, <2>3, <2>4, <2>5, <2>6 DEF Suits
<1>5. ASSUME NEW i \in 1 .. Len(a) + Len(c) PROVE Suits(says, plan, r, i)
  <2>1. CASE i <= Len(a)
    <3>1. i \in 1 .. Len(a)
      BY <1>1, <2>1
    <3> QED BY <1>3, <3>1
  <2>2. CASE ~(i <= Len(a))
    <3>1. i - Len(a) \in 1 .. Len(c) /\ (i - Len(a)) + Len(a) = i
      BY <1>1, <2>2
    <3>2. Suits(says, plan, r, (i - Len(a)) + Len(a))
      BY <1>4, <3>1
    <3> QED BY <3>1, <3>2
  <2> QED BY <2>1, <2>2
<1> HIDE DEF plan, r
<1>6. Planned(says, plan, r)
  BY <1>1, <1>2, <1>5 DEF Planned
<1> QED BY <1>6 DEF plan, r

-----------------------------------------------------------------------------
(* What both sides know of the options.                                    *)

\* The options that decide which fields an entry has.
Shared == {"preserve_uid", "preserve_gid", "preserve_links", "preserve_devices",
           "always_checksum"}

\* A server hears its client's options without operands as well.
LEMMA ServerHearsOptions ==
  ASSUME NEW o
  PROVE  ParseArguments(ServerOptions(o)) = Implied(Told(o))
<1> DEFINE P == Words \cup {o.io_timeout}
           args == ServerOptions(o)
           all == Items(args)
<1>1. Words \subseteq P /\ "-" \in P /\ o.io_timeout \in P
  BY DEF Words
<1>2. args \in Seq(Seq(P)) /\ After(args, <<>>, all) = Told(o)
  <2> HIDE DEF P, all
  <2> QED BY <1>1, OptionsTold
<1> HIDE DEF P, args
<1>3. Parsed(Defaults, all, all) = Told(o)
  <2>1. all \in Seq(Seq(P))
    BY <1>1, <1>2, ItemsType
  <2>2. all \o Dashed(<<>>) = all
    <3>1. Dashed(<<>>) = <<>>
      BY DEF Dashed
    <3> QED BY <2>1, <3>1
  <2> QED BY <1>2, <2>2 DEF After
<1>4. ParseArguments(args) = IF Told(o).failed \/ Told(o).am_daemon = 1 THEN Told(o)
                             ELSE Implied(Told(o))
  BY <1>3, ParseIs
<1>5. ~Told(o).failed /\ Told(o).am_daemon # 1
  <2>1. Told(o)["failed"] = Defaults["failed"] /\ Told(o)["am_daemon"] = Defaults["am_daemon"]
    BY ToldIs
  <2>2. Defaults["failed"] = FALSE /\ Defaults["am_daemon"] = 0
    BY DEF Defaults
  <2> QED BY <2>1, <2>2
<1> QED BY <1>4, <1>5, Zenon DEF args

\* Whether the client asks for a field.
Asked(field) == On(copt, field)

\* The two sides agree on what the fields of an entry are.
Agreed ==
  /\ \A field \in Shared : (On(sopt, field) <=> Asked(field)) /\ (On(ropt, field) <=> Asked(field))
  /\ On(sopt, "preserve_specials") =>
       Asked("preserve_devices") \/ Asked("preserve_specials")
  /\ Asked("preserve_devices") /\ Asked("preserve_specials") => On(sopt, "preserve_specials")

\* At the start the server has heard what its client told it.
LEMMA AgreedInit == Init => Agreed
<1> SUFFICES ASSUME Init PROVE Agreed
  OBVIOUS
<1>1. dopt = Implied(Told(copt))
  BY ServerHearsOptions DEF Init
<1>2. \A field \in Shared \cup {"preserve_specials"} : dopt[field] = Told(copt)[field]
  <2>1. Told(copt) = [f \in Fields |-> Told(copt)[f]]
    BY ToldIs
  <2>2. Shared \cup {"preserve_specials"} \subseteq Fields
        /\ "xfer_dirs" \notin Shared \cup {"preserve_specials"}
    BY FieldsAre DEF Shared
  <2> DEFINE t == Told(copt)
  <2> HIDE DEF t
  <2>3. \A field \in Fields : field # "xfer_dirs" => Implied(t)[field] = t[field]
    BY <2>1 DEF Implied, t
  <2> QED BY <1>1, <2>2, <2>3 DEF t
<1>3. \A field \in Shared : On(dopt, field) <=> On(copt, field)
  <2>1. Shared \subseteq ToldAsIs
    BY DEF Shared, ToldAsIs
  <2>2. \A field \in Shared : dopt[field] = IF On(copt, field) THEN 1 ELSE 0
    BY <1>2, <2>1, ToldIs
  <2> QED BY <2>2 DEF On
<1>4. On(dopt, "preserve_specials") <=> On(copt, "preserve_devices")
  <2>1. dopt["preserve_specials"] = IF On(copt, "preserve_devices") THEN 1 ELSE 0
    BY <1>2, ToldIs
  <2> QED BY <2>1 DEF On
<1> QED BY <1>3, <1>4 DEF Agreed, sopt, ropt, Asked

-----------------------------------------------------------------------------
(* The entry of a path, and what the receiver makes of it.                 *)

\* What follows the mode, at the sender,
Attrs(path) ==
  LET info == Tree[path]
  IN When(On(sopt, "preserve_uid"), <<Int32(info.uid)>>)
     \o (When(On(sopt, "preserve_gid"), <<Int32(info.gid)>>)
     \o (Rdev(info)
     \o (When(On(sopt, "preserve_links") /\ info.kind = "link",
             <<Int32(Len(info.target)), Bytes(info.target)>>)
     \o When(On(sopt, "always_checksum"),
             <<Bytes(IF info.kind = "file" THEN info.sum ELSE EmptyChecksum)>>))))

\* and at the receiver.
Plan(path) ==
  LET kind == Tree[path].kind
  IN When(Asked("preserve_uid"), <<"Uid">>)
     \o (When(Asked("preserve_gid"), <<"Gid">>)
     \o (When(Asked("preserve_devices") /\ kind \in {"dev", "pipe"}, <<"Rdev">>)
     \o (When(Asked("preserve_links") /\ kind = "link", <<"linklen", "LinkTarget">>)
     \o When(Asked("always_checksum"), <<"Checksum">>))))

\* The fields of an entry at the receiver.
Columns == {"Name", "Length", "ModTime", "Mode", "Uid", "Gid", "Rdev", "LinkTarget",
            "Checksum"}

\* --devices and --specials are asked for together, or neither of them is.
DevicesAsOne == Asked("preserve_devices") <=> Asked("preserve_specials")

\* The mode tells the kind.
LEMMA KindTypes ==
  ASSUME NEW info \in FileInfo
  PROVE  /\ TypeOf(info.kind) \in Nat /\ ModeOf(info) \in Nat
         /\ FileType(ModeOf(info)) = TypeOf(info.kind)
         /\ TypeOf(info.kind) \in {1, 2} <=> info.kind \in {"dev", "pipe"}
         /\ TypeOf(info.kind) = 10 <=> info.kind = "link"
<1>1. info.kind \in Kinds /\ info.perm \in {0, 1}
  BY DEF FileInfo
<1>2. /\ TypeOf("pipe") = 1 /\ TypeOf("dev") = 2 /\ TypeOf("dir") = 4
      /\ TypeOf("file") = 8 /\ TypeOf("link") = 10
  BY DEF TypeOf
<1>3. TypeOf(info.kind) \in {1, 2, 4, 8, 10}
  BY <1>1, <1>2 DEF Kinds
<1>4. TypeOf(info.kind) \in {1, 2} <=> info.kind \in {"dev", "pipe"}
  BY <1>1, <1>2 DEF Kinds
<1>5. TypeOf(info.kind) = 10 <=> info.kind = "link"
  BY <1>1, <1>2 DEF Kinds
<1>6. \A x \in {1, 2, 4, 8, 10}, y \in {0, 1} : (2 * x + y) \div 2 = x /\ 2 * x + y \in Nat
  OBVIOUS
<1>7. ModeOf(info) \in Nat /\ FileType(ModeOf(info)) = TypeOf(info.kind)
  <2> DEFINE x == TypeOf(info.kind)
             y == info.perm
  <2>1. x \in {1, 2, 4, 8, 10} /\ y \in {0, 1}
    BY <1>1, <1>3
  <2>2. ModeOf(info) = 2 * x + y
    BY DEF ModeOf
  <2>3. FileType(2 * x + y) = (2 * x + y) \div 2
    BY DEF FileType
  <2> HIDE DEF x, y
  <2>4. (2 * x + y) \div 2 = x /\ 2 * x + y \in Nat
    BY <1>6, <2>1
  <2> QED BY <2>2, <2>3, <2>4 DEF x
<1> QED BY <1>3, <1>4, <1>5, <1>7

\* The conversion to int32 yields an int32.
LEMMA WrappedType ==
  ASSUME NEW v \in Int
  PROVE  Wrapped(v) \in -IntMax - 1 .. IntMax
<1>1. IntMax \in Nat
  BY ListConstants
<1> DEFINE w == 2 * (IntMax + 1)
           m == v % w
<1>2. w \in Nat /\ w > 0
  BY <1>1
<1>3. m \in 0 .. w - 1
  <2> HIDE DEF w
  <2> QED BY <1>2
<1>4. Wrapped(v) = IF m > IntMax THEN m - w ELSE m
  BY DEF Wrapped
<1> HIDE DEF m
<1>5. CASE m > IntMax
  BY <1>1, <1>3, <1>4, <1>5
<1>6. CASE ~(m > IntMax)
  BY <1>1, <1>3, <1>4, <1>6
<1> QED BY <1>5, <1>6

\* The receiver plans to read what it plans to read.
LEMMA AfterModeIs ==
  ASSUME Agreed, NEW path \in DOMAIN Tree
  PROVE  AfterMode(ModeOf(Tree[path])) = Plan(path) \o <<"flags">>
<1> DEFINE info == Tree[path]
           S == Attributes \cup {"flags"}
           a == When(Asked("preserve_uid"), <<"Uid">>)
           b == When(Asked("preserve_gid"), <<"Gid">>)
           c == When(Asked("preserve_devices") /\ info.kind \in {"dev", "pipe"}, <<"Rdev">>)
           d == When(Asked("preserve_links") /\ info.kind = "link", <<"linklen", "LinkTarget">>)
           e == When(Asked("always_checksum"), <<"Checksum">>)
           g == <<"flags">>
<1>1. info \in FileInfo
  BY ListConstants
<1>2. AfterMode(ModeOf(info)) = a \o b \o c \o d \o e \o g
  <2>1. \A field \in Shared : On(ropt, field) <=> Asked(field)
    BY DEF Agreed
  <2>2. FileType(ModeOf(info)) \in {1, 2} <=> info.kind \in {"dev", "pipe"}
    BY <1>1, KindTypes
  <2>3. FileType(ModeOf(info)) = 10 <=> info.kind = "link"
    BY <1>1, KindTypes
  <2>4. /\ On(ropt, "preserve_uid") <=> Asked("preserve_uid")
        /\ On(ropt, "preserve_gid") <=> Asked("preserve_gid")
        /\ On(ropt, "preserve_devices") <=> Asked("preserve_devices")
        /\ On(ropt, "preserve_links") <=> Asked("preserve_links")
        /\ On(ropt, "always_checksum") <=> Asked("always_checksum")
    BY <2>1 DEF Shared
  <2> HIDE DEF info
  <2> QED BY <2>2, <2>3, <2>4, Zenon DEF AfterMode, When
<1>3. Plan(path) = a \o (b \o (c \o (d \o e)))
  BY DEF Plan
<1>4. a \in Seq(S) /\ b \in Seq(S) /\ c \in Seq(S) /\ d \in Seq(S) /\ e \in Seq(S) /\ g \in Seq(S)
  <2>1. {"Uid", "Gid", "Rdev", "linklen", "LinkTarget", "Checksum", "flags"} = S
    BY DEF Attributes
  <2>2. /\ <<"Uid">> \in Seq(S) /\ <<"Gid">> \in Seq(S) /\ <<"Rdev">> \in Seq(S)
        /\ <<"linklen", "LinkTarget">> \in Seq(S) /\ <<"Checksum">> \in Seq(S)
        /\ <<"flags">> \in Seq(S) /\ <<>> \in Seq(S)
    <3> HIDE DEF S
    <3> QED BY <2>1
  <2> HIDE DEF S, info
  <2> QED BY <2>2 DEF When
<1> HIDE DEF a, b, c, d, e, g, info, S
<1>5. a \o b \o c \o d \o e \o g = (a \o (b \o (c \o (d \o e)))) \o g
  <2>1. \A x, y, z \in Seq(S) : (x \o y) \o z = x \o (y \o z)
    OBVIOUS
  <2>2. /\ a \o b \in Seq(S) /\ (a \o b) \o c \in Seq(S) /\ d \o e \in Seq(S)
        /\ c \o (d \o e) \in Seq(S)
    BY <1>4
  <2>3. PICK ab : ab = a \o b
    OBVIOUS
  <2>4. PICK abc : abc = ab \o c
    OBVIOUS
  <2>5. PICK de : de = d \o e
    OBVIOUS
  <2>6. PICK cde : cde = c \o de
    OBVIOUS
  <2>7. ab \in Seq(S) /\ abc \in Seq(S) /\ de \in Seq(S) /\ cde \in Seq(S)
    BY <2>2, <2>3, <2>4, <2>5, <2>6, Zenon
  <2>8. (abc \o d) \o e = abc \o (d \o e)
    <3>1. abc \in Seq(S) /\ d \in Seq(S) /\ e \in Seq(S)
      BY <1>4, <2>7
    <3> QED BY <3>1
  <2>9. (ab \o c) \o de = ab \o (c \o de)
    <3>1. ab \in Seq(S) /\ c \in Seq(S) /\ de \in Seq(S)
      BY <1>4, <2>7
    <3> QED BY <3>1
  <2>10. (a \o b) \o cde = a \o (b \o cde)
    <3>1. a \in Seq(S) /\ b \in Seq(S) /\ cde \in Seq(S)
      BY <1>4, <2>7
    <3> QED BY <3>1
  <2> QED BY <2>3, <2>4, <2>5, <2>6, <2>8, <2>9, <2>10, Zenon
<1> QED BY <1>2, <1>3, <1>5 DEF g, info

\* A plan from its beginning: no field relies on one that is already read.
Whole(says, plan, r) == Planned(says, plan, r) /\ (plan = <<>> \/ plan[1] # "LinkTarget")

\* One whole plan after the other is one.
LEMMA WholeBoth ==
  ASSUME NEW says, NEW a, NEW b, NEW c, NEW d, Whole(says, a, b), Whole(says, c, d)
  PROVE  Whole(says, a \o c, b \o d)
<1>1. Planned(says, a \o c, b \o d)
  BY PlannedBoth DEF Whole
<1>2. a \in Seq(Attributes) /\ c \in Seq(Attributes)
  BY DEF Whole, Planned
<1>3. CASE a = <<>>
  <2>1. a \o c = c
    BY <1>2, <1>3
  <2> QED BY <1>1, <2>1 DEF Whole
<1>4. CASE a # <<>>
  <2>1. (a \o c)[1] = a[1]
    BY <1>2, <1>4
  <2> QED BY <1>1, <1>4, <2>1 DEF Whole
<1> QED BY <1>3, <1>4

\* The empty plan is one.
LEMMA WholeNone == ASSUME NEW says PROVE Whole(says, <<>>, <<>>)
BY PlannedNone DEF Whole

\* So is that of one field,
LEMMA WholeOne ==
  ASSUME NEW says, NEW field \in Attributes \ {"linklen", "LinkTarget"}, NEW token \in Tokens,
         token.kind = Width(field), token.val = says[field]
  PROVE  Whole(says, <<field>>, <<token>>)
<1>1. <<field>>[1] = field
  OBVIOUS
<1> QED BY <1>1, PlannedOne DEF Whole

\* and that of a link.
LEMMA WholeLink ==
  ASSUME NEW says, says.LinkTarget \in Seq(Nat)
  PROVE  Whole(says, <<"linklen", "LinkTarget">>,
               <<Int32(Len(says.LinkTarget)), Bytes(says.LinkTarget)>>)
<1>1. <<"linklen", "LinkTarget">>[1] = "linklen"
  OBVIOUS
<1> QED BY <1>1, PlannedLink DEF Whole

\* What there is to know about a path.
Item(path) ==
  [name |-> Text(WireName(path)), size |-> SizeOf(Tree[path]),
   mtime |-> Wrapped(Tree[path].mtime), mode |-> ModeOf(Tree[path]),
   attrs |-> Attrs(path), plan |-> Plan(path), entry |-> Entry(path),
   says |-> Expected(path)]

\* What is left of an entry from one of its fields on.
AtMode(t) == Then(Int32(t.mode), t.attrs)
AtTime(t) == Then(Int32(t.mtime), AtMode(t))
AtLong(t) == Then(Long(t.size), AtTime(t))

AtLength(t) ==
  IF t.size <= IntMax THEN Then(Int32(t.size), AtTime(t)) ELSE Then(Int32(-1), AtLong(t))
AtName(t) == Then(Bytes(t.name), AtLength(t))
AtNameLen(t) == Then(Int32(Len(t.name)), AtName(t))

\* All of it is what it is meant to be.
Sound(t) ==
  /\ t.name \in Seq(Nat) /\ t.size \in Nat /\ t.mode \in Nat
  /\ t.mtime \in -IntMax - 1 .. IntMax
  /\ Whole(t.says, t.plan, t.attrs)
  /\ t.entry = Then(Byte(1), AtNameLen(t))
  /\ t.says = [F \in Columns |-> t.says[F]]
  /\ t.says["Name"] = Cleaned(t.name) /\ t.says["Length"] = t.size
  /\ t.says["ModTime"] = t.mtime /\ t.says["Mode"] = t.mode
  /\ Len(t.says["Checksum"]) = Len(EmptyChecksum)
  /\ \A F \in Attributes \ {"linklen"} : F \notin Range(t.plan) => t.says[F] = Blank[F]

\* The name of an entry is a string.
LEMMA WireNameType ==
  ASSUME job \in Jobs, NEW path \in DOMAIN Tree
  PROVE  Text(WireName(path)) \in Seq(Nat)
<1>1. path \in Seq(Seq(Nat)) /\ job.path \in Seq(Seq(Nat))
  BY ListConstants
<1> DEFINE n == Len(job.path)
           cut == IF job.push THEN IF job.slash \/ n = 0 THEN n ELSE n - 1
                  ELSE IF job.slash /\ Len(path) > n THEN n ELSE 0
<1>2. n \in Nat
  BY <1>1
<1>3. cut \in Nat
  <2> HIDE DEF n
  <2> QED BY <1>2
<1>4. WireName(path) = SubSeq(path, cut + 1, Len(path))
  BY DEF WireName
<1> HIDE DEF cut
<1>5. SubSeq(path, cut + 1, Len(path)) \in Seq(Seq(Nat))
  BY <1>1, <1>3
<1> QED BY <1>4, <1>5, TextType

\* What the receiver is to find out about a path.
LEMMA ExpectedIs ==
  ASSUME NEW path \in DOMAIN Tree, NEW info, info = Tree[path]
  PROVE  LET x == Expected(path)
         IN /\ x = [F \in Columns |-> x[F]]
            /\ x["Name"] = Cleaned(Text(WireName(path))) /\ x["Length"] = SizeOf(info)
            /\ x["ModTime"] = Wrapped(info.mtime) /\ x["Mode"] = ModeOf(info)
            /\ x["Uid"] = IF Asked("preserve_uid") THEN info.uid ELSE 0
            /\ x["Gid"] = IF Asked("preserve_gid") THEN info.gid ELSE 0
            /\ x["Rdev"] = IF Asked("preserve_devices") /\ info.kind \in {"dev", "pipe"}
                           THEN info.rdev ELSE 0
            /\ x["LinkTarget"] = IF Asked("preserve_links") /\ info.kind = "link"
                                 THEN info.target ELSE <<>>
            /\ x["Checksum"] = IF Asked("always_checksum") /\ info.kind = "file"
                               THEN info.sum ELSE EmptyChecksum
<1> DEFINE nm == Cleaned(Text(WireName(path)))
           sz == SizeOf(info)
           mt == Wrapped(info.mtime)
           md == ModeOf(info)
           ui == IF Asked("preserve_uid") THEN info.uid ELSE 0
           gi == IF Asked("preserve_gid") THEN info.gid ELSE 0
           rd == IF Asked("preserve_devices") /\ info.kind \in {"dev", "pipe"}
                 THEN info.rdev ELSE 0
           lt == IF Asked("preserve_links") /\ info.kind = "link" THEN info.target ELSE <<>>
           cs == IF Asked("always_checksum") /\ info.kind = "file"
                 THEN info.sum ELSE EmptyChecksum
           y == [Name |-> nm, Length |-> sz, ModTime |-> mt, Mode |-> md, Uid |-> ui,
                 Gid |-> gi, Rdev |-> rd, LinkTarget |-> lt, Checksum |-> cs]
<1>1. Expected(path) = y
  BY Zenon DEF Expected, Asked
<1> HIDE DEF nm, sz, mt, md, ui, gi, rd, lt, cs
<1>2. /\ y["Name"] = nm /\ y["Length"] = sz /\ y["ModTime"] = mt /\ y["Mode"] = md
      /\ y["Uid"] = ui /\ y["Gid"] = gi /\ y["Rdev"] = rd /\ y["LinkTarget"] = lt
      /\ y["Checksum"] = cs
  OBVIOUS
<1>3. y = [F \in Columns |-> y[F]]
  BY DEF Columns
<1> HIDE DEF y
<1> QED BY <1>1, <1>2, <1>3 DEF nm, sz, mt, md, ui, gi, rd, lt, cs

\* A new entry.
LEMMA BlankIs ==
  /\ Blank = [F \in Columns |-> Blank[F]]
  /\ Blank["Uid"] = 0 /\ Blank["Gid"] = 0 /\ Blank["Rdev"] = 0 /\ Blank["LinkTarget"] = <<>>
  /\ Blank["Checksum"] = EmptyChecksum /\ DOMAIN Blank = Columns
BY DEF Blank, Columns

\* The attributes that the sender writes are those that the receiver plans to
\* read, and those it does not plan to read are blank anyway.
LEMMA AttrsPlanned ==
  ASSUME Agreed, DevicesAsOne, NEW path \in DOMAIN Tree
  PROVE  /\ Whole(Expected(path), Plan(path), Attrs(path))
         /\ \A F \in Attributes \ {"linklen"} :
              F \notin Range(Plan(path)) => Expected(path)[F] = Blank[F]
<1> DEFINE info == Tree[path]
           x == Expected(path)
           u == Asked("preserve_uid")
           g == Asked("preserve_gid")
           d == Asked("preserve_devices") /\ info.kind \in {"dev", "pipe"}
           l == Asked("preserve_links") /\ info.kind = "link"
           c == Asked("always_checksum")
           pu == When(u, <<"Uid">>)
           pg == When(g, <<"Gid">>)
           pd == When(d, <<"Rdev">>)
           pl == When(l, <<"linklen", "LinkTarget">>)
           pc == When(c, <<"Checksum">>)
           tu == When(u, <<Int32(info.uid)>>)
           tg == When(g, <<Int32(info.gid)>>)
           td == When(d, <<Int32(info.rdev)>>)
           tl == When(l, <<Int32(Len(info.target)), Bytes(info.target)>>)
           tc == When(c, <<Bytes(IF info.kind = "file" THEN info.sum ELSE EmptyChecksum)>>)
<1>1. info \in FileInfo
  BY ListConstants
<1>2. /\ info.uid \in Int /\ info.gid \in Int /\ info.rdev \in Int /\ info.target \in Seq(Nat)
      /\ info.sum \in Seq(Nat) /\ EmptyChecksum \in Seq(Nat)
  BY <1>1 DEF FileInfo, Narrow, EmptyChecksum
<1>3. Plan(path) = pu \o (pg \o (pd \o (pl \o pc)))
  BY DEF Plan
<1>4. Attrs(path) = tu \o (tg \o (td \o (tl \o tc)))
  <2>1. /\ On(sopt, "preserve_uid") <=> u
        /\ On(sopt, "preserve_gid") <=> g
        /\ On(sopt, "preserve_devices") <=> Asked("preserve_devices")
        /\ On(sopt, "preserve_links") <=> Asked("preserve_links")
        /\ On(sopt, "always_checksum") <=> c
    BY DEF Agreed, Shared
  <2>2. Rdev(info) = td
    <3>1. On(sopt, "preserve_specials") <=> Asked("preserve_devices")
      BY DEF Agreed, DevicesAsOne
    <3>2. (\/ On(sopt, "preserve_devices") /\ info.kind = "dev"
           \/ On(sopt, "preserve_specials") /\ info.kind = "pipe") <=> d
      <4> HIDE DEF info
      <4> QED BY <2>1, <3>1
    <3> HIDE DEF d, info
    <3> QED BY <3>2 DEF Rdev, When
  <2>3. info = Tree[path]
    OBVIOUS
  <2> HIDE DEF info
  <2>4. Attrs(path) =
          When(On(sopt, "preserve_uid"), <<Int32(info.uid)>>)
          \o (When(On(sopt, "preserve_gid"), <<Int32(info.gid)>>)
          \o (Rdev(info)
          \o (When(On(sopt, "preserve_links") /\ info.kind = "link",
                  <<Int32(Len(info.target)), Bytes(info.target)>>)
          \o When(On(sopt, "always_checksum"),
                  <<Bytes(IF info.kind = "file" THEN info.sum ELSE EmptyChecksum)>>))))
    BY <2>3 DEF Attrs
  <2> QED BY <2>1, <2>2, <2>4, Zenon DEF When
<1>5. /\ x["Uid"] = IF u THEN info.uid ELSE 0
      /\ x["Gid"] = IF g THEN info.gid ELSE 0
      /\ x["Rdev"] = IF d THEN info.rdev ELSE 0
      /\ x["LinkTarget"] = IF l THEN info.target ELSE <<>>
      /\ x["Checksum"] = IF c /\ info.kind = "file" THEN info.sum ELSE EmptyChecksum
  <2> HIDE DEF info
  <2>1. info = Tree[path]
    BY DEF info
  <2> QED BY <2>1, ExpectedIs
<1>6. x.LinkTarget = x["LinkTarget"]
  OBVIOUS
<1> HIDE DEF info, x, u, g, d, l, c
<1>7. /\ Width("Uid") = "int" /\ Width("Gid") = "int" /\ Width("Rdev") = "int"
      /\ Width("Checksum") = "bytes"
  BY DEF Width
<1>8. \A v \in Int \cup Seq(Nat) :
        /\ Int32(v) \in Tokens /\ Int32(v).kind = "int" /\ Int32(v).val = v
        /\ Bytes(v) \in Tokens /\ Bytes(v).kind = "bytes" /\ Bytes(v).val = v
  <2>1. \A v : Int32(v).kind = "int" /\ Int32(v).val = v /\ Bytes(v).kind = "bytes" /\ Bytes(v).val = v
    BY DEF Int32, Bytes
  <2> QED BY <2>1, TokenType
<1>9. /\ "Uid" \in Attributes \ {"linklen", "LinkTarget"}
      /\ "Gid" \in Attributes \ {"linklen", "LinkTarget"}
      /\ "Rdev" \in Attributes \ {"linklen", "LinkTarget"}
      /\ "Checksum" \in Attributes \ {"linklen", "LinkTarget"}
  BY DEF Attributes
<1>10. ASSUME NEW on, NEW field \in Attributes \ {"linklen", "LinkTarget"}, NEW v \in Int \cup Seq(Nat),
              on => x[field] = v, NEW token \in {Int32(v), Bytes(v)},
              token.kind = Width(field)
       PROVE  Whole(x, When(on, <<field>>), When(on, <<token>>))
  <2>1. CASE on
    <3>1. token \in Tokens /\ token.val = x[field]
      BY <1>8, <1>10, <2>1
    <3>2. Whole(x, <<field>>, <<token>>)
      BY <1>10, <3>1, WholeOne
    <3> QED BY <2>1, <3>2 DEF When
  <2>2. CASE ~on
    BY <2>2, WholeNone DEF When
  <2> QED BY <2>1, <2>2
<1>11. Whole(x, pu, tu)
  <2> DEFINE v == info.uid
  <2>1. v \in Int \cup Seq(Nat) /\ (u => x["Uid"] = v)
    BY <1>2, <1>5
  <2>2. Int32(v).kind = Width("Uid")
    BY <1>7, <1>8, <2>1
  <2>3. tu = When(u, <<Int32(v)>>)
    OBVIOUS
  <2> HIDE DEF v, tu
  <2>4. Whole(x, When(u, <<"Uid">>), When(u, <<Int32(v)>>))
    BY <1>9, <1>10, <2>1, <2>2
  <2> QED BY <2>3, <2>4
<1>12. Whole(x, pg, tg)
  <2> DEFINE v == info.gid
  <2>1. v \in Int \cup Seq(Nat) /\ (g => x["Gid"] = v)
    BY <1>2, <1>5
  <2>2. Int32(v).kind = Width("Gid")
    BY <1>7, <1>8, <2>1
  <2>3. tg = When(g, <<Int32(v)>>)
    OBVIOUS
  <2> HIDE DEF v, tg
  <2>4. Whole(x, When(g, <<"Gid">>), When(g, <<Int32(v)>>))
    BY <1>9, <1>10, <2>1, <2>2
  <2> QED BY <2>3, <2>4
<1>13. Whole(x, pd, td)
  <2> DEFINE v == info.rdev
  <2>1. v \in Int \cup Seq(Nat) /\ (d => x["Rdev"] = v)
    BY <1>2, <1>5
  <2>2. Int32(v).kind = Width("Rdev")
    BY <1>7, <1>8, <2>1
  <2>3. td = When(d, <<Int32(v)>>)
    OBVIOUS
  <2> HIDE DEF v, td
  <2>4. Whole(x, When(d, <<"Rdev">>), When(d, <<Int32(v)>>))
    BY <1>9, <1>10, <2>1, <2>2
  <2> QED BY <2>3, <2>4
<1>14. Whole(x, pl, tl)
  <2>1. CASE l
    <3>1. x.LinkTarget = info.target
      BY <1>5, <1>6, <2>1
    <3>2. x.LinkTarget \in Seq(Nat)
      BY <1>2, <3>1
    <3>3. Whole(x, <<"linklen", "LinkTarget">>, <<Int32(Len(x.LinkTarget)), Bytes(x.LinkTarget)>>)
      BY <3>2, WholeLink
    <3> QED BY <2>1, <3>1, <3>3 DEF When
  <2>2. CASE ~l
    BY <2>2, WholeNone DEF When
  <2> QED BY <2>1, <2>2
<1>15. Whole(x, pc, tc)
  <2> DEFINE v == IF info.kind = "file" THEN info.sum ELSE EmptyChecksum
  <2>1. v \in Int \cup Seq(Nat) /\ (c => x["Checksum"] = v)
    BY <1>2, <1>5
  <2>2. Bytes(v).kind = Width("Checksum")
    BY <1>7, <1>8, <2>1
  <2>3. tc = When(c, <<Bytes(v)>>)
    OBVIOUS
  <2> HIDE DEF v, tc
  <2>4. Whole(x, When(c, <<"Checksum">>), When(c, <<Bytes(v)>>))
    BY <1>9, <1>10, <2>1, <2>2
  <2> QED BY <2>3, <2>4
<1> DEFINE P == Plan(path)
<1>16. /\ pu \in Seq(Attributes) /\ pg \in Seq(Attributes) /\ pd \in Seq(Attributes)
       /\ pl \in Seq(Attributes) /\ pc \in Seq(Attributes)
  BY <1>11, <1>12, <1>13, <1>14, <1>15 DEF Whole, Planned
<1>17. ASSUME NEW F \in Attributes \ {"linklen"}, F \notin Range(P)
       PROVE  x[F] = Blank[F]
  <2>1. Range(P) = Range(pu) \cup (Range(pg) \cup (Range(pd) \cup (Range(pl) \cup Range(pc))))
    <3> HIDE DEF pu, pg, pd, pl, pc
    <3> DEFINE q == pl \o pc
               r == pd \o q
               s == pg \o r
               t == pu \o s
    <3>1. q \in Seq(Attributes) /\ Range(q) = Range(pl) \cup Range(pc)
      <4>1. q \in Seq(Attributes)
        BY <1>16
      <4>2. Range(q) = Range(pl) \cup Range(pc)
        BY <1>16, RangeBoth
      <4> QED BY <4>1, <4>2
    <3> HIDE DEF q
    <3>2. r \in Seq(Attributes) /\ Range(r) = Range(pd) \cup Range(q)
      <4>1. r \in Seq(Attributes)
        BY <1>16, <3>1
      <4>2. Range(r) = Range(pd) \cup Range(q)
        BY <1>16, <3>1, RangeBoth
      <4> QED BY <4>1, <4>2
    <3> HIDE DEF r
    <3>3. s \in Seq(Attributes) /\ Range(s) = Range(pg) \cup Range(r)
      <4>1. s \in Seq(Attributes)
        BY <1>16, <3>2
      <4>2. Range(s) = Range(pg) \cup Range(r)
        BY <1>16, <3>2, RangeBoth
      <4> QED BY <4>1, <4>2
    <3> HIDE DEF s
    <3>4. Range(t) = Range(pu) \cup Range(s)
      BY <1>16, <3>3, RangeBoth
    <3>5. P = t
      BY <1>3 DEF q, r, s
    <3> HIDE DEF t
    <3> QED BY <3>1, <3>2, <3>3, <3>4, <3>5
  <2>2. /\ "Uid" \in Range(<<"Uid">>) /\ "Gid" \in Range(<<"Gid">>) /\ "Rdev" \in Range(<<"Rdev">>)
        /\ "LinkTarget" \in Range(<<"linklen", "LinkTarget">>)
        /\ "Checksum" \in Range(<<"Checksum">>)
    BY DEF Range
  <2>3. /\ u => "Uid" \in Range(pu)
        /\ g => "Gid" \in Range(pg)
        /\ d => "Rdev" \in Range(pd)
        /\ l => "LinkTarget" \in Range(pl)
        /\ c => "Checksum" \in Range(pc)
    BY <2>2 DEF When
  <2> HIDE DEF pu, pg, pd, pl, pc, P
  <2>4. F \in {"Uid", "Gid", "Rdev", "LinkTarget", "Checksum"}
    BY DEF Attributes
  <2>5. CASE F = "Uid"
    BY <1>5, <1>17, <2>1, <2>3, <2>5, BlankIs
  <2>6. CASE F = "Gid"
    BY <1>5, <1>17, <2>1, <2>3, <2>6, BlankIs
  <2>7. CASE F = "Rdev"
    BY <1>5, <1>17, <2>1, <2>3, <2>7, BlankIs
  <2>8. CASE F = "LinkTarget"
    BY <1>5, <1>17, <2>1, <2>3, <2>8, BlankIs
  <2>9. CASE F = "Checksum"
    BY <1>5, <1>17, <2>1, <2>3, <2>9, BlankIs
  <2> QED BY <2>4, <2>5, <2>6, <2>7, <2>8, <2>9
<1> HIDE DEF pu, pg, pd, pl, pc, tu, tg, td, tl, tc
<1>18. Whole(x, pl \o pc, tl \o tc)
  BY <1>14, <1>15, WholeBoth
<1>19. Whole(x, pd \o (pl \o pc), td \o (tl \o tc))
  BY <1>13, <1>18, WholeBoth
<1>20. Whole(x, pg \o (pd \o (pl \o pc)), tg \o (td \o (tl \o tc)))
  BY <1>12, <1>19, WholeBoth
<1>21. Whole(x, P, Attrs(path))
  BY <1>3, <1>4, <1>11, <1>20, WholeBoth
<1> QED BY <1>17, <1>21 DEF x

\* What is left of an entry, in tokens.
LEMMA PartsType ==
  ASSUME NEW t, t.name \in Seq(Nat), t.size \in Nat, t.mode \in Nat, t.mtime \in Int,
         t.attrs \in Seq(Tokens)
  PROVE  /\ AtMode(t) \in Seq(Tokens) /\ AtTime(t) \in Seq(Tokens) /\ AtLong(t) \in Seq(Tokens)
         /\ AtLength(t) \in Seq(Tokens) /\ AtName(t) \in Seq(Tokens)
         /\ AtNameLen(t) \in Seq(Tokens)
<1>1. /\ t.mode \in Int \cup Seq(Nat) /\ t.mtime \in Int \cup Seq(Nat)
      /\ t.size \in Int \cup Seq(Nat) /\ t.name \in Int \cup Seq(Nat)
      /\ Len(t.name) \in Int \cup Seq(Nat) /\ -1 \in Int \cup Seq(Nat)
  OBVIOUS
<1>2. /\ Int32(t.mode) \in Tokens /\ Int32(t.mtime) \in Tokens /\ Long(t.size) \in Tokens
      /\ Int32(t.size) \in Tokens /\ Int32(-1) \in Tokens /\ Bytes(t.name) \in Tokens
      /\ Int32(Len(t.name)) \in Tokens
  BY <1>1, TokenType
<1>3. AtMode(t) \in Seq(Tokens)
  BY <1>2, ThenFacts DEF AtMode
<1>4. AtTime(t) \in Seq(Tokens)
  BY <1>2, <1>3, ThenFacts DEF AtTime
<1>5. AtLong(t) \in Seq(Tokens)
  BY <1>2, <1>4, ThenFacts DEF AtLong
<1>6. AtLength(t) \in Seq(Tokens)
  BY <1>2, <1>4, <1>5, ThenFacts DEF AtLength
<1>7. AtName(t) \in Seq(Tokens)
  BY <1>2, <1>6, ThenFacts DEF AtName
<1>8. AtNameLen(t) \in Seq(Tokens)
  BY <1>2, <1>7, ThenFacts DEF AtNameLen
<1> QED BY <1>3, <1>4, <1>5, <1>6, <1>7, <1>8

\* An entry is a one, and then its fields one after the other.
LEMMA EntryIs ==
  ASSUME job \in Jobs, Agreed, DevicesAsOne, NEW path \in DOMAIN Tree, NEW t, t = Item(path)
  PROVE  /\ t.name \in Seq(Nat) /\ t.size \in Nat /\ t.mode \in Nat /\ t.mtime \in Int
         /\ t.attrs \in Seq(Tokens)
         /\ t.entry = Then(Byte(1), AtNameLen(t))
<1> DEFINE info == Tree[path]
<1>1. info \in FileInfo
  BY ListConstants
<1>2. /\ t.name = Text(WireName(path)) /\ t.size = SizeOf(info) /\ t.mtime = Wrapped(info.mtime)
      /\ t.mode = ModeOf(info) /\ t.attrs = Attrs(path) /\ t.entry = Entry(path)
  BY DEF Item
<1>3. t.name \in Seq(Nat)
  BY <1>2, WireNameType
<1>4. t.size \in Nat
  BY <1>1, <1>2 DEF SizeOf, FileInfo, DirSize
<1>5. t.mode \in Nat
  BY <1>1, <1>2, KindTypes
<1>6. t.mtime \in Int
  <2>1. info.mtime \in Int
    BY <1>1 DEF FileInfo
  <2>2. Wrapped(info.mtime) \in -IntMax - 1 .. IntMax
    BY <2>1, WrappedType
  <2> QED BY <1>2, <2>2
<1>7. t.attrs \in Seq(Tokens)
  BY <1>2, AttrsPlanned DEF Whole, Planned
<1> DEFINE a == <<Byte(1), Int32(Len(t.name)), Bytes(t.name)>>
           b == Length(info)
           c == <<Int32(t.mtime), Int32(t.mode)>>
           u == When(On(sopt, "preserve_uid"), <<Int32(info.uid)>>)
           g == When(On(sopt, "preserve_gid"), <<Int32(info.gid)>>)
           d == Rdev(info)
           l == When(On(sopt, "preserve_links") /\ info.kind = "link",
                     <<Int32(Len(info.target)), Bytes(info.target)>>)
           s == When(On(sopt, "always_checksum"),
                     <<Bytes(IF info.kind = "file" THEN info.sum ELSE EmptyChecksum)>>)
<1>8. Entry(path) = a \o b \o c \o u \o g \o d \o l \o s
  BY <1>2 DEF Entry
<1>9. t.attrs = u \o (g \o (d \o (l \o s)))
  BY <1>2 DEF Attrs
<1>10. /\ t.mode \in Int \cup Seq(Nat) /\ t.mtime \in Int \cup Seq(Nat)
       /\ t.size \in Int \cup Seq(Nat) /\ t.name \in Int \cup Seq(Nat)
       /\ Len(t.name) \in Int \cup Seq(Nat) /\ -1 \in Int \cup Seq(Nat) /\ 1 \in Int \cup Seq(Nat)
  BY <1>3, <1>4, <1>5, <1>6
<1>11. /\ Int32(t.mode) \in Tokens /\ Int32(t.mtime) \in Tokens /\ Long(t.size) \in Tokens
       /\ Int32(t.size) \in Tokens /\ Int32(-1) \in Tokens /\ Bytes(t.name) \in Tokens
       /\ Int32(Len(t.name)) \in Tokens /\ Byte(1) \in Tokens
  BY <1>10, TokenType
<1>12. /\ info.uid \in Int \cup Seq(Nat) /\ info.gid \in Int \cup Seq(Nat)
       /\ info.rdev \in Int \cup Seq(Nat) /\ info.target \in Int \cup Seq(Nat)
       /\ Len(info.target) \in Int \cup Seq(Nat) /\ info.sum \in Int \cup Seq(Nat)
       /\ EmptyChecksum \in Int \cup Seq(Nat)
  BY <1>1 DEF FileInfo, Narrow, EmptyChecksum
<1>13. /\ Int32(info.uid) \in Tokens /\ Int32(info.gid) \in Tokens /\ Int32(info.rdev) \in Tokens
       /\ Int32(Len(info.target)) \in Tokens /\ Bytes(info.target) \in Tokens
       /\ Bytes(IF info.kind = "file" THEN info.sum ELSE EmptyChecksum) \in Tokens
  BY <1>12, TokenType
<1>14. a \in Seq(Tokens) /\ c \in Seq(Tokens)
  BY <1>11
<1>15. /\ u \in Seq(Tokens) /\ g \in Seq(Tokens) /\ l \in Seq(Tokens) /\ s \in Seq(Tokens)
       /\ d \in Seq(Tokens)
  <2> HIDE DEF info
  <2> QED BY <1>13 DEF When, Rdev
<1>16. b = IF t.size <= IntMax THEN <<Int32(t.size)>> ELSE <<Int32(-1), Long(t.size)>>
  <2>1. b = IF t.size <= IntMax /\ t.size >= 0 THEN <<Int32(t.size)>>
            ELSE <<Int32(-1), Long(t.size)>>
    BY <1>2 DEF Length, Int64
  <2> QED BY <1>4, <2>1
<1>17. b \in Seq(Tokens)
  <2> HIDE DEF b
  <2> QED BY <1>11, <1>16
<1> HIDE DEF a, b, c, u, g, d, l, s
<1>18. Entry(path) = a \o (b \o (c \o t.attrs))
  <2>1. a \o b \o c \o u \o g \o d \o l \o s = (a \o b \o c) \o (u \o (g \o (d \o (l \o s))))
    <3>1. a \o b \o c \in Seq(Tokens)
      BY <1>14, <1>17
    <3> DEFINE e == a \o b \o c
    <3> HIDE DEF e
    <3>2. e \o u \o g \o d \o l \o s = e \o (u \o (g \o (d \o (l \o s))))
      <4>0. e \in Seq(Tokens)
        BY <3>1 DEF e
      <4>1. PICK x : x = l \o s
        OBVIOUS
      <4>2. PICK y : y = d \o x
        OBVIOUS
      <4>3. PICK z : z = g \o y
        OBVIOUS
      <4>4. x \in Seq(Tokens) /\ y \in Seq(Tokens) /\ z \in Seq(Tokens)
        BY <1>15, <4>1, <4>2, <4>3
      <4>5. /\ e \o u \in Seq(Tokens) /\ e \o u \o g \in Seq(Tokens)
            /\ e \o u \o g \o d \in Seq(Tokens)
        BY <1>15, <4>0
      <4>6. e \o u \o g \o d \o l \o s = e \o u \o g \o d \o x
        BY <1>15, <4>1, <4>5, SMTT(30)
      <4>7. e \o u \o g \o d \o x = e \o u \o g \o y
        <5>1. PICK k : k = e \o u \o g
          OBVIOUS
        <5>2. k \in Seq(Tokens)
          BY <4>5, <5>1
        <5>3. (k \o d) \o x = k \o (d \o x)
          <6>1. k \in Seq(Tokens) /\ d \in Seq(Tokens) /\ x \in Seq(Tokens)
            BY <1>15, <4>4, <5>2
          <6> QED BY <6>1, Assoc, Zenon
        <5> QED BY <4>2, <5>1, <5>3
      <4>8. e \o u \o g \o y = e \o u \o z
        BY <1>15, <4>3, <4>4, <4>5, SMTT(30)
      <4>9. e \o u \o z = e \o (u \o z)
        BY <1>15, <4>0, <4>4
      <4> QED BY <4>1, <4>2, <4>3, <4>6, <4>7, <4>8, <4>9
    <3> QED BY <3>2 DEF e
  <2>2. (a \o b \o c) \o t.attrs = a \o (b \o (c \o t.attrs))
    <3>1. PICK x : x = c \o t.attrs
      OBVIOUS
    <3>2. x \in Seq(Tokens) /\ a \o b \in Seq(Tokens)
      BY <1>7, <1>14, <1>17, <3>1
    <3>3. (a \o b \o c) \o t.attrs = (a \o b) \o x
      <4>1. PICK k : k = a \o b
        OBVIOUS
      <4>2. k \in Seq(Tokens)
        BY <3>2, <4>1
      <4>3. (k \o c) \o t.attrs = k \o (c \o t.attrs)
        <5>1. k \in Seq(Tokens) /\ c \in Seq(Tokens) /\ t.attrs \in Seq(Tokens)
          BY <1>7, <1>14, <4>2
        <5> QED BY <5>1, Assoc, Zenon
      <4> QED BY <3>1, <4>1, <4>3
    <3>4. (a \o b) \o x = a \o (b \o x)
      BY <1>14, <1>17, <3>2
    <3> QED BY <3>1, <3>3, <3>4
  <2> QED BY <1>8, <1>9, <2>1, <2>2
<1>19. c \o t.attrs = AtTime(t)
  <2>1. c = <<Int32(t.mtime)>> \o <<Int32(t.mode)>>
    BY <1>11 DEF c
  <2>2. <<Int32(t.mtime)>> \in Seq(Tokens) /\ <<Int32(t.mode)>> \in Seq(Tokens)
    BY <1>11
  <2> QED BY <1>7, <2>1, <2>2 DEF AtTime, AtMode, Then
<1>20. AtTime(t) \in Seq(Tokens) /\ AtLength(t) \in Seq(Tokens) /\ AtLong(t) \in Seq(Tokens)
  BY <1>3, <1>4, <1>5, <1>6, <1>7, PartsType
<1>21. b \o AtTime(t) = AtLength(t)
  <2>1. CASE t.size <= IntMax
    BY <1>16, <2>1 DEF AtLength, Then
  <2>2. CASE ~(t.size <= IntMax)
    <3>1. b = <<Int32(-1)>> \o <<Long(t.size)>>
      BY <1>16, <1>11, <2>2
    <3>2. <<Int32(-1)>> \in Seq(Tokens) /\ <<Long(t.size)>> \in Seq(Tokens)
      BY <1>11
    <3>3. b \o AtTime(t) = Then(Int32(-1), AtLong(t))
      BY <1>20, <3>1, <3>2 DEF AtLong, Then
    <3> QED BY <2>2, <3>3 DEF AtLength
  <2> QED BY <2>1, <2>2
<1>22. a \o AtLength(t) = Then(Byte(1), AtNameLen(t))
  <2>1. a = <<Byte(1)>> \o (<<Int32(Len(t.name))>> \o <<Bytes(t.name)>>)
    BY <1>11 DEF a
  <2>2. <<Byte(1)>> \in Seq(Tokens) /\ <<Int32(Len(t.name))>> \in Seq(Tokens)
        /\ <<Bytes(t.name)>> \in Seq(Tokens)
    BY <1>11
  <2> QED BY <1>20, <2>1, <2>2 DEF AtNameLen, AtName, Then
<1>23. t.entry = Then(Byte(1), AtNameLen(t))
  BY <1>2, <1>18, <1>19, <1>21, <1>22
<1> QED BY <1>3, <1>4, <1>5, <1>6, <1>7, <1>23

\* So it is for every path.
LEMMA ItemSound ==
  ASSUME job \in Jobs, Agreed, DevicesAsOne, NEW path \in DOMAIN Tree
  PROVE  Sound(Item(path))
<1> DEFINE info == Tree[path]
<1>1. PICK t : t = Item(path)
  OBVIOUS
<1>2. info \in FileInfo
  BY ListConstants
<1>3. /\ t.name \in Seq(Nat) /\ t.size \in Nat /\ t.mode \in Nat
      /\ t.entry = Then(Byte(1), AtNameLen(t))
  BY <1>1, EntryIs
<1>4. /\ t.name = Text(WireName(path)) /\ t.size = SizeOf(info) /\ t.mtime = Wrapped(info.mtime)
      /\ t.mode = ModeOf(info) /\ t.attrs = Attrs(path) /\ t.plan = Plan(path)
      /\ t.says = Expected(path)
  BY <1>1 DEF Item
<1>5. t.mtime \in -IntMax - 1 .. IntMax
  <2>1. info.mtime \in Int
    BY <1>2 DEF FileInfo
  <2> QED BY <1>4, <2>1, WrappedType
<1>6. Whole(t.says, t.plan, t.attrs)
  BY <1>4, AttrsPlanned
<1>7. \A F \in Attributes \ {"linklen"} : F \notin Range(t.plan) => t.says[F] = Blank[F]
  BY <1>4, AttrsPlanned
<1>8. /\ t.says = [F \in Columns |-> t.says[F]]
      /\ t.says["Name"] = Cleaned(t.name) /\ t.says["Length"] = t.size
      /\ t.says["ModTime"] = t.mtime /\ t.says["Mode"] = t.mode
      /\ t.says["Checksum"] \in {info.sum, EmptyChecksum}
  <2> HIDE DEF info
  <2>1. info = Tree[path]
    BY DEF info
  <2>2. t.says = [F \in Columns |-> t.says[F]]
    BY <1>4, <2>1, ExpectedIs
  <2>3. t.says["Name"] = Cleaned(t.name) /\ t.says["Length"] = t.size
    BY <1>4, <2>1, ExpectedIs
  <2>4. t.says["ModTime"] = t.mtime /\ t.says["Mode"] = t.mode
    BY <1>4, <2>1, ExpectedIs
  <2>5. t.says["Checksum"] = IF Asked("always_checksum") /\ info.kind = "file"
                             THEN info.sum ELSE EmptyChecksum
    BY <1>4, <2>1, ExpectedIs
  <2> QED BY <2>2, <2>3, <2>4, <2>5
<1>9. Len(t.says["Checksum"]) = Len(EmptyChecksum)
  <2>1. Len(info.sum) = Len(EmptyChecksum)
    <3>1. info.sum \in {sum \in Seq(Nat) : Len(sum) = Len(EmptyChecksum)}
      BY <1>2 DEF FileInfo
    <3> QED BY <3>1
  <2> QED BY <1>8, <2>1
<1>10. Sound(t)
  BY <1>3, <1>5, <1>6, <1>7, <1>8, <1>9 DEF Sound
<1> QED BY <1>1, <1>10

-----------------------------------------------------------------------------
(* The inductive invariant: what is on the wire is the rest of the entry   *)
(* the receiver is in the middle of, the entries it has not begun, and the *)
(* end of the list once it was sent.                                       *)

\* What there is to know about every path.
Catalogue == [path \in DOMAIN Tree |-> Item(path)]

\* What does not change: all that is known, and whether the ids are sent.
Fixed(cat, u, g) ==
  /\ cat = Catalogue /\ u \in BOOLEAN /\ g \in BOOLEAN
  /\ u <=> Asked("preserve_uid")
  /\ g <=> Asked("preserve_gid")

\* The entries on the wire after k of all are read, and then the tail.
Stream(cat, all, f, tail, k, r) ==
  /\ all \in Seq(DOMAIN Tree) /\ k \in 0 .. Len(all) + 1
  /\ r \in Seq(Tokens) /\ tail \in Seq(Tokens)
  /\ f \in [0 .. Len(all) + 1 -> Seq(Tokens)]
  /\ f[Len(all) + 1] = <<>> /\ f[Len(all)] = tail
  /\ \A j \in 1 .. Len(all) : f[j - 1] = cat[all[j]].entry \o f[j]

\* The entries of the first k, and all of them when both sides have sorted.
Listed(cat, all, k) == [i \in 1 .. k |-> cat[all[i]].says]

Sorted(cat, all) ==
  InOrder(Listed(cat, all, Len(all)), [i \in 1 .. Len(all) |-> cat[all[i]].says["Name"]])
SortedPaths(cat, all) == InOrder(all, [i \in 1 .. Len(all) |-> cat[all[i]].name])

\* The end of the list.
AfterUsers(groups, g) == When(g, IdList(groups)) \o <<Int32(ioErrors)>>

Ending(users, groups, u, g) ==
  Then(Byte(0), When(u, IdList(users)) \o AfterUsers(groups, g))

\* The ids of the owners, and those that get a name.
Uids(all) == {Tree[all[i]].uid : i \in 1 .. Len(all)}
Gids(all) == {Tree[all[i]].gid : i \in 1 .. Len(all)}
NamedOf(owners, on) == IF on THEN (owners \cap DOMAIN SenderNames) \ {0} ELSE {}

\* An order of a set of ids.
OrderOf(order, map) ==
  order \in Seq(DOMAIN SenderNames) /\ Range(order) = map /\ 0 \notin map

\* How far the sender is.
Sending(cat, all, tail, users, groups, u, g) ==
  \/ /\ spc = "walk" /\ tail = <<>> /\ files = all
     /\ uidMap = NamedOf(Uids(all), u) /\ gidMap = NamedOf(Gids(all), g)
  \/ /\ spc = "err" /\ tail = <<>>
     /\ \E path \in DOMAIN Tree : files = Append(all, path)
  \/ /\ spc = "sorted" /\ tail = Ending(users, groups, u, g)
     /\ files = SortedPaths(cat, all)
     /\ OrderOf(users, NamedOf(Uids(all), u)) /\ OrderOf(groups, NamedOf(Gids(all), g))

\* No ids were received.
NoIds == ids = [set \in {"users", "groups"} |-> {}]

\* Fields that are read, and fields that are blank.
Filled(t, read, e) ==
  /\ e = [F \in Columns |-> e[F]]
  /\ \A F \in read : e[F] = t.says[F]
  /\ \A F \in Attributes \ {"linklen"} : e[F] = Blank[F]

\* The receiver is somewhere in an entry, and r is the rest of it:
\* before its mode is read,
InHeader(t, r) ==
  \/ /\ need = <<"namelen", "Name", "Length", "ModTime", "Mode">> /\ r = AtNameLen(t)
     /\ Filled(t, {}, entry)
  \/ /\ need = <<"Name", "Length", "ModTime", "Mode">> /\ r = AtName(t)
     /\ size = Len(t.name) /\ Filled(t, {}, entry)
  \/ /\ need = <<"Length", "ModTime", "Mode">> /\ r = AtLength(t)
     /\ Filled(t, {"Name"}, entry)
  \/ /\ need = Then("Length64", <<"ModTime", "Mode">>) /\ r = AtLong(t)
     /\ Filled(t, {"Name"}, entry)
  \/ /\ need = <<"ModTime", "Mode">> /\ r = AtTime(t)
     /\ Filled(t, {"Name", "Length"}, entry)
  \/ /\ need = <<"Mode">> /\ r = AtMode(t)
     /\ Filled(t, {"Name", "Length", "ModTime"}, entry)

\* or after it.
InPlan(t, plan, r, n, e) ==
  /\ Planned(t.says, plan, r)
  /\ e = [F \in Columns |-> e[F]]
  /\ \A F \in Columns : F \notin Range(plan) => e[F] = t.says[F]
  /\ plan # <<>> /\ plan[1] = "LinkTarget" => n = Len(t.says.LinkTarget)

\* The same, with the fields that are still to be read.
InAttrs(t, r) ==
  \E plan : plan # <<>> /\ need = plan \o <<"flags">> /\ InPlan(t, plan, r, size, entry)

\* What an id is to the receiver.
Ident(id) ==
  [id |-> id, name |-> SenderNames[id],
   local |-> IF SenderNames[id] \in DOMAIN LocalIds THEN LocalIds[SenderNames[id]] ELSE id]
Idents(order, i) == {Ident(order[j]) : j \in 1 .. i}

\* L[i] is what is left of a list when i ids are read.
Unrolled(order, L) ==
  /\ L \in [0 .. Len(order) -> Seq(Tokens)]
  /\ L[0] = IdList(order) /\ L[Len(order)] = <<Int32(0)>>
  /\ \A i \in 1 .. Len(order) : L[i - 1] = Id(order[i]) \o L[i]

\* The receiver has read i ids of a list, and perhaps part of the next one.
InIds(set, order, L, i, after, next, r) ==
  /\ ids[set] = Idents(order, i)
  /\ \/ need = Then(set, next) /\ r = L[i] \o after
     \/ /\ i < Len(order) /\ entry["Uid"] = order[i + 1]
        /\ \/ /\ need = Then("idlen", Then("idname", Then(set, next)))
              /\ r = Then(Byte(Len(SenderNames[order[i + 1]])),
                          Then(Bytes(SenderNames[order[i + 1]]), L[i + 1] \o after))
           \/ /\ need = Then("idname", Then(set, next))
              /\ r = Then(Bytes(SenderNames[order[i + 1]]), L[i + 1] \o after)
              /\ size = Len(SenderNames[order[i + 1]])

\* What the receiver expects after the users.
NeedAfterUsers(g) == When(g, <<"groups">>) \o <<"IOErrors">>

\* The ids were received, if they are sent.
HasUsers(users, u) == u => ids["users"] = Idents(users, Len(users))
HasGroups(groups, g) == g => ids["groups"] = Idents(groups, Len(groups))

\* The receiver is behind the entries, and r is the rest of what it reads there.
InTrailer(users, groups, u, g, r) ==
  \/ /\ u /\ ids["groups"] = {}
     /\ \E L, i : /\ Unrolled(users, L) /\ i \in 0 .. Len(users)
                  /\ InIds("users", users, L, i, AfterUsers(groups, g), NeedAfterUsers(g), r)
  \/ /\ g /\ HasUsers(users, u)
     /\ \E L, i : /\ Unrolled(groups, L) /\ i \in 0 .. Len(groups)
                  /\ InIds("groups", groups, L, i, <<Int32(ioErrors)>>, <<"IOErrors">>, r)
  \/ /\ need = <<"IOErrors">> /\ r = <<Int32(ioErrors)>>
     /\ HasUsers(users, u) /\ HasGroups(groups, g)

\* How far the receiver is.
Between(cat, all, k, r) ==
  /\ rpc \in {"list", "err"} /\ k \in 0 .. Len(all) /\ r = <<>> /\ need = <<"flags">>
  /\ fileList = Listed(cat, all, k) /\ NoIds

\* It is in an entry,
Within(cat, all, k, r) ==
  /\ rpc = "list" /\ k \in 1 .. Len(all) /\ fileList = Listed(cat, all, k - 1) /\ NoIds
  /\ InHeader(cat[all[k]], r) \/ InAttrs(cat[all[k]], r)

\* in what follows the entries,
Trailing(cat, all, k, r, users, groups, u, g) ==
  /\ rpc = "list" /\ k = Len(all) + 1 /\ fileList = Sorted(cat, all)
  /\ entry = [F \in Columns |-> entry[F]]
  /\ ids = [set \in {"users", "groups"} |-> ids[set]]
  /\ InTrailer(users, groups, u, g, r)

\* or done.
Finished(cat, all, k, r, users, groups, u, g) ==
  /\ rpc = "sorted" /\ k = Len(all) + 1 /\ r = <<>> /\ fileList = Sorted(cat, all)
  /\ HasUsers(users, u) /\ HasGroups(groups, g)

ReadSoFar(cat, all, k, r, users, groups, u, g) ==
  \/ Between(cat, all, k, r)
  \/ Within(cat, all, k, r)
  \/ Trailing(cat, all, k, r, users, groups, u, g)
  \/ Finished(cat, all, k, r, users, groups, u, g)

\* Who gave up, and what the receiver knows of errors.
Errors(all, k) ==
  /\ rpc = "err" => spc = "err"
  /\ k = Len(all) + 1 => spc = "sorted"
  /\ IOErrors = IF rpc = "sorted" THEN ioErrors ELSE 0

\* All of that.
Inside(cat, all, f, tail, k, r, users, groups, u, g) ==
  /\ Fixed(cat, u, g)
  /\ Stream(cat, all, f, tail, k, r) /\ wire = r \o f[k]
  /\ Sending(cat, all, tail, users, groups, u, g)
  /\ ReadSoFar(cat, all, k, r, users, groups, u, g)
  /\ Errors(all, k)

\* What holds whatever the options are.
Walked ==
  /\ job \in Jobs
  /\ rest \subseteq DOMAIN Tree /\ files \in Seq(DOMAIN Tree) /\ rest \cap ToSet(files) = {}
  /\ ioErrors \in {0, 1} /\ faults \in 0 .. MaxFaults

\* The two sides agree on what every byte on the wire is.
Framed ==
  \E cat, all, f, tail, k, r, users, groups, u, g :
    Inside(cat, all, f, tail, k, r, users, groups, u, g)

\* The invariant.  If only one of --devices and --specials is asked for they do
\* not agree; see the hazards of the sender.
IInv == Walked /\ Agreed /\ (DevicesAsOne => Framed)

-----------------------------------------------------------------------------
(* A step of the receiver in an entry.                                     *)

\* What is known is true.
LEMMA FixedFacts ==
  ASSUME job \in Jobs, Agreed, DevicesAsOne, NEW cat, NEW u, NEW g, Fixed(cat, u, g)
  PROVE  \A path \in DOMAIN Tree :
           /\ Sound(cat[path]) /\ Entry(path) = cat[path].entry
           /\ AfterMode(cat[path].mode) = cat[path].plan \o <<"flags">>
           /\ cat[path].name = Text(WireName(path)) /\ cat[path].says = Expected(path)
<1> SUFFICES ASSUME NEW path \in DOMAIN Tree
             PROVE  /\ Sound(cat[path]) /\ Entry(path) = cat[path].entry
                    /\ AfterMode(cat[path].mode) = cat[path].plan \o <<"flags">>
                    /\ cat[path].name = Text(WireName(path)) /\ cat[path].says = Expected(path)
  OBVIOUS
<1>1. cat[path] = Item(path)
  BY DEF Fixed, Catalogue
<1>2. Sound(Item(path))
  BY ItemSound
<1>3. AfterMode(ModeOf(Tree[path])) = Plan(path) \o <<"flags">>
  BY AfterModeIs
<1>4. /\ Item(path).entry = Entry(path) /\ Item(path).mode = ModeOf(Tree[path])
      /\ Item(path).plan = Plan(path) /\ Item(path).name = Text(WireName(path))
      /\ Item(path).says = Expected(path)
  BY DEF Item
<1> QED BY <1>1, <1>2, <1>3, <1>4

\* And it stays so.
LEMMA FixedKept ==
  ASSUME NEW cat, NEW u, NEW g, Fixed(cat, u, g), UNCHANGED jobVars
  PROVE  Fixed(cat, u, g)'
<1>1. job' = job /\ copt' = copt /\ dopt' = dopt
  BY DEF jobVars
<1>2. sopt' = sopt /\ ropt' = ropt
  BY <1>1 DEF sopt, ropt
<1>3. \A field : Asked(field)' <=> Asked(field)
  BY <1>1 DEF Asked, On
<1>4. \A path : WireName(path)' = WireName(path)
  BY <1>1 DEF WireName
<1>5. \A path : Entry(path)' = Entry(path)
  BY <1>2, <1>4, Zenon DEF Entry, Rdev, On
<1>6. \A path : Attrs(path)' = Attrs(path)
  BY <1>2, Zenon DEF Attrs, Rdev, On
<1>7. \A path : Plan(path)' = Plan(path)
  BY <1>1, Zenon DEF Plan, Asked, On
<1>8. \A path : Expected(path)' = Expected(path)
  BY <1>1, <1>4, SMTT(30) DEF Expected, On
<1>9. \A path : Item(path)' = Item(path)
  BY <1>4, <1>5, <1>6, <1>7, <1>8, Zenon DEF Item
<1>10. Catalogue' = Catalogue
  BY <1>9, Zenon DEF Catalogue
<1> QED BY <1>3, <1>10 DEF Fixed

\* The field that comes next decides what the receiver does.
LEMMA FlagsNext == ASSUME Receive, wire # <<>>, Head(need) = "flags" PROVE RecvFlags
BY DEF Receive, RecvAttribute, RecvLength, RecvId, RecvIdName, RecvIOErrors, RecvEOF, Reading,
       Blank

\* A field of an entry.
LEMMA AttributeNext ==
  ASSUME Receive, wire # <<>>,
         Head(need) \in {"Name", "Length", "Length64", "ModTime", "Mode", "Uid", "Gid", "Rdev",
                         "LinkTarget", "Checksum"}
  PROVE  RecvAttribute
BY DEF Receive, RecvFlags, RecvLength, RecvId, RecvIdName, RecvIOErrors, RecvEOF, Reading

\* A length.
LEMMA LengthNext ==
  ASSUME Receive, wire # <<>>, Head(need) \in {"namelen", "linklen", "idlen"}
  PROVE  RecvLength
BY DEF Receive, RecvFlags, RecvAttribute, RecvId, RecvIdName, RecvIOErrors, RecvEOF, Reading,
       Blank

\* An id.
LEMMA IdNext ==
  ASSUME Receive, wire # <<>>, Head(need) \in {"users", "groups"}
  PROVE  RecvId
BY DEF Receive, RecvFlags, RecvAttribute, RecvLength, RecvIdName, RecvIOErrors, RecvEOF, Reading,
       Blank

\* The name of an id.
LEMMA IdNameNext ==
  ASSUME Receive, wire # <<>>, Head(need) = "idname"
  PROVE  RecvIdName
BY DEF Receive, RecvFlags, RecvAttribute, RecvLength, RecvId, RecvIOErrors, RecvEOF, Reading,
       Blank

\* The error flag.
LEMMA IOErrorsNext ==
  ASSUME Receive, wire # <<>>, Head(need) = "IOErrors"
  PROVE  RecvIOErrors
BY DEF Receive, RecvFlags, RecvAttribute, RecvLength, RecvId, RecvIdName, RecvEOF, Reading,
       Blank

\* A field after the mode, whatever it is, is the next token.
LEMMA PlanRead ==
  ASSUME NEW t, Sound(t), NEW plan, plan # <<>>, NEW r, NEW n, NEW e, InPlan(t, plan, r, n, e)
  PROVE  /\ plan[1] \in Attributes /\ r # <<>> /\ Head(r).kind = Width(plan[1])
         /\ Tail(plan) \in Seq(Attributes) /\ Tail(r) \in Seq(Tokens)
         /\ plan[1] = "linklen" =>
              Tail(plan) # <<>> /\ InPlan(t, Tail(plan), Tail(r), Head(r).val, e)
         /\ plan[1] # "linklen" =>
              /\ Head(r).val = t.says[plan[1]]
              /\ plan[1] = "LinkTarget" => Len(Head(r).val) = n
              /\ InPlan(t, Tail(plan), Tail(r), n, [e EXCEPT ![plan[1]] = Head(r).val])
<1> DEFINE p == Tail(plan)
           q == Tail(r)
           F == plan[1]
           v == Head(r).val
<1>1. /\ plan \in Seq(Attributes) /\ r \in Seq(Tokens) /\ Len(plan) = Len(r)
      /\ \A i \in 1 .. Len(plan) : Suits(t.says, plan, r, i)
  BY DEF InPlan, Planned
<1>2. Len(plan) \in Nat /\ Len(plan) > 0 /\ r # <<>> /\ 1 \in 1 .. Len(plan)
  BY <1>1
<1>3. Head(r) = r[1] /\ F \in Attributes
  BY <1>1, <1>2
<1>4. /\ p \in Seq(Attributes) /\ q \in Seq(Tokens) /\ Len(p) = Len(plan) - 1 /\ Len(q) = Len(p)
      /\ \A i \in 1 .. Len(p) : p[i] = plan[i + 1] /\ q[i] = r[i + 1]
  BY <1>1, <1>2
<1>5. Suits(t.says, plan, r, 1)
  BY <1>1, <1>2
<1>6. /\ Head(r).kind = Width(F)
      /\ F = "linklen" => v = Len(t.says.LinkTarget)
      /\ F # "linklen" => v = t.says[F]
  BY <1>3, <1>5 DEF Suits
<1>7. ASSUME NEW i \in 1 .. Len(p) PROVE Suits(t.says, p, q, i)
  <2>1. i + 1 \in 1 .. Len(plan) /\ i \in Nat /\ i + 1 > 1 /\ (i + 1) - 1 = i
    BY <1>2, <1>4
  <2>2. Suits(t.says, plan, r, i + 1)
    BY <1>1, <2>1
  <2>3. p[i] = plan[i + 1] /\ q[i] = r[i + 1]
    BY <1>4
  <2>4. ASSUME i > 1, p[i] = "LinkTarget" PROVE p[i - 1] = "linklen"
    <3>1. i - 1 \in 1 .. Len(p) /\ (i - 1) + 1 = i
      BY <1>4, <2>1, <2>4
    <3>2. p[i - 1] = plan[i]
      BY <1>4, <3>1
    <3>3. plan[i] = "linklen"
      BY <2>1, <2>2, <2>3, <2>4 DEF Suits
    <3> QED BY <3>2, <3>3
  <2>5. i + 1 < Len(plan) => i < Len(p)
    BY <1>2, <1>4, <2>1
  <2> HIDE DEF p, q
  <2> QED BY <2>1, <2>2, <2>3, <2>4, <2>5 DEF Suits
<1>8. Planned(t.says, p, q)
  <2> HIDE DEF p, q
  <2> QED BY <1>4, <1>7 DEF Planned
<1>9. ASSUME NEW G, G \in Range(plan), G # F PROVE G \in Range(p)
  <2>1. PICK i \in 1 .. Len(plan) : plan[i] = G
    BY <1>1, <1>9 DEF Range
  <2>2. i - 1 \in 1 .. Len(p) /\ (i - 1) + 1 = i
    <3>1. i # 1
      BY <1>9, <2>1
    <3> HIDE DEF p
    <3> QED BY <1>2, <1>4, <3>1
  <2>3. p[i - 1] = G
    BY <1>4, <2>1, <2>2
  <2>4. DOMAIN p = 1 .. Len(p)
    BY <1>4
  <2> HIDE DEF p
  <2> QED BY <2>2, <2>3, <2>4 DEF Range
<1>10. p # <<>> /\ p[1] = "LinkTarget" => F = "linklen"
  <2> SUFFICES ASSUME p # <<>>, p[1] = "LinkTarget" PROVE F = "linklen"
    OBVIOUS
  <2>1. 1 \in 1 .. Len(p) /\ 2 \in 1 .. Len(plan) /\ 1 + 1 = 2
    <3> HIDE DEF p
    <3> QED BY <1>2, <1>4
  <2>2. plan[2] = "LinkTarget"
    BY <1>4, <2>1
  <2>3. Suits(t.says, plan, r, 2) /\ 2 > 1 /\ 2 - 1 = 1
    BY <1>1, <2>1
  <2> QED BY <2>2, <2>3 DEF Suits
<1>11. e = [G \in Columns |-> e[G]] /\ \A G \in Columns : G \notin Range(plan) => e[G] = t.says[G]
  BY DEF InPlan
<1> HIDE DEF p, q, F, v
<1>12. ASSUME F = "linklen" PROVE p # <<>> /\ InPlan(t, p, q, v, e)
  <2>1. "linklen" \notin Columns
    BY DEF Columns
  <2>2. \A G \in Columns : G \notin Range(p) => e[G] = t.says[G]
    BY <1>9, <1>11, <1>12, <2>1
  <2>3. p # <<>>
    <3>1. 1 < Len(plan)
      BY <1>5, <1>12 DEF Suits, F
    <3> QED BY <1>2, <1>4, <3>1
  <2> QED BY <1>6, <1>8, <1>11, <1>12, <2>2, <2>3 DEF InPlan
<1>13. ASSUME F # "linklen" PROVE InPlan(t, p, q, n, [e EXCEPT ![F] = v])
  <2>1. F \in Columns
    BY <1>3, <1>13 DEF F, Attributes, Columns
  <2> DEFINE e2 == [e EXCEPT ![F] = v]
  <2>2. e2 = [G \in Columns |-> e2[G]] /\ e2[F] = v /\ \A G \in Columns : G # F => e2[G] = e[G]
    BY <1>11, <2>1
  <2> HIDE DEF e2
  <2>3. ASSUME NEW G \in Columns, G \notin Range(p) PROVE e2[G] = t.says[G]
    <3>1. CASE G = F
      BY <1>6, <1>13, <2>2, <3>1
    <3>2. CASE G # F
      BY <1>9, <1>11, <2>2, <2>3, <3>2
    <3> QED BY <3>1, <3>2
  <2>4. InPlan(t, p, q, n, e2)
    BY <1>8, <1>10, <1>13, <2>2, <2>3 DEF InPlan
  <2> QED BY <2>4 DEF e2
<1>14. ASSUME F = "LinkTarget" PROVE Len(v) = n
  <2>1. n = Len(t.says.LinkTarget)
    <3>1. plan # <<>> /\ plan[1] = "LinkTarget" => n = Len(t.says.LinkTarget)
      BY DEF InPlan
    <3> QED BY <1>14, <3>1 DEF F
  <2>2. v = t.says["LinkTarget"]
    BY <1>6, <1>14
  <2> QED BY <2>1, <2>2
<1> QED BY <1>2, <1>3, <1>4, <1>6, <1>12, <1>13, <1>14 DEF p, q, F, v

\* Setting a field that is not an attribute.
LEMMA FilledSet ==
  ASSUME NEW t, NEW read, NEW e, Filled(t, read, e), NEW F \in {"Name", "Length", "ModTime", "Mode"},
         NEW v
  PROVE  /\ F \notin read => Filled(t, read, [e EXCEPT ![F] = v])
         /\ v = t.says[F] => Filled(t, read \cup {F}, [e EXCEPT ![F] = v])
<1> DEFINE e2 == [e EXCEPT ![F] = v]
<1>1. F \in Columns /\ F \notin Attributes
  BY DEF Columns, Attributes
<1>2. e = [G \in Columns |-> e[G]]
  BY DEF Filled
<1>3. e2 = [G \in Columns |-> e2[G]] /\ e2[F] = v /\ \A G : G # F => e2[G] = e[G]
  BY <1>1, <1>2
<1> HIDE DEF e2
<1>4. F \notin read => Filled(t, read, e2)
  BY <1>1, <1>3 DEF Filled
<1>5. v = t.says[F] => Filled(t, read \cup {F}, e2)
  BY <1>1, <1>3 DEF Filled
<1> QED BY <1>4, <1>5 DEF e2

\* When the mode is known the attributes are still to be read.
LEMMA FilledPlan ==
  ASSUME NEW t, Sound(t), NEW e, Filled(t, {"Name", "Length", "ModTime", "Mode"}, e), NEW n
  PROVE  InPlan(t, t.plan, t.attrs, n, e)
<1>1. /\ Planned(t.says, t.plan, t.attrs) /\ (t.plan = <<>> \/ t.plan[1] # "LinkTarget")
      /\ \A F \in Attributes \ {"linklen"} : F \notin Range(t.plan) => t.says[F] = Blank[F]
  BY DEF Sound, Whole
<1>2. \A F \in Columns : F \in {"Name", "Length", "ModTime", "Mode"} \/ F \in Attributes \ {"linklen"}
  BY DEF Columns, Attributes
<1>3. \A F \in Columns : F \notin Range(t.plan) => e[F] = t.says[F]
  BY <1>1, <1>2 DEF Filled
<1>4. e = [F \in Columns |-> e[F]]
  BY DEF Filled
<1> QED BY <1>1, <1>3, <1>4 DEF InPlan

\* When all attributes are read the entry says what it is to say.
LEMMA PlanDone ==
  ASSUME NEW t, Sound(t), NEW r, NEW n, NEW e, InPlan(t, <<>>, r, n, e)
  PROVE  e = t.says /\ r = <<>>
<1>1. Range(<<>>) = {}
  BY DEF Range
<1>2. e = [F \in Columns |-> e[F]] /\ \A F \in Columns : e[F] = t.says[F]
  BY <1>1 DEF InPlan
<1>3. t.says = [F \in Columns |-> t.says[F]]
  BY DEF Sound
<1>4. r \in Seq(Tokens) /\ Len(r) = 0
  BY DEF InPlan, Planned
<1> QED BY <1>2, <1>3, <1>4

\* A field that the receiver reads.
LEMMA AttributeIs ==
  ASSUME RecvAttribute, NEW v, v = Value
  PROVE  /\ wire' = Tail(wire) /\ size' = size /\ rpc' = rpc /\ ids' = ids /\ IOErrors' = IOErrors
         /\ fileList' = IF need' = <<"flags">> THEN Append(fileList, entry') ELSE fileList
         /\ Head(need) = "Name" =>
              need' = Tail(need) /\ entry' = [entry EXCEPT !["Name"] = Cleaned(v)]
         /\ Head(need) = "Length" =>
              /\ need' = IF v = -1 THEN <<"Length64">> \o Tail(need) ELSE Tail(need)
              /\ entry' = [entry EXCEPT !["Length"] = v]
         /\ Head(need) = "Length64" =>
              need' = Tail(need) /\ entry' = [entry EXCEPT !["Length"] = v]
         /\ Head(need) = "Mode" =>
              need' = AfterMode(v) /\ entry' = [entry EXCEPT !["Mode"] = v]
         /\ Head(need) = "ModTime" =>
              need' = Tail(need) /\ entry' = [entry EXCEPT !["ModTime"] = v]
<1>1. /\ wire' = Tail(wire) /\ size' = size /\ rpc' = rpc /\ ids' = ids /\ IOErrors' = IOErrors
  BY Zenon DEF RecvAttribute
<1>2. fileList' = IF need' = <<"flags">> THEN Append(fileList, entry') ELSE fileList
  BY Zenon DEF RecvAttribute
<1>3. ASSUME Head(need) = "Name" PROVE need' = Tail(need) /\ entry' = [entry EXCEPT !["Name"] = Cleaned(v)]
  BY <1>3, Zenon DEF RecvAttribute
<1>4. ASSUME Head(need) = "Length"
      PROVE  /\ need' = IF v = -1 THEN <<"Length64">> \o Tail(need) ELSE Tail(need)
             /\ entry' = [entry EXCEPT !["Length"] = v]
  BY <1>4, Zenon DEF RecvAttribute
<1>5. ASSUME Head(need) = "Length64" PROVE need' = Tail(need) /\ entry' = [entry EXCEPT !["Length"] = v]
  BY <1>5, Zenon DEF RecvAttribute
<1>6. ASSUME Head(need) = "Mode" PROVE need' = AfterMode(v) /\ entry' = [entry EXCEPT !["Mode"] = v]
  BY <1>6, Zenon DEF RecvAttribute
<1>7. ASSUME Head(need) = "ModTime" PROVE need' = Tail(need) /\ entry' = [entry EXCEPT !["ModTime"] = v]
  BY <1>7, Zenon DEF RecvAttribute
<1> QED BY <1>1, <1>2, <1>3, <1>4, <1>5, <1>6, <1>7

\* What a step of the receiver in an entry leads to: still in it, or at its end.
EntryGoes(t, w) ==
  \E r \in Seq(Tokens) :
    /\ wire' = r \o w /\ rpc' = rpc /\ ids' = ids /\ IOErrors' = IOErrors
    /\ \/ (InHeader(t, r) \/ InAttrs(t, r))' /\ fileList' = fileList
       \/ need' = <<"flags">> /\ r = <<>> /\ fileList' = Append(fileList, t.says)

\* A step in the attributes leads to the next one, or to the end of the entry.
LEMMA AttributeRead ==
  ASSUME NEW t, Sound(t), NEW w, NEW r \in Seq(Tokens), NEW plan \in Seq(Attributes), NEW e,
         InPlan(t, plan, r, size, e),
         wire' = r \o w, rpc' = rpc, ids' = ids, IOErrors' = IOErrors, size' = size,
         need' = plan \o <<"flags">>, entry' = e,
         fileList' = IF plan \o <<"flags">> = <<"flags">> THEN Append(fileList, e) ELSE fileList
  PROVE  EntryGoes(t, w)
<1>1. CASE plan = <<>>
  <2>1. plan \o <<"flags">> = <<"flags">>
    BY <1>1
  <2>2. e = t.says /\ r = <<>>
    BY <1>1, PlanDone
  <2> QED BY <2>1, <2>2 DEF EntryGoes
<1>2. CASE plan # <<>>
  <2>1. plan \o <<"flags">> # <<"flags">>
    <3>1. Len(plan) > 0
      BY <1>2
    <3>2. Len(plan \o <<"flags">>) = Len(plan) + 1 /\ Len(<<"flags">>) = 1
      OBVIOUS
    <3> QED BY <3>1, <3>2, SMTT(30)
  <2>2. InAttrs(t, r)'
    BY <1>2 DEF InAttrs
  <2> QED BY <2>1, <2>2 DEF EntryGoes
<1> QED BY <1>1, <1>2

\* The receiver is between the mode of an entry and its end.
LEMMA AttrsRead ==
  ASSUME NEW t, Sound(t), NEW r, NEW w \in Seq(Tokens), wire = r \o w, rpc = "list",
         InAttrs(t, r)
  PROVE  wire # <<>> /\ Readable /\ (Receive => EntryGoes(t, w))
<1>1. PICK plan : plan # <<>> /\ need = plan \o <<"flags">> /\ InPlan(t, plan, r, size, entry)
  BY DEF InAttrs
<1>2. plan \in Seq(Attributes) /\ r \in Seq(Tokens) /\ Len(plan) = Len(r)
  BY <1>1 DEF InPlan, Planned
<1> DEFINE p == Tail(plan)
           q == Tail(r)
           F == plan[1]
           x == Head(r)
<1>3. /\ F \in Attributes /\ r # <<>> /\ x.kind = Width(F)
      /\ p \in Seq(Attributes) /\ q \in Seq(Tokens)
      /\ F = "linklen" => p # <<>> /\ InPlan(t, p, q, x.val, entry)
      /\ F # "linklen" =>
           /\ x.val = t.says[F]
           /\ F = "LinkTarget" => Len(x.val) = size
           /\ InPlan(t, p, q, size, [entry EXCEPT ![F] = x.val])
  BY <1>1, PlanRead
<1>4. Head(need) = F /\ Tail(need) = p \o <<"flags">>
  <2>1. Len(plan) > 0
    BY <1>1, <1>2
  <2> QED BY <1>1, <1>2, <2>1
<1>5. wire # <<>> /\ Head(wire) = x /\ Tail(wire) = q \o w
  BY <1>2, <1>3
<1> HIDE DEF p, q, F, x
<1>6. Readable
  <2>1. ASSUME F = "Checksum" PROVE Len(x.val) = Len(EmptyChecksum)
    <3>1. Len(t.says["Checksum"]) = Len(EmptyChecksum)
      BY DEF Sound
    <3> QED BY <1>3, <2>1, <3>1
  <2>2. F # "Name" /\ F # "idname"
    BY <1>3 DEF Attributes
  <2> QED BY <1>3, <1>4, <1>5, <2>1, <2>2 DEF Readable, Value
<1>7. ASSUME Receive PROVE EntryGoes(t, w)
  <2>1. CASE F = "linklen"
    <3>1. RecvLength
      BY <1>4, <1>5, <1>7, <2>1, LengthNext
    <3>2. /\ wire' = q \o w /\ need' = p \o <<"flags">> /\ size' = x.val
          /\ rpc' = rpc /\ entry' = entry /\ fileList' = fileList /\ ids' = ids
          /\ IOErrors' = IOErrors
      BY <1>4, <1>5, <3>1 DEF RecvLength, Value
    <3>3. InAttrs(t, q)'
      BY <1>3, <2>1, <3>2 DEF InAttrs
    <3> QED BY <1>3, <3>2, <3>3 DEF EntryGoes
  <2>2. CASE F # "linklen"
    <3>1. F \in {"Uid", "Gid", "Rdev", "LinkTarget", "Checksum"}
      BY <1>3, <2>2 DEF Attributes
    <3>2. RecvAttribute
      BY <1>4, <1>5, <1>7, <3>1, AttributeNext
    <3>3. /\ wire' = q \o w /\ need' = p \o <<"flags">>
          /\ entry' = [entry EXCEPT ![F] = x.val]
          /\ fileList' = IF p \o <<"flags">> = <<"flags">>
                         THEN Append(fileList, [entry EXCEPT ![F] = x.val]) ELSE fileList
          /\ rpc' = rpc /\ size' = size /\ ids' = ids /\ IOErrors' = IOErrors
      BY <1>4, <1>5, <3>1, <3>2, Zenon DEF RecvAttribute, Value
    <3> HIDE DEF Receive
    <3>4. PICK e : e = [entry EXCEPT ![F] = x.val]
      OBVIOUS
    <3>5. InPlan(t, p, q, size, e)
      BY <1>3, <2>2, <3>4
    <3> QED BY <1>3, <3>3, <3>4, <3>5, AttributeRead
  <2> QED BY <2>1, <2>2
<1> QED BY <1>5, <1>6, <1>7

\* The receiver is between the length of the name of an entry and its mode.
LEMMA HeaderRead ==
  ASSUME NEW t, Sound(t), NEW r, NEW w \in Seq(Tokens), wire = r \o w, rpc = "list",
         InHeader(t, r), AfterMode(t.mode) = t.plan \o <<"flags">>
  PROVE  wire # <<>> /\ Readable /\ (Receive => EntryGoes(t, w))
<1>1. /\ t.name \in Seq(Nat) /\ t.size \in Nat /\ t.mode \in Nat /\ t.mtime \in Int
      /\ t.attrs \in Seq(Tokens) /\ t.plan \in Seq(Attributes)
  BY ListConstants, SMTT(30) DEF Sound, Whole, Planned
<1>2. /\ AtMode(t) \in Seq(Tokens) /\ AtTime(t) \in Seq(Tokens) /\ AtLong(t) \in Seq(Tokens)
      /\ AtLength(t) \in Seq(Tokens) /\ AtName(t) \in Seq(Tokens)
      /\ AtNameLen(t) \in Seq(Tokens)
  BY <1>1, PartsType
<1>3. /\ Int32(t.mode) \in Tokens /\ Int32(t.mtime) \in Tokens /\ Long(t.size) \in Tokens
      /\ Int32(t.size) \in Tokens /\ Int32(-1) \in Tokens /\ Bytes(t.name) \in Tokens
      /\ Int32(Len(t.name)) \in Tokens
  <2>1. /\ t.mode \in Int \cup Seq(Nat) /\ t.mtime \in Int \cup Seq(Nat)
        /\ t.size \in Int \cup Seq(Nat) /\ t.name \in Int \cup Seq(Nat)
        /\ Len(t.name) \in Int \cup Seq(Nat) /\ -1 \in Int \cup Seq(Nat)
    BY <1>1
  <2> QED BY <2>1, TokenType
<1>4. \A v : /\ Int32(v).kind = "int" /\ Int32(v).val = v /\ Long(v).kind = "long"
             /\ Long(v).val = v /\ Bytes(v).kind = "bytes" /\ Bytes(v).val = v
  BY DEF Int32, Long, Bytes
<1>5. /\ Width("namelen") = "int" /\ Width("Name") = "bytes" /\ Width("Length") = "int"
      /\ Width("Length64") = "long" /\ Width("ModTime") = "int" /\ Width("Mode") = "int"
  BY DEF Width
<1>6. /\ t.says["Name"] = Cleaned(t.name) /\ t.says["Length"] = t.size
      /\ t.says["ModTime"] = t.mtime /\ t.says["Mode"] = t.mode
  BY DEF Sound
<1>7. /\ AtMode(t) = Then(Int32(t.mode), t.attrs) /\ AtTime(t) = Then(Int32(t.mtime), AtMode(t))
      /\ AtLong(t) = Then(Long(t.size), AtTime(t)) /\ AtName(t) = Then(Bytes(t.name), AtLength(t))
      /\ AtNameLen(t) = Then(Int32(Len(t.name)), AtName(t))
  BY DEF AtMode, AtTime, AtLong, AtName, AtNameLen
<1> DEFINE n5 == <<"namelen", "Name", "Length", "ModTime", "Mode">>
           n4 == <<"Name", "Length", "ModTime", "Mode">>
           n3 == <<"Length", "ModTime", "Mode">>
           n64 == Then("Length64", <<"ModTime", "Mode">>)
           n2 == <<"ModTime", "Mode">>
           n1 == <<"Mode">>
           f1 == <<"flags">>
<1>8. /\ Head(n5) = "namelen" /\ Tail(n5) = n4 /\ Head(n4) = "Name" /\ Tail(n4) = n3
      /\ Head(n3) = "Length" /\ Tail(n3) = n2 /\ Head(n2) = "ModTime" /\ Tail(n2) = n1
      /\ Head(n1) = "Mode"
  BY TupleTail
<1>9. /\ n1 # f1 /\ n2 # f1 /\ n3 # f1
      /\ Head(n64) = "Length64" /\ Tail(n64) = n2 /\ <<"Length64">> \o n2 = n64
      /\ Head(f1) = "flags"
  <2>0. Head(f1) = "flags"
    BY TupleTail
  <2>1. n1 # f1
    OBVIOUS
  <2>2. n2 # f1
    OBVIOUS
  <2>3. n3 # f1
    OBVIOUS
  <2>4. Head(n64) = "Length64" /\ Tail(n64) = n2
    <3>1. n2 \in Seq({"Length64", "ModTime", "Mode"})
      OBVIOUS
    <3> QED BY <3>1, ThenFacts
  <2>5. <<"Length64">> \o n2 = n64
    BY Zenon DEF Then
  <2> QED BY <2>0, <2>1, <2>2, <2>3, <2>4, <2>5
<1> HIDE DEF n5, n4, n3, n64, n2, n1, f1
\* The length of the name.
<1>10. CASE need = n5 /\ r = AtNameLen(t) /\ Filled(t, {}, entry)
  <2>1. wire # <<>> /\ Head(wire) = Int32(Len(t.name)) /\ Tail(wire) = AtName(t) \o w
    <3>1. wire = Then(Int32(Len(t.name)), AtName(t)) \o w
      BY <1>7, <1>10
    <3>2. /\ Then(Int32(Len(t.name)), AtName(t)) \o w # <<>> /\ Head(Then(Int32(Len(t.name)), AtName(t)) \o w) = Int32(Len(t.name))
          /\ Tail(Then(Int32(Len(t.name)), AtName(t)) \o w) = AtName(t) \o w
      BY <1>1, <1>2, <1>3, ThenReads, ZenonT(40)
    <3> QED BY <3>1, <3>2, Zenon
  <2>2. Readable
    <3>1. Head(wire).kind = "int" /\ Head(need) = "namelen"
      BY <1>4, <1>8, <1>10, <2>1, SMTT(30)
    <3> QED BY <1>5, <3>1 DEF Readable
  <2>3. ASSUME Receive PROVE EntryGoes(t, w)
    <3>1. RecvLength
      BY <1>8, <1>10, <2>1, <2>3, LengthNext
    <3>2. /\ wire' = AtName(t) \o w /\ need' = n4 /\ size' = Len(t.name) /\ rpc' = rpc
          /\ entry' = entry /\ fileList' = fileList /\ ids' = ids /\ IOErrors' = IOErrors
      BY <1>4, <1>8, <1>10, <2>1, <3>1 DEF RecvLength, Value
    <3>3. InHeader(t, AtName(t))'
      BY <1>10, <3>2 DEF InHeader, n4
    <3> QED BY <1>2, <3>2, <3>3 DEF EntryGoes
  <2> QED BY <2>1, <2>2, <2>3
\* The name.
<1>11. CASE need = n4 /\ r = AtName(t) /\ size = Len(t.name) /\ Filled(t, {}, entry)
  <2>1. wire # <<>> /\ Head(wire) = Bytes(t.name) /\ Tail(wire) = AtLength(t) \o w
    <3>1. wire = Then(Bytes(t.name), AtLength(t)) \o w
      BY <1>7, <1>11
    <3>2. /\ Then(Bytes(t.name), AtLength(t)) \o w # <<>> /\ Head(Then(Bytes(t.name), AtLength(t)) \o w) = Bytes(t.name)
          /\ Tail(Then(Bytes(t.name), AtLength(t)) \o w) = AtLength(t) \o w
      BY <1>1, <1>2, <1>3, ThenReads, ZenonT(40)
    <3> QED BY <3>1, <3>2, Zenon
  <2>2. Readable
    <3>1. Value = t.name /\ Head(wire).kind = "bytes"
      BY <1>4, <2>1 DEF Value
    <3> QED BY <1>5, <1>8, <1>11, <3>1 DEF Readable
  <2>3. ASSUME Receive PROVE EntryGoes(t, w)
    <3>1. RecvAttribute
      BY <1>8, <1>11, <2>1, <2>3, AttributeNext
    <3>2. /\ wire' = AtLength(t) \o w /\ need' = n3 /\ size' = size /\ rpc' = rpc
          /\ entry' = [entry EXCEPT !["Name"] = Cleaned(t.name)]
          /\ ids' = ids /\ IOErrors' = IOErrors
          /\ fileList' = IF n3 = f1 THEN Append(fileList, entry') ELSE fileList
      <4>1. Value = t.name
        BY <1>4, <2>1 DEF Value
      <4>2. /\ wire' = Tail(wire) /\ size' = size /\ rpc' = rpc /\ ids' = ids
            /\ IOErrors' = IOErrors
            /\ fileList' = IF need' = <<"flags">> THEN Append(fileList, entry') ELSE fileList
            /\ Head(need) = "Name" =>
                 need' = Tail(need) /\ entry' = [entry EXCEPT !["Name"] = Cleaned(t.name)]
        BY <3>1, <4>1, AttributeIs
      <4> QED BY <1>8, <1>11, <2>1, <4>2 DEF f1
    <3>3. Filled(t, {} \cup {"Name"}, [entry EXCEPT !["Name"] = Cleaned(t.name)])
      BY <1>6, <1>11, FilledSet
    <3>4. InHeader(t, AtLength(t))'
      BY <3>2, <3>3 DEF InHeader, n3
    <3> QED BY <1>2, <1>9, <3>2, <3>4 DEF EntryGoes
  <2> QED BY <2>1, <2>2, <2>3
\* The size, or that it is in the next eight bytes.
<1>12. CASE need = n3 /\ r = AtLength(t) /\ Filled(t, {"Name"}, entry)
  <2>1. PICK x, v, q : x = Int32(v) /\ v \in Int /\ q \in Seq(Tokens) /\ r = Then(x, q)
                    /\ \/ v = t.size /\ q = AtTime(t) /\ v # -1
                       \/ v = -1 /\ q = AtLong(t)
    <3>1. CASE t.size <= IntMax
      <4>1. r = Then(Int32(t.size), AtTime(t)) /\ t.size # -1 /\ t.size \in Int
        BY <1>1, <1>12, <3>1 DEF AtLength
      <4> QED BY <1>2, <4>1
    <3>2. CASE ~(t.size <= IntMax)
      <4>1. r = Then(Int32(-1), AtLong(t)) /\ -1 \in Int
        BY <1>12, <3>2 DEF AtLength
      <4> QED BY <1>2, <4>1
    <3> QED BY <3>1, <3>2
  <2>2. x \in Tokens
    BY <1>3, <2>1
  <2>3. wire # <<>> /\ Head(wire) = x /\ Tail(wire) = q \o w
    <3>1. wire = Then(x, q) \o w
      BY <2>1
    <3>2. /\ Then(x, q) \o w # <<>> /\ Head(Then(x, q) \o w) = x
          /\ Tail(Then(x, q) \o w) = q \o w
      BY <2>1, <2>2, ThenReads
    <3> QED BY <3>1, <3>2, Zenon
  <2>4. x.val = v /\ x.kind = "int"
    BY <1>4, <2>1
  <2>5. Readable
    BY <1>5, <1>8, <1>12, <2>3, <2>4 DEF Readable, Value
  <2>6. ASSUME Receive PROVE EntryGoes(t, w)
    <3>1. RecvAttribute
      BY <1>8, <1>12, <2>3, <2>6, AttributeNext
    <3>2. /\ wire' = q \o w /\ size' = size /\ rpc' = rpc
          /\ need' = IF v = -1 THEN n64 ELSE n2
          /\ entry' = [entry EXCEPT !["Length"] = v]
          /\ ids' = ids /\ IOErrors' = IOErrors
          /\ fileList' = IF need' = f1 THEN Append(fileList, entry') ELSE fileList
      BY <1>8, <1>9, <1>12, <2>3, <2>4, <3>1, AttributeIs DEF Value, f1
    <3>3. fileList' = fileList
      <4>1. n64 # f1 /\ n2 # f1
        BY <1>9
      <4> QED BY <3>2, <4>1
    <3>4. CASE v = t.size /\ q = AtTime(t) /\ v # -1
      <4>1. Filled(t, {"Name"} \cup {"Length"}, [entry EXCEPT !["Length"] = v])
        BY <1>6, <1>12, <3>4, FilledSet
      <4>2. {"Name"} \cup {"Length"} = {"Name", "Length"}
        OBVIOUS
      <4>3. InHeader(t, q)'
        BY <3>2, <3>4, <4>1, <4>2 DEF InHeader, n2
      <4> QED BY <2>1, <3>2, <3>3, <4>3 DEF EntryGoes
    <3>5. CASE v = -1 /\ q = AtLong(t)
      <4>1. "Length" \notin {"Name"}
        OBVIOUS
      <4>2. Filled(t, {"Name"}, [entry EXCEPT !["Length"] = v])
        BY <1>12, <4>1, FilledSet
      <4>3. InHeader(t, q)'
        BY <3>2, <3>5, <4>2 DEF InHeader, n64
      <4> QED BY <2>1, <3>2, <3>3, <4>3 DEF EntryGoes
    <3> QED BY <2>1, <3>4, <3>5
  <2> QED BY <2>3, <2>5, <2>6
\* The eight bytes.
<1>13. CASE need = n64 /\ r = AtLong(t) /\ Filled(t, {"Name"}, entry)
  <2>1. wire # <<>> /\ Head(wire) = Long(t.size) /\ Tail(wire) = AtTime(t) \o w
    <3>1. wire = Then(Long(t.size), AtTime(t)) \o w
      BY <1>7, <1>13
    <3>0. Long(t.size) \in Tokens /\ AtTime(t) \in Seq(Tokens)
      BY <1>1, <1>2, <1>3
    <3>2. /\ Then(Long(t.size), AtTime(t)) \o w # <<>> /\ Head(Then(Long(t.size), AtTime(t)) \o w) = Long(t.size)
          /\ Tail(Then(Long(t.size), AtTime(t)) \o w) = AtTime(t) \o w
      BY <3>0, ThenReads
    <3> QED BY <3>1, <3>2, Zenon
  <2>2. Readable
    <3>1. Value = t.size /\ Head(wire).kind = "long"
      BY <1>4, <2>1 DEF Value
    <3> QED BY <1>5, <1>9, <1>13, <3>1 DEF Readable
  <2>3. ASSUME Receive PROVE EntryGoes(t, w)
    <3>1. RecvAttribute
      BY <1>9, <1>13, <2>1, <2>3, AttributeNext
    <3>2. /\ wire' = AtTime(t) \o w /\ need' = n2 /\ size' = size /\ rpc' = rpc
          /\ entry' = [entry EXCEPT !["Length"] = t.size]
          /\ ids' = ids /\ IOErrors' = IOErrors
          /\ fileList' = IF n2 = f1 THEN Append(fileList, entry') ELSE fileList
      <4>1. Value = t.size
        BY <1>4, <2>1 DEF Value
      <4>2. /\ wire' = Tail(wire) /\ size' = size /\ rpc' = rpc /\ ids' = ids
            /\ IOErrors' = IOErrors
            /\ fileList' = IF need' = <<"flags">> THEN Append(fileList, entry') ELSE fileList
            /\ Head(need) = "Length64" =>
                 need' = Tail(need) /\ entry' = [entry EXCEPT !["Length"] = t.size]
        BY <3>1, <4>1, AttributeIs
      <4> QED BY <1>9, <1>13, <2>1, <4>2 DEF f1
    <3>3. Filled(t, {"Name"} \cup {"Length"}, [entry EXCEPT !["Length"] = t.size])
      BY <1>6, <1>13, FilledSet
    <3>4. {"Name"} \cup {"Length"} = {"Name", "Length"}
      OBVIOUS
    <3>5. InHeader(t, AtTime(t))'
      BY <3>2, <3>3, <3>4 DEF InHeader, n2
    <3> QED BY <1>2, <1>9, <3>2, <3>5 DEF EntryGoes
  <2> QED BY <2>1, <2>2, <2>3
\* The modification time.
<1>14. CASE need = n2 /\ r = AtTime(t) /\ Filled(t, {"Name", "Length"}, entry)
  <2>1. wire # <<>> /\ Head(wire) = Int32(t.mtime) /\ Tail(wire) = AtMode(t) \o w
    <3>1. wire = Then(Int32(t.mtime), AtMode(t)) \o w
      BY <1>7, <1>14
    <3>0. Int32(t.mtime) \in Tokens /\ AtMode(t) \in Seq(Tokens)
      BY <1>1, <1>2, <1>3
    <3>2. /\ Then(Int32(t.mtime), AtMode(t)) \o w # <<>> /\ Head(Then(Int32(t.mtime), AtMode(t)) \o w) = Int32(t.mtime)
          /\ Tail(Then(Int32(t.mtime), AtMode(t)) \o w) = AtMode(t) \o w
      BY <3>0, ThenReads
    <3> QED BY <3>1, <3>2, Zenon
  <2>2. Readable
    <3>1. Value = t.mtime /\ Head(wire).kind = "int"
      BY <1>4, <2>1 DEF Value
    <3> QED BY <1>5, <1>8, <1>14, <3>1 DEF Readable
  <2>3. ASSUME Receive PROVE EntryGoes(t, w)
    <3>1. RecvAttribute
      BY <1>8, <1>14, <2>1, <2>3, AttributeNext
    <3>2. /\ wire' = AtMode(t) \o w /\ need' = n1 /\ size' = size /\ rpc' = rpc
          /\ entry' = [entry EXCEPT !["ModTime"] = t.mtime]
          /\ ids' = ids /\ IOErrors' = IOErrors
          /\ fileList' = IF n1 = f1 THEN Append(fileList, entry') ELSE fileList
      <4>1. Value = t.mtime
        BY <1>4, <2>1 DEF Value
      <4>2. /\ wire' = Tail(wire) /\ size' = size /\ rpc' = rpc /\ ids' = ids
            /\ IOErrors' = IOErrors
            /\ fileList' = IF need' = <<"flags">> THEN Append(fileList, entry') ELSE fileList
            /\ Head(need) = "ModTime" =>
                 need' = Tail(need) /\ entry' = [entry EXCEPT !["ModTime"] = t.mtime]
        BY <3>1, <4>1, AttributeIs
      <4> QED BY <1>8, <1>14, <2>1, <4>2 DEF f1
    <3>3. Filled(t, {"Name", "Length"} \cup {"ModTime"}, [entry EXCEPT !["ModTime"] = t.mtime])
      BY <1>6, <1>14, FilledSet
    <3>4. {"Name", "Length"} \cup {"ModTime"} = {"Name", "Length", "ModTime"}
      OBVIOUS
    <3>5. InHeader(t, AtMode(t))'
      BY <3>2, <3>3, <3>4 DEF InHeader, n1
    <3> QED BY <1>2, <1>9, <3>2, <3>5 DEF EntryGoes
  <2> QED BY <2>1, <2>2, <2>3
\* The mode: now the receiver knows which fields follow.
<1>15. CASE need = n1 /\ r = AtMode(t) /\ Filled(t, {"Name", "Length", "ModTime"}, entry)
  <2>1. wire # <<>> /\ Head(wire) = Int32(t.mode) /\ Tail(wire) = t.attrs \o w
    <3>1. wire = Then(Int32(t.mode), t.attrs) \o w
      BY <1>7, <1>15
    <3>0. Int32(t.mode) \in Tokens /\ t.attrs \in Seq(Tokens)
      BY <1>1, <1>2, <1>3
    <3>2. /\ Then(Int32(t.mode), t.attrs) \o w # <<>> /\ Head(Then(Int32(t.mode), t.attrs) \o w) = Int32(t.mode)
          /\ Tail(Then(Int32(t.mode), t.attrs) \o w) = t.attrs \o w
      BY <3>0, ThenReads
    <3> QED BY <3>1, <3>2, Zenon
  <2>2. Readable
    <3>1. Value = t.mode /\ Head(wire).kind = "int"
      BY <1>4, <2>1 DEF Value
    <3> QED BY <1>5, <1>8, <1>15, <3>1 DEF Readable
  <2>3. ASSUME Receive PROVE EntryGoes(t, w)
    <3>1. RecvAttribute
      BY <1>8, <1>15, <2>1, <2>3, AttributeNext
    <3>2. PICK e : e = [entry EXCEPT !["Mode"] = t.mode]
      OBVIOUS
    <3>3. /\ wire' = t.attrs \o w /\ need' = AfterMode(t.mode) /\ size' = size /\ rpc' = rpc
          /\ entry' = e /\ ids' = ids /\ IOErrors' = IOErrors
          /\ fileList' = IF AfterMode(t.mode) = <<"flags">>
                         THEN Append(fileList, e) ELSE fileList
      <4>1. Value = t.mode
        BY <1>4, <2>1 DEF Value
      <4>2. /\ wire' = Tail(wire) /\ size' = size /\ rpc' = rpc /\ ids' = ids
            /\ IOErrors' = IOErrors
            /\ fileList' = IF need' = <<"flags">> THEN Append(fileList, entry') ELSE fileList
            /\ Head(need) = "Mode" =>
                 need' = AfterMode(t.mode) /\ entry' = [entry EXCEPT !["Mode"] = t.mode]
        BY <3>1, <4>1, AttributeIs
      <4> QED BY <1>8, <1>15, <2>1, <3>2, <4>2
    <3>4. Filled(t, {"Name", "Length", "ModTime"} \cup {"Mode"}, e)
      BY <1>6, <1>15, <3>2, FilledSet
    <3>5. {"Name", "Length", "ModTime"} \cup {"Mode"} = {"Name", "Length", "ModTime", "Mode"}
      OBVIOUS
    <3>6. InPlan(t, t.plan, t.attrs, size, e)
      BY <3>4, <3>5, FilledPlan
    <3> HIDE DEF Receive
    <3>7. PICK plan, q : plan = t.plan /\ q = t.attrs
      OBVIOUS
    <3>8. InPlan(t, plan, q, size, e) /\ plan \in Seq(Attributes) /\ q \in Seq(Tokens)
          /\ need' = plan \o <<"flags">> /\ wire' = q \o w
          /\ fileList' = IF plan \o <<"flags">> = <<"flags">>
                         THEN Append(fileList, e) ELSE fileList
      BY <1>1, <3>3, <3>6, <3>7
    <3> QED BY <3>3, <3>8, AttributeRead
  <2> QED BY <2>1, <2>2, <2>3
<1> QED BY <1>10, <1>11, <1>12, <1>13, <1>14, <1>15 DEF InHeader, n5, n4, n3, n64, n2, n1

-----------------------------------------------------------------------------
(* A step of the receiver in a list of ids.                                *)

\* One id more.
LEMMA IdentsNext ==
  ASSUME NEW order, NEW i \in Nat
  PROVE  /\ Idents(order, i + 1) = Idents(order, i) \cup {Ident(order[i + 1])}
         /\ Idents(order, 0) = {}
<1>1. 1 .. i + 1 = (1 .. i) \cup {i + 1} /\ 1 .. 0 = {}
  OBVIOUS
<1> QED BY <1>1, Zenon DEF Idents

\* Names of fields that follow the entries.
Lasts == {"idlen", "idname", "users", "groups", "IOErrors"}

\* What a step of the receiver in a list of ids leads to.
IdsGo(set, order, L, after, next, w) ==
  \E r \in Seq(Tokens) :
    /\ wire' = r \o w /\ rpc' = rpc /\ fileList' = fileList /\ IOErrors' = IOErrors
    /\ entry' = [F \in Columns |-> entry'[F]]
    /\ ids' = [s \in {"users", "groups"} |-> ids'[s]]
    /\ \A s \in {"users", "groups"} : s # set => ids'[s] = ids[s]
    /\ \/ \E j \in 0 .. Len(order) : InIds(set, order, L, j, after, next, r)'
       \/ need' = next /\ r = after /\ ids'[set] = Idents(order, Len(order))

\* A step in a list of ids leads to the next id, or to its end.
LEMMA IdsRead ==
  ASSUME NEW set \in {"users", "groups"}, NEW order \in Seq(DOMAIN SenderNames),
         0 \notin Range(order), NEW L, Unrolled(order, L), NEW i \in 0 .. Len(order),
         NEW after \in Seq(Tokens), NEW next \in Seq(Lasts), NEW r,
         InIds(set, order, L, i, after, next, r),
         NEW w \in Seq(Tokens), wire = r \o w, rpc = "list",
         entry = [F \in Columns |-> entry[F]],
         ids = [s \in {"users", "groups"} |-> ids[s]]
  PROVE  wire # <<>> /\ Readable /\ (Receive => IdsGo(set, order, L, after, next, w))
<1>1. /\ L \in [0 .. Len(order) -> Seq(Tokens)] /\ L[Len(order)] = <<Int32(0)>>
      /\ \A j \in 1 .. Len(order) : L[j - 1] = Id(order[j]) \o L[j]
  BY DEF Unrolled
<1>2. Len(order) \in Nat /\ i \in Nat /\ i <= Len(order)
  OBVIOUS
<1>3. /\ Width("users") = "int" /\ Width("groups") = "int" /\ Width("idlen") = "byte"
      /\ Width("idname") = "bytes"
  BY DEF Width
<1>4. \A v : /\ Int32(v).kind = "int" /\ Int32(v).val = v /\ Byte(v).kind = "byte"
             /\ Byte(v).val = v /\ Bytes(v).kind = "bytes" /\ Bytes(v).val = v
  BY DEF Int32, Byte, Bytes
<1>5. ids[set] = Idents(order, i)
  BY DEF InIds
<1>6. /\ set \in Lasts /\ "idlen" \in Lasts /\ "idname" \in Lasts
  BY DEF Lasts
<1>7. /\ Head(Then(set, next)) = set /\ Tail(Then(set, next)) = next
      /\ Then(set, next) \in Seq(Lasts)
  BY <1>6, ThenFacts
<1>8. PICK need1 : need1 = Then(set, next)
  OBVIOUS
<1>9. /\ need1 \in Seq(Lasts) /\ Then("idname", need1) \in Seq(Lasts)
      /\ Head(need1) = set /\ Tail(need1) = next
      /\ Head(Then("idname", need1)) = "idname" /\ Tail(Then("idname", need1)) = need1
      /\ Head(Then("idlen", Then("idname", need1))) = "idlen"
      /\ Tail(Then("idlen", Then("idname", need1))) = Then("idname", need1)
      /\ <<"idlen", "idname">> \o need1 = Then("idlen", Then("idname", need1))
  <2>1. need1 \in Seq(Lasts) /\ Head(need1) = set /\ Tail(need1) = next
    BY <1>7, <1>8
  <2>2. /\ Then("idname", need1) \in Seq(Lasts)
        /\ Head(Then("idname", need1)) = "idname" /\ Tail(Then("idname", need1)) = need1
    BY <1>6, <2>1, ThenFacts
  <2>3. /\ Head(Then("idlen", Then("idname", need1))) = "idlen"
        /\ Tail(Then("idlen", Then("idname", need1))) = Then("idname", need1)
    BY <1>6, <2>2, ThenFacts
  <2>4. <<"idlen", "idname">> \o need1 = Then("idlen", Then("idname", need1))
    BY <1>6, <2>1, PairThen, SMTT(30)
  <2> QED BY <2>1, <2>2, <2>3, <2>4
\* An id or the end of the list is next.
<1>10. CASE need = need1 /\ r = L[i] \o after /\ i = Len(order)
  <2>1. Int32(0) \in Tokens
    <3>1. 0 \in Int \cup Seq(Nat)
      OBVIOUS
    <3> QED BY <3>1, TokenType
  <2>2. wire = Then(Int32(0), after) \o w
    BY <1>1, <1>10 DEF Then
  <2>3. /\ Then(Int32(0), after) \o w # <<>> /\ Head(Then(Int32(0), after) \o w) = Int32(0)
        /\ Tail(Then(Int32(0), after) \o w) = after \o w
    BY <2>1, ThenReads
  <2>4. wire # <<>> /\ Head(wire).val = 0 /\ Head(wire).kind = "int" /\ Tail(wire) = after \o w
    BY <1>4, <2>2, <2>3
  <2>5. Readable
    BY <1>3, <1>9, <1>10, <2>4 DEF Readable
  <2>6. ASSUME Receive PROVE IdsGo(set, order, L, after, next, w)
    <3>1. RecvId
      BY <1>9, <1>10, <2>4, <2>6, IdNext
    <3>2. /\ wire' = after \o w /\ need' = next /\ rpc' = rpc /\ fileList' = fileList
          /\ ids' = ids /\ IOErrors' = IOErrors /\ entry' = [entry EXCEPT !.Uid = 0]
      BY <1>9, <1>10, <2>4, <3>1 DEF RecvId, Value
    <3>3. entry' = [F \in Columns |-> entry'[F]]
      BY <3>2
    <3> HIDE DEF Receive
    <3> QED BY <1>5, <1>10, <3>2, <3>3 DEF IdsGo
  <2> QED BY <2>4, <2>5, <2>6
<1> DEFINE id == order[i + 1]
           name == SenderNames[id]
<1>11. ASSUME i < Len(order)
       PROVE  /\ id \in DOMAIN SenderNames /\ id # 0 /\ name \in Seq(Nat)
              /\ L[i + 1] \in Seq(Tokens) /\ L[i + 1] \o after \in Seq(Tokens)
              /\ Int32(id) \in Tokens /\ Byte(Len(name)) \in Tokens /\ Bytes(name) \in Tokens
              /\ L[i] = Then(Int32(id), Then(Byte(Len(name)), Then(Bytes(name), L[i + 1])))
  <2>1. i + 1 \in 1 .. Len(order) /\ (i + 1) - 1 = i /\ i + 1 \in 0 .. Len(order)
    BY <1>2, <1>11
  <2>2. id \in DOMAIN SenderNames /\ id \in Range(order)
    <3>1. DOMAIN order = 1 .. Len(order)
      OBVIOUS
    <3> QED BY <2>1, <3>1 DEF Range
  <2>3. id # 0 /\ id \in Int /\ name \in Seq(Nat) /\ Len(name) \in Int
    BY <2>2, ListConstants
  <2>4. Int32(id) \in Tokens /\ Byte(Len(name)) \in Tokens /\ Bytes(name) \in Tokens
    <3>1. id \in Int \cup Seq(Nat) /\ Len(name) \in Int \cup Seq(Nat) /\ name \in Int \cup Seq(Nat)
      BY <2>3
    <3> QED BY <3>1, TokenType
  <2>5. L[i + 1] \in Seq(Tokens) /\ L[i] = Id(id) \o L[i + 1]
    BY <1>1, <2>1
  <2>6. L[i + 1] \o after \in Seq(Tokens)
    BY <2>5
  <2>7. L[i] = Then(Int32(id), Then(Byte(Len(name)), Then(Bytes(name), L[i + 1])))
    <3> HIDE DEF id, name
    <3>1. PICK x, y, z, m : x = Int32(id) /\ y = Byte(Len(name)) /\ z = Bytes(name) /\ m = L[i + 1]
      OBVIOUS
    <3>2. x \in Tokens /\ y \in Tokens /\ z \in Tokens /\ m \in Seq(Tokens)
      BY <2>4, <2>5, <3>1
    <3>3. <<x, y, z>> \o m = Then(x, Then(y, Then(z, m)))
      BY <3>2, TripleThen, SMTT(30)
    <3>4. L[i] = <<x, y, z>> \o m
      BY <2>5, <3>1, Zenon DEF Id, name
    <3> QED BY <3>1, <3>3, <3>4, Zenon
  <2> QED BY <2>2, <2>3, <2>4, <2>5, <2>6, <2>7
<1>12. CASE need = need1 /\ r = L[i] \o after /\ i < Len(order)
  <2> DEFINE b == Then(Byte(Len(name)), Then(Bytes(name), L[i + 1] \o after))
  <2>1. r = Then(Int32(id), b) /\ b \in Seq(Tokens)
    <3>1. PICK x, y, z, m : x = Int32(id) /\ y = Byte(Len(name)) /\ z = Bytes(name) /\ m = L[i + 1]
      OBVIOUS
    <3>2. /\ x \in Tokens /\ y \in Tokens /\ z \in Tokens /\ m \in Seq(Tokens)
          /\ m \o after \in Seq(Tokens) /\ L[i] = Then(x, Then(y, Then(z, m)))
      BY <1>11, <1>12, <3>1
    <3>3. Then(z, m) \in Seq(Tokens) /\ Then(z, m) \o after = Then(z, m \o after)
      <4>1. <<z>> \in Seq(Tokens)
        BY <3>2
      <4>2. Then(z, m) \in Seq(Tokens)
        BY <3>2, ThenFacts
      <4> QED BY <3>2, <4>1, <4>2, Assoc DEF Then
    <3>4. /\ Then(y, Then(z, m)) \in Seq(Tokens)
          /\ Then(y, Then(z, m)) \o after = Then(y, Then(z, m \o after))
      <4>1. <<y>> \in Seq(Tokens)
        BY <3>2
      <4>2. Then(y, Then(z, m)) \in Seq(Tokens)
        BY <3>2, <3>3, ThenFacts
      <4>3. Then(y, Then(z, m)) \o after = Then(y, Then(z, m) \o after)
        BY <3>2, <3>3, <4>1, Assoc DEF Then
      <4> QED BY <3>3, <4>2, <4>3
    <3>5. Then(x, Then(y, Then(z, m))) \o after = Then(x, Then(y, Then(z, m)) \o after)
      <4>1. <<x>> \in Seq(Tokens)
        BY <3>2
      <4> QED BY <3>2, <3>4, <4>1, Assoc DEF Then
    <3>6. Then(y, Then(z, m \o after)) \in Seq(Tokens)
      <4>1. Then(z, m \o after) \in Seq(Tokens)
        BY <3>2, ThenFacts
      <4> QED BY <3>2, <4>1, ThenFacts
    <3> QED BY <1>12, <3>1, <3>2, <3>4, <3>5, <3>6
  <2> HIDE DEF b
  <2>2. wire = Then(Int32(id), b) \o w
    BY <2>1
  <2>3. /\ Then(Int32(id), b) \o w # <<>> /\ Head(Then(Int32(id), b) \o w) = Int32(id)
        /\ Tail(Then(Int32(id), b) \o w) = b \o w
    BY <1>11, <1>12, <2>1, ThenReads, ZenonT(40)
  <2>4. wire # <<>> /\ Head(wire).val = id /\ Head(wire).kind = "int" /\ Tail(wire) = b \o w
    <3> HIDE DEF id, name
    <3> QED BY <1>4, <2>2, <2>3
  <2>5. Readable
    BY <1>3, <1>9, <1>12, <2>4 DEF Readable
  <2>6. ASSUME Receive PROVE IdsGo(set, order, L, after, next, w)
    <3>1. RecvId
      BY <1>9, <1>12, <2>4, <2>6, IdNext
    <3>2. /\ wire' = b \o w /\ need' = Then("idlen", Then("idname", need1))
          /\ rpc' = rpc /\ fileList' = fileList
          /\ ids' = ids /\ IOErrors' = IOErrors /\ entry' = [entry EXCEPT !.Uid = id]
      BY <1>9, <1>11, <1>12, <2>4, <3>1 DEF RecvId, Value
    <3>3. entry' = [F \in Columns |-> entry'[F]] /\ entry'["Uid"] = id
      BY <3>2 DEF Columns
    <3>4. InIds(set, order, L, i, after, next, b)'
      BY <1>5, <1>8, <1>12, <3>2, <3>3 DEF InIds, b
    <3> HIDE DEF Receive
    <3> QED BY <2>1, <3>2, <3>3, <3>4 DEF IdsGo
  <2> QED BY <2>4, <2>5, <2>6
\* The length of its name is next.
<1>13. CASE /\ i < Len(order) /\ entry["Uid"] = id
            /\ need = Then("idlen", Then("idname", need1))
            /\ r = Then(Byte(Len(name)), Then(Bytes(name), L[i + 1] \o after))
  <2> DEFINE b == Then(Bytes(name), L[i + 1] \o after)
  <2>1. b \in Seq(Tokens)
    BY <1>11, <1>13, ThenFacts
  <2> HIDE DEF b
  <2>2. wire = Then(Byte(Len(name)), b) \o w
    BY <1>13 DEF b
  <2>3. /\ Then(Byte(Len(name)), b) \o w # <<>>
        /\ Head(Then(Byte(Len(name)), b) \o w) = Byte(Len(name))
        /\ Tail(Then(Byte(Len(name)), b) \o w) = b \o w
    BY <1>11, <1>13, <2>1, ThenReads
  <2>4. /\ wire # <<>> /\ Head(wire).val = Len(name) /\ Head(wire).kind = "byte"
        /\ Tail(wire) = b \o w
    <3>1. Byte(Len(name)).val = Len(name) /\ Byte(Len(name)).kind = "byte"
      BY DEF Byte
    <3> HIDE DEF id, name
    <3> QED BY <2>2, <2>3, <3>1
  <2>5. Readable
    BY <1>3, <1>9, <1>13, <2>4 DEF Readable
  <2>6. ASSUME Receive PROVE IdsGo(set, order, L, after, next, w)
    <3>1. RecvLength
      BY <1>9, <1>13, <2>4, <2>6, LengthNext
    <3>2. /\ wire' = b \o w /\ need' = Then("idname", need1) /\ size' = Len(name)
          /\ rpc' = rpc /\ fileList' = fileList
          /\ ids' = ids /\ IOErrors' = IOErrors /\ entry' = entry
      BY <1>9, <1>13, <2>4, <3>1 DEF RecvLength, Value
    <3>3. InIds(set, order, L, i, after, next, b)'
      BY <1>5, <1>8, <1>13, <3>2 DEF InIds, b
    <3> HIDE DEF Receive
    <3> QED BY <2>1, <3>2, <3>3 DEF IdsGo
  <2> QED BY <2>4, <2>5, <2>6
\* Its name is next.
<1>14. CASE /\ i < Len(order) /\ entry["Uid"] = id
            /\ need = Then("idname", need1)
            /\ r = Then(Bytes(name), L[i + 1] \o after) /\ size = Len(name)
  <2>1. PICK b : b = L[i + 1] \o after
    OBVIOUS
  <2>2. wire = Then(Bytes(name), b) \o w /\ b \in Seq(Tokens)
    BY <1>11, <1>14, <2>1
  <2>3. /\ Then(Bytes(name), b) \o w # <<>> /\ Head(Then(Bytes(name), b) \o w) = Bytes(name)
        /\ Tail(Then(Bytes(name), b) \o w) = b \o w
    BY <1>11, <1>14, <2>2, ThenReads, ZenonT(40)
  <2>4. /\ wire # <<>> /\ Head(wire).val = name /\ Head(wire).kind = "bytes"
        /\ Tail(wire) = b \o w
    <3> HIDE DEF id, name
    <3> QED BY <1>4, <2>2, <2>3, SMTT(30)
  <2>5. Readable
    <3>1. Value = name
      BY <2>4 DEF Value
    <3> HIDE DEF name, id
    <3> QED BY <1>3, <1>9, <1>14, <2>4, <3>1 DEF Readable
  <2>6. ASSUME Receive PROVE IdsGo(set, order, L, after, next, w)
    <3>1. RecvIdName
      BY <1>9, <1>14, <2>4, <2>6, IdNameNext
    <3>2. need[2] = set /\ entry.Uid = id
      <4>1. Tail(need) = need1 /\ Head(need1) = set /\ need \in Seq(Lasts) /\ need1 # <<>>
        <5>1. Then(set, next) # <<>>
          BY <1>6, ThenFacts
        <5> QED BY <1>8, <1>9, <1>14, <5>1
      <4>2. Len(need1) > 0 /\ Len(need) = Len(need1) + 1 /\ need1[1] = set
        <5>1. Len(need1) > 0 /\ need1[1] = set
          BY <1>9, <4>1
        <5>2. need # <<>>
          BY <1>6, <1>9, <1>14, ThenFacts
        <5>3. Len(Tail(need)) = Len(need) - 1 /\ Len(need) \in Nat /\ Len(need) > 0
          BY <4>1, <5>2
        <5> HIDE DEF id
        <5> QED BY <4>1, <5>1, <5>3
      <4>3. need[2] = Tail(need)[1]
        BY <4>1, <4>2
      <4> HIDE DEF id
      <4> QED BY <1>14, <4>1, <4>2, <4>3
    <3>3. /\ wire' = b \o w /\ need' = need1 /\ rpc' = rpc /\ fileList' = fileList
          /\ IOErrors' = IOErrors /\ entry' = entry
      BY <1>9, <1>14, <2>4, <3>1 DEF RecvIdName, Value
    <3>4. ids' = [ids EXCEPT ![set] = @ \cup {Ident(id)}]
      BY <2>4, <3>1, <3>2, Zenon DEF RecvIdName, Value, Ident
    <3>5. PICK x : x = Ident(id)
      OBVIOUS
    <3>6. /\ ids' = [s \in {"users", "groups"} |-> ids'[s]]
          /\ \A s \in {"users", "groups"} : s # set => ids'[s] = ids[s]
          /\ ids'[set] = ids[set] \cup {x}
      BY <3>4, <3>5
    <3>7. ids'[set] = Idents(order, i + 1)
      BY <1>2, <1>5, <3>5, <3>6, IdentsNext
    <3>8. i + 1 \in 0 .. Len(order)
      BY <1>2, <1>14
    <3>9. InIds(set, order, L, i + 1, after, next, b)'
      BY <1>8, <2>1, <3>3, <3>7 DEF InIds
    <3> HIDE DEF Receive
    <3> QED BY <2>2, <3>3, <3>6, <3>8, <3>9 DEF IdsGo
  <2> QED BY <2>4, <2>5, <2>6
<1>15. i = Len(order) \/ i < Len(order)
  BY <1>2
<1> QED BY <1>8, <1>10, <1>12, <1>13, <1>14, <1>15 DEF InIds

-----------------------------------------------------------------------------
(* A step of the receiver, wherever it is in the list.                     *)

\* The receiver changes nothing of the sender.
LEMMA ReceiveKeeps ==
  ASSUME Receive
  PROVE  UNCHANGED <<jobVars, sendVars>> /\ ioErrors' = ioErrors /\ spc' = spc
BY DEF Receive, RecvFlags, RecvAttribute, RecvLength, RecvId, RecvIdName, RecvIOErrors, RecvEOF,
       sendVars

\* What such a step leads to.
Follows(cat, all, f, tail, users, groups, u, g) ==
  \E k, r : /\ Stream(cat, all, f, tail, k, r) /\ wire' = r \o f[k]
            /\ ReadSoFar(cat, all, k, r, users, groups, u, g)' /\ Errors(all, k)'

\* The receiver gets to the next entry.
LEMMA StreamMoves ==
  ASSUME NEW cat, NEW all, NEW f, NEW tail, NEW k, NEW r, Stream(cat, all, f, tail, k, r),
         NEW j \in 0 .. Len(all) + 1, NEW q \in Seq(Tokens)
  PROVE  Stream(cat, all, f, tail, j, q)
BY DEF Stream

\* One entry more.
LEMMA ListedNext ==
  ASSUME NEW cat, NEW all, NEW k \in Nat
  PROVE  Append(Listed(cat, all, k), cat[all[k + 1]].says) = Listed(cat, all, k + 1)
<1> DEFINE h(i) == cat[all[i]].says
<1>1. Listed(cat, all, k) = [i \in 1 .. k |-> h(i)] /\ Listed(cat, all, k + 1) = [i \in 1 .. k + 1 |-> h(i)]
  BY DEF Listed
<1> HIDE DEF h
<1>2. Append([i \in 1 .. k |-> h(i)], h(k + 1)) = [i \in 1 .. k + 1 |-> h(i)]
  OBVIOUS
<1> QED BY <1>1, <1>2 DEF h

\* A step in an entry.
LEMMA WithinRead ==
  ASSUME job \in Jobs, Agreed, DevicesAsOne,
         NEW cat, NEW all, NEW f, NEW tail, NEW k, NEW r, NEW users, NEW groups, NEW u, NEW g,
         Inside(cat, all, f, tail, k, r, users, groups, u, g), Within(cat, all, k, r)
  PROVE  wire # <<>> /\ Readable /\ (Receive => Follows(cat, all, f, tail, users, groups, u, g))
<1>1. /\ Stream(cat, all, f, tail, k, r) /\ wire = r \o f[k] /\ Fixed(cat, u, g)
      /\ Errors(all, k)
  BY DEF Inside
<1>2. /\ all \in Seq(DOMAIN Tree) /\ Len(all) \in Nat /\ k \in 1 .. Len(all)
      /\ f[k] \in Seq(Tokens) /\ rpc = "list" /\ fileList = Listed(cat, all, k - 1) /\ NoIds
  BY <1>1 DEF Stream, Within
<1> DEFINE t == cat[all[k]]
           w == f[k]
<1>3. Sound(t) /\ AfterMode(t.mode) = t.plan \o <<"flags">>
  <2>1. all[k] \in DOMAIN Tree
    BY <1>2
  <2> QED BY <1>1, <2>1, FixedFacts, Zenon
<1> HIDE DEF t, w
<1>4. wire # <<>> /\ Readable /\ (Receive => EntryGoes(t, w))
  <2>1. InHeader(t, r) \/ InAttrs(t, r)
    BY DEF Within, t
  <2>2. wire = r \o w /\ w \in Seq(Tokens)
    BY <1>1, <1>2 DEF w
  <2> QED BY <1>2, <1>3, <2>1, <2>2, HeaderRead, AttrsRead
<1>5. ASSUME Receive PROVE Follows(cat, all, f, tail, users, groups, u, g)
  <2>1. ioErrors' = ioErrors /\ spc' = spc
    BY <1>5, ReceiveKeeps
  <2>2. PICK q \in Seq(Tokens) :
           /\ wire' = q \o w /\ rpc' = rpc /\ ids' = ids /\ IOErrors' = IOErrors
           /\ \/ (InHeader(t, q) \/ InAttrs(t, q))' /\ fileList' = fileList
              \/ need' = <<"flags">> /\ q = <<>> /\ fileList' = Append(fileList, t.says)
    BY <1>4, <1>5 DEF EntryGoes
  <2>3. Stream(cat, all, f, tail, k, q)
    BY <1>1, <1>2, StreamMoves DEF Stream
  <2>4. Errors(all, k)'
    BY <1>1, <2>1, <2>2 DEF Errors
  <2>5. NoIds'
    BY <1>2, <2>2 DEF NoIds
  <2>6. CASE (InHeader(t, q) \/ InAttrs(t, q))' /\ fileList' = fileList
    <3>1. Within(cat, all, k, q)'
      BY <1>2, <2>2, <2>5, <2>6 DEF Within, t
    <3>2. ReadSoFar(cat, all, k, q, users, groups, u, g)'
      BY <3>1 DEF ReadSoFar
    <3> QED BY <2>2, <2>3, <2>4, <3>2 DEF Follows, w
  <2>7. CASE need' = <<"flags">> /\ q = <<>> /\ fileList' = Append(fileList, t.says)
    <3>1. k - 1 \in Nat /\ (k - 1) + 1 = k /\ k \in 0 .. Len(all)
      BY <1>2
    <3>2. fileList' = Listed(cat, all, k)
      BY <1>2, <2>7, <3>1, ListedNext DEF t
    <3>3. Between(cat, all, k, q)'
      BY <1>2, <2>2, <2>5, <2>7, <3>1, <3>2 DEF Between
    <3>4. ReadSoFar(cat, all, k, q, users, groups, u, g)'
      BY <3>3 DEF ReadSoFar
    <3> QED BY <2>2, <2>3, <2>4, <3>4 DEF Follows, w
  <2> QED BY <2>2, <2>6, <2>7
<1> QED BY <1>4, <1>5

\* The users are read, or there are none to read.
LEMMA GroupsBegin ==
  ASSUME NEW users, NEW groups \in Seq(DOMAIN SenderNames), NEW u, NEW g \in BOOLEAN,
         need' = NeedAfterUsers(g), ids'["groups"] = {}, HasUsers(users, u)',
         ioErrors' = ioErrors, NEW r, r = AfterUsers(groups, g)
  PROVE  InTrailer(users, groups, u, g, r)'
<1>1. CASE g
  <2>1. need' = Then("groups", <<"IOErrors">>)
    BY <1>1 DEF NeedAfterUsers, When, Then
  <2>2. r = IdList(groups) \o <<Int32(ioErrors')>>
    BY <1>1 DEF AfterUsers, When
  <2>3. PICK L : Unrolled(groups, L)
    BY IdListSteps DEF Unrolled
  <2>4. L[0] = IdList(groups) /\ 0 \in 0 .. Len(groups)
    BY <2>3 DEF Unrolled
  <2>5. Idents(groups, 0) = {}
    BY IdentsNext
  <2>6. InIds("groups", groups, L, 0, <<Int32(ioErrors)>>, <<"IOErrors">>, r)'
    BY <2>1, <2>2, <2>4, <2>5 DEF InIds
  <2> QED BY <1>1, <2>3, <2>4, <2>6 DEF InTrailer
<1>2. CASE ~g
  <2>1. need' = <<"IOErrors">>
    <3>1. <<>> \o <<"IOErrors">> = <<"IOErrors">>
      OBVIOUS
    <3> QED BY <1>2, <3>1 DEF NeedAfterUsers, When
  <2>2. r = <<Int32(ioErrors')>>
    <3>1. <<>> \o <<Int32(ioErrors)>> = <<Int32(ioErrors)>>
      OBVIOUS
    <3> QED BY <1>2, <3>1 DEF AfterUsers, When
  <2>3. HasGroups(groups, g)'
    BY <1>2 DEF HasGroups
  <2> QED BY <2>1, <2>2, <2>3 DEF InTrailer
<1> QED BY <1>1, <1>2

\* The sender sent the end of its list.
LEMMA EndingFacts ==
  ASSUME NEW users \in Seq(DOMAIN SenderNames), NEW groups \in Seq(DOMAIN SenderNames),
         NEW u \in BOOLEAN, NEW g \in BOOLEAN, ioErrors \in {0, 1}
  PROVE  /\ AfterUsers(groups, g) \in Seq(Tokens) /\ <<Int32(ioErrors)>> \in Seq(Tokens)
         /\ Int32(ioErrors) \in Tokens
         /\ When(u, IdList(users)) \o AfterUsers(groups, g) \in Seq(Tokens)
         /\ Byte(0) \in Tokens
<1>1. ioErrors \in Int \cup Seq(Nat) /\ 0 \in Int \cup Seq(Nat)
  OBVIOUS
<1>2. Int32(ioErrors) \in Tokens /\ Byte(0) \in Tokens
  BY <1>1, TokenType
<1>3. \A order \in Seq(DOMAIN SenderNames) : IdList(order) \in Seq(Tokens)
  <2> SUFFICES ASSUME NEW order \in Seq(DOMAIN SenderNames) PROVE IdList(order) \in Seq(Tokens)
    OBVIOUS
  <2>1. PICK L \in [0 .. Len(order) -> Seq(Tokens)] : L[0] = IdList(order)
    BY IdListSteps
  <2>2. 0 \in 0 .. Len(order)
    OBVIOUS
  <2> QED BY <2>1, <2>2
<1>4. <<Int32(ioErrors)>> \in Seq(Tokens) /\ <<>> \in Seq(Tokens)
  BY <1>2
<1>5. When(u, IdList(users)) \in Seq(Tokens) /\ When(g, IdList(groups)) \in Seq(Tokens)
  BY <1>3, <1>4 DEF When
<1>6. AfterUsers(groups, g) \in Seq(Tokens)
  BY <1>4, <1>5 DEF AfterUsers
<1> QED BY <1>2, <1>4, <1>5, <1>6

\* The list ends, and the ids follow.
LEMMA TrailerBegins ==
  ASSUME NEW users \in Seq(DOMAIN SenderNames), NEW groups \in Seq(DOMAIN SenderNames),
         NEW u \in BOOLEAN, NEW g \in BOOLEAN,
         need' = When(u, <<"users">>) \o NeedAfterUsers(g),
         ids' = [set \in {"users", "groups"} |-> {}], ioErrors' = ioErrors,
         ioErrors \in {0, 1},
         NEW r, r = When(u, IdList(users)) \o AfterUsers(groups, g)
  PROVE  InTrailer(users, groups, u, g, r)'
<1>1. ids'["users"] = {} /\ ids'["groups"] = {}
  OBVIOUS
<1>2. AfterUsers(groups, g) \in Seq(Tokens)
  BY EndingFacts
<1>3. NeedAfterUsers(g) \in Seq(Lasts)
  <2>1. <<"groups">> \in Seq(Lasts) /\ <<"IOErrors">> \in Seq(Lasts) /\ <<>> \in Seq(Lasts)
    BY DEF Lasts
  <2>2. When(g, <<"groups">>) \in Seq(Lasts)
    BY <2>1 DEF When
  <2> QED BY <2>1, <2>2 DEF NeedAfterUsers
<1>4. CASE u
  <2>1. need' = Then("users", NeedAfterUsers(g))
    BY <1>4, Zenon DEF When, Then
  <2>2. r = IdList(users) \o AfterUsers(groups, g)
    BY <1>4 DEF When
  <2>3. PICK L : Unrolled(users, L)
    BY IdListSteps DEF Unrolled
  <2>4. L[0] = IdList(users) /\ 0 \in 0 .. Len(users)
    BY <2>3 DEF Unrolled
  <2>5. Idents(users, 0) = {}
    BY IdentsNext
  <2>6. AfterUsers(groups, g)' = AfterUsers(groups, g)
    BY DEF AfterUsers
  <2>7. InIds("users", users, L, 0, AfterUsers(groups, g), NeedAfterUsers(g), r)'
    BY <1>1, <2>1, <2>2, <2>4, <2>5, <2>6 DEF InIds
  <2> QED BY <1>1, <1>4, <2>3, <2>4, <2>7 DEF InTrailer
<1>5. CASE ~u
  <2>1. need' = NeedAfterUsers(g)
    BY <1>3, <1>5 DEF When
  <2>2. r = AfterUsers(groups, g)
    BY <1>2, <1>5 DEF When
  <2>3. HasUsers(users, u)'
    BY <1>5 DEF HasUsers
  <2> QED BY <1>1, <2>1, <2>2, <2>3, GroupsBegin
<1> QED BY <1>4, <1>5

\* What the receiver expects after the entries.
LEMMA TrailerIs ==
  ASSUME Agreed, NEW cat, NEW u, NEW g, Fixed(cat, u, g)
  PROVE  Trailer = When(u, <<"users">>) \o NeedAfterUsers(g)
<1>1. u \in BOOLEAN /\ g \in BOOLEAN /\ (On(ropt, "preserve_uid") <=> u) /\ (On(ropt, "preserve_gid") <=> g)
  BY DEF Fixed, Agreed, Shared
<1>2. When(u, <<"users">>) \in Seq(Lasts) /\ When(g, <<"groups">>) \in Seq(Lasts)
      /\ <<"IOErrors">> \in Seq(Lasts)
  <2>1. /\ <<"users">> \in Seq(Lasts) /\ <<"groups">> \in Seq(Lasts)
        /\ <<"IOErrors">> \in Seq(Lasts) /\ <<>> \in Seq(Lasts)
    BY DEF Lasts
  <2> QED BY <2>1 DEF When
<1>3. When(On(ropt, "preserve_uid"), <<"users">>) = When(u, <<"users">>)
      /\ When(On(ropt, "preserve_gid"), <<"groups">>) = When(g, <<"groups">>)
  BY <1>1 DEF When
<1>4. PICK x, y, z : x = When(u, <<"users">>) /\ y = When(g, <<"groups">>) /\ z = <<"IOErrors">>
  OBVIOUS
<1>5. (x \o y) \o z = x \o (y \o z)
  BY <1>2, <1>4
<1> QED BY <1>3, <1>4, <1>5, Zenon DEF Trailer, NeedAfterUsers

\* A step between two entries.
LEMMA BetweenRead ==
  ASSUME job \in Jobs, Agreed, DevicesAsOne, ioErrors \in {0, 1},
         NEW cat, NEW all, NEW f, NEW tail, NEW k, NEW r, NEW users, NEW groups, NEW u, NEW g,
         Inside(cat, all, f, tail, k, r, users, groups, u, g), Between(cat, all, k, r),
         wire # <<>>, rpc = "list"
  PROVE  Readable /\ (Receive => Follows(cat, all, f, tail, users, groups, u, g))
<1>1. /\ Stream(cat, all, f, tail, k, r) /\ wire = r \o f[k] /\ Fixed(cat, u, g)
      /\ Errors(all, k) /\ Sending(cat, all, tail, users, groups, u, g)
  BY DEF Inside
<1>2. /\ all \in Seq(DOMAIN Tree) /\ Len(all) \in Nat /\ k \in 0 .. Len(all)
      /\ f \in [0 .. Len(all) + 1 -> Seq(Tokens)] /\ f[k] \in Seq(Tokens)
      /\ f[Len(all) + 1] = <<>> /\ f[Len(all)] = tail
      /\ \A j \in 1 .. Len(all) : f[j - 1] = cat[all[j]].entry \o f[j]
      /\ r = <<>> /\ need = <<"flags">> /\ fileList = Listed(cat, all, k) /\ NoIds
  <2>1. /\ all \in Seq(DOMAIN Tree)
        /\ f \in [0 .. Len(all) + 1 -> Seq(Tokens)]
        /\ f[Len(all) + 1] = <<>> /\ f[Len(all)] = tail
        /\ \A j \in 1 .. Len(all) : f[j - 1] = cat[all[j]].entry \o f[j]
    BY <1>1 DEF Stream
  <2>2. /\ k \in 0 .. Len(all)
        /\ r = <<>> /\ need = <<"flags">> /\ fileList = Listed(cat, all, k) /\ NoIds
    BY DEF Between
  <2>3. Len(all) \in Nat
    BY <2>1
  <2>4. k \in 0 .. Len(all) + 1
    BY <2>2, <2>3
  <2>5. f[k] \in Seq(Tokens)
    BY <2>1, <2>4
  <2> QED BY <2>1, <2>2, <2>3, <2>5
<1>3. wire = f[k]
  BY <1>1, <1>2
<1>4. Head(need) = "flags" /\ Width("flags") = "byte"
  BY <1>2, TupleTail DEF Width
<1>5. \A v : Byte(v).kind = "byte" /\ Byte(v).val = v
  BY DEF Byte
\* Another entry.
<1>6. CASE k < Len(all)
  <2> DEFINE t == cat[all[k + 1]]
             w == f[k + 1]
  <2>1. k + 1 \in 1 .. Len(all) /\ (k + 1) - 1 = k /\ all[k + 1] \in DOMAIN Tree
        /\ k + 1 \in 0 .. Len(all) + 1 /\ k \in Nat
    BY <1>2, <1>6
  <2>2. Sound(t)
    BY <1>1, <2>1, FixedFacts
  <2>3. w \in Seq(Tokens) /\ f[k] = t.entry \o w
    BY <1>2, <2>1
  <2> HIDE DEF w
  <2>4. t.entry = Then(Byte(1), AtNameLen(t))
    BY <2>2 DEF Sound
  <2> HIDE DEF t
  <2>5. PICK q : q = AtNameLen(t)
    OBVIOUS
  <2>6. q \in Seq(Tokens)
    <3>1. /\ t.name \in Seq(Nat) /\ t.size \in Nat /\ t.mode \in Nat /\ t.mtime \in Int
          /\ t.attrs \in Seq(Tokens)
      BY <2>2, ListConstants DEF Sound, Whole, Planned
    <3> QED BY <2>5, <3>1, PartsType
  <2>7. Byte(1) \in Tokens
    <3>1. 1 \in Int \cup Seq(Nat)
      OBVIOUS
    <3> QED BY <3>1, TokenType
  <2>8. wire = Then(Byte(1), q) \o w
    BY <1>3, <2>3, <2>4, <2>5
  <2>9. Head(Then(Byte(1), q) \o w) = Byte(1) /\ Tail(Then(Byte(1), q) \o w) = q \o w
    BY <2>3, <2>6, <2>7, ThenReads
  <2>10. Head(wire).val = 1 /\ Head(wire).kind = "byte" /\ Tail(wire) = q \o w
    BY <1>5, <2>8, <2>9
  <2>11. Readable
    BY <1>4, <2>10 DEF Readable
  <2>12. ASSUME Receive PROVE Follows(cat, all, f, tail, users, groups, u, g)
    <3>1. ioErrors' = ioErrors /\ spc' = spc
      BY <2>12, ReceiveKeeps
    <3>2. RecvFlags
      BY <1>4, <2>12, FlagsNext
    <3>3. /\ wire' = q \o w /\ need' = <<"namelen", "Name", "Length", "ModTime", "Mode">>
          /\ fileList' = fileList /\ entry' = Blank /\ rpc' = rpc /\ ids' = ids
          /\ IOErrors' = IOErrors
      BY <2>10, <3>2 DEF RecvFlags, Value
    <3>4. Filled(t, {}, Blank)
      BY BlankIs DEF Filled
    <3>5. InHeader(t, q)'
      BY <2>5, <3>3, <3>4 DEF InHeader
    <3>6. Within(cat, all, k + 1, q)'
      BY <1>2, <2>1, <3>3, <3>5 DEF Within, NoIds, t
    <3>7. ReadSoFar(cat, all, k + 1, q, users, groups, u, g)'
      BY <3>6 DEF ReadSoFar
    <3>8. Stream(cat, all, f, tail, k + 1, q)
      BY <1>1, <2>1, <2>6, StreamMoves
    <3>9. Errors(all, k + 1)'
      BY <1>1, <1>2, <2>1, <3>1, <3>3 DEF Errors
    <3> QED BY <3>3, <3>7, <3>8, <3>9 DEF Follows, w
  <2> QED BY <2>11, <2>12
\* The end of the list.
<1>7. CASE k = Len(all)
  <2>1. tail # <<>>
    BY <1>2, <1>3, <1>7
  <2>2. /\ spc = "sorted" /\ tail = Ending(users, groups, u, g)
        /\ users \in Seq(DOMAIN SenderNames) /\ groups \in Seq(DOMAIN SenderNames)
    BY <1>1, <2>1 DEF Sending, OrderOf
  <2>3. PICK b : b = When(u, IdList(users)) \o AfterUsers(groups, g)
    OBVIOUS
  <2>4. u \in BOOLEAN /\ g \in BOOLEAN
    BY <1>1 DEF Fixed
  <2>5. b \in Seq(Tokens) /\ Byte(0) \in Tokens
    BY <2>2, <2>3, <2>4, EndingFacts
  <2>6. wire = Then(Byte(0), b)
    BY <1>2, <1>3, <1>7, <2>2, <2>3 DEF Ending
  <2>7. Head(Then(Byte(0), b)) = Byte(0) /\ Tail(Then(Byte(0), b)) = b
    BY <2>5, ThenFacts
  <2>8. Head(wire).val = 0 /\ Head(wire).kind = "byte" /\ Tail(wire) = b
    BY <1>5, <2>6, <2>7
  <2>9. Readable
    BY <1>4, <2>8 DEF Readable
  <2>10. ASSUME Receive PROVE Follows(cat, all, f, tail, users, groups, u, g)
    <3>1. ioErrors' = ioErrors /\ spc' = spc
      BY <2>10, ReceiveKeeps
    <3>2. RecvFlags
      BY <1>4, <2>10, FlagsNext
    <3>3. /\ wire' = b /\ need' = Trailer
          /\ fileList' = InOrder(fileList, [i \in DOMAIN fileList |-> fileList[i].Name])
          /\ entry' = Blank /\ rpc' = rpc /\ ids' = ids /\ IOErrors' = IOErrors
      BY <2>8, <3>2 DEF RecvFlags, Value
    <3>4. fileList' = Sorted(cat, all)
      <4> DEFINE L == Listed(cat, all, Len(all))
      <4>1. L = [i \in 1 .. Len(all) |-> cat[all[i]].says]
        BY DEF Listed
      <4>2. DOMAIN L = 1 .. Len(all) /\ \A i \in 1 .. Len(all) : L[i].Name = cat[all[i]].says["Name"]
        BY <4>1
      <4> HIDE DEF L
      <4>3. [i \in DOMAIN L |-> L[i].Name] = [i \in 1 .. Len(all) |-> cat[all[i]].says["Name"]]
        BY <4>2
      <4>4. fileList = L
        BY <1>2, <1>7 DEF L
      <4> QED BY <3>3, <4>3, <4>4, Zenon DEF Sorted, L
    <3>5. need' = When(u, <<"users">>) \o NeedAfterUsers(g)
      BY <1>1, <3>3, TrailerIs
    <3>6. ids' = [set \in {"users", "groups"} |-> {}]
      BY <1>2, <3>3 DEF NoIds
    <3>7. InTrailer(users, groups, u, g, b)'
      BY <2>2, <2>3, <2>4, <3>1, <3>5, <3>6, TrailerBegins
    <3>8. entry' = [F \in Columns |-> entry'[F]] /\ ids' = [set \in {"users", "groups"} |-> ids'[set]]
      <4>1. Blank = [F \in Columns |-> Blank[F]]
        BY BlankIs
      <4> QED BY <3>3, <3>6, <4>1
    <3>9. Trailing(cat, all, Len(all) + 1, b, users, groups, u, g)'
      BY <3>3, <3>4, <3>7, <3>8 DEF Trailing
    <3>10. ReadSoFar(cat, all, Len(all) + 1, b, users, groups, u, g)'
      BY <3>9 DEF ReadSoFar
    <3>11. Stream(cat, all, f, tail, Len(all) + 1, b)
      <4>1. Len(all) + 1 \in 0 .. Len(all) + 1
        BY <1>2
      <4> QED BY <1>1, <2>5, <4>1, StreamMoves
    <3>12. Errors(all, Len(all) + 1)'
      BY <1>1, <2>2, <3>1, <3>3 DEF Errors
    <3>13. wire' = b \o f[Len(all) + 1]
      BY <1>2, <2>5, <3>3
    <3> QED BY <3>10, <3>11, <3>12, <3>13 DEF Follows
  <2> QED BY <2>9, <2>10
<1>8. k < Len(all) \/ k = Len(all)
  BY <1>2
<1> QED BY <1>6, <1>7, <1>8

\* A step after the entries.
LEMMA TrailingRead ==
  ASSUME job \in Jobs, Agreed, DevicesAsOne, ioErrors \in {0, 1},
         NEW cat, NEW all, NEW f, NEW tail, NEW k, NEW r, NEW users, NEW groups, NEW u, NEW g,
         Inside(cat, all, f, tail, k, r, users, groups, u, g),
         Trailing(cat, all, k, r, users, groups, u, g)
  PROVE  wire # <<>> /\ Readable /\ (Receive => Follows(cat, all, f, tail, users, groups, u, g))
<1>1. /\ Stream(cat, all, f, tail, k, r) /\ wire = r \o f[k] /\ Fixed(cat, u, g)
      /\ Errors(all, k) /\ Sending(cat, all, tail, users, groups, u, g)
  BY DEF Inside
<1>2. /\ rpc = "list" /\ k = Len(all) + 1 /\ fileList = Sorted(cat, all)
      /\ entry = [F \in Columns |-> entry[F]]
      /\ ids = [set \in {"users", "groups"} |-> ids[set]]
      /\ InTrailer(users, groups, u, g, r)
  BY DEF Trailing
<1>3. f[k] = <<>> /\ r \in Seq(Tokens) /\ all \in Seq(DOMAIN Tree)
  BY <1>1, <1>2 DEF Stream
<1>4. k \in 0 .. Len(all) + 1 /\ k # Len(all) /\ k \in Nat
  BY <1>2, <1>3
<1>5. spc = "sorted" /\ tail = Ending(users, groups, u, g) /\ u \in BOOLEAN /\ g \in BOOLEAN
  <2>1. spc = "sorted" /\ u \in BOOLEAN /\ g \in BOOLEAN
    BY <1>1, <1>2 DEF Errors, Fixed
  <2> QED BY <1>1, <2>1 DEF Sending
<1>6. /\ users \in Seq(DOMAIN SenderNames) /\ groups \in Seq(DOMAIN SenderNames)
      /\ 0 \notin Range(users) /\ 0 \notin Range(groups)
  BY <1>1, <1>5 DEF Sending, OrderOf
<1>7. /\ AfterUsers(groups, g) \in Seq(Tokens) /\ <<Int32(ioErrors)>> \in Seq(Tokens)
      /\ Int32(ioErrors) \in Tokens
  BY <1>5, <1>6, EndingFacts
<1>8. <<>> \in Seq(Tokens) /\ wire = r \o <<>> /\ \A q \in Seq(Tokens) : q \o <<>> = q
  BY <1>1, <1>3
<1>9. ASSUME Receive PROVE ioErrors' = ioErrors /\ spc' = spc
  BY <1>9, ReceiveKeeps
\* Where the next step leads if the list is not yet finished.
<1>10. ASSUME Receive, NEW q \in Seq(Tokens), wire' = q \o <<>>, rpc' = rpc, IOErrors' = IOErrors,
              fileList' = fileList, entry' = [F \in Columns |-> entry'[F]],
              ids' = [s \in {"users", "groups"} |-> ids'[s]],
              InTrailer(users, groups, u, g, q)'
       PROVE  Follows(cat, all, f, tail, users, groups, u, g)
  <2>1. Trailing(cat, all, k, q, users, groups, u, g)'
    BY <1>2, <1>10 DEF Trailing
  <2>2. ReadSoFar(cat, all, k, q, users, groups, u, g)'
    BY <2>1 DEF ReadSoFar
  <2>3. Errors(all, k)'
    BY <1>1, <1>9, <1>10 DEF Errors
  <2>4. Stream(cat, all, f, tail, k, q)
    BY <1>1, <1>4, <1>10, StreamMoves
  <2> QED BY <1>3, <1>10, <2>2, <2>3, <2>4 DEF Follows
\* The users.
<1>11. ASSUME u, ids["groups"] = {}, NEW L, NEW i \in 0 .. Len(users), Unrolled(users, L),
              InIds("users", users, L, i, AfterUsers(groups, g), NeedAfterUsers(g), r)
       PROVE  wire # <<>> /\ Readable
              /\ (Receive => Follows(cat, all, f, tail, users, groups, u, g))
  <2>1. PICK after, next : after = AfterUsers(groups, g) /\ next = NeedAfterUsers(g)
    OBVIOUS
  <2>2. after \in Seq(Tokens) /\ next \in Seq(Lasts)
    <3>1. <<"groups">> \in Seq(Lasts) /\ <<"IOErrors">> \in Seq(Lasts) /\ <<>> \in Seq(Lasts)
      BY DEF Lasts
    <3>2. When(g, <<"groups">>) \in Seq(Lasts)
      BY <3>1 DEF When
    <3> QED BY <1>7, <2>1, <3>1, <3>2 DEF NeedAfterUsers
  <2>3. InIds("users", users, L, i, after, next, r)
    BY <1>11, <2>1
  <2>4. wire # <<>> /\ Readable /\ (Receive => IdsGo("users", users, L, after, next, <<>>))
    <3>1. PICK set : set = "users"
      OBVIOUS
    <3>2. set \in {"users", "groups"} /\ InIds(set, users, L, i, after, next, r)
      BY <2>3, <3>1
    <3>3. wire # <<>> /\ Readable /\ (Receive => IdsGo(set, users, L, after, next, <<>>))
      BY <1>2, <1>6, <1>8, <1>11, <2>2, <3>2, IdsRead
    <3> QED BY <3>1, <3>3
  <2>5. ASSUME Receive PROVE Follows(cat, all, f, tail, users, groups, u, g)
    <3>1. PICK q \in Seq(Tokens) :
            /\ wire' = q \o <<>> /\ rpc' = rpc /\ fileList' = fileList /\ IOErrors' = IOErrors
            /\ entry' = [F \in Columns |-> entry'[F]]
            /\ ids' = [s \in {"users", "groups"} |-> ids'[s]]
            /\ \A s \in {"users", "groups"} : s # "users" => ids'[s] = ids[s]
            /\ \/ \E j \in 0 .. Len(users) : InIds("users", users, L, j, after, next, q)'
               \/ need' = next /\ q = after /\ ids'["users"] = Idents(users, Len(users))
      BY <2>4, <2>5 DEF IdsGo
    <3>2. ids'["groups"] = {}
      BY <1>11, <3>1
    <3>3. AfterUsers(groups, g)' = AfterUsers(groups, g) /\ ioErrors' = ioErrors
      BY <1>9, <2>5 DEF AfterUsers
    <3>4. InTrailer(users, groups, u, g, q)'
      <4>1. CASE \E j \in 0 .. Len(users) : InIds("users", users, L, j, after, next, q)'
        BY <1>11, <2>1, <3>2, <3>3, <4>1 DEF InTrailer
      <4>2. CASE need' = next /\ q = after /\ ids'["users"] = Idents(users, Len(users))
        <5>1. HasUsers(users, u)'
          BY <4>2 DEF HasUsers
        <5> QED BY <1>5, <1>6, <2>1, <3>2, <3>3, <4>2, <5>1, GroupsBegin
      <4> QED BY <3>1, <4>1, <4>2
    <3> HIDE DEF Receive
    <3> QED BY <1>10, <2>5, <3>1, <3>4
  <2> QED BY <2>4, <2>5
\* The groups.
<1>12. ASSUME g, HasUsers(users, u), NEW L, NEW i \in 0 .. Len(groups), Unrolled(groups, L),
              InIds("groups", groups, L, i, <<Int32(ioErrors)>>, <<"IOErrors">>, r)
       PROVE  wire # <<>> /\ Readable
              /\ (Receive => Follows(cat, all, f, tail, users, groups, u, g))
  <2>1. PICK after, next : after = <<Int32(ioErrors)>> /\ next = <<"IOErrors">>
    OBVIOUS
  <2>2. after \in Seq(Tokens) /\ next \in Seq(Lasts)
    <3>1. <<"IOErrors">> \in Seq(Lasts)
      BY DEF Lasts
    <3> QED BY <1>7, <2>1, <3>1
  <2>3. InIds("groups", groups, L, i, after, next, r)
    BY <1>12, <2>1
  <2>4. wire # <<>> /\ Readable /\ (Receive => IdsGo("groups", groups, L, after, next, <<>>))
    <3>1. PICK set : set = "groups"
      OBVIOUS
    <3>2. set \in {"users", "groups"} /\ InIds(set, groups, L, i, after, next, r)
      BY <2>3, <3>1
    <3>3. wire # <<>> /\ Readable /\ (Receive => IdsGo(set, groups, L, after, next, <<>>))
      BY <1>2, <1>6, <1>8, <1>12, <2>2, <3>2, IdsRead
    <3> QED BY <3>1, <3>3
  <2>5. ASSUME Receive PROVE Follows(cat, all, f, tail, users, groups, u, g)
    <3>1. PICK q \in Seq(Tokens) :
            /\ wire' = q \o <<>> /\ rpc' = rpc /\ fileList' = fileList /\ IOErrors' = IOErrors
            /\ entry' = [F \in Columns |-> entry'[F]]
            /\ ids' = [s \in {"users", "groups"} |-> ids'[s]]
            /\ \A s \in {"users", "groups"} : s # "groups" => ids'[s] = ids[s]
            /\ \/ \E j \in 0 .. Len(groups) : InIds("groups", groups, L, j, after, next, q)'
               \/ need' = next /\ q = after /\ ids'["groups"] = Idents(groups, Len(groups))
      BY <2>4, <2>5 DEF IdsGo
    <3>2. HasUsers(users, u)'
      BY <1>12, <3>1 DEF HasUsers
    <3>3. ioErrors' = ioErrors
      BY <1>9, <2>5
    <3>4. InTrailer(users, groups, u, g, q)'
      <4>1. CASE \E j \in 0 .. Len(groups) : InIds("groups", groups, L, j, after, next, q)'
        BY <1>12, <2>1, <3>2, <3>3, <4>1 DEF InTrailer
      <4>2. CASE need' = next /\ q = after /\ ids'["groups"] = Idents(groups, Len(groups))
        <5>1. HasGroups(groups, g)'
          BY <4>2 DEF HasGroups
        <5> QED BY <2>1, <3>2, <3>3, <4>2, <5>1 DEF InTrailer
      <4> QED BY <3>1, <4>1, <4>2
    <3> HIDE DEF Receive
    <3> QED BY <1>10, <2>5, <3>1, <3>4
  <2> QED BY <2>4, <2>5
\* The error flag.
<1>13. CASE /\ need = <<"IOErrors">> /\ r = <<Int32(ioErrors)>>
            /\ HasUsers(users, u) /\ HasGroups(groups, g)
  <2>1. wire = <<Int32(ioErrors)>>
    BY <1>7, <1>8, <1>13
  <2>2. wire # <<>> /\ Head(wire) = Int32(ioErrors) /\ Tail(wire) = <<>>
    BY <2>1, TupleTail
  <2>3. Int32(ioErrors).kind = "int" /\ Int32(ioErrors).val = ioErrors
    BY DEF Int32
  <2>4. Head(need) = "IOErrors" /\ Width("IOErrors") = "int"
    BY <1>13, TupleTail DEF Width
  <2>5. Readable
    BY <2>2, <2>3, <2>4 DEF Readable
  <2>6. ASSUME Receive PROVE Follows(cat, all, f, tail, users, groups, u, g)
    <3>1. RecvIOErrors
      BY <2>2, <2>4, <2>6, IOErrorsNext
    <3>2. /\ wire' = <<>> /\ IOErrors' = ioErrors /\ rpc' = "sorted" /\ fileList' = fileList
          /\ ids' = ids
      BY <2>2, <2>3, <3>1 DEF RecvIOErrors, Value
    <3>3. HasUsers(users, u)' /\ HasGroups(groups, g)'
      BY <1>13, <3>2 DEF HasUsers, HasGroups
    <3>4. Finished(cat, all, k, <<>>, users, groups, u, g)'
      BY <1>2, <3>2, <3>3 DEF Finished
    <3>5. ReadSoFar(cat, all, k, <<>>, users, groups, u, g)'
      BY <3>4 DEF ReadSoFar
    <3>6. Errors(all, k)'
      BY <1>5, <1>9, <2>6, <3>2 DEF Errors
    <3>7. Stream(cat, all, f, tail, k, <<>>)
      BY <1>1, <1>4, <1>8, StreamMoves
    <3>8. wire' = <<>> \o f[k]
      BY <1>3, <3>2
    <3> QED BY <3>5, <3>6, <3>7, <3>8 DEF Follows
  <2> QED BY <2>2, <2>5, <2>6
<1> QED BY <1>2, <1>11, <1>12, <1>13 DEF InTrailer

\* The receiver reads what the sender wrote, wherever it is.
LEMMA ReaderSound ==
  ASSUME IInv, DevicesAsOne
  PROVE  /\ rpc = "list" /\ wire # <<>> => Readable
         /\ Receive => Framed'
<1>1. job \in Jobs /\ Agreed /\ ioErrors \in {0, 1} /\ Framed
  BY DEF IInv, Walked
<1>2. PICK cat, all, f, tail, k, r, users, groups, u, g :
         Inside(cat, all, f, tail, k, r, users, groups, u, g)
  BY <1>1 DEF Framed
<1>3. /\ Stream(cat, all, f, tail, k, r) /\ wire = r \o f[k] /\ Fixed(cat, u, g)
      /\ Errors(all, k) /\ Sending(cat, all, tail, users, groups, u, g)
      /\ ReadSoFar(cat, all, k, r, users, groups, u, g)
  BY <1>2 DEF Inside
<1>4. ASSUME Receive, Follows(cat, all, f, tail, users, groups, u, g) PROVE Framed'
  <2>1. PICK j, q : /\ Stream(cat, all, f, tail, j, q) /\ wire' = q \o f[j]
                    /\ ReadSoFar(cat, all, j, q, users, groups, u, g)' /\ Errors(all, j)'
    BY <1>4 DEF Follows
  <2>2. UNCHANGED jobVars /\ UNCHANGED sendVars /\ ioErrors' = ioErrors
    BY <1>4, ReceiveKeeps
  <2>3. Fixed(cat, u, g)'
    BY <1>3, <2>2, FixedKept
  <2>4. Sending(cat, all, tail, users, groups, u, g)'
    <3>1. spc' = spc /\ files' = files /\ uidMap' = uidMap /\ gidMap' = gidMap
      BY <2>2 DEF sendVars
    <3>2. Ending(users, groups, u, g)' = Ending(users, groups, u, g)
      BY <2>2 DEF Ending, AfterUsers
    <3> QED BY <1>3, <3>1, <3>2 DEF Sending
  <2>5. Inside(cat, all, f, tail, j, q, users, groups, u, g)'
    BY <2>1, <2>3, <2>4 DEF Inside
  <2> QED BY <2>5 DEF Framed
<1>5. CASE Between(cat, all, k, r)
  <2>1. rpc = "list" /\ wire # <<>> => Readable
    BY <1>1, <1>2, <1>5, BetweenRead
  <2>2. ASSUME Receive PROVE Framed'
    <3>1. rpc = "list"
      BY <2>2 DEF Receive, RecvFlags, RecvAttribute, RecvLength, RecvId, RecvIdName, RecvIOErrors,
                  RecvEOF, Reading
    <3>2. CASE wire # <<>>
      BY <1>1, <1>2, <1>4, <1>5, <2>2, <3>1, <3>2, BetweenRead
    <3>3. CASE wire = <<>>
      <4>1. RecvEOF
        BY <2>2, <3>3 DEF Receive, RecvFlags, RecvAttribute, RecvLength, RecvId, RecvIdName,
                          RecvIOErrors, Reading
      <4>2. /\ rpc' = "err" /\ spc = "err" /\ spc' = spc /\ wire' = wire /\ need' = need
            /\ fileList' = fileList /\ ids' = ids /\ IOErrors' = IOErrors
        BY <4>1 DEF RecvEOF, sendVars
      <4>3. Between(cat, all, k, r)'
        BY <1>5, <4>2 DEF Between, NoIds
      <4>4. ReadSoFar(cat, all, k, r, users, groups, u, g)'
        BY <4>3 DEF ReadSoFar
      <4>5. k # Len(all) + 1
        <5>1. Len(all) \in Nat /\ k \in 0 .. Len(all)
          BY <1>3, <1>5 DEF Stream, Between
        <5> QED BY <5>1
      <4>6. Errors(all, k)'
        BY <1>3, <3>1, <4>2, <4>5 DEF Errors
      <4>7. Follows(cat, all, f, tail, users, groups, u, g)
        BY <1>3, <4>2, <4>4, <4>6 DEF Follows
      <4> QED BY <1>4, <2>2, <4>7
    <3> QED BY <3>2, <3>3
  <2> QED BY <2>1, <2>2
<1>6. CASE Within(cat, all, k, r)
  BY <1>1, <1>2, <1>4, <1>6, WithinRead
<1>7. CASE Trailing(cat, all, k, r, users, groups, u, g)
  BY <1>1, <1>2, <1>4, <1>7, TrailingRead
<1>8. CASE Finished(cat, all, k, r, users, groups, u, g)
  <2>1. rpc = "sorted"
    BY <1>8 DEF Finished
  <2>2. ~Receive
    BY <2>1 DEF Receive, RecvFlags, RecvAttribute, RecvLength, RecvId, RecvIdName, RecvIOErrors,
                RecvEOF, Reading
  <2> QED BY <2>1, <2>2
<1> QED BY <1>3, <1>5, <1>6, <1>7, <1>8 DEF ReadSoFar

-----------------------------------------------------------------------------
(* A step of the sender.                                                   *)

\* What is still to be read, when more is written.
Longer(f, n, m, e) == [j \in 0 .. m |-> IF j <= n THEN f[j] \o e ELSE <<>>]

\* The end of the list is added to what is written.
LEMMA StreamEnds ==
  ASSUME NEW cat, NEW all, NEW f, NEW k, NEW r, Stream(cat, all, f, <<>>, k, r),
         k <= Len(all), NEW e \in Seq(Tokens),
         \A path \in DOMAIN Tree : cat[path].entry \in Seq(Tokens)
  PROVE  LET f2 == Longer(f, Len(all), Len(all) + 1, e)
         IN Stream(cat, all, f2, e, k, r) /\ f2[k] = f[k] \o e
<1> DEFINE n == Len(all)
           f2 == Longer(f, n, n + 1, e)
<1>1. /\ all \in Seq(DOMAIN Tree) /\ k \in 0 .. n + 1 /\ n \in Nat
      /\ r \in Seq(Tokens) /\ f \in [0 .. n + 1 -> Seq(Tokens)] /\ f[n] = <<>>
      /\ \A j \in 1 .. n : f[j - 1] = cat[all[j]].entry \o f[j]
  <2>1. /\ all \in Seq(DOMAIN Tree) /\ k \in 0 .. n + 1
        /\ r \in Seq(Tokens) /\ f \in [0 .. n + 1 -> Seq(Tokens)] /\ f[n] = <<>>
        /\ \A j \in 1 .. n : f[j - 1] = cat[all[j]].entry \o f[j]
    BY DEF Stream
  <2>2. n \in Nat
    BY <2>1
  <2> HIDE DEF n, f2
  <2> QED BY <2>1, <2>2
<1>2. f2 = [j \in 0 .. n + 1 |-> IF j <= n THEN f[j] \o e ELSE <<>>]
  BY DEF Longer
<1> HIDE DEF f2
<1>3. ASSUME NEW j \in 0 .. n + 1 PROVE f2[j] \in Seq(Tokens)
  <2>1. f[j] \in Seq(Tokens)
    BY <1>1
  <2>2. f[j] \o e \in Seq(Tokens) /\ <<>> \in Seq(Tokens)
    BY <2>1
  <2> QED BY <1>2, <2>2
<1>4. \A j \in 0 .. n : f2[j] = f[j] \o e
  <2> SUFFICES ASSUME NEW j \in 0 .. n PROVE f2[j] = f[j] \o e
    OBVIOUS
  <2>1. j \in 0 .. n + 1 /\ j <= n
    BY <1>1
  <2> QED BY <1>2, <2>1
<1>5. f2[n] = e /\ f2[n + 1] = <<>>
  <2>1. f2[n] = f[n] \o e /\ <<>> \o e = e
    <3>1. n \in 0 .. n
      BY <1>1
    <3>2. <<>> \o e = e
      BY <1>1
    <3> QED BY <1>4, <3>1, <3>2
  <2>2. n + 1 \in 0 .. n + 1 /\ ~(n + 1 <= n)
    BY <1>1
  <2> QED BY <1>1, <1>2, <2>1, <2>2
<1>6. ASSUME NEW j \in 1 .. n PROVE f2[j - 1] = cat[all[j]].entry \o f2[j]
  <2>1. j \in 0 .. n /\ j - 1 \in 0 .. n /\ all[j] \in DOMAIN Tree /\ j \in 0 .. n + 1
    BY <1>1
  <2>2. PICK x, y : x = cat[all[j]].entry /\ y = f[j]
    OBVIOUS
  <2>3. x \in Seq(Tokens) /\ y \in Seq(Tokens) /\ f[j - 1] = x \o y
    BY <1>1, <2>1, <2>2
  <2>4. (x \o y) \o e = x \o (y \o e)
    BY <2>3, Assoc
  <2> QED BY <1>4, <2>1, <2>2, <2>3, <2>4
<1>7. f2 \in [0 .. n + 1 -> Seq(Tokens)]
  BY <1>2, <1>3
<1>8. Stream(cat, all, f2, e, k, r)
  BY <1>1, <1>5, <1>6, <1>7 DEF Stream
<1>9. k \in 0 .. n
  BY <1>1
<1> QED BY <1>4, <1>8, <1>9 DEF f2

\* An entry is added to what is written.
LEMMA StreamGrows ==
  ASSUME NEW cat, NEW all, NEW f, NEW k, NEW r, Stream(cat, all, f, <<>>, k, r),
         k <= Len(all), NEW path \in DOMAIN Tree,
         \A p \in DOMAIN Tree : cat[p].entry \in Seq(Tokens)
  PROVE  LET f2 == Longer(f, Len(all), Len(all) + 2, cat[path].entry)
         IN Stream(cat, Append(all, path), f2, <<>>, k, r) /\ f2[k] = f[k] \o cat[path].entry
<1> DEFINE n == Len(all)
           e == cat[path].entry
           f2 == Longer(f, n, n + 2, e)
           all2 == Append(all, path)
<1>1. /\ all \in Seq(DOMAIN Tree) /\ k \in 0 .. n + 1 /\ n \in Nat /\ e \in Seq(Tokens)
      /\ r \in Seq(Tokens) /\ f \in [0 .. n + 1 -> Seq(Tokens)] /\ f[n] = <<>>
      /\ \A j \in 1 .. n : f[j - 1] = cat[all[j]].entry \o f[j]
  <2>1. /\ all \in Seq(DOMAIN Tree) /\ k \in 0 .. n + 1
        /\ r \in Seq(Tokens) /\ f \in [0 .. n + 1 -> Seq(Tokens)] /\ f[n] = <<>>
        /\ \A j \in 1 .. n : f[j - 1] = cat[all[j]].entry \o f[j]
    BY DEF Stream
  <2>2. n \in Nat /\ e \in Seq(Tokens)
    BY <2>1
  <2> HIDE DEF n, e, f2, all2
  <2> QED BY <2>1, <2>2
<1>2. f2 = [j \in 0 .. n + 2 |-> IF j <= n THEN f[j] \o e ELSE <<>>]
  BY DEF Longer
<1>3. /\ all2 \in Seq(DOMAIN Tree) /\ Len(all2) = n + 1 /\ all2[n + 1] = path
      /\ \A j \in 1 .. n : all2[j] = all[j]
  BY <1>1
<1> HIDE DEF f2, all2, e
<1>4. \A j \in 0 .. n : f2[j] = f[j] \o e
  <2> SUFFICES ASSUME NEW j \in 0 .. n PROVE f2[j] = f[j] \o e
    OBVIOUS
  <2>1. j \in 0 .. n + 2 /\ j <= n
    BY <1>1
  <2> QED BY <1>2, <2>1
<1>5. f2[n] = e /\ f2[n + 1] = <<>> /\ f2[n + 2] = <<>>
  <2>1. f2[n] = f[n] \o e /\ <<>> \o e = e
    <3>1. n \in 0 .. n
      BY <1>1
    <3>2. <<>> \o e = e
      BY <1>1
    <3> QED BY <1>4, <3>1, <3>2
  <2>2. n + 1 \in 0 .. n + 2 /\ ~(n + 1 <= n) /\ n + 2 \in 0 .. n + 2 /\ ~(n + 2 <= n)
    BY <1>1
  <2> QED BY <1>1, <1>2, <2>1, <2>2
<1>6. ASSUME NEW j \in 1 .. n PROVE f2[j - 1] = cat[all2[j]].entry \o f2[j]
  <2>1. j \in 0 .. n /\ j - 1 \in 0 .. n /\ all[j] \in DOMAIN Tree /\ j \in 0 .. n + 1
    BY <1>1
  <2>2. PICK x, y : x = cat[all[j]].entry /\ y = f[j]
    OBVIOUS
  <2>3. x \in Seq(Tokens) /\ y \in Seq(Tokens) /\ f[j - 1] = x \o y
    BY <1>1, <2>1, <2>2
  <2>4. (x \o y) \o e = x \o (y \o e)
    BY <1>1, <2>3, Assoc
  <2> QED BY <1>3, <1>4, <2>1, <2>2, <2>3, <2>4
<1>7. f2[(n + 1) - 1] = cat[all2[n + 1]].entry \o f2[n + 1]
  <2>1. (n + 1) - 1 = n /\ e \o <<>> = e
    BY <1>1
  <2> QED BY <1>3, <1>5, <2>1 DEF e
<1>8. \A j \in 1 .. n + 1 : f2[j - 1] = cat[all2[j]].entry \o f2[j]
  <2>1. \A j \in 1 .. n + 1 : j \in 1 .. n \/ j = n + 1
    BY <1>1
  <2> QED BY <1>6, <1>7, <2>1
<1>9. f2 \in [0 .. n + 2 -> Seq(Tokens)]
  <2>1. ASSUME NEW j \in 0 .. n + 2 PROVE f2[j] \in Seq(Tokens)
    <3>1. j \in 0 .. n => f[j] \o e \in Seq(Tokens)
      BY <1>1
    <3>2. j \in 0 .. n \/ j = n + 1 \/ j = n + 2
      BY <1>1
    <3>3. <<>> \in Seq(Tokens)
      OBVIOUS
    <3> QED BY <1>4, <1>5, <3>1, <3>2, <3>3
  <2> QED BY <1>2, <2>1
<1>10. (n + 1) + 1 = n + 2 /\ k \in 0 .. (n + 1) + 1 /\ k \in 0 .. n
  BY <1>1
<1>11. Stream(cat, all2, f2, <<>>, k, r)
  <2>1. <<>> \in Seq(Tokens)
    OBVIOUS
  <2> QED BY <1>1, <1>3, <1>5, <1>8, <1>9, <1>10, <2>1 DEF Stream
<1> QED BY <1>4, <1>10, <1>11 DEF f2, all2, e

\* A step of the sender leaves the receiver where it is, if what was written
\* before is what it was.
LEMMA SenderMoves ==
  ASSUME NEW cat, NEW all, NEW f, NEW tail, NEW k, NEW r, NEW users, NEW groups, NEW u, NEW g,
         Inside(cat, all, f, tail, k, r, users, groups, u, g), spc = "walk",
         UNCHANGED <<jobVars, recvVars>>,
         NEW all2, NEW f2, NEW tail2, NEW users2, NEW groups2,
         Stream(cat, all2, f2, tail2, k, r), wire' = r \o f2[k],
         Sending(cat, all2, tail2, users2, groups2, u, g)',
         Len(all) <= Len(all2), \A j \in 1 .. Len(all) : all2[j] = all[j]
  PROVE  Framed'
<1>1. /\ Stream(cat, all, f, tail, k, r) /\ Fixed(cat, u, g) /\ Errors(all, k)
      /\ ReadSoFar(cat, all, k, r, users, groups, u, g)
  BY DEF Inside
<1>2. Len(all) \in Nat /\ Len(all2) \in Nat /\ k \in 0 .. Len(all) + 1
  BY <1>1 DEF Stream
<1>3. k # Len(all) + 1 /\ k \in 0 .. Len(all) /\ k # Len(all2) + 1 /\ k \in 0 .. Len(all2)
  <2>1. k # Len(all) + 1
    BY <1>1 DEF Errors
  <2> QED BY <1>2, <2>1
<1>4. /\ rpc' = rpc /\ need' = need /\ entry' = entry /\ size' = size /\ fileList' = fileList
      /\ ids' = ids /\ IOErrors' = IOErrors
  BY DEF recvVars
<1>5. Between(cat, all, k, r) \/ Within(cat, all, k, r)
  BY <1>1, <1>3 DEF ReadSoFar, Trailing, Finished
<1>6. \A m \in 0 .. Len(all) : Listed(cat, all2, m) = Listed(cat, all, m)
  <2> SUFFICES ASSUME NEW m \in 0 .. Len(all) PROVE Listed(cat, all2, m) = Listed(cat, all, m)
    OBVIOUS
  <2>1. \A i \in 1 .. m : all2[i] = all[i]
    BY <1>2
  <2> QED BY <2>1 DEF Listed
<1>7. Between(cat, all2, k, r)' \/ Within(cat, all2, k, r)'
  <2>1. CASE Between(cat, all, k, r)
    BY <1>3, <1>4, <1>6, <2>1 DEF Between, NoIds
  <2>2. CASE Within(cat, all, k, r)
    <3>1. /\ rpc = "list" /\ k \in 1 .. Len(all) /\ fileList = Listed(cat, all, k - 1) /\ NoIds
          /\ InHeader(cat[all[k]], r) \/ InAttrs(cat[all[k]], r)
      BY <2>2 DEF Within
    <3>2. k \in 1 .. Len(all2) /\ k - 1 \in 0 .. Len(all) /\ all2[k] = all[k]
      BY <1>2, <1>3, <3>1
    <3>3. InHeader(cat[all[k]], r)' \/ InAttrs(cat[all[k]], r)'
      <4>1. InHeader(cat[all[k]], r)' <=> InHeader(cat[all[k]], r)
        BY <1>4 DEF InHeader
      <4>2. InAttrs(cat[all[k]], r)' <=> InAttrs(cat[all[k]], r)
        BY <1>4 DEF InAttrs
      <4> QED BY <3>1, <4>1, <4>2
    <3> QED BY <1>4, <1>6, <3>1, <3>2, <3>3 DEF Within, NoIds
  <2> QED BY <1>5, <2>1, <2>2
<1>8. ReadSoFar(cat, all2, k, r, users2, groups2, u, g)'
  BY <1>7 DEF ReadSoFar
<1>9. Errors(all2, k)'
  <2>1. rpc # "err" /\ rpc # "sorted" /\ IOErrors = 0
    BY <1>1, <1>5 DEF Errors, Between, Within
  <2> QED BY <1>3, <1>4, <2>1 DEF Errors
<1>10. Fixed(cat, u, g)'
  BY <1>1, FixedKept
<1>11. Inside(cat, all2, f2, tail2, k, r, users2, groups2, u, g)'
  BY <1>8, <1>9, <1>10 DEF Inside
<1> QED BY <1>11 DEF Framed

\* The sender changes nothing of the receiver.
LEMMA WalkKeeps ==
  ASSUME Walk
  PROVE  UNCHANGED <<jobVars, recvVars>> /\ spc = "walk"
BY DEF Walk, WalkVanished, WalkSkip, WalkExclude, WalkSend, WalkUnreadable, WalkFail, SendEnd,
       Wanted, Visiting

\* The walk gets on.
LEMMA SkipFacts ==
  ASSUME rest \subseteq DOMAIN Tree, rest # {}
  PROVE  /\ This \in rest /\ This \in DOMAIN Tree
         /\ SkipDir(rest, This) \subseteq rest \ {This} /\ AfterSent \subseteq rest \ {This}
<1>1. This \in rest
  BY ThisFound
<1>2. PICK p : p = This
  OBVIOUS
<1>3. p \in Seq(Seq(Nat))
  BY <1>1, <1>2, ListConstants
<1>4. IsPrefix(p, p)
  BY <1>3 DEF IsPrefix
<1>5. SkipDir(rest, p) \subseteq rest \ {p}
  BY <1>4 DEF SkipDir
<1> QED BY <1>1, <1>2, <1>5 DEF AfterSent

\* The names of the ids that were seen.
LEMMA SeenNext ==
  ASSUME NEW all \in Seq(DOMAIN Tree), NEW path \in DOMAIN Tree, NEW on \in BOOLEAN
  PROVE  /\ Seen(NamedOf(Uids(all), on), Tree[path].uid, on) = NamedOf(Uids(Append(all, path)), on)
         /\ Seen(NamedOf(Gids(all), on), Tree[path].gid, on) = NamedOf(Gids(Append(all, path)), on)
<1>1. /\ Len(Append(all, path)) = Len(all) + 1 /\ Len(all) \in Nat
      /\ \A i \in 1 .. Len(all) : Append(all, path)[i] = all[i]
      /\ Append(all, path)[Len(all) + 1] = path
      /\ 1 .. Len(all) + 1 = (1 .. Len(all)) \cup {Len(all) + 1}
  OBVIOUS
<1>2. Uids(Append(all, path)) = Uids(all) \cup {Tree[path].uid}
  BY <1>1 DEF Uids
<1>3. Gids(Append(all, path)) = Gids(all) \cup {Tree[path].gid}
  BY <1>1 DEF Gids
<1>4. \A owners, id : Seen(NamedOf(owners, on), id, on) = NamedOf(owners \cup {id}, on)
  BY DEF Seen, NamedOf
<1> QED BY <1>2, <1>3, <1>4

\* The sequences of a set of ids are its orders.
LEMMA OrderFacts ==
  ASSUME NEW owners, NEW on \in BOOLEAN, NEW order \in SetToSeqs(NamedOf(owners, on))
  PROVE  OrderOf(order, NamedOf(owners, on))
<1> DEFINE S == NamedOf(owners, on)
<1>1. S \subseteq DOMAIN SenderNames /\ 0 \notin S
  BY DEF NamedOf
<1>2. IsFiniteSet(S) /\ Cardinality(S) \in Nat
  BY <1>1, ListConstants, FS_Subset, FS_CardinalityType
<1> DEFINE D == 1 .. Cardinality(S)
<1>3. order \in [D -> S] /\ \A i, j \in D : i # j => order[i] # order[j]
  BY DEF SetToSeqs
<1> HIDE DEF S
<1>4. order \in Injection(D, S)
  BY <1>3 DEF Injection, IsInjective
<1>5. Cardinality(D) = Cardinality(S)
  <2>1. Cardinality(S) \in Int /\ 1 \in Int
    BY <1>2
  <2>2. Cardinality(1 .. Cardinality(S)) =
          IF 1 > Cardinality(S) THEN 0 ELSE Cardinality(S) - 1 + 1
    BY <2>1, FS_Interval
  <2> QED BY <1>2, <2>2
<1>6. order \in Surjection(D, S)
  BY <1>2, <1>4, <1>5, FS_Injection
<1>7. Range(order) = S
  BY <1>3, <1>6 DEF Surjection, Range
<1>8. order \in Seq(DOMAIN SenderNames)
  BY <1>1, <1>2, <1>3
<1> QED BY <1>1, <1>7, <1>8 DEF OrderOf, S

\* The sorted list has the files of the list.
LEMMA SortedFilesFacts ==
  ASSUME job \in Jobs, files \in Seq(DOMAIN Tree)
  PROVE  SortedFiles \in Seq(DOMAIN Tree) /\ ToSet(SortedFiles) = ToSet(files)
<1>1. PICK names : names = [i \in DOMAIN files |-> Text(WireName(files[i]))]
  OBVIOUS
<1>2. DOMAIN files = 1 .. Len(files) /\ Len(files) \in Nat
  OBVIOUS
<1>3. \A i \in 1 .. Len(files) : Text(WireName(files[i])) \in Seq(Nat)
  BY WireNameType
<1>4. names \in Seq(Seq(Nat)) /\ Len(names) = Len(files)
  BY <1>1, <1>2, <1>3
<1>5. InOrder(files, names) \in Seq(DOMAIN Tree) /\ ToSet(InOrder(files, names)) = ToSet(files)
  BY <1>4, InOrderFacts
<1> QED BY <1>1, <1>5 DEF SortedFiles

\* A step of the sender visits no path twice.
LEMMA WalkWalked ==
  ASSUME Walked, Walk
  PROVE  Walked'
<1>1. /\ job \in Jobs /\ rest \subseteq DOMAIN Tree /\ files \in Seq(DOMAIN Tree)
      /\ rest \cap ToSet(files) = {} /\ ioErrors \in {0, 1} /\ faults \in 0 .. MaxFaults
  BY DEF Walked
<1>2. job' = job
  BY WalkKeeps DEF jobVars
<1>3. MaxFaults \in Nat
  BY ListConstants
<1>4. ASSUME Faulty PROVE faults' \in 0 .. MaxFaults
  BY <1>1, <1>3, <1>4 DEF Faulty
<1>5. ASSUME Visiting
      PROVE  /\ This \in rest /\ This \in DOMAIN Tree
             /\ SkipDir(rest, This) \subseteq rest \ {This} /\ AfterSent \subseteq rest \ {This}
             /\ Append(files, This) \in Seq(DOMAIN Tree)
             /\ ToSet(Append(files, This)) = ToSet(files) \cup {This}
  <2>1. /\ This \in rest /\ This \in DOMAIN Tree
        /\ SkipDir(rest, This) \subseteq rest \ {This} /\ AfterSent \subseteq rest \ {This}
    BY <1>1, <1>5, SkipFacts DEF Visiting
  <2> QED BY <1>1, <2>1, AppendSet
<1>6. CASE WalkVanished \/ WalkSkip \/ WalkExclude
  BY <1>1, <1>2, <1>4, <1>5, <1>6 DEF Walked, WalkVanished, WalkSkip, WalkExclude, Wanted
<1>7. CASE WalkSend \/ WalkUnreadable \/ WalkFail
  <2>1. Visiting
    BY <1>7 DEF WalkSend, WalkUnreadable, WalkFail, Wanted
  <2>2. /\ files' = Append(files, This) /\ rest' \subseteq rest \ {This}
        /\ ioErrors' \in {0, 1} /\ faults' \in 0 .. MaxFaults
    BY <1>1, <1>4, <1>5, <1>7, <2>1 DEF WalkSend, WalkUnreadable, WalkFail, Noted
  <2> QED BY <1>1, <1>2, <1>5, <2>1, <2>2 DEF Walked
<1>8. CASE SendEnd
  <2>1. rest = {} /\ rest' = rest /\ files' = SortedFiles /\ ioErrors' = ioErrors /\ faults' = faults
    BY <1>8 DEF SendEnd, FilesToSend
  <2> QED BY <1>1, <1>2, <2>1, SortedFilesFacts DEF Walked
<1> QED BY <1>6, <1>7, <1>8 DEF Walk

\* The sender sends the ids that are asked for.
LEMMA OnIs ==
  ASSUME Agreed, NEW cat, NEW u, NEW g, Fixed(cat, u, g)
  PROVE  (On(sopt, "preserve_uid") <=> u) /\ (On(sopt, "preserve_gid") <=> g)
<1>1. /\ On(sopt, "preserve_uid") <=> Asked("preserve_uid")
      /\ On(sopt, "preserve_gid") <=> Asked("preserve_gid")
  BY DEF Agreed, Shared
<1>2. u \in BOOLEAN /\ g \in BOOLEAN /\ (u <=> Asked("preserve_uid")) /\ (g <=> Asked("preserve_gid"))
  BY DEF Fixed
<1> QED BY <1>1, <1>2, Zenon

\* An entry is passed over.
LEMMA PassedOver ==
  ASSUME NEW cat, NEW all, NEW f, NEW tail, NEW k, NEW r, NEW users, NEW groups, NEW u, NEW g,
         Inside(cat, all, f, tail, k, r, users, groups, u, g), spc = "walk",
         UNCHANGED <<jobVars, recvVars, wire, spc, files, uidMap, gidMap>>
  PROVE  Framed'
<1>1. /\ Stream(cat, all, f, tail, k, r) /\ wire = r \o f[k]
      /\ Sending(cat, all, tail, users, groups, u, g)
  BY DEF Inside
<1>2. wire' = r \o f[k] /\ Len(all) <= Len(all) /\ \A j \in 1 .. Len(all) : all[j] = all[j]
  BY <1>1 DEF Stream
<1>3. tail = <<>> /\ files = all /\ uidMap = NamedOf(Uids(all), u) /\ gidMap = NamedOf(Gids(all), g)
  BY <1>1 DEF Sending
<1>4. Sending(cat, all, tail, users, groups, u, g)'
  BY <1>3 DEF Sending
<1>5. UNCHANGED <<jobVars, recvVars>>
  OBVIOUS
<1> QED BY <1>1, <1>2, <1>4, <1>5, SenderMoves

\* While the sender walks nothing but entries is on the wire.
LEMMA Written ==
  ASSUME NEW cat, NEW all, NEW f, NEW tail, NEW k, NEW r, NEW users, NEW groups, NEW u, NEW g,
         Inside(cat, all, f, tail, k, r, users, groups, u, g), spc = "walk",
         job \in Jobs, Agreed, DevicesAsOne
  PROVE  /\ Stream(cat, all, f, <<>>, k, r) /\ k <= Len(all) /\ tail = <<>>
         /\ \A path \in DOMAIN Tree : cat[path].entry \in Seq(Tokens)
         /\ r \in Seq(Tokens) /\ f[k] \in Seq(Tokens)
<1>1. /\ Stream(cat, all, f, tail, k, r) /\ Sending(cat, all, tail, users, groups, u, g)
      /\ Errors(all, k) /\ Fixed(cat, u, g)
  BY DEF Inside
<1>2. tail = <<>>
  BY <1>1 DEF Sending
<1>3. k \in 0 .. Len(all) + 1 /\ Len(all) \in Nat /\ k # Len(all) + 1
  BY <1>1 DEF Stream, Errors
<1>4. ASSUME NEW path \in DOMAIN Tree PROVE cat[path].entry \in Seq(Tokens)
  <2>1. PICK t : t = cat[path]
    OBVIOUS
  <2>2. Sound(t)
    BY <1>1, <2>1, FixedFacts
  <2>3. t.entry = Then(Byte(1), AtNameLen(t)) /\ t.name \in Seq(Nat) /\ t.size \in Nat
        /\ t.mode \in Nat /\ t.mtime \in -IntMax - 1 .. IntMax /\ t.attrs \in Seq(Tokens)
    BY <2>2 DEF Sound, Whole, Planned
  <2>4. t.mtime \in Int
    BY <2>3, ListConstants
  <2>5. AtNameLen(t) \in Seq(Tokens)
    BY <2>3, <2>4, PartsType
  <2>6. Byte(1) \in Tokens
    BY TokenType
  <2>7. t.entry \in Seq(Tokens)
    BY <2>3, <2>5, <2>6, ThenFacts
  <2> QED BY <2>1, <2>7
<1>5. r \in Seq(Tokens) /\ f[k] \in Seq(Tokens)
  BY <1>1, <1>3 DEF Stream
<1> QED BY <1>1, <1>2, <1>3, <1>4, <1>5

\* An entry is written.
LEMMA EntryWritten ==
  ASSUME NEW cat, NEW all, NEW f, NEW tail, NEW k, NEW r, NEW users, NEW groups, NEW u, NEW g,
         Inside(cat, all, f, tail, k, r, users, groups, u, g), spc = "walk",
         job \in Jobs, Agreed, DevicesAsOne, This \in DOMAIN Tree,
         UNCHANGED <<jobVars, recvVars, spc>>, Noted(This), wire' = wire \o Entry(This)
  PROVE  Framed'
<1>1. /\ Stream(cat, all, f, tail, k, r) /\ wire = r \o f[k] /\ Fixed(cat, u, g)
      /\ Sending(cat, all, tail, users, groups, u, g)
  BY DEF Inside
<1>2. PICK path \in DOMAIN Tree : path = This
  OBVIOUS
<1>3. PICK e : e = cat[path].entry
  OBVIOUS
<1>4. /\ Stream(cat, all, f, <<>>, k, r) /\ k <= Len(all) /\ tail = <<>>
      /\ e \in Seq(Tokens) /\ r \in Seq(Tokens) /\ f[k] \in Seq(Tokens)
      /\ \A p \in DOMAIN Tree : cat[p].entry \in Seq(Tokens)
  BY <1>3, Written
<1>5. PICK f2 : f2 = Longer(f, Len(all), Len(all) + 2, e)
  OBVIOUS
<1>6. Stream(cat, Append(all, path), f2, <<>>, k, r) /\ f2[k] = f[k] \o e
  <2>1. f2 = Longer(f, Len(all), Len(all) + 2, cat[path].entry)
    BY <1>3, <1>5, Zenon
  <2>2. /\ Stream(cat, Append(all, path), Longer(f, Len(all), Len(all) + 2, cat[path].entry),
                  <<>>, k, r)
        /\ Longer(f, Len(all), Len(all) + 2, cat[path].entry)[k] = f[k] \o cat[path].entry
    <3>1. /\ Stream(cat, all, f, <<>>, k, r) /\ k <= Len(all)
          /\ \A p \in DOMAIN Tree : cat[p].entry \in Seq(Tokens)
      BY <1>4
    <3>2. /\ Stream(cat, Append(all, path), Longer(f, Len(all), Len(all) + 2, cat[path].entry),
                    <<>>, k, r)
      BY <3>1, StreamGrows, Zenon
    <3>3. Longer(f, Len(all), Len(all) + 2, cat[path].entry)[k] = f[k] \o cat[path].entry
      <4>1. k \in 0 .. Len(all) + 2 /\ k <= Len(all)
        BY <3>1 DEF Stream
      <4> QED BY <4>1 DEF Longer
    <3> QED BY <3>2, <3>3, Zenon
  <2> QED BY <1>3, <2>1, <2>2, Zenon
<1>7. Entry(path) = e
  BY <1>1, <1>3, FixedFacts
<1>8. wire' = r \o f2[k]
  <2>1. wire' = (r \o f[k]) \o e
    BY <1>1, <1>2, <1>7
  <2>2. PICK y : y = f[k]
    OBVIOUS
  <2>3. (r \o y) \o e = r \o (y \o e)
    BY <1>4, <2>2, Assoc
  <2> QED BY <1>6, <2>1, <2>2, <2>3, Zenon
<1>9. all \in Seq(DOMAIN Tree)
  BY <1>1 DEF Stream
<1>10. files = all /\ uidMap = NamedOf(Uids(all), u) /\ gidMap = NamedOf(Gids(all), g)
  BY <1>1 DEF Sending
<1>11. u \in BOOLEAN /\ g \in BOOLEAN
  BY <1>1 DEF Fixed
<1>12. /\ files' = Append(all, path)
       /\ uidMap' = Seen(NamedOf(Uids(all), u), Tree[path].uid, u)
       /\ gidMap' = Seen(NamedOf(Gids(all), g), Tree[path].gid, g)
  <2>1. (On(sopt, "preserve_uid") <=> u) /\ (On(sopt, "preserve_gid") <=> g)
    BY <1>1, OnIs
  <2>2. \A map, id : /\ Seen(map, id, On(sopt, "preserve_uid")) = Seen(map, id, u)
                     /\ Seen(map, id, On(sopt, "preserve_gid")) = Seen(map, id, g)
    BY <2>1, Zenon DEF Seen
  <2> QED BY <1>2, <1>10, <2>2, Zenon DEF Noted
<1>13. /\ uidMap' = NamedOf(Uids(Append(all, path)), u)
       /\ gidMap' = NamedOf(Gids(Append(all, path)), g)
  BY <1>9, <1>11, <1>12, SeenNext
<1>14. PICK all2 : all2 = Append(all, path)
  OBVIOUS
<1>15. Sending(cat, all2, <<>>, users, groups, u, g)'
  BY <1>12, <1>13, <1>14 DEF Sending
<1>16. Len(all) <= Len(all2) /\ \A j \in 1 .. Len(all) : all2[j] = all[j]
  BY <1>9, <1>14
<1>17. UNCHANGED <<jobVars, recvVars>>
  OBVIOUS
<1>18. Stream(cat, all2, f2, <<>>, k, r)
  BY <1>6, <1>14
<1> QED BY <1>8, <1>15, <1>16, <1>17, <1>18, SenderMoves

\* The sender gives up.
LEMMA GivenUp ==
  ASSUME NEW cat, NEW all, NEW f, NEW tail, NEW k, NEW r, NEW users, NEW groups, NEW u, NEW g,
         Inside(cat, all, f, tail, k, r, users, groups, u, g), spc = "walk", This \in DOMAIN Tree,
         UNCHANGED <<jobVars, recvVars, wire>>, Noted(This), spc' = "err"
  PROVE  Framed'
<1>1. /\ Stream(cat, all, f, tail, k, r) /\ wire = r \o f[k]
      /\ Sending(cat, all, tail, users, groups, u, g)
  BY DEF Inside
<1>2. wire' = r \o f[k] /\ Len(all) <= Len(all) /\ \A j \in 1 .. Len(all) : all[j] = all[j]
  BY <1>1 DEF Stream
<1>3. tail = <<>> /\ files = all
  BY <1>1 DEF Sending
<1>4. PICK path \in DOMAIN Tree : path = This
  OBVIOUS
<1>5. files' = Append(all, path)
  BY <1>3, <1>4 DEF Noted
<1>6. Sending(cat, all, tail, users, groups, u, g)'
  BY <1>3, <1>5 DEF Sending
<1>7. UNCHANGED <<jobVars, recvVars>>
  OBVIOUS
<1> QED BY <1>1, <1>2, <1>6, <1>7, SenderMoves

\* The end of the list is written.
LEMMA EndWritten ==
  ASSUME NEW cat, NEW all, NEW f, NEW tail, NEW k, NEW r, NEW users0, NEW groups0, NEW u, NEW g,
         Inside(cat, all, f, tail, k, r, users0, groups0, u, g), spc = "walk",
         job \in Jobs, Agreed, DevicesAsOne, ioErrors \in {0, 1}, SendEnd
  PROVE  Framed'
<1>1. /\ Stream(cat, all, f, tail, k, r) /\ wire = r \o f[k] /\ Fixed(cat, u, g)
      /\ Sending(cat, all, tail, users0, groups0, u, g)
  BY DEF Inside
<1>2. /\ UNCHANGED <<jobVars, recvVars>> /\ spc' = "sorted" /\ files' = SortedFiles
      /\ ioErrors' = ioErrors
  BY DEF SendEnd, FilesToSend
<1>3. PICK users \in SetToSeqs(uidMap), groups \in SetToSeqs(gidMap) :
        wire' = wire \o Ends(users, groups)
  BY DEF SendEnd
<1>4. tail = <<>> /\ files = all /\ uidMap = NamedOf(Uids(all), u) /\ gidMap = NamedOf(Gids(all), g)
  BY <1>1 DEF Sending
<1>5. u \in BOOLEAN /\ g \in BOOLEAN
  BY <1>1 DEF Fixed
<1>6. OrderOf(users, NamedOf(Uids(all), u)) /\ OrderOf(groups, NamedOf(Gids(all), g))
  BY <1>3, <1>4, <1>5, OrderFacts
<1>7. users \in Seq(DOMAIN SenderNames) /\ groups \in Seq(DOMAIN SenderNames)
  BY <1>6 DEF OrderOf
<1>8. PICK a : a = When(u, IdList(users))
  OBVIOUS
<1>9. PICK b : b = When(g, IdList(groups))
  OBVIOUS
<1>10. PICK c : c = <<Int32(ioErrors)>>
  OBVIOUS
<1>11. PICK h : h = <<Byte(0)>>
  OBVIOUS
<1>12. PICK e : e = Ending(users, groups, u, g)
  OBVIOUS
<1>13. a \in Seq(Tokens) /\ b \in Seq(Tokens) /\ c \in Seq(Tokens) /\ h \in Seq(Tokens)
  <2>1. IdList(users) \in Seq(Tokens) /\ IdList(groups) \in Seq(Tokens)
    <3>1. PICK L \in [0 .. Len(users) -> Seq(Tokens)] : L[0] = IdList(users)
      BY <1>7, IdListSteps
    <3>2. PICK M \in [0 .. Len(groups) -> Seq(Tokens)] : M[0] = IdList(groups)
      BY <1>7, IdListSteps
    <3>3. 0 \in 0 .. Len(users) /\ 0 \in 0 .. Len(groups)
      BY <1>7
    <3> QED BY <3>1, <3>2, <3>3
  <2>2. a \in Seq(Tokens)
    BY <1>5, <1>8, <2>1 DEF When
  <2>3. b \in Seq(Tokens)
    BY <1>5, <1>9, <2>1 DEF When
  <2>4. c \in Seq(Tokens)
    BY <1>5, <1>7, <1>10, EndingFacts
  <2>5. Byte(0) \in Tokens
    BY TokenType
  <2> QED BY <1>11, <2>2, <2>3, <2>4, <2>5
<1>14. e = h \o (a \o (b \o c))
  BY <1>8, <1>9, <1>10, <1>11, <1>12, Zenon DEF Ending, AfterUsers, Then
<1>15. e \in Seq(Tokens)
  BY <1>13, <1>14
<1>16. /\ Stream(cat, all, f, <<>>, k, r) /\ k <= Len(all)
       /\ \A path \in DOMAIN Tree : cat[path].entry \in Seq(Tokens)
       /\ r \in Seq(Tokens) /\ f[k] \in Seq(Tokens)
  BY Written
<1>17. PICK f2 : f2 = Longer(f, Len(all), Len(all) + 1, e)
  OBVIOUS
<1>18. Stream(cat, all, f2, e, k, r)
  BY <1>15, <1>16, <1>17, StreamEnds
<1>19. f2[k] = f[k] \o e
  <2>1. k \in 0 .. Len(all) + 1 /\ k <= Len(all)
    BY <1>16 DEF Stream
  <2> QED BY <1>17, <2>1 DEF Longer
<1>20. wire' = r \o f2[k]
  <2>1. PICK y : y = f[k]
    OBVIOUS
  <2>2. /\ When(On(sopt, "preserve_uid"), IdList(users)) = a
        /\ When(On(sopt, "preserve_gid"), IdList(groups)) = b
    <3>1. (On(sopt, "preserve_uid") <=> u) /\ (On(sopt, "preserve_gid") <=> g)
      BY <1>1, OnIs
    <3> QED BY <1>8, <1>9, <3>1, Zenon DEF When
  <2>3. Ends(users, groups) = ((h \o a) \o b) \o c
    BY <1>10, <1>11, <2>2, Zenon DEF Ends
  <2>4. ((h \o a) \o b) \o c = e
    <3>1. ((h \o a) \o b) \o c = h \o (a \o (b \o c))
      BY <1>13, SMTT(30)
    <3> QED BY <1>14, <3>1, Zenon
  <2>5. wire' = (r \o y) \o e
    BY <1>1, <1>3, <2>1, <2>3, <2>4, Zenon
  <2>6. (r \o y) \o e = r \o (y \o e)
    <3>1. r \in Seq(Tokens) /\ y \in Seq(Tokens) /\ e \in Seq(Tokens)
      BY <1>15, <1>16, <2>1
    <3> QED BY <3>1, Assoc
  <2> QED BY <1>19, <2>1, <2>5, <2>6, Zenon
<1>21. SortedFiles = SortedPaths(cat, all)
  <2>1. all \in Seq(DOMAIN Tree) /\ DOMAIN all = 1 .. Len(all)
    BY <1>1 DEF Stream
  <2>2. \A i \in 1 .. Len(all) : Text(WireName(all[i])) = cat[all[i]].name
    BY <1>1, <2>1, FixedFacts
  <2>3. [i \in DOMAIN all |-> Text(WireName(all[i]))] = [i \in 1 .. Len(all) |-> cat[all[i]].name]
    BY <2>1, <2>2, Zenon
  <2> QED BY <1>4, <2>3, Zenon DEF SortedFiles, SortedPaths
<1>22. Sending(cat, all, e, users, groups, u, g)'
  <2>1. Ending(users, groups, u, g)' = e
    BY <1>2, <1>12 DEF Ending, AfterUsers
  <2> QED BY <1>2, <1>6, <1>21, <2>1 DEF Sending
<1>23. Len(all) <= Len(all) /\ \A j \in 1 .. Len(all) : all[j] = all[j]
  BY <1>1 DEF Stream
<1>24. UNCHANGED <<jobVars, recvVars>>
  BY <1>2
<1> QED BY <1>18, <1>20, <1>22, <1>23, <1>24, SenderMoves

\* Whatever the sender does, the receiver will read it as it was written.
LEMMA SenderSound ==
  ASSUME IInv, DevicesAsOne, Walk
  PROVE  Framed'
<1>1. /\ job \in Jobs /\ Agreed /\ ioErrors \in {0, 1} /\ rest \subseteq DOMAIN Tree /\ Framed
  BY DEF IInv, Walked
<1>2. PICK cat, all, f, tail, k, r, users, groups, u, g :
         Inside(cat, all, f, tail, k, r, users, groups, u, g)
  BY <1>1 DEF Framed
<1>3. UNCHANGED <<jobVars, recvVars>> /\ spc = "walk"
  BY WalkKeeps
<1>4. Visiting => This \in DOMAIN Tree
  BY <1>1, SkipFacts DEF Visiting
<1>5. CASE WalkVanished \/ WalkSkip \/ WalkExclude
  <2>1. UNCHANGED <<jobVars, recvVars, wire, spc, files, uidMap, gidMap>>
    BY <1>5 DEF WalkVanished, WalkSkip, WalkExclude
  <2> QED BY <1>2, <1>3, <2>1, PassedOver
<1>6. CASE WalkSend \/ WalkUnreadable
  <2>1. /\ UNCHANGED <<jobVars, recvVars, spc>> /\ Noted(This) /\ wire' = wire \o Entry(This)
        /\ Visiting
    BY <1>6 DEF WalkSend, WalkUnreadable, Wanted
  <2> QED BY <1>1, <1>2, <1>3, <1>4, <2>1, EntryWritten
<1>7. CASE WalkFail
  <2>1. /\ UNCHANGED <<jobVars, recvVars, wire>> /\ Noted(This) /\ spc' = "err" /\ Visiting
    BY <1>7 DEF WalkFail, Wanted
  <2> QED BY <1>2, <1>3, <1>4, <2>1, GivenUp
<1>8. CASE SendEnd
  BY <1>1, <1>2, <1>3, <1>8, EndWritten
<1> QED BY <1>5, <1>6, <1>7, <1>8 DEF Walk

-----------------------------------------------------------------------------
(* The invariant.                                                          *)

\* The options do not change.
LEMMA AgreedKept ==
  ASSUME Agreed, UNCHANGED jobVars
  PROVE  Agreed' /\ (DevicesAsOne' <=> DevicesAsOne)
<1>1. job' = job /\ copt' = copt /\ dopt' = dopt
  BY DEF jobVars
<1>2. sopt' = sopt /\ ropt' = ropt
  BY <1>1 DEF sopt, ropt
<1> QED BY <1>1, <1>2 DEF Agreed, DevicesAsOne, Asked, On

\* Nothing happens.
LEMMA FramedKept ==
  ASSUME IInv, DevicesAsOne, UNCHANGED listVars
  PROVE  Framed'
<1>1. UNCHANGED <<jobVars, sendVars, recvVars, wire>>
  BY DEF listVars
<1>2. PICK cat, all, f, tail, k, r, users, groups, u, g :
         Inside(cat, all, f, tail, k, r, users, groups, u, g)
  BY DEF IInv, Framed
<1>3. /\ spc' = spc /\ files' = files /\ uidMap' = uidMap /\ gidMap' = gidMap
      /\ ioErrors' = ioErrors /\ rpc' = rpc /\ need' = need /\ entry' = entry /\ size' = size
      /\ fileList' = fileList /\ ids' = ids /\ IOErrors' = IOErrors /\ wire' = wire
  BY <1>1 DEF sendVars, recvVars
<1>4. /\ Stream(cat, all, f, tail, k, r) /\ wire = r \o f[k] /\ Fixed(cat, u, g)
      /\ Errors(all, k) /\ Sending(cat, all, tail, users, groups, u, g)
      /\ ReadSoFar(cat, all, k, r, users, groups, u, g)
  BY <1>2 DEF Inside
<1>5. Fixed(cat, u, g)'
  BY <1>1, <1>4, FixedKept
<1>6. Ending(users, groups, u, g)' = Ending(users, groups, u, g)
  BY <1>3 DEF Ending, AfterUsers
<1>7. Sending(cat, all, tail, users, groups, u, g)'
  BY <1>3, <1>4, <1>6 DEF Sending
<1>8. Errors(all, k)'
  BY <1>3, <1>4 DEF Errors
<1>9. AfterUsers(groups, g)' = AfterUsers(groups, g)
  BY <1>3 DEF AfterUsers
<1>10. ReadSoFar(cat, all, k, r, users, groups, u, g)'
  <2>1. ASSUME Between(cat, all, k, r) PROVE Between(cat, all, k, r)'
    BY <1>3, <2>1 DEF Between, NoIds
  <2>2. ASSUME Within(cat, all, k, r) PROVE Within(cat, all, k, r)'
    <3>1. (InHeader(cat[all[k]], r)' <=> InHeader(cat[all[k]], r))
          /\ (InAttrs(cat[all[k]], r)' <=> InAttrs(cat[all[k]], r))
      BY <1>3 DEF InHeader, InAttrs
    <3> QED BY <1>3, <2>2, <3>1 DEF Within, NoIds
  <2>3. ASSUME Trailing(cat, all, k, r, users, groups, u, g)
        PROVE  Trailing(cat, all, k, r, users, groups, u, g)'
    <3>1. /\ HasUsers(users, u)' <=> HasUsers(users, u)
          /\ HasGroups(groups, g)' <=> HasGroups(groups, g)
      BY <1>3 DEF HasUsers, HasGroups
    <3>2. \A set, order, L, i, after, next :
            InIds(set, order, L, i, after, next, r)' <=> InIds(set, order, L, i, after, next, r)
      BY <1>3 DEF InIds
    <3>3. InTrailer(users, groups, u, g, r)' <=> InTrailer(users, groups, u, g, r)
      BY <1>3, <1>9, <3>1, <3>2, Zenon DEF InTrailer
    <3> QED BY <1>3, <2>3, <3>3 DEF Trailing
  <2>4. ASSUME Finished(cat, all, k, r, users, groups, u, g)
        PROVE  Finished(cat, all, k, r, users, groups, u, g)'
    BY <1>3, <2>4 DEF Finished, HasUsers, HasGroups
  <2> QED BY <1>4, <2>1, <2>2, <2>3, <2>4 DEF ReadSoFar
<1>11. Inside(cat, all, f, tail, k, r, users, groups, u, g)'
  BY <1>3, <1>4, <1>5, <1>7, <1>8, <1>10 DEF Inside
<1> QED BY <1>11 DEF Framed

\* A walk is in the tree.
LEMMA WalkOfSub ==
  ASSUME NEW path
  PROVE  WalkOf(path) \subseteq DOMAIN Tree
BY DEF WalkOf

\* At the start nothing is written, and nothing was read.
LEMMA FramedInit ==
  ASSUME Init
  PROVE  Framed
<1>1. /\ spc = "walk" /\ files = <<>> /\ uidMap = {} /\ gidMap = {} /\ wire = <<>>
      /\ rpc = "list" /\ need = <<"flags">> /\ fileList = <<>>
      /\ ids = [set \in {"users", "groups"} |-> {}] /\ IOErrors = 0
  BY DEF Init
<1>2. PICK cat : cat = Catalogue
  OBVIOUS
<1>3. PICK u \in BOOLEAN : u <=> Asked("preserve_uid")
  OBVIOUS
<1>4. PICK g \in BOOLEAN : g <=> Asked("preserve_gid")
  OBVIOUS
<1>5. Fixed(cat, u, g)
  BY <1>2, <1>3, <1>4 DEF Fixed
<1>6. PICK f : f = [j \in 0 .. 1 |-> <<>>]
  OBVIOUS
<1>7. PICK all : all = <<>>
  OBVIOUS
<1>8. all \in Seq(DOMAIN Tree) /\ Len(all) = 0
  BY <1>7
<1>9. Stream(cat, all, f, <<>>, 0, <<>>)
  <2>1. <<>> \in Seq(Tokens)
    OBVIOUS
  <2>2. f \in [0 .. Len(all) + 1 -> Seq(Tokens)]
    BY <1>6, <1>8, <2>1
  <2>3. f[Len(all) + 1] = <<>> /\ f[Len(all)] = <<>>
    BY <1>6, <1>8
  <2>4. \A j \in 1 .. Len(all) : FALSE
    BY <1>8
  <2>5. 0 \in 0 .. Len(all) + 1
    BY <1>8
  <2> QED BY <1>8, <2>1, <2>2, <2>3, <2>4, <2>5 DEF Stream
<1>10. wire = <<>> \o f[0]
  BY <1>1, <1>6
<1>11. Uids(all) = {} /\ Gids(all) = {}
  <2>1. \A i \in 1 .. Len(all) : FALSE
    BY <1>8
  <2> QED BY <2>1 DEF Uids, Gids
<1>12. NamedOf(Uids(all), u) = {} /\ NamedOf(Gids(all), g) = {}
  BY <1>11 DEF NamedOf
<1>13. Sending(cat, all, <<>>, <<>>, <<>>, u, g)
  BY <1>1, <1>7, <1>12 DEF Sending
<1>14. Listed(cat, all, 0) = <<>>
  <2>1. 1 .. 0 = {}
    OBVIOUS
  <2> QED BY <2>1 DEF Listed
<1>15. Between(cat, all, 0, <<>>)
  BY <1>1, <1>8, <1>14 DEF Between, NoIds
<1>16. ReadSoFar(cat, all, 0, <<>>, <<>>, <<>>, u, g)
  BY <1>15 DEF ReadSoFar
<1>17. Errors(all, 0)
  BY <1>1, <1>8 DEF Errors
<1>18. Inside(cat, all, f, <<>>, 0, <<>>, <<>>, <<>>, u, g)
  BY <1>5, <1>9, <1>10, <1>13, <1>16, <1>17 DEF Inside
<1> QED BY <1>18 DEF Framed

\* The invariant holds at the start,
LEMMA InitInvariant == Init => IInv
<1> SUFFICES ASSUME Init PROVE IInv
  OBVIOUS
<1>1. Walked
  <2>1. MaxFaults \in Nat
    BY ListConstants
  <2>2. /\ job \in Jobs /\ rest \subseteq DOMAIN Tree /\ files = <<>> /\ ioErrors = 0 /\ faults = 0
    BY WalkOfSub DEF Init
  <2>3. ToSet(files) = {}
    BY <2>2 DEF ToSet
  <2> QED BY <2>1, <2>2, <2>3 DEF Walked
<1> QED BY <1>1, AgreedInit, FramedInit DEF IInv

\* and after every step,
LEMMA StepInvariant == IInv /\ [Next]_listVars => IInv'
<1> SUFFICES ASSUME IInv, [Next]_listVars PROVE IInv'
  OBVIOUS
<1>1. Walked /\ Agreed
  BY DEF IInv
<1>2. CASE Walk
  <2>1. Walked' /\ UNCHANGED jobVars
    BY <1>1, <1>2, WalkWalked, WalkKeeps
  <2>2. Agreed' /\ (DevicesAsOne' <=> DevicesAsOne)
    BY <1>1, <2>1, AgreedKept
  <2>3. DevicesAsOne => Framed'
    BY <1>2, SenderSound
  <2> QED BY <2>1, <2>2, <2>3 DEF IInv
<1>3. CASE Receive
  <2>1. UNCHANGED jobVars /\ UNCHANGED sendVars
    BY <1>3, ReceiveKeeps
  <2>2. Walked'
    BY <1>1, <2>1 DEF Walked, sendVars, jobVars
  <2>3. Agreed' /\ (DevicesAsOne' <=> DevicesAsOne)
    BY <1>1, <2>1, AgreedKept
  <2>4. DevicesAsOne => Framed'
    BY <1>3, ReaderSound
  <2> QED BY <2>2, <2>3, <2>4 DEF IInv
<1>4. CASE UNCHANGED listVars
  <2>1. UNCHANGED <<jobVars, sendVars>>
    BY <1>4 DEF listVars
  <2>2. Walked'
    BY <1>1, <2>1 DEF Walked, sendVars, jobVars
  <2>3. Agreed' /\ (DevicesAsOne' <=> DevicesAsOne)
    BY <1>1, <2>1, AgreedKept
  <2>4. DevicesAsOne => Framed'
    BY <1>4, FramedKept
  <2> QED BY <2>2, <2>3, <2>4 DEF IInv
<1> QED BY <1>2, <1>3, <1>4 DEF Next

\* so it always holds: what is on the wire is the rest of the entry that the
\* receiver is reading, the entries it has not begun, and then the end of the
\* list (walkFn and SendFileList against receiveFileEntry and ReceiveFileList).
THEOREM Invariant == Spec => []IInv
BY InitInvariant, StepInvariant, PTL DEF Spec

-----------------------------------------------------------------------------
(* No field is misread.                                                    *)

\* What is still to be read of an unfinished list is not nothing.
LEMMA StreamLeft ==
  ASSUME job \in Jobs, Agreed, DevicesAsOne, ioErrors \in {0, 1},
         NEW cat, NEW all, NEW f, NEW tail, NEW k, NEW r, NEW users, NEW groups, NEW u, NEW g,
         Inside(cat, all, f, tail, k, r, users, groups, u, g), spc = "sorted", k \in 0 .. Len(all)
  PROVE  wire # <<>>
<1>1. /\ Stream(cat, all, f, tail, k, r) /\ wire = r \o f[k] /\ Fixed(cat, u, g)
      /\ Sending(cat, all, tail, users, groups, u, g)
  BY DEF Inside
<1>2. /\ all \in Seq(DOMAIN Tree) /\ r \in Seq(Tokens) /\ f[Len(all)] = tail
      /\ f[k] \in Seq(Tokens) /\ tail \in Seq(Tokens) /\ Len(all) \in Nat
      /\ \A j \in 1 .. Len(all) : f[j - 1] = cat[all[j]].entry \o f[j]
      /\ \A j \in 0 .. Len(all) : f[j] \in Seq(Tokens)
  <2>1. /\ all \in Seq(DOMAIN Tree) /\ r \in Seq(Tokens) /\ f[Len(all)] = tail
        /\ tail \in Seq(Tokens) /\ f \in [0 .. Len(all) + 1 -> Seq(Tokens)]
        /\ \A j \in 1 .. Len(all) : f[j - 1] = cat[all[j]].entry \o f[j]
    BY <1>1 DEF Stream
  <2>2. PICK n : n = Len(all)
    OBVIOUS
  <2>3. n \in Nat /\ f \in [0 .. n + 1 -> Seq(Tokens)]
    BY <2>1, <2>2
  <2>4. k \in 0 .. n + 1 /\ \A j \in 0 .. n : j \in 0 .. n + 1
    BY <2>2, <2>3
  <2>5. f[k] \in Seq(Tokens) /\ \A j \in 0 .. n : f[j] \in Seq(Tokens)
    BY <2>3, <2>4
  <2> QED BY <2>1, <2>2, <2>3, <2>5
<1>3. f[k] # <<>>
  <2>1. CASE k = Len(all)
    <3>1. tail = Ending(users, groups, u, g) /\ u \in BOOLEAN /\ g \in BOOLEAN
          /\ users \in Seq(DOMAIN SenderNames) /\ groups \in Seq(DOMAIN SenderNames)
      BY <1>1 DEF Sending, OrderOf, Fixed
    <3>2. /\ When(u, IdList(users)) \o AfterUsers(groups, g) \in Seq(Tokens)
          /\ Byte(0) \in Tokens
      BY <3>1, EndingFacts
    <3>3. tail # <<>>
      BY <3>1, <3>2, ThenFacts DEF Ending
    <3> QED BY <1>2, <2>1, <3>3
  <2>2. CASE k < Len(all)
    <3>1. k + 1 \in 1 .. Len(all) /\ (k + 1) - 1 = k /\ all[k + 1] \in DOMAIN Tree
      BY <1>2, <2>2
    <3>2. f[k] = cat[all[k + 1]].entry \o f[k + 1]
      BY <1>2, <3>1
    <3>3. PICK t : t = cat[all[k + 1]]
      OBVIOUS
    <3>4. Sound(t)
      BY <1>1, <3>1, <3>3, FixedFacts
    <3>5. t.entry = Then(Byte(1), AtNameLen(t)) /\ AtNameLen(t) \in Seq(Tokens)
      <4>1. /\ t.entry = Then(Byte(1), AtNameLen(t))
            /\ t.name \in Seq(Nat) /\ t.size \in Nat /\ t.mode \in Nat /\ t.attrs \in Seq(Tokens)
            /\ t.mtime \in -IntMax - 1 .. IntMax
        BY <3>4 DEF Sound, Whole, Planned
      <4>2. t.mtime \in Int
        BY <4>1, ListConstants
      <4> QED BY <4>1, <4>2, PartsType
    <3>6. t.entry \in Seq(Tokens) /\ t.entry # <<>>
      BY <3>5, TokenType, ThenFacts
    <3>7. f[k + 1] \in Seq(Tokens)
      BY <1>2, <3>1
    <3>8. t.entry \o f[k + 1] # <<>>
      BY <3>6, <3>7
    <3> QED BY <3>2, <3>3, <3>8
  <2> QED BY <1>2, <2>1, <2>2
<1> QED BY <1>1, <1>2, <1>3

\* Behind the entries something is left to be read until all of it is read.
LEMMA TrailerLeft ==
  ASSUME NEW users \in Seq(DOMAIN SenderNames), NEW groups \in Seq(DOMAIN SenderNames),
         NEW u \in BOOLEAN, NEW g \in BOOLEAN, ioErrors \in {0, 1},
         NEW r, InTrailer(users, groups, u, g, r)
  PROVE  r # <<>>
<1>1. /\ AfterUsers(groups, g) \in Seq(Tokens) /\ <<Int32(ioErrors)>> \in Seq(Tokens)
  BY EndingFacts
<1>2. AfterUsers(groups, g) # <<>>
  <2>1. When(g, IdList(groups)) \in Seq(Tokens)
    <3>1. PICK L \in [0 .. Len(groups) -> Seq(Tokens)] : L[0] = IdList(groups)
      BY IdListSteps
    <3>2. 0 \in 0 .. Len(groups)
      OBVIOUS
    <3>3. IdList(groups) \in Seq(Tokens)
      BY <3>1, <3>2
    <3> QED BY <3>3 DEF When
  <2>2. \A a, b \in Seq(Tokens) : b # <<>> => a \o b # <<>>
    OBVIOUS
  <2>3. <<Int32(ioErrors)>> # <<>>
    OBVIOUS
  <2> QED BY <1>1, <2>1, <2>2, <2>3 DEF AfterUsers
<1>3. ASSUME NEW set, NEW order \in Seq(DOMAIN SenderNames), NEW L, Unrolled(order, L),
             NEW i \in 0 .. Len(order), NEW after \in Seq(Tokens), NEW next, after # <<>>,
             InIds(set, order, L, i, after, next, r)
      PROVE  r # <<>>
  <2>1. L[i] \in Seq(Tokens)
    BY <1>3 DEF Unrolled
  <2>2. L[i] \o after # <<>>
    BY <1>3, <2>1
  <2>3. CASE r = L[i] \o after
    BY <2>2, <2>3
  <2>4. CASE i < Len(order) /\ \E t, w : r = Then(t, Then(w, L[i + 1] \o after)) /\ t \in Tokens /\ w \in Tokens
    <3>1. PICK t, w : r = Then(t, Then(w, L[i + 1] \o after)) /\ t \in Tokens /\ w \in Tokens
      BY <2>4
    <3>2. i + 1 \in 0 .. Len(order)
      BY <2>4
    <3>3. L[i + 1] \in Seq(Tokens)
      BY <1>3, <3>2 DEF Unrolled
    <3>4. L[i + 1] \o after \in Seq(Tokens)
      BY <3>3
    <3>5. Then(w, L[i + 1] \o after) \in Seq(Tokens)
      BY <3>1, <3>4, ThenFacts
    <3> QED BY <3>1, <3>5, ThenFacts
  <2>5. CASE i < Len(order) /\ \E w \in Tokens : r = Then(w, L[i + 1] \o after)
    <3>1. PICK w \in Tokens : r = Then(w, L[i + 1] \o after)
      BY <2>5
    <3>2. i + 1 \in 0 .. Len(order)
      BY <2>5
    <3>3. L[i + 1] \in Seq(Tokens)
      BY <1>3, <3>2 DEF Unrolled
    <3>4. L[i + 1] \o after \in Seq(Tokens)
      BY <3>3
    <3> QED BY <3>1, <3>4, ThenFacts
  <2>6. i < Len(order) =>
          /\ Byte(Len(SenderNames[order[i + 1]])) \in Tokens
          /\ Bytes(SenderNames[order[i + 1]]) \in Tokens
    <3> SUFFICES ASSUME i < Len(order)
                 PROVE  /\ Byte(Len(SenderNames[order[i + 1]])) \in Tokens
                        /\ Bytes(SenderNames[order[i + 1]]) \in Tokens
      OBVIOUS
    <3>1. order[i + 1] \in DOMAIN SenderNames
      OBVIOUS
    <3>2. PICK s \in Seq(Nat) : s = SenderNames[order[i + 1]]
      BY <3>1, ListConstants
    <3>3. Len(s) \in Int \cup Seq(Nat) /\ s \in Int \cup Seq(Nat)
      BY <3>2
    <3> QED BY <3>2, <3>3, TokenType
  <2> QED BY <1>3, <2>3, <2>4, <2>5, <2>6, Zenon DEF InIds
<1>4. <<Int32(ioErrors)>> # <<>>
  OBVIOUS
<1>5. CASE \E L, i : /\ Unrolled(users, L) /\ i \in 0 .. Len(users)
                     /\ InIds("users", users, L, i, AfterUsers(groups, g), NeedAfterUsers(g), r)
  BY <1>1, <1>2, <1>3, <1>5, Zenon
<1>6. CASE \E L, i : /\ Unrolled(groups, L) /\ i \in 0 .. Len(groups)
                     /\ InIds("groups", groups, L, i, <<Int32(ioErrors)>>, <<"IOErrors">>, r)
  BY <1>1, <1>3, <1>4, <1>6, Zenon
<1> QED BY <1>4, <1>5, <1>6, Zenon DEF InTrailer

\* The invariant is about every field.
LEMMA Misread ==
  ASSUME IInv, DevicesAsOne
  PROVE  NeverMisread
<1>1. job \in Jobs /\ Agreed /\ ioErrors \in {0, 1} /\ Framed
  BY DEF IInv, Walked
<1>2. PICK cat, all, f, tail, k, r, users, groups, u, g :
         Inside(cat, all, f, tail, k, r, users, groups, u, g)
  BY <1>1 DEF Framed
<1>3. /\ Stream(cat, all, f, tail, k, r) /\ wire = r \o f[k] /\ Fixed(cat, u, g)
      /\ Errors(all, k) /\ Sending(cat, all, tail, users, groups, u, g)
      /\ ReadSoFar(cat, all, k, r, users, groups, u, g)
  BY <1>2 DEF Inside
<1>4. Len(all) \in Nat /\ k \in 0 .. Len(all) + 1 /\ f[Len(all) + 1] = <<>> /\ r \in Seq(Tokens)
  BY <1>3 DEF Stream
<1>5. k = Len(all) + 1 => wire = r
  BY <1>3, <1>4
<1>6. rpc = "list" /\ wire # <<>> => Readable
  BY ReaderSound
<1>7. ASSUME rpc = "sorted" PROVE spc = "sorted" /\ wire = <<>>
  <2>1. Finished(cat, all, k, r, users, groups, u, g)
    BY <1>3, <1>7 DEF ReadSoFar, Between, Within, Trailing
  <2> QED BY <1>3, <1>5, <2>1 DEF Finished, Errors
<1>8. ASSUME spc = "sorted", wire = <<>> PROVE rpc = "sorted"
  <2>1. k \notin 0 .. Len(all)
    BY <1>1, <1>2, <1>8, StreamLeft
  <2>2. k = Len(all) + 1
    BY <1>4, <2>1
  <2>3. r = <<>>
    BY <1>5, <1>8, <2>2
  <2>4. u \in BOOLEAN /\ g \in BOOLEAN
    BY <1>3 DEF Fixed
  <2>5. users \in Seq(DOMAIN SenderNames) /\ groups \in Seq(DOMAIN SenderNames)
    BY <1>3, <1>8 DEF Sending, OrderOf
  <2>6. ~InTrailer(users, groups, u, g, r)
    BY <1>1, <2>3, <2>4, <2>5, TrailerLeft
  <2>7. ~Between(cat, all, k, r)
    BY <2>1 DEF Between
  <2>8. ~Within(cat, all, k, r)
    BY <1>4, <2>2 DEF Within
  <2>9. Finished(cat, all, k, r, users, groups, u, g)
    BY <1>3, <2>6, <2>7, <2>8 DEF ReadSoFar, Trailing
  <2> QED BY <2>9 DEF Finished
<1> QED BY <1>6, <1>7, <1>8 DEF NeverMisread

\* For every tree, every name and every command line that asks for --devices and
\* --specials together or for neither, no field is misread, and the list ends
\* for both sides at the same byte.
THEOREM FramingSound == Spec => [](DevicesAsOne => NeverMisread)
<1>1. IInv => (DevicesAsOne => NeverMisread)
  BY Misread
<1> QED BY <1>1, Invariant, PTL

-----------------------------------------------------------------------------
(* The two lists.                                                          *)

\* filepath.Clean of a string.
CleanText == \A name \in Seq(Nat) : Cleaned(name) \in Seq(Nat)

\* It is a string.
LEMMA CleanedType == CleanText
<1> SUFFICES ASSUME NEW name \in Seq(Nat) PROVE Cleaned(name) \in Seq(Nat)
  BY DEF CleanText
<1>1. DOMAIN name = 1 .. Len(name) /\ Len(name) \in Nat
  OBVIOUS
<1>2. Separator \in Nat
  BY ListConstants DEF Slash, Backslash
<1>3. \A k \in 1 .. Len(name) : (IF name[k] = Slash THEN Separator ELSE name[k]) \in Nat
  BY <1>2
<1>4. Cleaned(name) = [k \in 1 .. Len(name) |-> IF name[k] = Slash THEN Separator ELSE name[k]]
  BY <1>1 DEF Cleaned
<1> QED BY <1>1, <1>3, <1>4

\* All entries are sound; and what they say.
AllSound(cat) == \A path \in DOMAIN Tree : Sound(cat[path])
Says(cat) == {cat[path].says : path \in DOMAIN Tree}

\* The entries that were read.
LEMMA ListedFacts ==
  ASSUME NEW cat, NEW all \in Seq(DOMAIN Tree), NEW k \in 0 .. Len(all)
  PROVE  /\ Listed(cat, all, k) \in Seq(Says(cat)) /\ Len(Listed(cat, all, k)) = k
         /\ ToSet(Listed(cat, all, k)) = {cat[all[i]].says : i \in 1 .. k}
<1>1. k \in Nat /\ \A i \in 1 .. k : all[i] \in DOMAIN Tree
  OBVIOUS
<1>2. \A i \in 1 .. k : cat[all[i]].says \in Says(cat)
  BY <1>1 DEF Says
<1>3. /\ [i \in 1 .. k |-> cat[all[i]].says] \in Seq(Says(cat))
      /\ Len([i \in 1 .. k |-> cat[all[i]].says]) = k
  <2> HIDE DEF Says
  <2> QED BY <1>1, <1>2
<1>4. ToSet([i \in 1 .. k |-> cat[all[i]].says]) = {cat[all[i]].says : i \in 1 .. k}
  BY Zenon DEF ToSet
<1> QED BY <1>3, <1>4, Zenon DEF Listed

\* What sorting makes of the two lists.
LEMMA SortedFacts ==
  ASSUME NEW cat, NEW all \in Seq(DOMAIN Tree), AllSound(cat)
  PROVE  /\ Sorted(cat, all) \in Seq(Says(cat)) /\ Len(Sorted(cat, all)) = Len(all)
         /\ ToSet(Sorted(cat, all)) = {cat[all[i]].says : i \in 1 .. Len(all)}
         /\ SortedPaths(cat, all) \in Seq(DOMAIN Tree)
         /\ Len(SortedPaths(cat, all)) = Len(all)
         /\ ToSet(SortedPaths(cat, all)) = ToSet(all)
<1>1. PICK n : n = Len(all)
  OBVIOUS
<1>2. n \in Nat /\ n \in 0 .. Len(all)
  BY <1>1
<1>3. PICK names : names = [i \in 1 .. n |-> cat[all[i]].says["Name"]]
  OBVIOUS
<1>4. PICK paths : paths = [i \in 1 .. n |-> cat[all[i]].name]
  OBVIOUS
<1>5. ASSUME NEW i \in 1 .. n
      PROVE  cat[all[i]].name \in Seq(Nat) /\ cat[all[i]].says["Name"] \in Seq(Nat)
  <2>1. PICK t : t = cat[all[i]]
    OBVIOUS
  <2>2. Sound(t)
    BY <1>1, <2>1 DEF AllSound
  <2>3. t.name \in Seq(Nat) /\ t.says["Name"] = Cleaned(t.name)
    BY <2>2 DEF Sound
  <2>4. t.says["Name"] \in Seq(Nat)
    BY <2>3, CleanedType DEF CleanText
  <2> QED BY <2>1, <2>3, <2>4
<1>6. names \in Seq(Seq(Nat)) /\ Len(names) = n
  BY <1>2, <1>3, <1>5
<1>7. paths \in Seq(Seq(Nat)) /\ Len(paths) = n
  BY <1>2, <1>4, <1>5
<1>8. PICK list : list = Listed(cat, all, n)
  OBVIOUS
<1>9. /\ list \in Seq(Says(cat)) /\ Len(list) = n
      /\ ToSet(list) = {cat[all[i]].says : i \in 1 .. n}
  BY <1>2, <1>8, ListedFacts
<1>10. /\ InOrder(list, names) \in Seq(Says(cat)) /\ Len(InOrder(list, names)) = n
       /\ ToSet(InOrder(list, names)) = ToSet(list)
  BY <1>6, <1>9, InOrderFacts
<1>11. /\ InOrder(all, paths) \in Seq(DOMAIN Tree) /\ Len(InOrder(all, paths)) = n
       /\ ToSet(InOrder(all, paths)) = ToSet(all)
  BY <1>1, <1>7, InOrderFacts
<1>12. Sorted(cat, all) = InOrder(list, names)
  BY <1>1, <1>3, <1>8, Zenon DEF Sorted
<1>13. SortedPaths(cat, all) = InOrder(all, paths)
  BY <1>1, <1>4, Zenon DEF SortedPaths
<1> QED BY <1>1, <1>9, <1>10, <1>11, <1>12, <1>13, Zenon

\* The same place in both lists is the same file, where names do not change.
LEMMA SamePlace ==
  ASSUME NEW cat, NEW all \in Seq(DOMAIN Tree), AllSound(cat), Separator = Slash
  PROVE  \A i \in 1 .. Len(all) : Sorted(cat, all)[i]["Name"] = cat[SortedPaths(cat, all)[i]].name
<1>1. PICK n : n = Len(all)
  OBVIOUS
<1>2. n \in Nat /\ \A i \in 1 .. n : all[i] \in DOMAIN Tree
  BY <1>1
<1>3. \A name \in Seq(Nat) : Cleaned(name) = name
  <2> SUFFICES ASSUME NEW name \in Seq(Nat) PROVE Cleaned(name) = name
    OBVIOUS
  <2>1. \A j \in DOMAIN name : (IF name[j] = Slash THEN Separator ELSE name[j]) = name[j]
    OBVIOUS
  <2>2. name = [j \in DOMAIN name |-> name[j]]
    OBVIOUS
  <2> QED BY <2>1, <2>2 DEF Cleaned
<1>4. ASSUME NEW i \in 1 .. n
      PROVE  cat[all[i]].name \in Seq(Nat) /\ cat[all[i]].says["Name"] = cat[all[i]].name
  <2>1. PICK t : t = cat[all[i]]
    OBVIOUS
  <2>2. Sound(t)
    BY <1>2, <2>1 DEF AllSound
  <2>3. t.name \in Seq(Nat) /\ t.says["Name"] = Cleaned(t.name)
    BY <2>2 DEF Sound
  <2> QED BY <1>3, <2>1, <2>3
<1>5. PICK paths : paths = [i \in 1 .. n |-> cat[all[i]].name]
  OBVIOUS
<1>6. paths = [i \in 1 .. n |-> cat[all[i]].says["Name"]]
  BY <1>4, <1>5
<1>7. paths \in Seq(Seq(Nat)) /\ Len(paths) = n
  <2>1. \A i \in 1 .. n : paths[i] \in Seq(Nat)
    BY <1>4, <1>5
  <2> QED BY <1>2, <1>5, <2>1
<1>8. PICK order : order = Order(paths)
  OBVIOUS
<1>9. order \in [1 .. n -> 1 .. n]
  BY <1>7, <1>8, OrderPermutes
<1>10. PICK list : list = Listed(cat, all, n)
  OBVIOUS
<1>11. list = [i \in 1 .. n |-> cat[all[i]].says]
  BY <1>10 DEF Listed
<1>12. Sorted(cat, all) = [i \in 1 .. n |-> list[order[i]]]
  <2>1. DOMAIN list = 1 .. n
    BY <1>11
  <2> QED BY <1>1, <1>6, <1>8, <1>10, <2>1, Zenon DEF Sorted, InOrder
<1>13. SortedPaths(cat, all) = [i \in 1 .. n |-> all[order[i]]]
  <2>1. DOMAIN all = 1 .. n
    BY <1>1, <1>2
  <2> QED BY <1>1, <1>5, <1>8, <2>1, Zenon DEF SortedPaths, InOrder
<1>14. ASSUME NEW i \in 1 .. n
       PROVE  Sorted(cat, all)[i]["Name"] = cat[SortedPaths(cat, all)[i]].name
  <2>1. order[i] \in 1 .. n
    BY <1>9
  <2>2. Sorted(cat, all)[i] = cat[all[order[i]]].says
    BY <1>11, <1>12, <2>1
  <2>3. SortedPaths(cat, all)[i] = all[order[i]]
    BY <1>13
  <2> QED BY <1>4, <2>1, <2>2, <2>3, Zenon
<1> QED BY <1>1, <1>14

\* Both lists, when a transfer goes on.
LEMMA BothLists ==
  ASSUME IInv, DevicesAsOne, Done
  PROVE  \E cat, all, users, groups, u, g :
           /\ Fixed(cat, u, g) /\ all \in Seq(DOMAIN Tree) /\ AllSound(cat)
           /\ files = SortedPaths(cat, all) /\ fileList = Sorted(cat, all)
           /\ OrderOf(users, NamedOf(Uids(all), u)) /\ OrderOf(groups, NamedOf(Gids(all), g))
           /\ HasUsers(users, u) /\ HasGroups(groups, g)
<1>1. job \in Jobs /\ Agreed /\ Framed
  BY DEF IInv, Walked
<1>2. PICK cat, all, f, tail, k, r, users, groups, u, g :
         Inside(cat, all, f, tail, k, r, users, groups, u, g)
  BY <1>1 DEF Framed
<1>3. /\ Stream(cat, all, f, tail, k, r) /\ Fixed(cat, u, g)
      /\ Sending(cat, all, tail, users, groups, u, g)
      /\ ReadSoFar(cat, all, k, r, users, groups, u, g)
  BY <1>2 DEF Inside
<1>4. spc = "sorted" /\ rpc = "sorted"
  BY DEF Done
<1>5. Finished(cat, all, k, r, users, groups, u, g)
  BY <1>3, <1>4 DEF ReadSoFar, Between, Within, Trailing
<1>6. /\ files = SortedPaths(cat, all)
      /\ OrderOf(users, NamedOf(Uids(all), u)) /\ OrderOf(groups, NamedOf(Gids(all), g))
  BY <1>3, <1>4 DEF Sending
<1>7. all \in Seq(DOMAIN Tree)
  BY <1>3 DEF Stream
<1>8. AllSound(cat)
  BY <1>1, <1>3, FixedFacts DEF AllSound
<1>9. fileList = Sorted(cat, all) /\ HasUsers(users, u) /\ HasGroups(groups, g)
  BY <1>5 DEF Finished
<1> QED BY <1>3, <1>6, <1>7, <1>8, <1>9, Zenon

\* The invariant is about the order, too.
LEMMA OwnNames ==
  ASSUME IInv, DevicesAsOne, Separator = Slash
  PROVE  LandsUnderOwnName
<1> SUFFICES ASSUME Done
             PROVE  /\ Len(fileList) = Len(files)
                    /\ \A i \in DOMAIN files :
                         fileList[i].Name = Cleaned(Text(WireName(files[i])))
  BY DEF LandsUnderOwnName
<1>1. job \in Jobs /\ Agreed
  BY DEF IInv, Walked
<1>2. PICK cat, all, users, groups, u, g :
           /\ Fixed(cat, u, g) /\ all \in Seq(DOMAIN Tree) /\ AllSound(cat)
           /\ files = SortedPaths(cat, all) /\ fileList = Sorted(cat, all)
  BY BothLists
<1>3. /\ Len(fileList) = Len(all) /\ Len(files) = Len(all) /\ files \in Seq(DOMAIN Tree)
  BY <1>2, SortedFacts
<1>4. ASSUME NEW i \in DOMAIN files
      PROVE  fileList[i].Name = Cleaned(Text(WireName(files[i])))
  <2>1. i \in 1 .. Len(all) /\ files[i] \in DOMAIN Tree
    BY <1>3
  <2>2. fileList[i].Name = cat[files[i]].name
    BY <1>2, <2>1, SamePlace
  <2>3. PICK t : t = cat[files[i]]
    OBVIOUS
  <2>4. Sound(t) /\ t.name = Text(WireName(files[i])) /\ t.name \in Seq(Nat)
    <3>1. Sound(cat[files[i]]) /\ cat[files[i]].name = Text(WireName(files[i]))
      BY <1>1, <1>2, <2>1, FixedFacts
    <3> QED BY <2>3, <3>1 DEF Sound
  <2>5. Cleaned(t.name) = t.name
    <3>1. \A j \in DOMAIN t.name : (IF t.name[j] = Slash THEN Separator ELSE t.name[j]) = t.name[j]
      OBVIOUS
    <3>2. t.name = [j \in DOMAIN t.name |-> t.name[j]]
      BY <2>4
    <3> QED BY <3>1, <3>2 DEF Cleaned
  <2> QED BY <2>2, <2>3, <2>4, <2>5, Zenon
<1> QED BY <1>3, <1>4

\* Where names are separated by slashes both sides sort in the same way: an index
\* is the same file for both (do.go of the sender and of the receiver).  Where
\* they are not, the run order_windows shows otherwise.
THEOREM IndicesAgree == Spec => [](DevicesAsOne /\ Separator = Slash => LandsUnderOwnName)
<1>1. IInv => (DevicesAsOne /\ Separator = Slash => LandsUnderOwnName)
  BY OwnNames
<1> QED BY <1>1, Invariant, PTL

\* All ids are received with their local ids.
LEMMA IdentsAll ==
  ASSUME NEW order, NEW owners, OrderOf(order, NamedOf(owners, TRUE))
  PROVE  Idents(order, Len(order)) = NamesOf(owners)
<1>1. order \in Seq(DOMAIN SenderNames) /\ Range(order) = (owners \cap DOMAIN SenderNames) \ {0}
  BY DEF OrderOf, NamedOf
<1>2. DOMAIN order = 1 .. Len(order)
  BY <1>1
<1>3. Idents(order, Len(order)) = {Ident(id) : id \in Range(order)}
  BY <1>2 DEF Idents, Range
<1> QED BY <1>1, <1>3, Zenon DEF NamesOf, Ident

\* When both lists are complete they say the same.
LEMMA Faithful ==
  ASSUME IInv, DevicesAsOne
  PROVE  ListFaithful
<1> SUFFICES ASSUME Done, NEW sent, sent = ToSet(files)
             PROVE  /\ ToSet(fileList) = {Expected(path) : path \in sent}
                    /\ On(copt, "preserve_uid") =>
                         ids["users"] = NamesOf({Tree[path].uid : path \in sent})
                    /\ On(copt, "preserve_gid") =>
                         ids["groups"] = NamesOf({Tree[path].gid : path \in sent})
  BY DEF ListFaithful
<1>1. job \in Jobs /\ Agreed
  BY DEF IInv, Walked
<1>2. PICK cat, all, users, groups, u, g :
           /\ Fixed(cat, u, g) /\ all \in Seq(DOMAIN Tree) /\ AllSound(cat)
           /\ files = SortedPaths(cat, all) /\ fileList = Sorted(cat, all)
           /\ OrderOf(users, NamedOf(Uids(all), u)) /\ OrderOf(groups, NamedOf(Gids(all), g))
           /\ HasUsers(users, u) /\ HasGroups(groups, g)
  BY BothLists
<1>3. /\ ToSet(fileList) = {cat[all[i]].says : i \in 1 .. Len(all)}
      /\ sent = ToSet(all)
  BY <1>2, SortedFacts
<1>4. \A i \in 1 .. Len(all) : all[i] \in DOMAIN Tree
  BY <1>2
<1>5. sent = {all[i] : i \in 1 .. Len(all)}
  <2>1. DOMAIN all = 1 .. Len(all)
    BY <1>2
  <2> QED BY <1>3, <2>1, Zenon DEF ToSet
<1>6. \A i \in 1 .. Len(all) : cat[all[i]].says = Expected(all[i])
  BY <1>1, <1>2, <1>4, FixedFacts
<1>7. ToSet(fileList) = {Expected(path) : path \in sent}
  BY <1>3, <1>5, <1>6, Zenon
<1>8. Uids(all) = {Tree[path].uid : path \in sent} /\ Gids(all) = {Tree[path].gid : path \in sent}
  BY <1>5, Zenon DEF Uids, Gids
<1>9. u \in BOOLEAN /\ g \in BOOLEAN /\ (u <=> On(copt, "preserve_uid"))
      /\ (g <=> On(copt, "preserve_gid"))
  BY <1>2 DEF Fixed, Asked
<1>10. ASSUME On(copt, "preserve_uid") PROVE ids["users"] = NamesOf(Uids(all))
  <2>1. u = TRUE
    BY <1>9, <1>10
  <2>2. OrderOf(users, NamedOf(Uids(all), TRUE)) /\ ids["users"] = Idents(users, Len(users))
    BY <1>2, <2>1 DEF HasUsers
  <2> QED BY <2>2, IdentsAll
<1>11. ASSUME On(copt, "preserve_gid") PROVE ids["groups"] = NamesOf(Gids(all))
  <2>1. g = TRUE
    BY <1>9, <1>11
  <2>2. OrderOf(groups, NamedOf(Gids(all), TRUE)) /\ ids["groups"] = Idents(groups, Len(groups))
    BY <1>2, <2>1 DEF HasGroups
  <2> QED BY <2>2, IdentsAll
<1> QED BY <1>7, <1>8, <1>10, <1>11

\* What the receiver knows of a file is what the sender found, as far as the
\* client asked for it; no more, no less, and for no other file.
THEOREM EntriesFaithful == Spec => [](DevicesAsOne => ListFaithful)
<1>1. IInv => (DevicesAsOne => ListFaithful)
  BY Faithful
<1> QED BY <1>1, Invariant, PTL

\* The types.
LEMMA Types ==
  ASSUME IInv, DevicesAsOne
  PROVE  TypeOK
<1>1. /\ job \in Jobs /\ Agreed /\ ioErrors \in {0, 1} /\ Framed /\ faults \in 0 .. MaxFaults
      /\ rest \subseteq DOMAIN Tree /\ files \in Seq(DOMAIN Tree) /\ rest \cap ToSet(files) = {}
  BY DEF IInv, Walked
<1>2. PICK cat, all, f, tail, k, r, users, groups, u, g :
         Inside(cat, all, f, tail, k, r, users, groups, u, g)
  BY <1>1 DEF Framed
<1>3. /\ Stream(cat, all, f, tail, k, r) /\ Fixed(cat, u, g) /\ Errors(all, k)
      /\ Sending(cat, all, tail, users, groups, u, g)
      /\ ReadSoFar(cat, all, k, r, users, groups, u, g)
  BY <1>2 DEF Inside
<1>4. all \in Seq(DOMAIN Tree) /\ k \in 0 .. Len(all) + 1
  BY <1>3 DEF Stream
<1>5. AllSound(cat)
  BY <1>1, <1>3, FixedFacts DEF AllSound
<1>6. spc \in {"walk", "sorted", "err"}
  BY <1>3 DEF Sending
<1>7. rpc \in {"list", "sorted", "err"}
  BY <1>3 DEF ReadSoFar, Between, Within, Trailing, Finished
<1>8. rest \cup ToSet(files) \subseteq DOMAIN Tree
  <2>1. ToSet(files) \subseteq DOMAIN Tree
    BY <1>1 DEF ToSet
  <2> QED BY <1>1, <2>1
<1>9. IOErrors \in {0, 1}
  BY <1>1, <1>3 DEF Errors
<1>10. Len(all) <= Len(files)
  <2>1. CASE files = all
    BY <1>4, <2>1
  <2>2. CASE \E path \in DOMAIN Tree : files = Append(all, path)
    BY <1>4, <2>2
  <2>3. CASE files = SortedPaths(cat, all)
    BY <1>4, <1>5, <2>3, SortedFacts
  <2> QED BY <1>3, <2>1, <2>2, <2>3 DEF Sending
<1>11. \/ \E m \in 0 .. Len(all) : fileList = Listed(cat, all, m)
       \/ fileList = Sorted(cat, all)
  <2>1. k \in 1 .. Len(all) => k - 1 \in 0 .. Len(all)
    BY <1>4
  <2> QED BY <1>3, <2>1 DEF ReadSoFar, Between, Within, Trailing, Finished
<1>12. Len(fileList) <= Len(all) /\ ToSet(fileList) \subseteq Says(cat)
  <2>1. ASSUME NEW m \in 0 .. Len(all), fileList = Listed(cat, all, m)
        PROVE  Len(fileList) <= Len(all) /\ fileList \in Seq(Says(cat))
    BY <1>4, <2>1, ListedFacts
  <2>2. ASSUME fileList = Sorted(cat, all)
        PROVE  Len(fileList) <= Len(all) /\ fileList \in Seq(Says(cat))
    BY <1>4, <1>5, <2>2, SortedFacts
  <2>3. Len(fileList) <= Len(all) /\ fileList \in Seq(Says(cat))
    BY <1>11, <2>1, <2>2
  <2>4. ToSet(fileList) \subseteq Says(cat)
    BY <2>3 DEF ToSet
  <2> QED BY <2>3, <2>4
<1>13. \A e \in Says(cat) : e.ModTime \in -IntMax - 1 .. IntMax
  <2> SUFFICES ASSUME NEW path \in DOMAIN Tree, NEW t, t = cat[path]
               PROVE  t.says.ModTime \in -IntMax - 1 .. IntMax
    BY DEF Says
  <2>1. Sound(t)
    BY <1>5 DEF AllSound
  <2> QED BY <2>1 DEF Sound
<1>14. Len(fileList) <= Len(files)
  <2>1. Len(fileList) \in Int /\ Len(files) \in Int /\ Len(all) \in Int
    <3>1. fileList \in Seq(Says(cat))
      BY <1>4, <1>5, <1>11, ListedFacts, SortedFacts
    <3> QED BY <1>1, <1>4, <3>1
  <2> QED BY <1>10, <1>12, <2>1
<1> QED BY <1>1, <1>6, <1>7, <1>8, <1>9, <1>12, <1>13, <1>14 DEF TypeOK, Narrow

\* Nothing is in the list that is not in the tree, nothing twice, and the receiver
\* is never ahead of the sender.
THEOREM TypeCorrect == Spec => [](DevicesAsOne => TypeOK)
<1>1. IInv => (DevicesAsOne => TypeOK)
  BY Types
<1> QED BY <1>1, Invariant, PTL

-----------------------------------------------------------------------------
(* What patterns mean.                                                     *)

\* Induction from the end.
LEMMA DownTo ==
  ASSUME NEW lo \in Int, NEW n \in Int, NEW T,
         \A q \in lo .. n : (\A r \in q + 1 .. n : r \in T) => q \in T
  PROVE  \A q \in lo .. n : q \in T
<1> DEFINE bad == {d \in Nat : d <= n - lo /\ n - d \notin T}
<1>1. SUFFICES ASSUME NEW q \in lo .. n, q \notin T PROVE FALSE
  OBVIOUS
<1>2. n - q \in bad
  <2>1. n - (n - q) = q
    OBVIOUS
  <2> QED BY <1>1, <2>1
<1>3. PICK d \in bad : \A e \in bad : d <= e
  <2>1. bad \subseteq Nat /\ bad # {}
    BY <1>2
  <2> HIDE DEF bad
  <2> QED BY <2>1, LeastNat
<1>4. ASSUME NEW r \in n - d + 1 .. n PROVE r \in T
  <2>1. n - r \in Nat /\ n - r < d /\ n - r <= n - lo /\ n - (n - r) = r
    BY <1>3
  <2>2. n - r \notin bad
    BY <1>3, <2>1
  <2> QED BY <2>1, <2>2
<1>5. n - d \in lo .. n /\ n - d \notin T
  BY <1>3
<1> QED BY <1>4, <1>5

\* f is the recursion that for every number up to m goes on with a greater one.
Climbed(lo, m, n, S, x, next, g) ==
  \E f \in [lo .. n -> S] :
    \A q \in lo .. n : f[q] = IF q > m THEN x ELSE g[<<q, f[next[q]]>>]

\* There is such a function.
LEMMA Climbs ==
  ASSUME NEW lo \in Int, NEW m \in Int, NEW n \in Int, lo <= n, m <= n, NEW S, NEW x \in S,
         NEW next \in [lo .. m -> lo .. n], \A q \in lo .. m : next[q] > q,
         NEW g \in [(lo .. m) \X S -> S]
  PROVE  Climbed(lo, m, n, S, x, next, g)
<1> DEFINE Good(h, d) ==
             /\ h \in [n - d .. n -> S]
             /\ \A q \in n - d .. n : h[q] = IF q > m THEN x ELSE g[<<q, h[next[q]]>>]
           N == n - lo
           T == {d \in 0 .. N : \E h : Good(h, d)}
<1>0. N \in Nat /\ n - N = lo
  OBVIOUS
<1>1. ASSUME NEW d \in 0 .. N, NEW h, h \in [n - d + 1 .. n -> S],
             \A q \in n - d + 1 .. n : h[q] = IF q > m THEN x ELSE g[<<q, h[next[q]]>>]
      PROVE  d \in T
  <2> DEFINE q0 == n - d
             y == IF q0 > m THEN x ELSE g[<<q0, h[next[q0]]>>]
             i == [q \in q0 .. n |-> IF q = q0 THEN y ELSE h[q]]
  <2>1. q0 \in lo .. n /\ q0 + 1 = n - d + 1
    OBVIOUS
  <2> HIDE DEF q0, N
  <2>2. \A q \in q0 .. n : q <= m => next[q] \in q0 + 1 .. n /\ q \in lo .. m
    BY <2>1
  <2>3. \A q \in q0 .. n : q # q0 => q \in q0 + 1 .. n
    BY <2>1
  <2>4. y \in S
    <3>1. CASE q0 > m
      BY <3>1
    <3>2. CASE ~(q0 > m)
      <4>1. q0 \in lo .. m /\ next[q0] \in q0 + 1 .. n
        BY <2>1, <2>2, <3>2
      <4>2. h[next[q0]] \in S
        BY <1>1, <2>1, <4>1
      <4>3. <<q0, h[next[q0]]>> \in (lo .. m) \X S
        BY <4>1, <4>2
      <4>4. y = g[<<q0, h[next[q0]]>>]
        BY <3>2
      <4> QED BY <4>3, <4>4
    <3> QED BY <3>1, <3>2
  <2> HIDE DEF y
  <2>5. i \in [q0 .. n -> S]
    BY <1>1, <2>1, <2>3, <2>4
  <2>6. ASSUME NEW q \in q0 .. n, q <= m PROVE i[next[q]] = h[next[q]]
    <3>1. next[q] \in q0 + 1 .. n
      BY <2>2, <2>6
    <3>2. next[q] \in q0 .. n /\ next[q] # q0
      BY <2>1, <3>1
    <3> QED BY <3>2
  <2>7. ASSUME NEW q \in q0 .. n
        PROVE  i[q] = IF q > m THEN x ELSE g[<<q, i[next[q]]>>]
    <3>1. CASE q = q0
      <4>1. i[q] = y /\ q \in Int /\ m \in Int
        BY <3>1
      <4>2. CASE q0 > m
        BY <3>1, <4>1, <4>2 DEF y
      <4>3. CASE ~(q0 > m)
        <5>1. i[next[q]] = h[next[q]]
          <6>1. q <= m
            BY <3>1, <4>1, <4>3
          <6> HIDE DEF i
          <6> QED BY <2>6, <6>1
        <5> QED BY <3>1, <4>1, <4>3, <5>1 DEF y
      <4> QED BY <4>2, <4>3
    <3>2. CASE q # q0
      <4>1. q \in q0 + 1 .. n /\ i[q] = h[q]
        BY <2>3, <3>2
      <4>2. h[q] = IF q > m THEN x ELSE g[<<q, h[next[q]]>>]
        BY <1>1, <2>1, <4>1
      <4>3. CASE q > m
        BY <4>1, <4>2, <4>3
      <4>4. CASE ~(q > m)
        <5>1. i[next[q]] = h[next[q]]
          BY <2>1, <2>6, <4>4
        <5> QED BY <4>1, <4>2, <4>4, <5>1
      <4> QED BY <4>3, <4>4
    <3> QED BY <3>1, <3>2
  <2> HIDE DEF i
  <2>8. Good(i, d)
    BY <2>5, <2>7 DEF q0
  <2> HIDE DEF Good
  <2> QED BY <2>8
<1>2. 0 \in T
  <2> DEFINE none == [q \in {} |-> x]
  <2>1. n - 0 + 1 .. n = {} /\ 0 \in 0 .. N
    BY <1>0
  <2>2. none \in [n - 0 + 1 .. n -> S]
    BY <2>1
  <2>3. \A q \in n - 0 + 1 .. n : none[q] = IF q > m THEN x ELSE g[<<q, none[next[q]]>>]
    BY <2>1
  <2> HIDE DEF none, T, N
  <2> QED BY <1>1, <2>1, <2>2, <2>3
<1>3. ASSUME NEW d \in 1 .. N, d - 1 \in T
      PROVE  d \in T
  <2>1. PICK h : Good(h, d - 1)
    BY <1>3
  <2>2. n - (d - 1) = n - d + 1 /\ d \in 0 .. N
    BY <1>0
  <2>3. /\ h \in [n - d + 1 .. n -> S]
        /\ \A q \in n - d + 1 .. n : h[q] = IF q > m THEN x ELSE g[<<q, h[next[q]]>>]
    BY <2>1, <2>2
  <2> HIDE DEF T, N, Good
  <2> QED BY <1>1, <2>2, <2>3
<1>4. N \in T
  <2> HIDE DEF T, N
  <2>1. \A d \in 0 .. N : d \in T
    BY <1>0, <1>2, <1>3, UpTo
  <2> QED BY <1>0, <2>1
<1>5. PICK h : Good(h, N)
  BY <1>4
<1>6. /\ h \in [lo .. n -> S]
      /\ \A q \in lo .. n : h[q] = IF q > m THEN x ELSE g[<<q, h[next[q]]>>]
  BY <1>0, <1>5
<1> QED BY <1>6 DEF Climbed

\* A class has an end, and one of three characters is what it says.
LEMMA ClassIs ==
  ASSUME NEW p \in Seq(Nat), NEW c \in 1 .. Len(p) + 1
  PROVE  /\ Class(p, c).end \in c .. Len(p) + 1
         /\ /\ c + 3 <= Len(p) /\ p[c + 1] = Dash /\ p[c + 2] # Close /\ p[c + 3] = Close
            => Class(p, c) = [chars |-> p[c] .. p[c + 2], end |-> c + 3]
<1> DEFINE L == Len(p)
           S == [chars : SUBSET Int, end : c .. L + 1]
           none == [chars |-> {}, end |-> L + 1]
           isEnd(q) == p[q] = Close /\ q > c
           isRange(q) == q + 2 <= L /\ p[q + 1] = Dash /\ p[q + 2] # Close
           next == [q \in c .. L |-> IF isRange(q) THEN q + 3 ELSE q + 1]
           more(q, s) == [s EXCEPT !.chars = @ \cup IF isRange(q) THEN p[q] .. p[q + 2]
                                                    ELSE {p[q]}]
           g == [z \in (c .. L) \X S |->
                   IF isEnd(z[1]) THEN [chars |-> {}, end |-> z[1]] ELSE more(z[1], z[2])]
           eq(f) == f = [q \in c .. L + 3 |->
                     IF q > L THEN [chars |-> {}, end |-> L + 1]
                     ELSE IF p[q] = Close /\ q > c THEN [chars |-> {}, end |-> q]
                     ELSE IF q + 2 <= L /\ p[q + 1] = Dash /\ p[q + 2] # Close
                     THEN [f[q + 3] EXCEPT !.chars = @ \cup p[q] .. p[q + 2]]
                     ELSE [f[q + 1] EXCEPT !.chars = @ \cup {p[q]}]]
           scan == CHOOSE f : eq(f)
<1>1. L \in Nat /\ c \in Int /\ c <= L + 3 /\ \A q \in 1 .. L : p[q] \in Nat
  OBVIOUS
<1>2. none \in S
  BY <1>1
<1>3. next \in [c .. L -> c .. L + 3] /\ \A q \in c .. L : next[q] > q
  <2> HIDE DEF isRange
  <2> QED BY <1>1
<1>4. \A q \in c .. L : \A s \in S : more(q, s) \in S
  <2> SUFFICES ASSUME NEW q \in c .. L, NEW s \in S PROVE more(q, s) \in S
    OBVIOUS
  <2>1. isRange(q) => p[q] .. p[q + 2] \in SUBSET Int
    BY <1>1
  <2>2. {p[q]} \in SUBSET Int
    BY <1>1
  <2> DEFINE new == IF isRange(q) THEN p[q] .. p[q + 2] ELSE {p[q]}
  <2>3. new \in SUBSET Int
    <3> HIDE DEF isRange
    <3> QED BY <2>1, <2>2
  <2> HIDE DEF new
  <2>4. [s EXCEPT !.chars = @ \cup new] \in S
    BY <2>3
  <2> QED BY <2>4 DEF new
<1>5. g \in [(c .. L) \X S -> S]
  <2> SUFFICES ASSUME NEW z \in (c .. L) \X S
               PROVE  (IF isEnd(z[1]) THEN [chars |-> {}, end |-> z[1]] ELSE more(z[1], z[2])) \in S
    OBVIOUS
  <2>1. z[1] \in c .. L /\ z[2] \in S
    OBVIOUS
  <2>2. more(z[1], z[2]) \in S
    BY <1>4, <2>1
  <2> HIDE DEF more, isEnd
  <2>3. [chars |-> {}, end |-> z[1]] \in S
    BY <1>1, <2>1
  <2> QED BY <2>2, <2>3
<1>6. PICK f \in [c .. L + 3 -> S] :
        \A q \in c .. L + 3 : f[q] = IF q > L THEN none ELSE g[<<q, f[next[q]]>>]
  <2>1. L \in Int /\ L + 3 \in Int /\ L <= L + 3
    BY <1>1
  <2> HIDE DEF next, g, S, none, L
  <2>2. Climbed(c, L, L + 3, S, none, next, g)
    BY <1>1, <1>2, <1>3, <1>5, <2>1, Climbs
  <2> QED BY <2>2 DEF Climbed
<1> DEFINE body(h, q) ==
             IF q > L THEN none
             ELSE IF isEnd(q) THEN [chars |-> {}, end |-> q]
             ELSE IF isRange(q) THEN [h[q + 3] EXCEPT !.chars = @ \cup p[q] .. p[q + 2]]
             ELSE [h[q + 1] EXCEPT !.chars = @ \cup {p[q]}]
<1>7. \A q \in c .. L + 3 : f[q] = body(f, q)
  <2> SUFFICES ASSUME NEW q \in c .. L + 3 PROVE f[q] = body(f, q)
    OBVIOUS
  <2>1. CASE q > L
    BY <1>6, <2>1
  <2>2. CASE ~(q > L)
    <3>1. q \in c .. L
      BY <1>1, <2>2
    <3>2. next[q] \in c .. L + 3
      BY <1>3, <3>1
    <3>3. f[next[q]] \in S
      BY <3>2
    <3>4. PICK z : z = <<q, f[next[q]]>>
      OBVIOUS
    <3>5. z \in (c .. L) \X S /\ z[1] = q /\ z[2] = f[next[q]]
      BY <3>1, <3>3, <3>4
    <3>6. f[q] = g[z]
      BY <1>6, <2>2, <3>4
    <3>7. f[q] = IF isEnd(q) THEN [chars |-> {}, end |-> q] ELSE more(q, f[next[q]])
      <4> HIDE DEF isEnd, more, S, next
      <4> QED BY <3>5, <3>6
    <3>8. next[q] = IF isRange(q) THEN q + 3 ELSE q + 1
      BY <3>1
    <3> HIDE DEF isEnd, isRange, next, none, S
    <3> QED BY <2>2, <3>7, <3>8
  <2> QED BY <2>1, <2>2
<1>8. eq(f)
  <2>1. f = [q \in c .. L + 3 |-> f[q]]
    OBVIOUS
  <2>2. f = [q \in c .. L + 3 |-> body(f, q)]
    <3> HIDE DEF body, S
    <3> QED BY <1>7, <2>1
  <2> QED BY <2>2
<1>9. eq(scan)
  <2> HIDE DEF eq
  <2> QED BY <1>8
<1>10. Class(p, c) = scan[c]
  BY DEF Class
<1> HIDE DEF scan
<1>11. \A q \in c .. L + 3 : scan[q] = body(scan, q)
  BY <1>9
<1>12. \A q \in c .. L + 3 : scan[q] \in S
  <2> DEFINE T == {q \in c .. L + 3 : scan[q] \in S}
  <2>1. ASSUME NEW q \in c .. L + 3, \A r \in q + 1 .. L + 3 : r \in T
        PROVE  q \in T
    <3>1. CASE q > L
      BY <1>2, <1>11, <3>1
    <3>2. CASE ~(q > L)
      <4>1. q \in c .. L /\ q + 1 \in q + 1 .. L + 3 /\ q + 3 \in q + 1 .. L + 3
        BY <1>1, <3>2
      <4>2. scan[q + 1] \in S /\ scan[q + 3] \in S
        BY <2>1, <4>1
      <4>3. more(q, scan[q + 1]) \in S /\ more(q, scan[q + 3]) \in S
        BY <1>4, <4>1, <4>2
      <4>4. [chars |-> {}, end |-> q] \in S
        BY <1>1, <4>1
      <4>5. scan[q] = body(scan, q)
        BY <1>11
      <4>6. CASE isEnd(q)
        <5>1. scan[q] = [chars |-> {}, end |-> q]
          BY <3>2, <4>5, <4>6, Zenon
        <5> QED BY <4>4, <5>1
      <4>7. CASE ~isEnd(q) /\ isRange(q)
        <5>1. scan[q] = [scan[q + 3] EXCEPT !.chars = @ \cup p[q] .. p[q + 2]]
          BY <3>2, <4>5, <4>7, Zenon
        <5>2. more(q, scan[q + 3]) = [scan[q + 3] EXCEPT !.chars = @ \cup p[q] .. p[q + 2]]
          <6> HIDE DEF isRange, S
          <6> QED BY <4>7
        <5> QED BY <4>3, <5>1, <5>2, Zenon
      <4>8. CASE ~isEnd(q) /\ ~isRange(q)
        <5>1. scan[q] = [scan[q + 1] EXCEPT !.chars = @ \cup {p[q]}]
          BY <3>2, <4>5, <4>8, Zenon
        <5>2. more(q, scan[q + 1]) = [scan[q + 1] EXCEPT !.chars = @ \cup {p[q]}]
          <6> HIDE DEF isRange, S
          <6> QED BY <4>8
        <5> QED BY <4>3, <5>1, <5>2, Zenon
      <4> QED BY <4>6, <4>7, <4>8
    <3> QED BY <3>1, <3>2
  <2>3. c \in Int /\ L + 3 \in Int
    BY <1>1
  <2> HIDE DEF T, L
  <2>2. \A q \in c .. L + 3 : q \in T
    BY <2>1, <2>3, DownTo
  <2> QED BY <2>2 DEF T
<1>13. scan[c] \in S
  BY <1>1, <1>12
<1>14. ASSUME c + 3 <= L, p[c + 1] = Dash, p[c + 2] # Close, p[c + 3] = Close
       PROVE  scan[c] = [chars |-> p[c] .. p[c + 2], end |-> c + 3]
  <2>1. /\ ~(c > L) /\ ~(c > c) /\ c + 2 <= L /\ ~(c + 3 > L) /\ c + 3 > c
        /\ c \in c .. L + 3 /\ c + 3 \in c .. L + 3
    BY <1>1, <1>14
  <2>2. scan[c + 3] = [chars |-> {}, end |-> c + 3]
    BY <1>11, <1>14, <2>1
  <2>3. scan[c] = [scan[c + 3] EXCEPT !.chars = @ \cup p[c] .. p[c + 2]]
    <3>1. scan[c] = body(scan, c) /\ isRange(c) /\ ~isEnd(c)
      BY <1>11, <1>14, <2>1
    <3> HIDE DEF isRange, isEnd
    <3> QED BY <2>1, <3>1, Zenon
  <2>4. {} \cup p[c] .. p[c + 2] = p[c] .. p[c + 2]
    OBVIOUS
  <2> QED BY <2>2, <2>3, <2>4
<1> QED BY <1>10, <1>13, <1>14

\* A run of stars has an end.
LEMMA StarsPast ==
  ASSUME NEW p \in Seq(Nat), NEW k \in 1 .. Len(p), p[k] = Star
  PROVE  /\ PastStars(p, k) \in k + 1 .. Len(p) + 1
         /\ k + 1 \in 1 .. Len(p) => (p[k + 1] # Star <=> PastStars(p, k) = k + 1)
         /\ k + 1 \in 1 .. Len(p) /\ p[k + 1] = Star /\ (k + 2 > Len(p) \/ p[k + 2] # Star)
            => PastStars(p, k) = k + 2
         /\ k = Len(p) => PastStars(p, k) = k + 1
<1> DEFINE L == Len(p)
           Past(q) == /\ q > L \/ p[q] # Star
                      /\ \A j \in k .. q - 1 : p[j] = Star
           ends == {q \in k .. L + 1 : q > L \/ p[q] # Star}
<1>1. L \in Nat /\ k \in Nat
  OBVIOUS
<1>2. L + 1 \in ends /\ ends \subseteq Nat
  BY <1>1
<1>3. PICK q \in ends : \A r \in ends : q <= r
  <2> HIDE DEF ends
  <2> QED BY <1>2, LeastNat
<1>4. \A j \in k .. q - 1 : p[j] = Star
  <2> SUFFICES ASSUME NEW j \in k .. q - 1, p[j] # Star PROVE FALSE
    OBVIOUS
  <2>1. j \in ends
    BY <1>1, <1>3
  <2> QED BY <1>1, <1>3, <2>1
<1>5. q \in k .. L + 1 /\ Past(q)
  BY <1>3, <1>4
<1>6. PICK e : e = PastStars(p, k)
  OBVIOUS
<1>7. e \in k .. L + 1 /\ Past(e)
  <2>1. e = CHOOSE r \in k .. L + 1 : Past(r)
    BY <1>6 DEF PastStars
  <2> HIDE DEF Past
  <2> QED BY <1>5, <2>1
<1>8. e # k
  BY <1>1, <1>7
<1>9. ASSUME k + 1 \in 1 .. L, p[k + 1] # Star PROVE e = k + 1
  <2>1. ~(k + 1 \in k .. e - 1)
    BY <1>7, <1>9
  <2> QED BY <1>1, <1>7, <1>8, <2>1
<1>10. ASSUME k + 1 \in 1 .. L, e = k + 1 PROVE p[k + 1] # Star
  BY <1>1, <1>7, <1>10
<1>11. ASSUME k + 1 \in 1 .. L, p[k + 1] = Star, k + 2 > L \/ p[k + 2] # Star
       PROVE  e = k + 2
  <2>1. e # k + 1
    BY <1>10, <1>11
  <2>2. ~(k + 2 \in k .. e - 1)
    BY <1>1, <1>7, <1>11
  <2> QED BY <1>1, <1>7, <1>8, <2>1, <2>2
<1>12. k = L => e = k + 1
  BY <1>1, <1>7, <1>8
<1> QED BY <1>1, <1>6, <1>7, <1>8, <1>9, <1>10, <1>11, <1>12

\* The pattern goes on after every element.
LEMMA ElementPast ==
  ASSUME NEW p \in Seq(Nat), NEW k \in 1 .. Len(p)
  PROVE  PastElement(p, k) \in k + 1 .. Len(p) + 2
<1>1. CASE p[k] = Star
  <2>1. PastElement(p, k) = PastStars(p, k)
    BY <1>1 DEF PastElement, Open, Star
  <2> QED BY <1>1, <2>1, StarsPast
<1>2. CASE p[k] = Open
  <2>1. PastElement(p, k) = ClassAt(p, k).end + 1
    BY <1>2 DEF PastElement, Open, Star
  <2>2. PICK c : c = IF Negated(p, k) THEN k + 2 ELSE k + 1
    OBVIOUS
  <2>3. c \in 1 .. Len(p) + 1 /\ c > k
    BY <2>2 DEF Negated
  <2>4. Class(p, c).end \in c .. Len(p) + 1
    BY <2>3, ClassIs
  <2> QED BY <2>1, <2>2, <2>3, <2>4 DEF ClassAt
<1>3. CASE p[k] # Star /\ p[k] # Open
  <2>1. PastElement(p, k) = k + 1
    BY <1>3 DEF PastElement
  <2> QED BY <2>1
<1> QED BY <1>1, <1>2, <1>3

\* The positions of the text from which it fits the pattern from position pi on,
\* given those for what comes next.
FitsFrom(p, t, pi, onward) ==
  IF p[pi] = Star
  THEN {ti \in 1 .. Len(t) + 1 : \E k \in ti .. Len(t) + 1 :
          /\ PastElement(p, pi) > pi + 1 \/ \A j \in ti .. k - 1 : t[j] # Slash
          /\ k \in onward}
  ELSE {ti \in 1 .. Len(t) : Takes(p, pi, t[ti]) /\ ti + 1 \in onward}

\* dowild goes through the pattern.
LEMMA WildIs ==
  ASSUME NEW p \in Seq(Nat), NEW t \in Seq(Nat)
  PROVE  \E w : /\ dowild(p, t) <=> 1 \in w[1]
                /\ \A pi \in 1 .. Len(p) + 2 :
                     w[pi] = IF pi > Len(p) THEN {Len(t) + 1}
                             ELSE FitsFrom(p, t, pi, w[PastElement(p, pi)])
<1> DEFINE n == Len(p)
           S == SUBSET (1 .. Len(t) + 1)
           end == {Len(t) + 1}
           next == [pi \in 1 .. n |-> PastElement(p, pi)]
           g == [z \in (1 .. n) \X S |-> FitsFrom(p, t, z[1], z[2])]
           eq(f) == f = [pi \in 1 .. Len(p) + 2 |->
                     IF pi > Len(p) THEN {Len(t) + 1}
                     ELSE IF p[pi] = Star
                          THEN {ti \in 1 .. Len(t) + 1 : \E k \in ti .. Len(t) + 1 :
                                  /\ \/ PastElement(p, pi) > pi + 1
                                     \/ \A j \in ti .. k - 1 : t[j] # Slash
                                  /\ k \in f[PastElement(p, pi)]}
                          ELSE {ti \in 1 .. Len(t) :
                                  Takes(p, pi, t[ti]) /\ ti + 1 \in f[PastElement(p, pi)]}]
           eq2(f) == f = [pi \in 1 .. n + 2 |->
                          IF pi > n THEN end ELSE FitsFrom(p, t, pi, f[PastElement(p, pi)])]
           wild == CHOOSE f : eq(f)
<1>1. n \in Nat /\ Len(t) \in Nat /\ end \in S
  OBVIOUS
<1>2. next \in [1 .. n -> 1 .. n + 2] /\ \A pi \in 1 .. n : next[pi] > pi
  BY ElementPast
<1>3. g \in [(1 .. n) \X S -> S]
  <2>1. \A pi, onward : FitsFrom(p, t, pi, onward) \in S
    BY <1>1 DEF FitsFrom
  <2> HIDE DEF S
  <2> QED BY <2>1
<1>4. PICK f \in [1 .. n + 2 -> S] :
        \A q \in 1 .. n + 2 : f[q] = IF q > n THEN end ELSE g[<<q, f[next[q]]>>]
  <2>1. n \in Int /\ n + 2 \in Int /\ n <= n + 2 /\ 1 <= n + 2 /\ 1 \in Int
    BY <1>1
  <2> HIDE DEF next, g, S, end, n
  <2>2. Climbed(1, n, n + 2, S, end, next, g)
    BY <1>1, <1>2, <1>3, <2>1, Climbs
  <2> QED BY <2>2 DEF Climbed
<1>5. \A pi \in 1 .. n + 2 :
        f[pi] = IF pi > n THEN end ELSE FitsFrom(p, t, pi, f[PastElement(p, pi)])
  <2> SUFFICES ASSUME NEW pi \in 1 .. n + 2, ~(pi > n)
               PROVE  f[pi] = FitsFrom(p, t, pi, f[PastElement(p, pi)])
    BY <1>4
  <2>1. pi \in 1 .. n /\ next[pi] = PastElement(p, pi) /\ next[pi] \in 1 .. n + 2
    <3>1. pi \in 1 .. n
      <4> HIDE DEF n
      <4> QED BY <1>1
    <3>2. next[pi] = PastElement(p, pi)
      BY <3>1
    <3> HIDE DEF next, n
    <3> QED BY <1>2, <3>1, <3>2
  <2>2. f[next[pi]] \in S
    BY <2>1
  <2>3. PICK z : z = <<pi, f[next[pi]]>>
    OBVIOUS
  <2>4. z \in (1 .. n) \X S /\ z[1] = pi /\ z[2] = f[PastElement(p, pi)]
    BY <2>1, <2>2, <2>3
  <2>5. f[pi] = g[z]
    BY <1>4, <2>3
  <2> HIDE DEF S, n, next
  <2> QED BY <2>4, <2>5
<1>6. eq2(f)
  <2> HIDE DEF n, end, S
  <2>1. f = [pi \in 1 .. n + 2 |-> f[pi]]
    OBVIOUS
  <2> QED BY <1>5, <2>1
<1>7. \A h : eq(h) <=> eq2(h)
  BY DEF FitsFrom
<1>8. eq(wild)
  <2> HIDE DEF eq, eq2
  <2> QED BY <1>6, <1>7
<1>9. eq2(wild)
  <2> HIDE DEF eq, eq2, wild
  <2> QED BY <1>7, <1>8
<1>10. dowild(p, t) <=> 1 \in wild[1]
  BY DEF dowild
<1> HIDE DEF wild
<1>11. \A pi \in 1 .. n + 2 :
         wild[pi] = IF pi > n THEN end ELSE FitsFrom(p, t, pi, wild[PastElement(p, pi)])
  BY <1>9
<1> QED BY <1>10, <1>11

\* The characters of the parts of a pattern are one after the other: those of
\* part i begin after at[i - 1].
Laid(p, parts, at) ==
  /\ p \in Seq(Nat)
  /\ at \in [0 .. Len(parts) -> Nat] /\ at[0] = 0 /\ at[Len(parts)] = Len(p)
  /\ \A i \in 1 .. Len(parts) :
       /\ at[i] = at[i - 1] + Len(parts[i].text) /\ at[i] <= Len(p)
       /\ \A m \in 1 .. Len(parts[i].text) : p[at[i - 1] + m] = parts[i].text[m]

\* The characters of a pattern are its parts, one after the other.
LEMMA CharactersLaid ==
  ASSUME NEW parts, Len(parts) \in Nat, \A i \in 1 .. Len(parts) : parts[i].text \in Seq(Nat)
  PROVE  \E at : Laid(Characters(parts), parts, at)
<1> DEFINE n == Len(parts)
           text(i) == parts[i].text
           g == [z \in (1 .. n) \X Seq(Nat) |-> z[2] \o text(z[1])]
           eq(h) == h = [i \in 0 .. Len(parts) |->
                           IF i = 0 THEN <<>> ELSE h[i - 1] \o parts[i].text]
           chars == CHOOSE h : eq(h)
<1>1. n \in Nat /\ \A i \in 1 .. n : text(i) \in Seq(Nat)
  OBVIOUS
<1>2. g \in [(1 .. n) \X Seq(Nat) -> Seq(Nat)]
  <2> SUFFICES ASSUME NEW z \in (1 .. n) \X Seq(Nat) PROVE z[2] \o text(z[1]) \in Seq(Nat)
    OBVIOUS
  <2> HIDE DEF n, text
  <2>1. z[2] \in Seq(Nat) /\ text(z[1]) \in Seq(Nat)
    BY <1>1
  <2> QED BY <2>1
<1>3. <<>> \in Seq(Nat)
  OBVIOUS
<1>4. PICK h \in [0 .. n -> Seq(Nat)] :
        h[0] = <<>> /\ \A k \in 1 .. n : h[k] = g[<<k, h[k - 1]>>]
  <2> HIDE DEF g, n
  <2>1. Iterated(n, Seq(Nat), <<>>, g)
    BY <1>1, <1>2, <1>3, Iterates
  <2> QED BY <2>1 DEF Iterated
<1>5. \A i \in 1 .. n : i - 1 \in 0 .. n /\ i \in 0 .. n /\ h[i] = h[i - 1] \o text(i)
  <2> SUFFICES ASSUME NEW i \in 1 .. n
               PROVE  i - 1 \in 0 .. n /\ i \in 0 .. n /\ h[i] = h[i - 1] \o text(i)
    OBVIOUS
  <2> HIDE DEF n, text
  <2>1. i - 1 \in 0 .. n /\ i \in 0 .. n
    BY <1>1
  <2>2. <<i, h[i - 1]>> \in (1 .. n) \X Seq(Nat)
    BY <2>1
  <2> QED BY <1>4, <2>1, <2>2
<1>6. eq(h)
  <2>1. h = [i \in 0 .. n |-> h[i]]
    OBVIOUS
  <2>2. \A i \in 0 .. n : i # 0 => i \in 1 .. n
    BY <1>1
  <2>3. h = [i \in 0 .. n |-> IF i = 0 THEN <<>> ELSE h[i - 1] \o text(i)]
    <3> HIDE DEF text, n
    <3> QED BY <1>4, <1>5, <2>1, <2>2
  <2> QED BY <2>3
<1>7. eq(chars)
  <2> HIDE DEF eq
  <2> QED BY <1>6
<1>8. Characters(parts) = chars[n]
  BY DEF Characters
<1> HIDE DEF chars
<1>9. chars[0] = <<>> /\ \A i \in 1 .. n : chars[i] = chars[i - 1] \o text(i)
  <2>1. 0 \in 0 .. n /\ \A i \in 1 .. n : i \in 0 .. n /\ i # 0
    BY <1>1
  <2> QED BY <1>7, <2>1
<1> HIDE DEF eq, g, text, n
<1>10. \A i \in 0 .. n : chars[i] \in Seq(Nat)
  <2> DEFINE T == {i \in 0 .. n : chars[i] \in Seq(Nat)}
  <2>1. 0 \in T
    <3>1. 0 \in 0 .. n
      BY <1>1
    <3> QED BY <1>3, <1>9, <3>1
  <2>2. ASSUME NEW i \in 1 .. n, i - 1 \in T PROVE i \in T
    <3>1. i \in 0 .. n /\ chars[i - 1] \in Seq(Nat) /\ text(i) \in Seq(Nat)
      BY <1>1, <2>2
    <3>2. chars[i - 1] \o text(i) \in Seq(Nat)
      BY <3>1
    <3> QED BY <1>9, <3>1, <3>2
  <2> HIDE DEF T
  <2>3. \A i \in 0 .. n : i \in T
    BY <1>1, <2>1, <2>2, UpTo
  <2> QED BY <2>3 DEF T
<1>11. ASSUME NEW i \in 1 .. n
       PROVE  /\ i - 1 \in 0 .. n /\ i \in 0 .. n
              /\ chars[i - 1] \in Seq(Nat) /\ chars[i] \in Seq(Nat)
              /\ Len(chars[i]) = Len(chars[i - 1]) + Len(text(i))
              /\ \A m \in 1 .. Len(chars[i - 1]) : chars[i][m] = chars[i - 1][m]
              /\ \A m \in 1 .. Len(text(i)) : chars[i][Len(chars[i - 1]) + m] = text(i)[m]
  <2>1. i - 1 \in 0 .. n /\ i \in 0 .. n
    BY <1>1
  <2>2. chars[i - 1] \in Seq(Nat) /\ text(i) \in Seq(Nat) /\ chars[i] = chars[i - 1] \o text(i)
    BY <1>1, <1>9, <1>10, <2>1
  <2>3. chars[i] \in Seq(Nat)
    BY <1>10, <2>1
  <2>4. PICK s \in Seq(Nat) : s = chars[i - 1]
    BY <2>2
  <2>5. PICK u \in Seq(Nat) : u = text(i)
    BY <2>2
  <2>6. /\ Len(s \o u) = Len(s) + Len(u)
        /\ \A m \in 1 .. Len(s) : (s \o u)[m] = s[m]
        /\ \A m \in 1 .. Len(u) : (s \o u)[Len(s) + m] = u[m]
    OBVIOUS
  <2> QED BY <2>1, <2>2, <2>3, <2>4, <2>5, <2>6
\* What was laid stays.
<1>12. ASSUME NEW i \in 0 .. n
       PROVE  /\ Len(chars[i]) <= Len(chars[n])
              /\ \A m \in 1 .. Len(chars[i]) : chars[n][m] = chars[i][m]
  <2> DEFINE Stays(k) == /\ Len(chars[k]) <= Len(chars[n])
                         /\ \A m \in 1 .. Len(chars[k]) : chars[n][m] = chars[k][m]
             T == {k \in 0 .. n : Stays(k)}
  <2>1. ASSUME NEW k \in 0 .. n, \A r \in k + 1 .. n : r \in T
        PROVE  k \in T
    <3>1. CASE k = n
      <4>1. chars[n] \in Seq(Nat)
        BY <1>1, <1>10
      <4> QED BY <3>1, <4>1
    <3>2. CASE k # n
      <4>1. k + 1 \in k + 1 .. n /\ k + 1 \in 1 .. n /\ (k + 1) - 1 = k
        BY <1>1, <3>2
      <4>2. Stays(k + 1)
        BY <2>1, <4>1
      <4>3. /\ chars[k] \in Seq(Nat) /\ chars[k + 1] \in Seq(Nat) /\ text(k + 1) \in Seq(Nat)
            /\ Len(chars[k + 1]) = Len(chars[k]) + Len(text(k + 1))
            /\ \A m \in 1 .. Len(chars[k]) : chars[k + 1][m] = chars[k][m]
        BY <1>1, <1>11, <4>1
      <4>4. Len(chars[k]) \in Nat /\ Len(text(k + 1)) \in Nat /\ chars[n] \in Seq(Nat)
            /\ Len(chars[n]) \in Nat
        BY <1>1, <1>10, <4>3
      <4>5. PICK a \in Nat, b \in Nat, c \in Nat :
              a = Len(chars[k]) /\ b = Len(chars[k + 1]) /\ c = Len(chars[n])
        <5>1. PICK u \in Seq(Nat) : u = chars[k + 1]
          BY <4>3
        <5>2. Len(u) \in Nat
          OBVIOUS
        <5> QED BY <4>4, <5>1, <5>2, Zenon
      <4>6. a <= b /\ b <= c
        <5>1. PICK d \in Nat : d = Len(text(k + 1))
          BY <4>4
        <5>2. b = a + d
          BY <4>3, <4>5, <5>1
        <5>3. b <= c
          BY <4>2, <4>5
        <5> QED BY <5>2, <5>3
      <4>7. \A m \in 1 .. b : chars[n][m] = chars[k + 1][m]
        BY <4>2, <4>5
      <4>8. \A m \in 1 .. a : chars[k + 1][m] = chars[k][m]
        BY <4>3, <4>5
      <4> HIDE DEF Stays
      <4>9. ASSUME NEW m \in 1 .. a PROVE chars[n][m] = chars[k][m]
        <5>1. m \in 1 .. b
          BY <4>6
        <5> QED BY <4>7, <4>8, <5>1
      <4>10. a <= c
        BY <4>6
      <4>11. Stays(k)
        BY <4>5, <4>9, <4>10 DEF Stays
      <4> QED BY <4>11
    <3> QED BY <3>1, <3>2
  <2> HIDE DEF T
  <2>3. 0 \in Int /\ n \in Int
    BY <1>1
  <2>2. \A k \in 0 .. n : k \in T
    BY <2>1, <2>3, DownTo
  <2> QED BY <2>2 DEF T
<1> DEFINE p == chars[n]
           at == [i \in 0 .. n |-> Len(chars[i])]
<1>13. p \in Seq(Nat) /\ at \in [0 .. n -> Nat] /\ at[0] = 0 /\ at[n] = Len(p)
  <2>1. 0 \in 0 .. n /\ n \in 0 .. n /\ Len(chars[0]) = 0
    BY <1>1, <1>9
  <2>2. \A i \in 0 .. n : Len(chars[i]) \in Nat
    BY <1>10
  <2> QED BY <1>10, <2>1, <2>2
<1>14. ASSUME NEW i \in 1 .. n
       PROVE  /\ at[i] = at[i - 1] + Len(text(i)) /\ at[i] <= Len(p)
              /\ \A m \in 1 .. Len(text(i)) : p[at[i - 1] + m] = text(i)[m]
  <2>1. /\ i - 1 \in 0 .. n /\ i \in 0 .. n
        /\ chars[i - 1] \in Seq(Nat) /\ chars[i] \in Seq(Nat)
        /\ Len(chars[i]) = Len(chars[i - 1]) + Len(text(i))
        /\ \A m \in 1 .. Len(text(i)) : chars[i][Len(chars[i - 1]) + m] = text(i)[m]
    BY <1>11
  <2>2. /\ Len(chars[i]) <= Len(chars[n])
        /\ \A m \in 1 .. Len(chars[i]) : chars[n][m] = chars[i][m]
    BY <1>12, <2>1
  <2>3. at[i] = Len(chars[i]) /\ at[i - 1] = Len(chars[i - 1])
    BY <2>1
  <2>4. Len(chars[i - 1]) \in Nat /\ Len(chars[i]) \in Nat /\ text(i) \in Seq(Nat)
    BY <1>1, <2>1
  <2>5. \A m \in 1 .. Len(text(i)) : Len(chars[i - 1]) + m \in 1 .. Len(chars[i])
    BY <2>1, <2>4
  <2> HIDE DEF at
  <2> QED BY <2>1, <2>2, <2>3, <2>5
<1> HIDE DEF at, p
<1>15. Laid(p, parts, at)
  BY <1>13, <1>14 DEF Laid, n, text
<1> QED BY <1>8, <1>15 DEF p

\* To fit is to get through, part after part, when W says from which positions
\* of the text the parts after the i-th lead to its end.
LEMMA FitsBy ==
  ASSUME NEW parts, Len(parts) \in Nat, NEW text \in Seq(Nat), NEW W,
         \A k \in 0 .. Len(text) : <<Len(parts), k>> \in W <=> k = Len(text),
         \A i \in 1 .. Len(parts) : \A k \in 0 .. Len(text) :
           <<i - 1, k>> \in W <=> \E j \in Leads(parts[i], k, text) : <<i, j>> \in W
  PROVE  Fits(parts, text) <=> <<0, 0>> \in W
<1> DEFINE n == Len(parts)
           L == Len(text)
           S == SUBSET (0 .. L)
           Leading(i, from) == UNION {Leads(parts[i], k, text) : k \in from}
           g == [z \in (1 .. n) \X S |-> Leading(z[1], z[2])]
           eq(h) == h = [i \in 0 .. Len(parts) |->
                      IF i = 0 THEN {0} ELSE UNION {Leads(parts[i], k, text) : k \in h[i - 1]}]
           at == CHOOSE h : eq(h)
<1>1. n \in Nat /\ L \in Nat /\ 0 \in 0 .. L
  OBVIOUS
<1>2. \A i \in 1 .. n : \A k \in 0 .. L : Leads(parts[i], k, text) \in S
  BY DEF Leads
<1>3. \A i \in 1 .. n : \A from \in S : Leading(i, from) \in S
  <2> HIDE DEF n, L
  <2> QED BY <1>2
<1>4. g \in [(1 .. n) \X S -> S]
  <2> HIDE DEF n, S, Leading
  <2> QED BY <1>3
<1>5. PICK h \in [0 .. n -> S] :
        h[0] = {0} /\ \A k \in 1 .. n : h[k] = g[<<k, h[k - 1]>>]
  <2> HIDE DEF g, n
  <2>1. {0} \in S
    BY <1>1
  <2> HIDE DEF S
  <2>2. Iterated(n, S, {0}, g)
    BY <1>1, <1>4, <2>1, Iterates
  <2> QED BY <2>2 DEF Iterated
<1>6. \A i \in 1 .. n : i - 1 \in 0 .. n /\ i \in 0 .. n /\ h[i] = Leading(i, h[i - 1])
  <2> SUFFICES ASSUME NEW i \in 1 .. n
               PROVE  i - 1 \in 0 .. n /\ i \in 0 .. n /\ h[i] = Leading(i, h[i - 1])
    OBVIOUS
  <2> HIDE DEF n, S, Leading
  <2>1. i - 1 \in 0 .. n /\ i \in 0 .. n
    BY <1>1
  <2>2. <<i, h[i - 1]>> \in (1 .. n) \X S
    BY <2>1
  <2> QED BY <1>5, <2>1, <2>2
<1>7. eq(h)
  <2>1. h = [i \in 0 .. n |-> h[i]]
    OBVIOUS
  <2>2. \A i \in 0 .. n : i # 0 => i \in 1 .. n
    BY <1>1
  <2>3. h = [i \in 0 .. n |-> IF i = 0 THEN {0} ELSE Leading(i, h[i - 1])]
    <3> HIDE DEF Leading, n, S
    <3> QED BY <1>5, <1>6, <2>1, <2>2
  <2> QED BY <2>3
<1>8. eq(at)
  <2> HIDE DEF eq
  <2> QED BY <1>7
<1>9. Fits(parts, text) <=> L \in at[n]
  BY DEF Fits
<1> HIDE DEF at
<1>10. at[0] = {0} /\ \A i \in 1 .. n : at[i] = Leading(i, at[i - 1])
  <2>1. 0 \in 0 .. n /\ \A i \in 1 .. n : i \in 0 .. n /\ i # 0
    BY <1>1
  <2> QED BY <1>8, <2>1
<1> HIDE DEF eq, g, n, L
<1> DEFINE T == {i \in 0 .. n : /\ at[i] \in S
                                /\ (\E k \in at[i] : <<i, k>> \in W) <=> <<0, 0>> \in W}
<1>11. 0 \in T
  <2>1. 0 \in 0 .. n /\ {0} \in S
    BY <1>1
  <2> HIDE DEF S
  <2> QED BY <1>10, <2>1
<1>12. ASSUME NEW i \in 1 .. n, i - 1 \in T PROVE i \in T
  <2>1. i \in 0 .. n
    BY <1>1
  <2>2. at[i - 1] \in S /\ at[i] = Leading(i, at[i - 1])
    BY <1>10, <1>12
  <2>3. at[i] \in S
    <3> HIDE DEF Leading, S
    <3> QED BY <1>3, <2>2
  <2>4. \A k \in at[i - 1] :
          <<i - 1, k>> \in W <=> \E j \in Leads(parts[i], k, text) : <<i, j>> \in W
    BY <2>2 DEF n, L
  <2>5. (\E k \in at[i] : <<i, k>> \in W) <=> (\E k \in at[i - 1] : <<i - 1, k>> \in W)
    <3>1. \A j : j \in at[i] <=> \E k \in at[i - 1] : j \in Leads(parts[i], k, text)
      <4> HIDE DEF S
      <4> QED BY <2>2
    <3> HIDE DEF S, Leading
    <3>2. ASSUME NEW k \in at[i], <<i, k>> \in W PROVE \E q \in at[i - 1] : <<i - 1, q>> \in W
      <4>1. PICK q \in at[i - 1] : k \in Leads(parts[i], q, text)
        BY <3>1
      <4>2. <<i - 1, q>> \in W
        BY <2>4, <3>2, <4>1, Zenon
      <4> QED BY <4>2
    <3>3. ASSUME NEW q \in at[i - 1], <<i - 1, q>> \in W PROVE \E k \in at[i] : <<i, k>> \in W
      BY <2>4, <3>1, <3>3
    <3> QED BY <3>2, <3>3
  <2>6. (\E k \in at[i - 1] : <<i - 1, k>> \in W) <=> <<0, 0>> \in W
    BY <1>12
  <2> HIDE DEF S
  <2> QED BY <2>1, <2>3, <2>5, <2>6
<1>13. n \in T
  <2> HIDE DEF T
  <2>1. \A i \in 0 .. n : i \in T
    BY <1>1, <1>11, <1>12, UpTo
  <2>2. n \in 0 .. n
    BY <1>1
  <2> QED BY <2>1, <2>2
<1>14. \A k \in at[n] : <<n, k>> \in W <=> k = L
  BY <1>13 DEF n, L
<1> QED BY <1>9, <1>13, <1>14

\* What the characters at position pi say, and where the pattern goes on.
PartLaid(p, pi, part, next) ==
  /\ part.many \in BOOLEAN
  /\ PastElement(p, pi) = next
  /\ part.many => /\ p[pi] = Star
                  /\ part.of = IF next > pi + 1 THEN Codes ELSE Codes \ {Slash}
  /\ ~part.many => /\ p[pi] # Star
                   /\ \A c \in Codes : Takes(p, pi, c) <=> c \in part.of

\* Every kind of part is laid as it is meant: a character,
LEMMA CharLaid ==
  ASSUME NEW p \in Seq(Nat), NEW pi \in 1 .. Len(p), NEW c \in Codes \ {Star, Quest, Open},
         p[pi] = c
  PROVE  PartLaid(p, pi, Char(c), pi + 1)
BY DEF PartLaid, Char, Part, PastElement, Takes

\* a question mark,
LEMMA AnyCharLaid ==
  ASSUME NEW p \in Seq(Nat), NEW pi \in 1 .. Len(p), p[pi] = Quest
  PROVE  PartLaid(p, pi, AnyChar, pi + 1)
BY DEF PartLaid, AnyChar, Part, PastElement, Takes, Quest, Star, Open, Slash

\* a class,
LEMMA OneOfLaid ==
  ASSUME NEW p \in Seq(Nat), NEW pi \in 1 .. Len(p), NEW lo \in Codes, NEW hi \in Codes \ {Close},
         lo \notin {Bang, Caret}, pi + 4 <= Len(p),
         \A m \in 1 .. 5 : p[(pi - 1) + m] = OneOf(lo, hi).text[m]
  PROVE  PartLaid(p, pi, OneOf(lo, hi), pi + 5)
<1> DEFINE text == <<Open, lo, Dash, hi, Close>>
<1>1. OneOf(lo, hi) = [many |-> FALSE, of |-> lo .. hi, text |-> text]
  BY DEF OneOf, Part
<1>2. /\ p[pi] = Open /\ p[pi + 1] = lo /\ p[pi + 2] = Dash /\ p[pi + 3] = hi /\ p[pi + 4] = Close
  <2>1. \A m \in 1 .. 5 : p[(pi - 1) + m] = text[m]
    <3>1. OneOf(lo, hi).text = text
      <4> HIDE DEF text
      <4> QED BY <1>1
    <3> HIDE DEF text
    <3> QED BY <3>1
  <2>2. /\ (pi - 1) + 1 = pi /\ (pi - 1) + 2 = pi + 1 /\ (pi - 1) + 3 = pi + 2
        /\ (pi - 1) + 4 = pi + 3 /\ (pi - 1) + 5 = pi + 4
    OBVIOUS
  <2>3. text[1] = Open /\ text[2] = lo /\ text[3] = Dash /\ text[4] = hi /\ text[5] = Close
    OBVIOUS
  <2>4. 1 \in 1 .. 5 /\ 2 \in 1 .. 5 /\ 3 \in 1 .. 5 /\ 4 \in 1 .. 5 /\ 5 \in 1 .. 5
    OBVIOUS
  <2> HIDE DEF text
  <2> QED BY <2>1, <2>2, <2>3, <2>4
<1>3. ~Negated(p, pi)
  BY <1>2 DEF Negated
<1>4. ClassAt(p, pi) = [chars |-> lo .. hi, end |-> pi + 4]
  <2>1. pi + 1 \in 1 .. Len(p) + 1 /\ (pi + 1) + 3 <= Len(p) /\ (pi + 1) + 1 = pi + 2
        /\ (pi + 1) + 2 = pi + 3 /\ (pi + 1) + 3 = pi + 4
    OBVIOUS
  <2>2. PICK c \in 1 .. Len(p) + 1 : c = pi + 1
    BY <2>1
  <2>3. Class(p, c) = [chars |-> p[c] .. p[c + 2], end |-> c + 3]
    <3> HIDE DEF text
    <3>1. c + 3 <= Len(p) /\ p[c + 1] = Dash /\ p[c + 2] = hi /\ p[c + 3] = Close
      BY <1>2, <2>1, <2>2
    <3>2. p[c + 2] # Close
      BY <3>1
    <3> QED BY <3>1, <3>2, ClassIs
  <2>4. ClassAt(p, pi) = Class(p, c)
    <3> HIDE DEF text
    <3> QED BY <1>3, <2>2 DEF ClassAt
  <2> QED BY <1>2, <2>1, <2>2, <2>3, <2>4
<1>5. p[pi] # Star /\ p[pi] # Quest
  BY <1>2 DEF Open, Star, Quest
<1>6. PastElement(p, pi) = pi + 5
  <2>1. PastElement(p, pi) = ClassAt(p, pi).end + 1
    BY <1>2, <1>5 DEF PastElement
  <2> QED BY <1>4, <2>1
<1>7. ASSUME NEW c \in Codes PROVE Takes(p, pi, c) <=> c \in lo .. hi
  <2>1. ClassAt(p, pi).chars = lo .. hi
    BY <1>4
  <2> QED BY <1>2, <1>3, <1>5, <2>1 DEF Takes
<1> HIDE DEF text
<1> QED BY <1>1, <1>5, <1>6, <1>7 DEF PartLaid

\* a negated class,
LEMMA NoneOfLaid ==
  ASSUME NEW p \in Seq(Nat), NEW pi \in 1 .. Len(p), NEW lo \in Codes, NEW hi \in Codes \ {Close},
         pi + 5 <= Len(p),
         \A m \in 1 .. 6 : p[(pi - 1) + m] = NoneOf(lo, hi).text[m]
  PROVE  PartLaid(p, pi, NoneOf(lo, hi), pi + 6)
<1> DEFINE text == <<Open, Bang, lo, Dash, hi, Close>>
<1>1. NoneOf(lo, hi) = [many |-> FALSE, of |-> Codes \ lo .. hi, text |-> text]
  BY DEF NoneOf, Part
<1>2. /\ p[pi] = Open /\ p[pi + 1] = Bang /\ p[pi + 2] = lo /\ p[pi + 3] = Dash
      /\ p[pi + 4] = hi /\ p[pi + 5] = Close
  <2>1. \A m \in 1 .. 6 : p[(pi - 1) + m] = text[m]
    <3>1. NoneOf(lo, hi).text = text
      <4> HIDE DEF text
      <4> QED BY <1>1
    <3> HIDE DEF text
    <3> QED BY <3>1
  <2>2. /\ (pi - 1) + 1 = pi /\ (pi - 1) + 2 = pi + 1 /\ (pi - 1) + 3 = pi + 2
        /\ (pi - 1) + 4 = pi + 3 /\ (pi - 1) + 5 = pi + 4 /\ (pi - 1) + 6 = pi + 5
    OBVIOUS
  <2>3. /\ text[1] = Open /\ text[2] = Bang /\ text[3] = lo /\ text[4] = Dash
        /\ text[5] = hi /\ text[6] = Close
    OBVIOUS
  <2>4. 1 \in 1 .. 6 /\ 2 \in 1 .. 6 /\ 3 \in 1 .. 6 /\ 4 \in 1 .. 6 /\ 5 \in 1 .. 6 /\ 6 \in 1 .. 6
    OBVIOUS
  <2> HIDE DEF text
  <2> QED BY <2>1, <2>2, <2>3, <2>4
<1>3. Negated(p, pi)
  BY <1>2 DEF Negated
<1>4. ClassAt(p, pi) = [chars |-> lo .. hi, end |-> pi + 5]
  <2>1. pi + 2 \in 1 .. Len(p) + 1 /\ (pi + 2) + 3 <= Len(p) /\ (pi + 2) + 1 = pi + 3
        /\ (pi + 2) + 2 = pi + 4 /\ (pi + 2) + 3 = pi + 5
    <3>1. PICK n \in Nat : n = Len(p)
      OBVIOUS
    <3>2. pi \in 1 .. n /\ pi + 5 <= n
      BY <3>1
    <3>3. pi + 2 \in 1 .. n + 1 /\ (pi + 2) + 3 <= n
      BY <3>2
    <3>4. (pi + 2) + 1 = pi + 3 /\ (pi + 2) + 2 = pi + 4 /\ (pi + 2) + 3 = pi + 5
      BY <3>2
    <3> HIDE DEF text
    <3> QED BY <3>1, <3>3, <3>4
  <2>2. PICK c \in 1 .. Len(p) + 1 : c = pi + 2
    BY <2>1
  <2>3. Class(p, c) = [chars |-> p[c] .. p[c + 2], end |-> c + 3]
    <3> HIDE DEF text
    <3>1. c + 3 <= Len(p) /\ p[c + 1] = Dash /\ p[c + 2] = hi /\ p[c + 3] = Close
      BY <1>2, <2>1, <2>2
    <3>2. p[c + 2] # Close
      BY <3>1
    <3> QED BY <3>1, <3>2, ClassIs
  <2>4. ClassAt(p, pi) = Class(p, c)
    <3> HIDE DEF text
    <3> QED BY <1>3, <2>2 DEF ClassAt
  <2> QED BY <1>2, <2>1, <2>2, <2>3, <2>4
<1>5. p[pi] # Star /\ p[pi] # Quest
  BY <1>2 DEF Open, Star, Quest
<1>6. PastElement(p, pi) = pi + 6
  <2>1. PastElement(p, pi) = ClassAt(p, pi).end + 1
    BY <1>2, <1>5 DEF PastElement
  <2> QED BY <1>4, <2>1
<1>7. ASSUME NEW c \in Codes PROVE Takes(p, pi, c) <=> c \notin lo .. hi
  <2>1. ClassAt(p, pi).chars = lo .. hi
    BY <1>4
  <2> QED BY <1>2, <1>3, <1>5, <2>1 DEF Takes
<1> HIDE DEF text
<1>8. NoneOf(lo, hi).many = FALSE /\ NoneOf(lo, hi).of = Codes \ lo .. hi
  BY <1>1
<1>9. \A c \in Codes : Takes(p, pi, c) <=> c \in NoneOf(lo, hi).of
  BY <1>7, <1>8
<1>10. NoneOf(lo, hi).many \in BOOLEAN /\ ~NoneOf(lo, hi).many
  BY <1>8, Zenon
<1> QED BY <1>5, <1>6, <1>9, <1>10, Zenon DEF PartLaid

\* one star, if what follows it is none,
LEMMA AnyNameLaid ==
  ASSUME NEW p \in Seq(Nat), NEW pi \in 1 .. Len(p), p[pi] = Star,
         pi = Len(p) \/ p[pi + 1] # Star
  PROVE  PartLaid(p, pi, AnyName, pi + 1)
<1>1. PastStars(p, pi) = pi + 1
  <2>1. CASE pi = Len(p)
    BY <2>1, StarsPast
  <2>2. CASE pi # Len(p)
    <3>1. pi + 1 \in 1 .. Len(p) /\ p[pi + 1] # Star
      BY <2>2
    <3> QED BY <3>1, StarsPast
  <2> QED BY <2>1, <2>2
<1>2. PastElement(p, pi) = pi + 1
  BY <1>1 DEF PastElement, Star, Open
<1>3. ~(pi + 1 > pi + 1)
  OBVIOUS
<1> QED BY <1>2, <1>3 DEF PartLaid, AnyName, Part

\* and two of them.
LEMMA AnyPathLaid ==
  ASSUME NEW p \in Seq(Nat), NEW pi \in 1 .. Len(p), pi + 1 <= Len(p), p[pi] = Star,
         p[pi + 1] = Star, pi + 1 = Len(p) \/ p[pi + 2] # Star
  PROVE  PartLaid(p, pi, AnyPath, pi + 2)
<1>1. PastStars(p, pi) = pi + 2
  <2>1. pi + 1 \in 1 .. Len(p) /\ (pi + 2 > Len(p) \/ p[pi + 2] # Star)
    OBVIOUS
  <2> QED BY <2>1, StarsPast
<1>2. PastElement(p, pi) = pi + 2
  BY <1>1 DEF PastElement, Star, Open
<1>3. pi + 2 > pi + 1
  OBVIOUS
<1> QED BY <1>2, <1>3 DEF PartLaid, AnyPath, Part

\* The characters of a part, of which the first tells whether it is a star, and
\* the last is a slash only if the part is one.
LEMMA PartText ==
  ASSUME NEW part, IsPart(part)
  PROVE  /\ part.text \in Seq(Nat) /\ Len(part.text) \in Nat \ {0}
         /\ part.many \in BOOLEAN
         /\ part.many <=> part.text[1] = Star
         /\ part.text[Len(part.text)] = Slash => part = Char(Slash)
<1>1. CASE part = AnyChar
  <2>1. part = [many |-> FALSE, of |-> Codes \ {Slash}, text |-> <<Quest>>]
    BY <1>1 DEF AnyChar, Part
  <2>2. part.text = <<63>> /\ part.many = FALSE
    BY <2>1 DEF Quest
  <2>3. Star = 42 /\ Slash = 47
    BY DEF Star, Slash
  <2>4. part.many \in BOOLEAN /\ ~part.many
    BY <2>2, Zenon
  <2> QED BY <2>2, <2>3, <2>4
<1>2. CASE part = AnyName
  <2>1. part = [many |-> TRUE, of |-> Codes \ {Slash}, text |-> <<Star>>]
    BY <1>2 DEF AnyName, Part
  <2>2. part.text = <<42>> /\ part.many = TRUE
    BY <2>1 DEF Star
  <2>3. Star = 42 /\ Slash = 47
    BY DEF Star, Slash
  <2>4. part.many \in BOOLEAN /\ part.many
    BY <2>2, Zenon
  <2> QED BY <2>2, <2>3, <2>4
<1>3. CASE part = AnyPath
  <2>1. part = [many |-> TRUE, of |-> Codes, text |-> <<Star, Star>>]
    BY <1>3 DEF AnyPath, Part
  <2>2. part.text = <<42, 42>> /\ part.many = TRUE
    BY <2>1 DEF Star
  <2>3. Star = 42 /\ Slash = 47
    BY DEF Star, Slash
  <2>4. part.many \in BOOLEAN /\ part.many
    BY <2>2, Zenon
  <2> QED BY <2>2, <2>3, <2>4
<1>4. CASE \E c \in Codes \ {Star, Quest, Open} : part = Char(c)
  <2>1. PICK c \in Codes \ {Star, Quest, Open} : part = Char(c)
    BY <1>4
  <2>2. part = [many |-> FALSE, of |-> {c}, text |-> <<c>>]
    BY <2>1 DEF Char, Part
  <2>3. part.text = <<c>> /\ part.many = FALSE /\ c \in Nat
    BY <2>2, CodesOK
  <2>4. part.many \in BOOLEAN /\ ~part.many
    BY <2>3, Zenon
  <2>5. Len(part.text) = 1 /\ part.text[1] = c /\ part.text \in Seq(Nat)
    BY <2>3
  <2> QED BY <2>1, <2>4, <2>5
<1>5. CASE \E lo \in Codes, hi \in Codes \ {Close} :
             part = NoneOf(lo, hi) \/ (part = OneOf(lo, hi) /\ lo \notin {Bang, Caret})
  <2>1. PICK lo \in Codes, hi \in Codes \ {Close} : part = NoneOf(lo, hi) \/ part = OneOf(lo, hi)
    BY <1>5
  <2>2. lo \in Nat /\ hi \in Nat
    BY <2>1, CodesOK
  <2>3. Star = 42 /\ Slash = 47 /\ Open = 91 /\ Close = 93 /\ Dash = 45 /\ Bang = 33
    BY DEF Star, Slash, Open, Close, Dash, Bang
  <2>4. CASE part = NoneOf(lo, hi)
    <3>1. part = [many |-> FALSE, of |-> Codes \ lo .. hi,
                  text |-> <<Open, Bang, lo, Dash, hi, Close>>]
      BY <2>4 DEF NoneOf, Part
    <3>2. part.text = <<91, 33, lo, 45, hi, 93>> /\ part.many = FALSE
      BY <2>3, <3>1
    <3>3. part.many \in BOOLEAN /\ ~part.many
      BY <3>2, Zenon
    <3> QED BY <2>2, <2>3, <3>2, <3>3
  <2>5. CASE part = OneOf(lo, hi)
    <3>1. part = [many |-> FALSE, of |-> lo .. hi, text |-> <<Open, lo, Dash, hi, Close>>]
      BY <2>5 DEF OneOf, Part
    <3>2. part.text = <<91, lo, 45, hi, 93>> /\ part.many = FALSE
      BY <2>3, <3>1
    <3>3. part.many \in BOOLEAN /\ ~part.many
      BY <3>2, Zenon
    <3> QED BY <2>2, <2>3, <3>2, <3>3
  <2> QED BY <2>1, <2>4, <2>5
<1> QED BY <1>1, <1>2, <1>3, <1>4, <1>5 DEF IsPart

\* Every part of a pattern is laid as it is meant.
LEMMA PartsLaid ==
  ASSUME NEW parts, parts \in Seq(Range(parts)), IsPattern(parts), NEW p, NEW at,
         Laid(p, parts, at), NEW i \in 1 .. Len(parts)
  PROVE  /\ at[i - 1] + 1 \in 1 .. Len(p)
         /\ PartLaid(p, at[i - 1] + 1, parts[i], at[i] + 1)
<1> DEFINE n == Len(parts)
           part == parts[i]
           text == part.text
           pi == at[i - 1] + 1
<1>1. n \in Nat /\ DOMAIN parts = 1 .. n
  BY LenProperties
<1>2. IsPart(part) /\ (i + 1 \in 1 .. n => IsPart(parts[i + 1]))
  BY <1>1 DEF IsPattern
<1>3. i + 1 \in 1 .. n => ~(part.many /\ parts[i + 1].many)
  BY <1>1 DEF IsPattern
<1>4. /\ p \in Seq(Nat) /\ at[i - 1] \in Nat /\ at[i] = at[i - 1] + Len(text) /\ at[i] <= Len(p)
      /\ \A m \in 1 .. Len(text) : p[at[i - 1] + m] = text[m]
      /\ i = n => at[i] = Len(p)
  <2>1. i - 1 \in 0 .. n
    BY <1>1
  <2> QED BY <2>1 DEF Laid
<1>5. text \in Seq(Nat) /\ Len(text) \in Nat \ {0} /\ (part.many <=> text[1] = Star)
  BY <1>2, PartText
<1>6. Len(p) \in Nat
  BY <1>4
\* After a part that is a star there is none.
<1>7. ASSUME part.many PROVE at[i] = Len(p) \/ p[at[i] + 1] # Star
  <2>1. CASE i = n
    BY <1>4, <2>1
  <2>2. CASE i # n
    <3>1. i + 1 \in 1 .. n /\ (i + 1) - 1 = i
      <4> HIDE DEF n
      <4>1. i \in 1 .. n
        BY DEF n
      <4> QED BY <1>1, <2>2, <4>1
    <3>2. IsPart(parts[i + 1]) /\ ~parts[i + 1].many
      BY <1>2, <1>3, <1>7, <3>1
    <3>3. Len(parts[i + 1].text) \in Nat \ {0} /\ parts[i + 1].text[1] # Star
      BY <3>2, PartText
    <3>4. \A m \in 1 .. Len(parts[i + 1].text) : p[at[i] + m] = parts[i + 1].text[m]
      BY <3>1 DEF Laid
    <3>5. 1 \in 1 .. Len(parts[i + 1].text)
      BY <3>3
    <3> QED BY <3>3, <3>4, <3>5
  <2> QED BY <2>1, <2>2
<1> HIDE DEF n
<1>8. pi \in 1 .. Len(p) /\ pi - 1 = at[i - 1]
  <2> HIDE DEF text
  <2> QED BY <1>4, <1>5, <1>6
<1>9. p[pi] = text[1]
  <2>1. 1 \in 1 .. Len(text)
    BY <1>5
  <2> QED BY <1>4, <2>1
<1>10. PICK l \in Nat \ {0} : l = Len(text)
  BY <1>5
<1>11. at[i] + 1 = pi + l /\ pi + l <= Len(p) + 1
  <2> HIDE DEF text
  <2> QED BY <1>4, <1>6, <1>10
<1>12. CASE part = AnyChar
  <2>1. text = <<Quest>>
    BY <1>12 DEF AnyChar, Part
  <2>2. p[pi] = Quest /\ l = 1
    BY <1>9, <1>10, <2>1
  <2>3. PartLaid(p, pi, AnyChar, pi + 1)
    BY <1>4, <1>8, <2>2, AnyCharLaid
  <2> QED BY <1>8, <1>11, <1>12, <2>2, <2>3
<1>13. CASE part = AnyName
  <2>1. text = <<Star>> /\ part.many = TRUE
    BY <1>13 DEF AnyName, Part
  <2>2. p[pi] = Star /\ l = 1
    BY <1>9, <1>10, <2>1
  <2>3. at[i] = pi
    <3>1. PICK a \in Nat : a = at[i]
      BY <1>4
    <3>2. PICK b \in Nat : b = pi
      BY <1>8
    <3>3. a + 1 = b + 1
      BY <1>11, <2>2, <3>1, <3>2
    <3>4. a = b
      BY <3>3
    <3> HIDE DEF pi, text
    <3> QED BY <3>1, <3>2, <3>4
  <2>4. pi = Len(p) \/ p[pi + 1] # Star
    BY <1>7, <2>1, <2>3
  <2>5. PartLaid(p, pi, AnyName, pi + 1)
    BY <1>4, <1>8, <2>2, <2>4, AnyNameLaid
  <2> QED BY <1>8, <1>11, <1>13, <2>2, <2>5
<1>14. CASE part = AnyPath
  <2>1. text = <<Star, Star>> /\ part.many = TRUE
    BY <1>14 DEF AnyPath, Part
  <2>2. l = 2 /\ p[pi] = Star
    BY <1>9, <1>10, <2>1
  <2>3. p[pi + 1] = Star
    <3>1. 2 \in 1 .. Len(text) /\ text[2] = Star
      BY <2>1
    <3>2. at[i - 1] + 2 = pi + 1
      BY <1>4
    <3> QED BY <1>4, <3>1, <3>2
  <2>4. at[i] = pi + 1 /\ (pi + 1) + 1 = pi + 2
    <3>1. PICK a \in Nat : a = at[i]
      BY <1>4
    <3>2. PICK b \in Nat : b = pi
      BY <1>8
    <3>3. a + 1 = b + 2
      BY <1>11, <2>2, <3>1, <3>2
    <3>4. a = b + 1 /\ (b + 1) + 1 = b + 2
      BY <3>3
    <3> HIDE DEF pi, text
    <3> QED BY <3>1, <3>2, <3>4
  <2>5. pi + 1 <= Len(p) /\ (pi + 1 = Len(p) \/ p[pi + 2] # Star)
    BY <1>4, <1>7, <2>1, <2>4
  <2>6. PartLaid(p, pi, AnyPath, pi + 2)
    BY <1>4, <1>8, <2>2, <2>3, <2>5, AnyPathLaid
  <2> QED BY <1>8, <1>11, <1>14, <2>2, <2>6
<1>15. CASE \E c \in Codes \ {Star, Quest, Open} : part = Char(c)
  <2>1. PICK c \in Codes \ {Star, Quest, Open} : part = Char(c)
    BY <1>15
  <2>2. text = <<c>>
    BY <2>1 DEF Char, Part
  <2>3. p[pi] = c /\ l = 1
    BY <1>9, <1>10, <2>2
  <2>4. PartLaid(p, pi, Char(c), pi + 1)
    BY <1>4, <1>8, <2>1, <2>3, CharLaid
  <2> QED BY <1>8, <1>11, <2>1, <2>3, <2>4
<1>16. CASE \E lo \in Codes, hi \in Codes \ {Close} : part = NoneOf(lo, hi)
  <2>1. PICK lo \in Codes, hi \in Codes \ {Close} : part = NoneOf(lo, hi)
    BY <1>16
  <2>2. text = <<Open, Bang, lo, Dash, hi, Close>>
    BY <2>1 DEF NoneOf, Part
  <2>3. l = 6
    BY <1>10, <2>2
  <2>4. pi + 5 <= Len(p)
    BY <1>6, <1>8, <1>11, <2>3
  <2>5. \A m \in 1 .. 6 : p[(pi - 1) + m] = NoneOf(lo, hi).text[m]
    <3> HIDE DEF pi
    <3> QED BY <1>4, <1>8, <1>10, <2>1, <2>3
  <2> HIDE DEF pi
  <2>6. PartLaid(p, pi, NoneOf(lo, hi), pi + 6)
    BY <1>4, <1>8, <2>1, <2>4, <2>5, NoneOfLaid
  <2> QED BY <1>8, <1>11, <2>1, <2>3, <2>6 DEF pi
<1>17. CASE \E lo \in Codes, hi \in Codes \ {Close} : part = OneOf(lo, hi) /\ lo \notin {Bang, Caret}
  <2>1. PICK lo \in Codes, hi \in Codes \ {Close} : part = OneOf(lo, hi) /\ lo \notin {Bang, Caret}
    BY <1>17
  <2>2. text = <<Open, lo, Dash, hi, Close>>
    BY <2>1 DEF OneOf, Part
  <2>3. l = 5
    BY <1>10, <2>2
  <2>4. pi + 4 <= Len(p)
    BY <1>6, <1>8, <1>11, <2>3
  <2>5. \A m \in 1 .. 5 : p[(pi - 1) + m] = OneOf(lo, hi).text[m]
    <3> HIDE DEF pi
    <3> QED BY <1>4, <1>8, <1>10, <2>1, <2>3
  <2> HIDE DEF pi
  <2>6. PartLaid(p, pi, OneOf(lo, hi), pi + 5)
    BY <1>4, <1>8, <2>1, <2>4, <2>5, OneOfLaid
  <2> QED BY <1>8, <1>11, <2>1, <2>3, <2>6 DEF pi
<1> HIDE DEF pi
<1> QED BY <1>2, <1>12, <1>13, <1>14, <1>15, <1>16, <1>17 DEF IsPart

\* The characters of a text are numbers.
LEMMA CodesText ==
  /\ \A text \in Seq(Codes) : text \in Seq(Nat)
  /\ \A path \in Seq(Seq(Codes)) : path \in Seq(Seq(Nat))
<1>1. Codes \subseteq Nat
  BY CodesOK
<1>2. Seq(Codes) \subseteq Seq(Nat)
  BY <1>1, SeqMono
<1> QED BY <1>2, SeqMono

\* A position of the pattern takes the text where the part leads.
LEMMA LeadsAsFits ==
  ASSUME NEW p \in Seq(Nat), NEW pi \in 1 .. Len(p), NEW part, NEW next,
         PartLaid(p, pi, part, next), NEW text \in Seq(Codes), NEW onward,
         NEW k \in 0 .. Len(text)
  PROVE  k + 1 \in FitsFrom(p, text, pi, onward) <=>
           \E j \in Leads(part, k, text) : j + 1 \in onward
<1> DEFINE L == Len(text)
<1>1. L \in Nat /\ k \in 0 .. L /\ \A m \in 1 .. L : text[m] \in Codes
  OBVIOUS
<1> HIDE DEF L
<1>2. CASE part.many
  <2>1. p[pi] = Star /\ PastElement(p, pi) = next
        /\ part.of = IF next > pi + 1 THEN Codes ELSE Codes \ {Slash}
    BY <1>2 DEF PartLaid
  <2> DEFINE Free(j) == next > pi + 1 \/ \A m \in k + 1 .. j : text[m] # Slash
  <2>2. ASSUME NEW j \in k .. L
        PROVE  Free(j) <=> \A m \in k + 1 .. j : text[m] \in part.of
    <3>1. \A m \in k + 1 .. j : m \in 1 .. L
      BY <1>1
    <3>2. \A m \in k + 1 .. j : text[m] \in Codes
      BY <1>1, <3>1
    <3> QED BY <2>1, <3>2
  <2>3. Leads(part, k, text) = {j \in k .. L : \A m \in k + 1 .. j : text[m] \in part.of}
    BY <1>2 DEF Leads, L
  <2>4. \A j : j \in Leads(part, k, text) <=> j \in k .. L /\ Free(j)
    <3> HIDE DEF Free
    <3> QED BY <2>2, <2>3
  <2> DEFINE Onto(q) == /\ next > pi + 1 \/ \A m \in k + 1 .. q - 1 : text[m] # Slash
                        /\ q \in onward
  <2>5. FitsFrom(p, text, pi, onward)
          = {ti \in 1 .. L + 1 : \E q \in ti .. L + 1 :
               /\ next > pi + 1 \/ \A m \in ti .. q - 1 : text[m] # Slash
               /\ q \in onward}
    BY <2>1 DEF FitsFrom, L
  <2>6. k + 1 \in FitsFrom(p, text, pi, onward) <=> \E q \in k + 1 .. L + 1 : Onto(q)
    <3>1. k + 1 \in 1 .. L + 1
      BY <1>1
    <3> QED BY <2>5, <3>1
  <2>7. \A q \in k + 1 .. L + 1 : q - 1 \in k .. L /\ (q - 1) + 1 = q
    BY <1>1
  <2>8. \A j \in k .. L : j + 1 \in k + 1 .. L + 1 /\ (j + 1) - 1 = j
    BY <1>1
  <2>9. ASSUME NEW q \in k + 1 .. L + 1, Onto(q)
        PROVE  \E j \in Leads(part, k, text) : j + 1 \in onward
    <3>1. PICK j \in k .. L : j = q - 1 /\ j + 1 = q
      BY <2>7
    <3>2. Free(j) /\ j + 1 \in onward
      BY <2>9, <3>1
    <3> HIDE DEF Free, Onto
    <3> QED BY <2>4, <3>2
  <2>10. ASSUME NEW j \in Leads(part, k, text), j + 1 \in onward
         PROVE  \E q \in k + 1 .. L + 1 : Onto(q)
    <3>1. j \in k .. L /\ Free(j)
      BY <2>4
    <3>2. PICK q \in k + 1 .. L + 1 : q = j + 1 /\ q - 1 = j
      BY <2>8, <3>1
    <3>3. Onto(q)
      BY <2>10, <3>1, <3>2
    <3> QED BY <3>3
  <2> HIDE DEF Onto
  <2> QED BY <2>6, <2>9, <2>10
<1>3. CASE ~part.many
  <2>1. /\ p[pi] # Star /\ PastElement(p, pi) = next
        /\ \A c \in Codes : Takes(p, pi, c) <=> c \in part.of
    BY <1>3 DEF PartLaid
  <2>2. FitsFrom(p, text, pi, onward)
          = {ti \in 1 .. L : Takes(p, pi, text[ti]) /\ ti + 1 \in onward}
    BY <2>1 DEF FitsFrom, L
  <2>3. Leads(part, k, text) = {j \in {k + 1} : j <= L /\ text[j] \in part.of}
    BY <1>3 DEF Leads, L
  <2>4. k + 1 \in 1 .. L <=> k + 1 <= L
    BY <1>1
  <2>5. k + 1 <= L => (Takes(p, pi, text[k + 1]) <=> text[k + 1] \in part.of)
    BY <1>1, <2>1, <2>4
  <2>6. k + 1 \in FitsFrom(p, text, pi, onward)
          <=> /\ k + 1 <= L /\ text[k + 1] \in part.of
              /\ (k + 1) + 1 \in onward
    BY <2>2, <2>4, <2>5
  <2>7. \A j : j \in Leads(part, k, text) <=> j = k + 1 /\ k + 1 <= L /\ text[k + 1] \in part.of
    BY <2>3
  <2> QED BY <2>6, <2>7
<1> QED BY <1>2, <1>3

\* dowild finds the texts that a pattern means.
LEMMA WildMeans ==
  ASSUME NEW parts, parts \in Seq(Range(parts)), IsPattern(parts), NEW text \in Seq(Codes)
  PROVE  dowild(Characters(parts), text) <=> Fits(parts, text)
<1> DEFINE n == Len(parts)
           L == Len(text)
           p == Characters(parts)
<1>1. n \in Nat /\ DOMAIN parts = 1 .. n /\ L \in Nat /\ text \in Seq(Nat)
  <2>1. text \in Seq(Nat)
    BY CodesText
  <2> QED BY <2>1, LenProperties
<1>2. \A i \in 1 .. n : IsPart(parts[i])
  BY <1>1 DEF IsPattern
<1>3. \A i \in 1 .. n : parts[i].text \in Seq(Nat)
  BY <1>2, PartText
<1>4. PICK at : Laid(p, parts, at)
  BY <1>1, <1>3, CharactersLaid
<1>5. /\ p \in Seq(Nat) /\ at[0] = 0 /\ at[n] = Len(p)
      /\ \A i \in 0 .. n : at[i] \in Nat
  BY <1>4 DEF Laid
<1>6. \A i \in 1 .. n : /\ at[i - 1] + 1 \in 1 .. Len(p)
                        /\ PartLaid(p, at[i - 1] + 1, parts[i], at[i] + 1)
  BY <1>4, PartsLaid
<1>7. PICK w : /\ dowild(p, text) <=> 1 \in w[1]
               /\ \A pi \in 1 .. Len(p) + 2 :
                    w[pi] = IF pi > Len(p) THEN {L + 1}
                            ELSE FitsFrom(p, text, pi, w[PastElement(p, pi)])
  BY <1>1, <1>5, WildIs
<1> HIDE DEF p, n, L
<1> DEFINE W == {z \in (0 .. n) \X (0 .. L) : z[2] + 1 \in w[at[z[1]] + 1]}
<1>8. \A i \in 0 .. n : \A k \in 0 .. L : <<i, k>> \in W <=> k + 1 \in w[at[i] + 1]
  OBVIOUS
<1>9. ASSUME NEW k \in 0 .. L PROVE <<n, k>> \in W <=> k = L
  <2>1. n \in 0 .. n /\ Len(p) \in Nat
    BY <1>1, <1>5
  <2>2. at[n] + 1 \in 1 .. Len(p) + 2 /\ at[n] + 1 > Len(p)
    BY <1>5, <2>1
  <2>3. w[at[n] + 1] = {L + 1}
    BY <1>7, <2>2
  <2>4. k + 1 = L + 1 <=> k = L
    BY <1>1
  <2> HIDE DEF W
  <2> QED BY <1>8, <2>1, <2>3, <2>4
<1>10. ASSUME NEW i \in 1 .. n, NEW k \in 0 .. L
       PROVE  <<i - 1, k>> \in W <=> \E j \in Leads(parts[i], k, text) : <<i, j>> \in W
  <2>1. i - 1 \in 0 .. n /\ i \in 0 .. n
    BY <1>1
  <2>2. PICK pi \in 1 .. Len(p) : pi = at[i - 1] + 1
    BY <1>6
  <2>3. PICK part : part = parts[i]
    OBVIOUS
  <2>4. PartLaid(p, pi, part, at[i] + 1)
    BY <1>6, <2>2, <2>3
  <2>5. PastElement(p, pi) = at[i] + 1
    BY <2>4 DEF PartLaid
  <2>6. pi \in 1 .. Len(p) + 2 /\ ~(pi > Len(p))
    BY <1>5
  <2>7. w[pi] = FitsFrom(p, text, pi, w[at[i] + 1])
    BY <1>7, <2>5, <2>6
  <2>8. k + 1 \in w[pi] <=> \E j \in Leads(part, k, text) : j + 1 \in w[at[i] + 1]
    BY <1>5, <2>4, <2>7, LeadsAsFits DEF L
  <2>9. \A j \in Leads(part, k, text) : j \in 0 .. L
    BY <1>1 DEF Leads, L
  <2> HIDE DEF W
  <2> QED BY <1>8, <2>1, <2>2, <2>3, <2>8, <2>9
<1> HIDE DEF W
<1>11. Fits(parts, text) <=> <<0, 0>> \in W
  BY <1>1, <1>9, <1>10, FitsBy DEF n, L
<1>12. <<0, 0>> \in W <=> 1 \in w[1]
  <2>1. 0 \in 0 .. n /\ 0 \in 0 .. L /\ 0 + 1 = 1
    BY <1>1
  <2> QED BY <1>5, <1>8, <2>1
<1> QED BY <1>7, <1>11, <1>12 DEF p

-----------------------------------------------------------------------------
(* What rules mean.                                                        *)

\* The text of a path, component after component.
LEMMA TextSteps ==
  ASSUME NEW path \in Seq(Seq(Nat)), path # <<>>
  PROVE  \E text \in [1 .. Len(path) -> Seq(Nat)] :
           /\ Text(path) = text[Len(path)] /\ text[1] = path[1]
           /\ \A k \in 2 .. Len(path) : text[k] = text[k - 1] \o <<Slash>> \o path[k]
<1> DEFINE n == Len(path)
           g == [p \in (1 .. n - 1) \X Seq(Nat) |-> p[2] \o <<Slash>> \o path[p[1] + 1]]
           eq(t) == t = [k \in 1 .. n |-> IF k = 1 THEN path[1]
                                          ELSE t[k - 1] \o <<Slash>> \o path[k]]
           text == CHOOSE t : eq(t)
<1>1. n \in Nat /\ n - 1 \in Nat /\ 1 \in 1 .. n /\ \A k \in 1 .. n : path[k] \in Seq(Nat)
  OBVIOUS
<1>2. \A s \in Seq(Nat), k \in 1 .. n : s \o <<Slash>> \o path[k] \in Seq(Nat)
  <2>1. <<Slash>> \in Seq(Nat)
    BY DEF Slash
  <2> HIDE DEF n
  <2> QED BY <1>1, <2>1
<1>3. g \in [(1 .. n - 1) \X Seq(Nat) -> Seq(Nat)]
  <2>1. \A p \in (1 .. n - 1) \X Seq(Nat) : p[2] \in Seq(Nat) /\ p[1] + 1 \in 1 .. n
    <3> HIDE DEF n
    <3> QED BY <1>1
  <2> HIDE DEF n
  <2> QED BY <1>2, <2>1
<1>4. path[1] \in Seq(Nat)
  BY <1>1
<1>5. PICK h \in [0 .. n - 1 -> Seq(Nat)] :
        h[0] = path[1] /\ \A k \in 1 .. n - 1 : h[k] = g[<<k, h[k - 1]>>]
  <2> HIDE DEF n, g
  <2>1. Iterated(n - 1, Seq(Nat), path[1], g)
    BY <1>1, <1>3, <1>4, Iterates
  <2> QED BY <2>1 DEF Iterated
<1> DEFINE t == [k \in 1 .. n |-> h[k - 1]]
<1>6. t \in [1 .. n -> Seq(Nat)]
  <2>1. \A k \in 1 .. n : k - 1 \in 0 .. n - 1
    BY <1>1
  <2> HIDE DEF n
  <2> QED BY <1>5, <2>1
<1>7. ASSUME NEW k \in 2 .. n
      PROVE  t[k] = t[k - 1] \o <<Slash>> \o path[k]
  <2>1. /\ k - 1 \in 1 .. n - 1 /\ k - 1 \in 1 .. n /\ (k - 1) + 1 = k /\ k - 2 \in 0 .. n - 1
        /\ (k - 1) - 1 = k - 2 /\ k \in 1 .. n
    BY <1>1
  <2>2. t[k] = h[k - 1] /\ t[k - 1] = h[k - 2] /\ h[k - 2] \in Seq(Nat)
    BY <1>1, <1>5, <2>1
  <2>3. <<k - 1, h[k - 2]>> \in (1 .. n - 1) \X Seq(Nat)
    BY <2>1, <2>2
  <2>4. h[k - 1] = g[<<k - 1, h[k - 2]>>]
    BY <1>5, <2>1
  <2>5. g[<<k - 1, h[k - 2]>>] = h[k - 2] \o <<Slash>> \o path[k]
    <3> HIDE DEF n
    <3> QED BY <2>1, <2>3
  <2> HIDE DEF t, g, n
  <2> QED BY <2>2, <2>4, <2>5
<1>8. t[1] = path[1]
  BY <1>1, <1>5
<1> HIDE DEF t, g
<1>9. \A k \in 1 .. n : t[k] = IF k = 1 THEN path[1] ELSE t[k - 1] \o <<Slash>> \o path[k]
  <2> SUFFICES ASSUME NEW k \in 1 .. n
               PROVE  t[k] = IF k = 1 THEN path[1] ELSE t[k - 1] \o <<Slash>> \o path[k]
    OBVIOUS
  <2>1. CASE k = 1
    BY <1>8, <2>1
  <2>2. CASE k # 1
    <3>1. k \in 2 .. n
      BY <1>1, <2>2
    <3> QED BY <1>7, <2>2, <3>1
  <2> QED BY <2>1, <2>2
<1>10. eq(t)
  <2>1. t = [k \in 1 .. n |-> t[k]]
    BY <1>6
  <2> HIDE DEF n
  <2> QED BY <1>9, <2>1
<1>11. eq(text)
  <2> HIDE DEF eq
  <2> QED BY <1>10
<1>12. Text(path) = text[n]
  BY DEF Text
<1> HIDE DEF text
<1> DEFINE T == {j \in 0 .. n : j = 0 \/ text[j] = t[j]}
<1>13. \A k \in 1 .. n : text[k] = IF k = 1 THEN path[1] ELSE text[k - 1] \o <<Slash>> \o path[k]
  <2> HIDE DEF n
  <2> QED BY <1>11
<1> HIDE DEF eq, n
<1>14. 0 \in T
  BY <1>1
<1>15. ASSUME NEW j \in 1 .. n, j - 1 \in T
       PROVE  j \in T
  <2>1. j \in 0 .. n
    OBVIOUS
  <2>2. CASE j = 1
    BY <1>8, <1>13, <2>1, <2>2
  <2>3. CASE j # 1
    <3>1. text[j - 1] = t[j - 1] /\ j \in 2 .. n
      BY <1>15, <2>3
    <3> QED BY <1>7, <1>13, <2>1, <2>3, <3>1
  <2> QED BY <2>2, <2>3
<1> HIDE DEF T
<1>16. \A j \in 0 .. n : j \in T
  BY <1>1, <1>14, <1>15, UpTo
<1>17. n \in T /\ n # 0
  BY <1>1, <1>16
<1>18. text[n] = t[n]
  BY <1>17 DEF T
<1> QED BY <1>6, <1>7, <1>8, <1>12, <1>18 DEF n

\* The path of the directory above.
Up(path) == SubSeq(path, 1, Len(path) - 1)

\* A text is that of the directory above, a slash, and the last component.
LEMMA TextUp ==
  ASSUME NEW path \in Seq(Seq(Nat)), path # <<>>
  PROVE  /\ Len(path) \in Nat \ {0} /\ path[Len(path)] \in Seq(Nat)
         /\ Up(path) \in Seq(Seq(Nat)) /\ Len(Up(path)) = Len(path) - 1
         /\ Len(path) = 1 => Up(path) = <<>> /\ Text(path) = path[1]
         /\ Len(path) # 1 => /\ Up(path) # <<>>
                             /\ Text(path) = Text(Up(path)) \o <<Slash>> \o path[Len(path)]
<1>1. PICK n : n = Len(path)
  OBVIOUS
<1>2. PICK up : up = Up(path)
  OBVIOUS
<1>3. n \in Nat \ {0} /\ path[n] \in Seq(Nat)
  BY <1>1
<1>4. /\ up \in Seq(Seq(Nat)) /\ Len(up) = n - 1 /\ \A k \in 1 .. n - 1 : up[k] = path[k]
  BY <1>1, <1>2, <1>3 DEF Up
<1>5. PICK text \in [1 .. n -> Seq(Nat)] :
           /\ Text(path) = text[n] /\ text[1] = path[1]
           /\ \A k \in 2 .. n : text[k] = text[k - 1] \o <<Slash>> \o path[k]
  BY <1>1, TextSteps
<1>6. CASE n = 1
  <2>1. up = <<>>
    BY <1>4, <1>6
  <2> QED BY <1>1, <1>2, <1>3, <1>4, <1>5, <1>6, <2>1
<1>7. CASE n # 1
  <2>1. up # <<>> /\ n \in 2 .. n /\ n - 1 \in Nat \ {0}
    BY <1>3, <1>4, <1>7
  <2>2. PICK prev :
           /\ Text(up) = prev[n - 1] /\ prev[1] = up[1]
           /\ \A k \in 2 .. n - 1 : prev[k] = prev[k - 1] \o <<Slash>> \o up[k]
    <3>1. \E prev \in [1 .. Len(up) -> Seq(Nat)] :
           /\ Text(up) = prev[Len(up)] /\ prev[1] = up[1]
           /\ \A k \in 2 .. Len(up) : prev[k] = prev[k - 1] \o <<Slash>> \o up[k]
      BY <1>4, <2>1, TextSteps
    <3>2. Len(up) = n - 1
      BY <1>4
    <3> QED BY <3>1, <3>2
  <2> DEFINE T == {j \in 0 .. n - 1 : j = 0 \/ prev[j] = text[j]}
  <2>3. 0 \in T
    BY <2>1
  <2>4. ASSUME NEW j \in 1 .. n - 1, j - 1 \in T
        PROVE  j \in T
    <3>1. j \in 0 .. n - 1 /\ up[j] = path[j]
      BY <1>4
    <3>2. CASE j = 1
      BY <1>5, <2>2, <3>1, <3>2
    <3>3. CASE j # 1
      <4>1. prev[j - 1] = text[j - 1] /\ j \in 2 .. n - 1 /\ j \in 2 .. n
        BY <1>3, <2>4, <3>3
      <4> QED BY <1>5, <2>2, <3>1, <4>1
    <3> QED BY <3>2, <3>3
  <2> HIDE DEF T
  <2>5. \A j \in 0 .. n - 1 : j \in T
    BY <2>1, <2>3, <2>4, UpTo
  <2>6. n - 1 \in T /\ n - 1 # 0
    BY <2>1, <2>5
  <2>7. Text(up) = text[n - 1]
    <3>1. prev[n - 1] = text[n - 1]
      BY <2>6 DEF T
    <3> QED BY <2>2, <3>1
  <2>8. Text(path) = Text(up) \o <<Slash>> \o path[n]
    BY <1>5, <2>1, <2>7
  <2> QED BY <1>1, <1>2, <1>3, <1>4, <1>7, <2>1, <2>8
<1> QED BY <1>6, <1>7

\* Strings are the same if their characters are.
LEMMA SameText ==
  ASSUME NEW S, NEW s \in Seq(S), NEW t \in Seq(S), Len(s) = Len(t),
         \A k \in 1 .. Len(s) : s[k] = t[k]
  PROVE  s = t
<1>1. s = [k \in 1 .. Len(s) |-> s[k]]
  OBVIOUS
<1>2. t = [k \in 1 .. Len(t) |-> t[k]]
  OBVIOUS
<1>3. PICK n : n = Len(s) /\ n = Len(t)
  OBVIOUS
<1>4. [k \in 1 .. n |-> s[k]] = [k \in 1 .. n |-> t[k]]
  BY <1>3
<1> QED BY <1>1, <1>2, <1>3, <1>4, Zenon

\* Two strings with a slash between them.
Spliced(t, s, c) ==
  /\ t \in Seq(Nat) /\ Len(t) = Len(s) + 1 + Len(c)
  /\ \A k \in 1 .. Len(s) : t[k] = s[k]
  /\ t[Len(s) + 1] = Slash
  /\ \A k \in 1 .. Len(c) : t[Len(s) + 1 + k] = c[k]

\* That is what their concatenation is.
LEMMA SplicedIs ==
  ASSUME NEW s \in Seq(Nat), NEW c \in Seq(Nat)
  PROVE  Spliced(s \o <<Slash>> \o c, s, c)
<1>0. PICK t : t = s \o <<Slash>> \o c
  OBVIOUS
<1>1. <<Slash>> \in Seq(Nat) /\ Len(<<Slash>>) = 1 /\ <<Slash>>[1] = Slash
  BY DEF Slash
<1>2. PICK u : u = s \o <<Slash>>
  OBVIOUS
<1>3. /\ u \in Seq(Nat) /\ Len(u) = Len(s) + 1 /\ u[Len(s) + 1] = Slash
      /\ \A k \in 1 .. Len(s) : u[k] = s[k]
  BY <1>1, <1>2
<1>4. t = u \o c
  BY <1>0, <1>2
<1>5. u \in Seq(Nat)
  BY <1>3
<1>6. /\ t \in Seq(Nat) /\ Len(t) = Len(u) + Len(c)
      /\ \A k \in 1 .. Len(u) : t[k] = u[k]
  BY <1>4, <1>5
<1>7. \A k \in 1 .. Len(c) : t[Len(u) + k] = c[k]
  BY <1>4, <1>5
<1>8. Len(s) \in Nat /\ Len(c) \in Nat
  OBVIOUS
<1>9. 1 .. Len(u) = (1 .. Len(s)) \cup {Len(s) + 1}
  BY <1>3, <1>8
<1> QED BY <1>0, <1>3, <1>6, <1>7, <1>9 DEF Spliced

\* A pattern without special characters consists of characters of its own.
LEMMA PlainChars ==
  ASSUME NEW parts, parts \in Seq(Range(parts)), IsPattern(parts), NEW at,
         Laid(Characters(parts), parts, at), ~Has(Characters(parts), {Star, Quest, Open}),
         NEW i \in 1 .. Len(parts)
  PROVE  \E c \in Codes : parts[i] = Char(c)
<1> DEFINE p == Characters(parts)
<1>1. IsPart(parts[i])
  <2>1. i \in DOMAIN parts
    BY LenProperties
  <2> QED BY <2>1 DEF IsPattern
<1>2. PICK k : k = at[i - 1]
  OBVIOUS
<1>3. /\ k \in Nat /\ p \in Seq(Nat) /\ k + Len(parts[i].text) <= Len(p)
      /\ \A m \in 1 .. Len(parts[i].text) : p[k + m] = parts[i].text[m]
  <2>1. Len(parts) \in Nat
    BY LenProperties
  <2>2. i - 1 \in 0 .. Len(parts)
    BY <2>1
  <2> QED BY <1>2, <2>2 DEF Laid
<1>4. Len(parts[i].text) \in Nat \ {0}
  BY <1>1, PartText
<1>5. k + 1 \in DOMAIN p /\ p[k + 1] = parts[i].text[1]
  <2>1. PICK l \in Nat \ {0} : l = Len(parts[i].text)
    BY <1>4
  <2>2. 1 \in 1 .. l /\ k + 1 \in 1 .. Len(p)
    BY <1>3, <2>1
  <2> QED BY <1>3, <2>1, <2>2
<1> HIDE DEF p
<1>6. parts[i].text[1] \notin {Star, Quest, Open}
  BY <1>5 DEF Has, p
<1>7. parts[i] # AnyChar /\ parts[i] # AnyName /\ parts[i] # AnyPath
  <2>1. AnyChar.text[1] = Quest /\ AnyName.text[1] = Star /\ AnyPath.text[1] = Star
    BY DEF AnyChar, AnyName, AnyPath, Part
  <2> QED BY <1>6, <2>1
<1>8. \A lo, hi : parts[i] # NoneOf(lo, hi) /\ parts[i] # OneOf(lo, hi)
  <2>1. \A lo, hi : NoneOf(lo, hi).text[1] = Open /\ OneOf(lo, hi).text[1] = Open
    BY DEF NoneOf, OneOf, Part
  <2> QED BY <1>6, <2>1
<1>9. \E c \in Codes \ {Star, Quest, Open} : parts[i] = Char(c)
  BY <1>1, <1>7, <1>8, Zenon DEF IsPart
<1> QED BY <1>9

\* Such a pattern means the text that it is.
LEMMA PlainMeans ==
  ASSUME NEW parts, parts \in Seq(Range(parts)), IsPattern(parts), NEW text \in Seq(Codes),
         ~Has(Characters(parts), {Star, Quest, Open})
  PROVE  Characters(parts) = text <=> Fits(parts, text)
<1> DEFINE n == Len(parts)
           L == Len(text)
           p == Characters(parts)
<1>1. n \in Nat /\ DOMAIN parts = 1 .. n /\ L \in Nat /\ text \in Seq(Nat)
  <2>1. text \in Seq(Nat)
    BY CodesText
  <2> QED BY <2>1, LenProperties
<1>2. \A i \in 1 .. n : IsPart(parts[i])
  BY <1>1 DEF IsPattern
<1>3. \A i \in 1 .. n : parts[i].text \in Seq(Nat)
  BY <1>2, PartText
<1>4. PICK at : Laid(p, parts, at)
  BY <1>1, <1>3, CharactersLaid
<1>5. \A i \in 1 .. n : \E c \in Codes : parts[i] = Char(c)
  BY <1>4, PlainChars
<1>6. p \in Seq(Nat) /\ at[0] = 0 /\ at[n] = Len(p) /\ \A i \in 0 .. n : at[i] \in Nat
  BY <1>4 DEF Laid
<1> HIDE DEF n, L, p
<1>7. ASSUME NEW i \in 1 .. n
      PROVE  at[i] = at[i - 1] + 1 /\ parts[i] = Char(p[at[i - 1] + 1])
  <2>1. PICK c \in Codes : parts[i] = Char(c)
    BY <1>5
  <2>2. parts[i].text = <<c>>
    BY <2>1 DEF Char, Part
  <2>3. Len(parts[i].text) = 1 /\ parts[i].text[1] = c /\ 1 \in 1 .. 1
    BY <2>2
  <2> QED BY <1>4, <2>1, <2>3 DEF Laid, n
<1>8. \A i \in 0 .. n : at[i] = i
  <2> DEFINE T == {i \in 0 .. n : at[i] = i}
  <2>1. 0 \in T
    BY <1>1, <1>6
  <2>2. ASSUME NEW i \in 1 .. n, i - 1 \in T PROVE i \in T
    <3>1. at[i] = (i - 1) + 1
      BY <1>7, <2>2
    <3> QED BY <1>1, <3>1
  <2> HIDE DEF T
  <2>3. \A i \in 0 .. n : i \in T
    BY <1>1, <2>1, <2>2, UpTo
  <2> QED BY <2>3 DEF T
<1>9. Len(p) = n
  BY <1>1, <1>6, <1>8
<1>10. \A i \in 1 .. n : parts[i] = Char(p[i])
  <2> SUFFICES ASSUME NEW i \in 1 .. n PROVE parts[i] = Char(p[i])
    OBVIOUS
  <2>1. i - 1 \in 0 .. n /\ (i - 1) + 1 = i
    BY <1>1
  <2>2. at[i - 1] + 1 = i
    BY <1>8, <2>1
  <2> QED BY <1>7, <2>2
<1> DEFINE Left(i, k) == /\ L - k = n - i
                         /\ \A q \in i + 1 .. n : text[q + (k - i)] = p[q]
           W == {z \in (0 .. n) \X (0 .. L) : Left(z[1], z[2])}
<1>11. \A i \in 0 .. n : \A k \in 0 .. L : <<i, k>> \in W <=> Left(i, k)
  <2> HIDE DEF Left
  <2> QED OBVIOUS
<1>12. ASSUME NEW k \in 0 .. L PROVE <<n, k>> \in W <=> k = L
  <2>1. n \in 0 .. n /\ (L - k = n - n <=> k = L) /\ n + 1 .. n = {}
    BY <1>1
  <2>2. Left(n, k) <=> k = L
    BY <2>1
  <2> HIDE DEF W, Left
  <2> QED BY <1>11, <2>1, <2>2
<1>13. ASSUME NEW i \in 1 .. n, NEW k \in 0 .. L
       PROVE  <<i - 1, k>> \in W <=> \E j \in Leads(parts[i], k, text) : <<i, j>> \in W
  <2>1. /\ i - 1 \in 0 .. n /\ i \in 0 .. n /\ i \in Int /\ k \in Int
        /\ k + 1 <= L <=> k + 1 \in 0 .. L
    BY <1>1
  <2>2. Leads(parts[i], k, text) = {j \in {k + 1} : j <= L /\ text[j] = p[i]}
    <3>1. PICK part : part = parts[i]
      OBVIOUS
    <3>2. part = [many |-> FALSE, of |-> {p[i]}, text |-> <<p[i]>>]
      BY <1>10, <3>1 DEF Char, Part
    <3>3. part.many = FALSE /\ part.of = {p[i]}
      BY <3>2
    <3>4. ~part.many
      BY <3>3, Zenon
    <3>5. Leads(part, k, text) = {j \in {k + 1} : j <= L /\ text[j] \in part.of}
      BY <3>4, Zenon DEF Leads, L
    <3>6. Leads(part, k, text) = {j \in {k + 1} : j <= L /\ text[j] = p[i]}
      BY <3>3, <3>5
    <3> QED BY <3>1, <3>6
  <2>3. Left(i - 1, k) <=> k + 1 <= L /\ text[k + 1] = p[i] /\ Left(i, k + 1)
    <3>1. L - k = n - (i - 1) <=> L - (k + 1) = n - i
      BY <1>1, <2>1
    <3>2. L - k = n - (i - 1) => k + 1 <= L
      BY <1>1, <2>1
    <3>3. (i - 1) + 1 .. n = {i} \cup (i + 1 .. n)
      BY <1>1, <2>1
    <3>4. i + (k - (i - 1)) = k + 1 /\ \A q \in i + 1 .. n : q + (k - (i - 1)) = q + ((k + 1) - i)
      BY <1>1, <2>1
    <3>5. (\A q \in (i - 1) + 1 .. n : text[q + (k - (i - 1))] = p[q])
            <=> /\ text[k + 1] = p[i]
                /\ \A q \in i + 1 .. n : text[q + ((k + 1) - i)] = p[q]
      BY <3>3, <3>4
    <3> QED BY <3>1, <3>2, <3>5
  <2> HIDE DEF W, Left
  <2>4. <<i - 1, k>> \in W <=> Left(i - 1, k)
    BY <1>11, <2>1
  <2>5. k + 1 <= L => (<<i, k + 1>> \in W <=> Left(i, k + 1))
    BY <1>11, <2>1
  <2>6. (\E j \in Leads(parts[i], k, text) : <<i, j>> \in W)
          <=> k + 1 <= L /\ text[k + 1] = p[i] /\ <<i, k + 1>> \in W
    BY <2>2
  <2> QED BY <2>3, <2>4, <2>5, <2>6
<1> HIDE DEF W
<1>14. Fits(parts, text) <=> <<0, 0>> \in W
  BY <1>1, <1>12, <1>13, FitsBy DEF n, L
<1>15. <<0, 0>> \in W <=> L = n /\ \A q \in 1 .. n : text[q] = p[q]
  <2>1. 0 \in 0 .. n /\ 0 \in 0 .. L /\ (L - 0 = n - 0 <=> L = n) /\ 0 + 1 .. n = 1 .. n
    BY <1>1
  <2>2. \A q \in 1 .. n : q + (0 - 0) = q
    BY <1>1
  <2>3. Left(0, 0) <=> L = n /\ \A q \in 1 .. n : text[q] = p[q]
    BY <2>1, <2>2
  <2> HIDE DEF Left
  <2> QED BY <1>11, <2>1, <2>3
<1>16. p = text <=> L = n /\ \A q \in 1 .. n : text[q] = p[q]
  <2>1. ASSUME p = text PROVE L = n /\ \A q \in 1 .. n : text[q] = p[q]
    BY <1>9, <2>1 DEF L
  <2>2. ASSUME L = n, \A q \in 1 .. n : text[q] = p[q] PROVE p = text
    <3>1. Len(text) = Len(p) /\ \A q \in 1 .. Len(text) : text[q] = p[q]
      BY <1>9, <2>2 DEF L
    <3> QED BY <1>1, <1>6, <3>1, SameText
  <2> QED BY <2>1, <2>2
<1> QED BY <1>14, <1>15, <1>16 DEF p

\* A pattern is read as it is written: it has no slash at its end.
LEMMA RuleRead ==
  ASSUME NEW sign, NEW parts, parts \in Seq(Range(parts)), IsPattern(parts)
  PROVE  ParseRule(<<sign, Characters(parts)>>)
           = [include |-> sign = "+ ", pattern |-> Characters(parts),
              wild |-> Has(Characters(parts), {Star, Quest, Open})]
<1> DEFINE n == Len(parts)
<1>1. n \in Nat /\ DOMAIN parts = 1 .. n /\ (n = 0 <=> parts = <<>>)
  <2>1. n = 0 <=> parts = <<>>
    OBVIOUS
  <2> QED BY <2>1, LenProperties
<1>2. \A i \in 1 .. n : IsPart(parts[i]) /\ parts[i].text \in Seq(Nat)
  BY <1>1, PartText DEF IsPattern
<1>3. PICK p : p = Characters(parts)
  OBVIOUS
<1>4. PICK at : Laid(p, parts, at)
  BY <1>1, <1>2, <1>3, CharactersLaid
<1>5. ASSUME p # <<>>, p[Len(p)] = Slash PROVE FALSE
  <2>1. p \in Seq(Nat) /\ at[n] = Len(p) /\ at[0] = 0 /\ Len(p) \in Nat
    BY <1>4 DEF Laid
  <2>2. n # 0
    BY <1>5, <2>1
  <2>3. n \in 1 .. n /\ n - 1 \in 0 .. n /\ parts # <<>>
    BY <1>1, <2>2
  <2>4. PICK l \in Nat \ {0} : l = Len(parts[n].text)
    BY <1>2, <2>3, PartText
  <2>5. /\ at[n] = at[n - 1] + l /\ at[n - 1] \in Nat
        /\ \A m \in 1 .. l : p[at[n - 1] + m] = parts[n].text[m]
    BY <1>4, <2>3, <2>4 DEF Laid
  <2>6. l \in 1 .. l
    OBVIOUS
  <2>7. p[Len(p)] = parts[n].text[l]
    BY <2>1, <2>5, <2>6
  <2>8. parts[n] = Char(Slash)
    BY <1>2, <1>5, <2>3, <2>4, <2>7, PartText
  <2> QED BY <2>3, <2>8 DEF IsPattern
<1>6. PICK line : line = <<sign, p>>
  OBVIOUS
<1>7. line[1] = sign /\ line[2] = p
  BY <1>6
<1>8. ParseRule(line) = [include |-> sign = "+ ", pattern |-> p,
                         wild |-> Has(p, {Star, Quest, Open})]
  BY <1>5, <1>7, Zenon DEF ParseRule
<1> QED BY <1>3, <1>6, <1>8

\* The last component of a name is the last of its text.
LEMMA BaseIs ==
  ASSUME NEW path \in Seq(Seq(Nat)), path # <<>>, \A k \in DOMAIN path : IsComponent(path[k])
  PROVE  Base(Text(path)) = Last(path) /\ Last(path) = path[Len(path)]
<1>1. PICK n : n = Len(path)
  OBVIOUS
<1>2. PICK c : c = path[n]
  OBVIOUS
<1>3. PICK t : t = Text(path)
  OBVIOUS
<1>4. n \in Nat \ {0} /\ n \in DOMAIN path /\ c \in Seq(Nat) /\ IsComponent(c)
  BY <1>1, <1>2
<1>5. \A k \in DOMAIN c : c[k] # Slash
  BY <1>4 DEF IsComponent, Has
<1>6. Last(path) = c
  BY <1>1, <1>2 DEF Last
<1>7. CASE n = 1
  <2>1. t = c
    BY <1>1, <1>2, <1>3, <1>7, TextUp
  <2>2. {k \in DOMAIN t : t[k] = Slash} = {}
    BY <1>5, <2>1
  <2> QED BY <1>1, <1>2, <1>3, <1>6, <2>1, <2>2 DEF Base
<1>8. CASE n # 1
  <2>1. PICK s : s = Text(Up(path))
    OBVIOUS
  <2>2. s \in Seq(Nat)
    <3>1. Up(path) \in Seq(Seq(Nat))
      BY TextUp
    <3> QED BY <2>1, <3>1, TextType
  <2>3. t = s \o <<Slash>> \o c
    BY <1>1, <1>2, <1>3, <1>8, <2>1, TextUp
  <2>4. Spliced(t, s, c)
    BY <1>4, <2>2, <2>3, SplicedIs
  <2>5. PICK a \in Nat, b \in Nat : a = Len(s) /\ b = Len(c)
    BY <1>4, <2>2
  <2>6. /\ t \in Seq(Nat) /\ Len(t) = a + 1 + b /\ t[a + 1] = Slash
        /\ \A k \in 1 .. b : t[a + 1 + k] = c[k]
    BY <2>4, <2>5 DEF Spliced
  <2> DEFINE cut == {k \in DOMAIN t : t[k] = Slash}
             greatest == CHOOSE k \in cut : \A j \in cut : j <= k
  <2>7. DOMAIN t = 1 .. a + 1 + b /\ DOMAIN c = 1 .. b
    BY <1>4, <2>5, <2>6
  <2>8. a + 1 \in cut
    BY <2>6, <2>7
  <2>9. ASSUME NEW j \in cut PROVE j <= a + 1
    <3> SUFFICES ASSUME ~(j <= a + 1) PROVE FALSE
      OBVIOUS
    <3>1. j \in 1 .. a + 1 + b
      BY <2>7
    <3>2. j - (a + 1) \in 1 .. b /\ a + 1 + (j - (a + 1)) = j
      BY <3>1
    <3>3. t[j] = c[j - (a + 1)]
      BY <2>6, <3>2
    <3> QED BY <1>5, <2>7, <3>2, <3>3
  <2>10. cut \subseteq Nat
    BY <2>7
  <2>11. greatest = a + 1
    <3>1. greatest \in cut /\ \A j \in cut : j <= greatest
      <4> HIDE DEF cut
      <4> QED BY <2>8, <2>9
    <3> HIDE DEF greatest, cut
    <3>2. greatest <= a + 1 /\ a + 1 <= greatest /\ greatest \in Nat
      BY <2>8, <2>9, <2>10, <3>1
    <3> QED BY <3>2
  <2>12. cut # {}
    <3> HIDE DEF cut
    <3> QED BY <2>8
  <2>13. Base(t) = SubSeq(t, 1 + greatest, Len(t))
    BY <2>12 DEF Base
  <2> HIDE DEF greatest, cut
  <2>14. PICK u : u = SubSeq(t, a + 2, a + 1 + b)
    OBVIOUS
  <2>15. Base(t) = u
    <3>1. 1 + (a + 1) = a + 2
      OBVIOUS
    <3> QED BY <2>6, <2>11, <2>13, <2>14, <3>1
  <2>16. u \in Seq(Nat) /\ Len(u) = b
    <3>1. \A i \in a + 2 .. a + 1 + b : t[i] \in Nat
      BY <2>6
    <3>2. Len(u) = IF a + 2 <= a + 1 + b THEN (a + 1 + b) - (a + 2) + 1 ELSE 0
      BY <2>14, <3>1, SubSeqProperties
    <3>3. (IF a + 2 <= a + 1 + b THEN (a + 1 + b) - (a + 2) + 1 ELSE 0) = b
      OBVIOUS
    <3> QED BY <2>14, <3>1, <3>2, <3>3, SubSeqProperties
  <2>17. \A k \in 1 .. b : u[k] = c[k]
    <3> SUFFICES ASSUME NEW k \in 1 .. b PROVE u[k] = c[k]
      OBVIOUS
    <3>1. u[k] = t[a + 2 + k - 1]
      BY <2>6, <2>14
    <3>2. a + 2 + k - 1 = a + 1 + k
      OBVIOUS
    <3> QED BY <2>6, <3>1, <3>2
  <2>18. u = c
    BY <1>4, <2>5, <2>16, <2>17, SameText
  <2> QED BY <1>1, <1>2, <1>3, <1>6, <2>15, <2>18
<1> QED BY <1>7, <1>8

\* The text of a path consists of codes if its components do.
LEMMA TextCodes ==
  ASSUME NEW path \in Seq(Seq(Codes))
  PROVE  Text(path) \in Seq(Codes)
<1>1. PICK n : n = Len(path)
  OBVIOUS
<1>2. n \in Nat /\ \A k \in 1 .. n : path[k] \in Seq(Codes)
  BY <1>1
<1>3. CASE path = <<>>
  BY <1>3, JobsOK DEF Text
<1>4. CASE path # <<>>
  <2>1. path \in Seq(Seq(Nat))
    BY CodesText
  <2>2. PICK text : /\ Text(path) = text[n] /\ text[1] = path[1]
                    /\ \A k \in 2 .. n : text[k] = text[k - 1] \o <<Slash>> \o path[k]
    BY <1>1, <1>4, <2>1, TextSteps
  <2>3. n # 0
    BY <1>1, <1>4
  <2> DEFINE T == {j \in 0 .. n : j = 0 \/ text[j] \in Seq(Codes)}
  <2>4. 0 \in T
    BY <1>2
  <2>5. ASSUME NEW j \in 1 .. n, j - 1 \in T PROVE j \in T
    <3>1. j \in 0 .. n /\ path[j] \in Seq(Codes)
      BY <1>2
    <3>2. CASE j = 1
      BY <2>2, <3>1, <3>2
    <3>3. CASE j # 1
      <4>1. text[j - 1] \in Seq(Codes) /\ j \in 2 .. n
        BY <1>2, <2>5, <3>3
      <4>2. <<Slash>> \in Seq(Codes)
        BY CodesOK
      <4>3. text[j - 1] \o <<Slash>> \o path[j] \in Seq(Codes)
        BY <3>1, <4>1, <4>2
      <4> QED BY <2>2, <3>1, <4>1, <4>3
    <3> QED BY <3>2, <3>3
  <2> HIDE DEF T
  <2>6. \A j \in 0 .. n : j \in T
    BY <1>2, <2>4, <2>5, UpTo
  <2>7. n \in 0 .. n
    BY <1>2
  <2> QED BY <2>2, <2>3, <2>6, <2>7 DEF T
<1> QED BY <1>3, <1>4

\* A rule matches the names it is about.
About(parts, name) ==
  LET whole == Has(Characters(parts), {Slash}) \/ name = <<>>
  IN Fits(parts, IF whole THEN Text(name) ELSE Last(name))

\* This is what matches makes of a rule that was read (ParseRule): Fits, by dowild
\* or as plain text, of the whole name or of its last component.
LEMMA RuleAbout ==
  ASSUME NEW sign, NEW parts, parts \in Seq(Range(parts)), IsPattern(parts),
         NEW name \in Seq(Seq(Codes)), \A k \in DOMAIN name : IsComponent(name[k])
  PROVE  RuleMatches(ParseRule(<<sign, Characters(parts)>>), Text(name)) <=> About(parts, name)
<1> DEFINE p == Characters(parts)
           text == IF Has(p, {Slash}) \/ name = <<>> THEN Text(name) ELSE Last(name)
           rule == ParseRule(<<sign, p>>)
<1>1. /\ rule = [include |-> sign = "+ ", pattern |-> p, wild |-> Has(p, {Star, Quest, Open})]
  BY RuleRead
<1> HIDE DEF rule, p
<1>2. rule.pattern = p /\ rule.wild = Has(p, {Star, Quest, Open})
  BY <1>1
<1>3. name \in Seq(Seq(Nat))
  BY CodesText
<1>4. text = IF Has(p, {Slash}) THEN Text(name) ELSE Base(Text(name))
  <2>1. CASE Has(p, {Slash})
    BY <2>1
  <2>2. CASE ~Has(p, {Slash}) /\ name = <<>>
    <3>1. Text(name) = <<46>>
      BY <2>2 DEF Text, Dot
    <3>2. {k \in DOMAIN <<46>> : <<46>>[k] = Slash} = {}
      BY DEF Slash
    <3>3. Base(<<46>>) = <<46>>
      BY <3>2 DEF Base
    <3> QED BY <2>2, <3>1, <3>3
  <2>3. CASE ~Has(p, {Slash}) /\ name # <<>>
    <3>1. Base(Text(name)) = Last(name)
      BY <1>3, <2>3, BaseIs
    <3> QED BY <2>3, <3>1
  <2> QED BY <2>1, <2>2, <2>3
<1>5. text \in Seq(Codes)
  <2>1. Text(name) \in Seq(Codes)
    BY TextCodes
  <2>2. name # <<>> => Last(name) \in Seq(Codes)
    BY DEF Last
  <2> QED BY <2>1, <2>2
<1> HIDE DEF text
<1>6. dowild(p, text) <=> Fits(parts, text)
  BY <1>5, WildMeans DEF p
<1>7. ~Has(p, {Star, Quest, Open}) => (p = text <=> Fits(parts, text))
  BY <1>5, PlainMeans DEF p
<1>8. RuleMatches(rule, Text(name)) <=> IF rule.wild THEN dowild(p, text) ELSE p = text
  BY <1>2, <1>4, Zenon DEF RuleMatches
<1>9. RuleMatches(rule, Text(name)) <=> Fits(parts, text)
  <2>1. CASE Has(p, {Star, Quest, Open})
    <3>1. rule.wild
      BY <1>2, <2>1, Zenon
    <3> QED BY <1>6, <1>8, <3>1, Zenon
  <2>2. CASE ~Has(p, {Star, Quest, Open})
    <3>1. ~rule.wild
      BY <1>2, <2>2, Zenon
    <3> QED BY <1>7, <1>8, <2>2, <3>1, Zenon
  <2> QED BY <2>1, <2>2
<1> QED BY <1>9 DEF About, rule, text, p

\* What rules on the command line are to the parser.
LinesOf(rules, n) ==
  [i \in 1 .. n |-> <<Sign(rules[i].include), Characters(rules[i].parts)>>]

\* The parts of a job's command line.
Spoken(args, rules) ==
  (UNION {Range(arg) : arg \in Range(args)}) \cup {"-", "--", "include", "exclude"}
    \cup {Characters(rules[i].parts) : i \in DOMAIN rules}

\* It is a command line of those parts.
LEMMA SpokenType ==
  ASSUME NEW args, IsSeq(args), \A arg \in Range(args) : IsSeq(arg) /\ arg # <<>>,
         NEW rules, IsSeq(rules), NEW P, P = Spoken(args, rules)
  PROVE  /\ args \in Seq(NonEmpty(P)) /\ RuleArguments(rules) \in Seq(NonEmpty(P))
         /\ "-" \in P /\ Len(RuleArguments(rules)) = Len(rules)
<1>1. "-" \in P
  BY DEF Spoken
<1>2. \A arg \in Range(args) : arg \in NonEmpty(P)
  <2>1. SUFFICES ASSUME NEW arg \in Range(args) PROVE arg \in NonEmpty(P)
    OBVIOUS
  <2>2. Range(arg) \subseteq P
    BY DEF Spoken
  <2> QED BY <2>2, SeqMono DEF NonEmpty, IsSeq
<1>3. args \in Seq(NonEmpty(P))
  BY <1>2, SeqMono DEF IsSeq
<1>4. Len(rules) \in Nat /\ DOMAIN rules = 1 .. Len(rules)
  BY DEF IsSeq
<1>5. \A i \in 1 .. Len(rules) : RuleArguments(rules)[i] \in NonEmpty(P)
  <2>1. SUFFICES ASSUME NEW i \in 1 .. Len(rules) PROVE RuleArguments(rules)[i] \in NonEmpty(P)
    OBVIOUS
  <2>2. PICK word : word = IF rules[i].include THEN "include" ELSE "exclude"
    OBVIOUS
  <2>3. PICK value : value = Characters(rules[i].parts)
    OBVIOUS
  <2>4. "--" \in P /\ word \in P /\ value \in P
    BY <1>4, <2>2, <2>3 DEF Spoken
  <2>5. RuleArguments(rules)[i] = <<"--", word, value>>
    BY <1>4, <2>2, <2>3 DEF RuleArguments
  <2>6. <<"--", word, value>> \in Seq(P) /\ <<"--", word, value>> # <<>>
    BY <2>4
  <2> QED BY <2>5, <2>6 DEF NonEmpty
<1>6. RuleArguments(rules) = [i \in 1 .. Len(rules) |-> RuleArguments(rules)[i]]
  BY <1>4 DEF RuleArguments
<1>7. RuleArguments(rules) \in Seq(NonEmpty(P)) /\ Len(RuleArguments(rules)) = Len(rules)
  BY <1>4, <1>5, <1>6
<1> QED BY <1>1, <1>3, <1>7

\* What a client makes of a command line to which rules were added: the rules, in
\* their order.
LEMMA RulesParsed ==
  ASSUME NEW args, IsSeq(args), \A arg \in Range(args) : IsSeq(arg) /\ arg # <<>>,
         NEW rules, IsSeq(rules), \A i \in DOMAIN rules : rules[i].include \in BOOLEAN,
         NEW P, P = Spoken(args, rules),
         NEW p, p = ParseArguments(args), GoesOn(p), p.filterRules = <<>>,
         NEW o, o = ParseArguments(args \o RuleArguments(rules))
  PROVE  /\ GoesOn(o) /\ Sane(o, P) /\ Settled(o)
         /\ o["filterRules"] = LinesOf(rules, Len(rules))
<1> DEFINE said == RuleArguments(rules)
           given(i) == args \o SubSeq(said, 1, i)
<1>1. args \in Seq(NonEmpty(P)) /\ said \in Seq(NonEmpty(P)) /\ "-" \in P
      /\ Len(said) = Len(rules)
  BY SpokenType
<1>2. PICK n \in Nat : n = Len(rules)
  BY DEF IsSeq
<1>3. DOMAIN rules = 1 .. n
  BY <1>2 DEF IsSeq
<1>4. PICK all : all = Items(args \o said)
  OBVIOUS
<1> DEFINE q(i) == Parsed(Defaults, Items(given(i)), all)
           T == {i \in 0 .. n : GoesOn(q(i)) /\ q(i)["filterRules"] = LinesOf(rules, i)}
<1>5. \A i \in 0 .. n : given(i) \in Seq(NonEmpty(P))
  BY <1>1, <1>2
<1>6. \A i \in 0 .. n : Sane(q(i), P)
  <2>1. SUFFICES ASSUME NEW i \in 0 .. n PROVE Sane(q(i), P)
    OBVIOUS
  <2>2. Items(given(i)) \in Seq(NonEmpty(P))
    BY <1>1, <1>5, ItemsNonEmpty
  <2> QED BY <2>2, ParsedSane
<1>7. given(0) = args /\ given(n) = args \o said
  BY <1>1, <1>2
<1>8. 0 \in T
  <2>1. PICK r : r = Parsed(Defaults, Items(args), Items(args))
    OBVIOUS
  <2>2. p = IF r.failed \/ r.am_daemon = 1 THEN r ELSE Implied(r)
    BY <2>1, ParseIs
  <2>3. GoesOn(r)
    <3>1. CASE r.failed \/ r.am_daemon = 1
      <4>1. p = r
        BY <2>2, <3>1, Zenon
      <4> QED BY <4>1
    <3>2. CASE ~(r.failed \/ r.am_daemon = 1)
      BY <3>2 DEF GoesOn
    <3> QED BY <3>1, <3>2
  <2>4. p = Implied(r)
    <3>1. ~(r.failed \/ r.am_daemon = 1)
      BY <2>3 DEF GoesOn
    <3> QED BY <2>2, <3>1, Zenon
  <2>5. Items(args) \in Seq(NonEmpty(P))
    BY <1>1, ItemsNonEmpty
  <2>6. Sane(r, P)
    BY <2>1, <2>5, ParsedSane
  <2>7. r["filterRules"] = <<>>
    <3> DEFINE x == IF r.recurse # 0 THEN 1 ELSE IF r.xfer_dirs >= 0 THEN r.xfer_dirs
                    ELSE IF r.list_only # 0 THEN 1 ELSE 0
    <3>1. p = [r EXCEPT !["xfer_dirs"] = x]
      BY <2>4 DEF Implied
    <3> HIDE DEF x
    <3>2. DOMAIN r = Fields /\ "xfer_dirs" # "filterRules" /\ "filterRules" \in Fields
      BY <2>6, FieldsAre DEF Sane
    <3>3. p["filterRules"] = r["filterRules"]
      BY <3>1, <3>2
    <3> QED BY <3>3
  <2>8. q(0) = r
    <3>1. Parsed(Defaults, Items(args), all) = Parsed(Defaults, Items(args), Items(args))
      BY <2>1, <2>3, <2>5, ParsedSame
    <3> QED BY <1>7, <2>1, <3>1
  <2>9. LinesOf(rules, 0) = <<>>
    BY DEF LinesOf
  <2> HIDE DEF q
  <2> QED BY <1>2, <2>3, <2>7, <2>8, <2>9
<1>9. ASSUME NEW i \in 1 .. n, i - 1 \in T PROVE i \in T
  <2>1. i \in 0 .. n /\ i - 1 \in 0 .. n /\ i \in 1 .. Len(said) /\ i \in DOMAIN rules
    BY <1>1, <1>2, <1>3
  <2>2. said[i] \in NonEmpty(P) /\ given(i - 1) \in Seq(NonEmpty(P))
        /\ given(i) = Append(given(i - 1), said[i])
    <3> HIDE DEF said
    <3> QED BY <1>1, <2>1, OneMore
  <2>3. PICK value : value = Characters(rules[i].parts)
    OBVIOUS
  <2>16. PICK word : word = Saying(rules[i].include)
    OBVIOUS
  <2>4. said[i] = <<"--", word, value>>
    <3>1. said[i] = <<"--", IF rules[i].include THEN "include" ELSE "exclude",
                      Characters(rules[i].parts)>>
      BY <2>1 DEF RuleArguments
    <3> QED BY <2>3, <2>16, <3>1, Zenon DEF Saying
  <2>5. ~IsCluster(said[i])
    <3>1. said[i][1] = "--"
      BY <2>4
    <3> QED BY <3>1 DEF IsCluster
  <2> HIDE DEF given, said
  <2>6. Items(given(i)) = Append(Items(given(i - 1)), said[i])
    <3>1. Items(given(i)) = Items(given(i - 1)) \o Split(said[i])
      BY <2>2, ItemsSteps
    <3>2. Split(said[i]) = <<said[i]>>
      BY <2>5, Zenon DEF Split
    <3>3. Items(given(i - 1)) \in Seq(NonEmpty(P))
      BY <1>1, <2>2, ItemsNonEmpty
    <3> QED BY <2>2, <3>1, <3>2, <3>3
  <2>7. q(i) = Apply(q(i - 1), said[i], all)
    <3>1. Items(given(i - 1)) \in Seq(NonEmpty(P))
      BY <1>1, <2>2, ItemsNonEmpty
    <3>2. PICK items \in Seq(NonEmpty(P)) : items = Items(given(i - 1))
      BY <3>1
    <3>3. Parsed(Defaults, Append(items, said[i]), all)
            = Apply(Parsed(Defaults, items, all), said[i], all)
      BY <2>2, ParsedSteps
    <3> QED BY <2>6, <3>2, <3>3
  <2>8. Sane(q(i - 1), P) /\ Sane(q(i), P)
    BY <1>6, <2>1
  <2>9. GoesOn(q(i - 1)) /\ q(i - 1)["filterRules"] = LinesOf(rules, i - 1)
    BY <1>9
  <2> HIDE DEF q
  <2>10. PICK sign : sign = Sign(rules[i].include)
    OBVIOUS
  <2>17. PICK line : line = <<sign, value>>
    OBVIOUS
  <2>11. q(i) = [q(i - 1) EXCEPT !["filterRules"] = Append(q(i - 1)["filterRules"], line)]
    <3>1. PICK include \in BOOLEAN : include = rules[i].include
      BY <2>1
    <3>2. PICK before : before = q(i - 1)
      OBVIOUS
    <3>3. GoesOn(before) /\ word = Saying(include) /\ sign = Sign(include)
      BY <2>9, <2>10, <2>16, <3>1, <3>2, Zenon
    <3>4. Apply(before, <<"--", word, value>>, all)
            = [before EXCEPT !["filterRules"] = Append(before["filterRules"], <<sign, value>>)]
      BY <3>3, RuleApplies
    <3> QED BY <2>4, <2>7, <2>17, <3>2, <3>4, Zenon
  <2>12. DOMAIN q(i - 1) = Fields /\ {"filterRules", "failed", "am_daemon"} \subseteq Fields
         /\ "filterRules" \notin {"failed", "am_daemon"}
    BY <2>8, FieldsAre DEF Sane
  <2>13. q(i)["filterRules"] = Append(LinesOf(rules, i - 1), line)
         /\ q(i)["failed"] = q(i - 1)["failed"] /\ q(i)["am_daemon"] = q(i - 1)["am_daemon"]
    BY <2>9, <2>11, <2>12
  <2>14. GoesOn(q(i))
    BY <2>9, <2>13 DEF GoesOn
  <2>15. Append(LinesOf(rules, i - 1), line) = LinesOf(rules, i)
    <3>1. LinesOf(rules, i - 1) = [k \in 1 .. i - 1 |-> LinesOf(rules, i)[k]]
      <4> DEFINE f(k) == <<Sign(rules[k].include), Characters(rules[k].parts)>>
      <4>1. LinesOf(rules, i - 1) = [k \in 1 .. i - 1 |-> f(k)]
            /\ LinesOf(rules, i) = [k \in 1 .. i |-> f(k)]
        BY Zenon DEF LinesOf
      <4> HIDE DEF f
      <4>2. \A k \in 1 .. i - 1 : LinesOf(rules, i)[k] = f(k)
        BY <4>1
      <4>3. [k \in 1 .. i - 1 |-> LinesOf(rules, i)[k]] = [k \in 1 .. i - 1 |-> f(k)]
        BY <4>2
      <4> QED BY <4>1, <4>3
    <3>2. LinesOf(rules, i)[i] = line
      <4>1. i \in 1 .. i
        OBVIOUS
      <4>2. LinesOf(rules, i)[i]
              = <<Sign(rules[i].include), Characters(rules[i].parts)>>
        BY <4>1 DEF LinesOf
      <4> QED BY <2>3, <2>10, <2>17, <4>2, Zenon
    <3>3. PICK l : l = LinesOf(rules, i)
      OBVIOUS
    <3>4. l = [k \in 1 .. i |-> l[k]]
      BY <3>3 DEF LinesOf
    <3>5. Append([k \in 1 .. i - 1 |-> l[k]], l[i]) = [k \in 1 .. i |-> l[k]]
      BY AppendTo
    <3> QED BY <3>1, <3>2, <3>3, <3>4, <3>5
  <2> QED BY <2>1, <2>13, <2>14, <2>15
<1>10. n \in T
  <2> HIDE DEF T
  <2>1. \A i \in 0 .. n : i \in T
    BY <1>8, <1>9, UpTo
  <2> QED BY <2>1
<1>11. PICK r : r = q(n)
  OBVIOUS
<1>12. GoesOn(r) /\ r["filterRules"] = LinesOf(rules, n) /\ Sane(r, P)
  <2> HIDE DEF q
  <2> QED BY <1>6, <1>10, <1>11
<1>13. r = Parsed(Defaults, Items(args \o said), Items(args \o said))
  BY <1>4, <1>7, <1>11
<1>14. o = Implied(r)
  <2>1. o = IF r.failed \/ r.am_daemon = 1 THEN r ELSE Implied(r)
    BY <1>13, ParseIs
  <2>2. ~(r.failed \/ r.am_daemon = 1)
    BY <1>12 DEF GoesOn
  <2> QED BY <2>1, <2>2, Zenon
<1>15. GoesOn(o) /\ o["filterRules"] = r["filterRules"]
  <2> DEFINE x == IF r.recurse # 0 THEN 1 ELSE IF r.xfer_dirs >= 0 THEN r.xfer_dirs
                  ELSE IF r.list_only # 0 THEN 1 ELSE 0
  <2>1. o = [r EXCEPT !["xfer_dirs"] = x]
    BY <1>14 DEF Implied
  <2> HIDE DEF x
  <2>2. DOMAIN r = Fields /\ "xfer_dirs" \notin {"filterRules", "failed", "am_daemon"}
        /\ {"filterRules", "failed", "am_daemon"} \subseteq Fields
    BY <1>12, FieldsAre DEF Sane
  <2>3. o["filterRules"] = r["filterRules"] /\ o["failed"] = r["failed"]
        /\ o["am_daemon"] = r["am_daemon"]
    BY <2>1, <2>2
  <2> QED BY <1>12, <2>3 DEF GoesOn
<1>16. Sane(o, P) /\ (o.failed \/ o.am_daemon = 1 \/ Settled(o))
  <2>1. args \o said \in Seq(NonEmpty(P))
    <3> HIDE DEF given, said
    <3>1. given(n) \in Seq(NonEmpty(P))
      BY <1>2, <1>5
    <3> QED BY <1>7, <3>1
  <2> HIDE DEF said
  <2> QED BY <1>1, <2>1, ParsesSane DEF said
<1> QED BY <1>2, <1>12, <1>15, <1>16 DEF GoesOn

-----------------------------------------------------------------------------
(* What both sides know of the walk.                                       *)

\* Both sides walk in the same way, and the client's rules are those of the job.
Heard ==
  /\ copt["filterRules"] = LinesOf(job.rules, Len(job.rules))
  /\ Recurse(sopt) <=> Recurse(copt)
  /\ sopt.xfer_dirs = 0 <=> copt.xfer_dirs = 0
  /\ Recurse(copt) => copt.xfer_dirs # 0

\* What JobsOK says of the job.
LEMMA JobFacts ==
  ASSUME job \in Jobs
  PROVE  /\ IsSeq(job.args) /\ \A arg \in Range(job.args) : IsSeq(arg) /\ arg # <<>>
         /\ GoesOn(ParseArguments(job.args)) /\ ParseArguments(job.args).filterRules = <<>>
         /\ IsSeq(job.rules)
         /\ \A i \in DOMAIN job.rules :
              /\ job.rules[i].include \in BOOLEAN
              /\ job.rules[i].parts \in Seq(Range(job.rules[i].parts))
              /\ IsPattern(job.rules[i].parts)
<1> DEFINE o == ParseArguments(job.args)
<1>1. /\ job.args \in Seq(Range(job.args))
      /\ \A arg \in Range(job.args) : arg \in Seq(Range(arg)) /\ arg # <<>>
      /\ ~o.failed /\ o.am_daemon # 1 /\ o.filterRules = <<>>
      /\ job.rules \in Seq(Range(job.rules))
      /\ \A rule \in Range(job.rules) :
           /\ rule.include \in BOOLEAN
           /\ rule.parts \in Seq(Range(rule.parts)) /\ IsPattern(rule.parts)
  BY JobsOK, Zenon
<1> HIDE DEF o
<1>2. \A i \in DOMAIN job.rules : job.rules[i] \in Range(job.rules)
  BY DEF Range
<1> QED BY <1>1, <1>2 DEF IsSeq, GoesOn, o

\* The client's options, when it starts.
LEMMA ClientHeard ==
  ASSUME Init
  PROVE  /\ copt["filterRules"] = LinesOf(job.rules, Len(job.rules))
         /\ Settled(copt) /\ copt["recurse"] \in Nat /\ copt["xfer_dirs"] \in Int
<1>1. job \in Jobs
  BY DEF Init
<1>2. PICK o : o = ParseArguments(job.args \o RuleArguments(job.rules))
  OBVIOUS
<1>3. PICK P : P = Spoken(job.args, job.rules)
  OBVIOUS
<1>4. /\ GoesOn(o) /\ Sane(o, P) /\ Settled(o)
      /\ o["filterRules"] = LinesOf(job.rules, Len(job.rules))
  <2>1. PICK args, rules : args = job.args /\ rules = job.rules
    OBVIOUS
  <2>2. PICK p : p = ParseArguments(args)
    OBVIOUS
  <2>3. /\ IsSeq(args) /\ \A arg \in Range(args) : IsSeq(arg) /\ arg # <<>>
        /\ GoesOn(p) /\ p.filterRules = <<>> /\ IsSeq(rules)
        /\ \A i \in DOMAIN rules : rules[i].include \in BOOLEAN
    BY <1>1, <2>1, <2>2, JobFacts
  <2>4. o = ParseArguments(args \o RuleArguments(rules)) /\ P = Spoken(args, rules)
    BY <1>2, <1>3, <2>1
  <2>5. /\ GoesOn(o) /\ Sane(o, P) /\ Settled(o)
        /\ o["filterRules"] = LinesOf(rules, Len(rules))
    BY <2>2, <2>3, <2>4, RulesParsed
  <2> QED BY <2>1, <2>5
<1>5. copt = IF job.push THEN [o EXCEPT !["am_sender"] = 1] ELSE o
  BY <1>2 DEF Init, SetSender
<1>6. /\ DOMAIN o = Fields /\ "am_sender" \notin {"filterRules", "recurse", "xfer_dirs"}
      /\ {"filterRules", "recurse", "xfer_dirs"} \subseteq Fields
      /\ o["recurse"] \in Nat /\ o["xfer_dirs"] \in Int
  BY <1>4, FieldsAre DEF Sane, Counts
<1>7. \A f \in {"filterRules", "recurse", "xfer_dirs"} : copt[f] = o[f]
  BY <1>5, <1>6
<1> QED BY <1>4, <1>6, <1>7 DEF Settled

\* The server has heard how to walk.
LEMMA HeardInit == Init => Heard
<1> SUFFICES ASSUME Init PROVE Heard
  OBVIOUS
<1>1. /\ copt["filterRules"] = LinesOf(job.rules, Len(job.rules))
      /\ Settled(copt) /\ copt["recurse"] \in Nat /\ copt["xfer_dirs"] \in Int
  BY ClientHeard
<1>2. PICK t : t = Told(copt)
  OBVIOUS
<1>3. dopt = Implied(t)
  BY <1>2, ServerHearsOptions DEF Init
<1>4. /\ t["recurse"] = (IF On(copt, "recurse") THEN 2 ELSE 0)
      /\ t["xfer_dirs"] = (IF ~Recurse(copt) /\ On(copt, "xfer_dirs") THEN 2 ELSE -1)
      /\ t["list_only"] = Defaults["list_only"]
      /\ DOMAIN t = Fields
  <2>1. Told(copt) = [f \in Fields |-> Told(copt)[f]]
    BY ToldIs
  <2> QED BY <1>2, <2>1, ToldIs
<1>5. Defaults["list_only"] = 0
  BY DEF Defaults
<1>6. {"recurse", "xfer_dirs"} \subseteq Fields /\ "recurse" # "xfer_dirs"
  BY FieldsAre
<1>7. /\ dopt["recurse"] = t["recurse"]
      /\ dopt["xfer_dirs"] = IF t["recurse"] # 0 THEN 1
                             ELSE IF t["xfer_dirs"] >= 0 THEN t["xfer_dirs"]
                             ELSE IF t["list_only"] # 0 THEN 1 ELSE 0
  BY <1>3, <1>4, <1>6 DEF Implied
<1>8. /\ Recurse(dopt) <=> Recurse(copt)
      /\ dopt["xfer_dirs"] = 0 <=> copt["xfer_dirs"] = 0
      /\ Recurse(copt) => copt["xfer_dirs"] # 0
  <2>1. CASE copt["recurse"] = 0
    <3>1. ~Recurse(copt) /\ ~On(copt, "recurse") /\ copt["xfer_dirs"] >= 0
      BY <1>1, <2>1 DEF Recurse, On, Settled
    <3>2. t["recurse"] = 0 /\ dopt["recurse"] = 0
      BY <1>4, <1>7, <3>1
    <3>3. dopt["xfer_dirs"] = IF t["xfer_dirs"] >= 0 THEN t["xfer_dirs"] ELSE 0
      BY <1>4, <1>5, <1>7, <3>2
    <3>4. t["xfer_dirs"] = IF copt["xfer_dirs"] > 0 THEN 2 ELSE -1
      BY <1>4, <3>1 DEF On
    <3> QED BY <1>1, <3>1, <3>2, <3>3, <3>4 DEF Recurse
  <2>2. CASE copt["recurse"] # 0
    <3>1. Recurse(copt) /\ On(copt, "recurse") /\ copt["xfer_dirs"] = 1
      BY <1>1, <2>2 DEF Recurse, On, Settled
    <3>2. dopt["recurse"] = 2 /\ dopt["xfer_dirs"] = 1
      BY <1>4, <1>7, <3>1
    <3> QED BY <3>1, <3>2 DEF Recurse
  <2> QED BY <2>1, <2>2
<1> QED BY <1>1, <1>8 DEF Heard, sopt

\* The rules of the walk mean what the job says (exclude.go: a name is left out by the
\* first rule that matches it).
LEMMA LeftOutMatches ==
  ASSUME job \in Jobs, Heard, NEW path \in DOMAIN Tree
  PROVE  Matches(Rules, Text(WireName(path))) <=> LeftOut(path)
<1>1. PICK name : name = WireName(path)
  OBVIOUS
<1>2. path \in Seq(Seq(Nat)) /\ job.path \in Seq(Seq(Nat))
      /\ \A k \in DOMAIN path : IsComponent(path[k])
  BY ListConstants
<1>3. \A k \in DOMAIN path : path[k] \in Seq(Codes)
  BY JobsOK
<1>4. name \in Seq(Seq(Codes)) /\ \A k \in DOMAIN name : IsComponent(name[k])
  <2> DEFINE n == Len(job.path)
             cut == IF job.push THEN IF job.slash \/ n = 0 THEN n ELSE n - 1
                    ELSE IF job.slash /\ Len(path) > n THEN n ELSE 0
  <2>1. n \in Nat
    BY <1>2
  <2>2. cut \in Nat
    <3> HIDE DEF n
    <3> QED BY <2>1
  <2>3. name = SubSeq(path, cut + 1, Len(path))
    BY <1>1 DEF WireName
  <2> HIDE DEF cut
  <2>4. PICK m \in Nat : m = Len(path)
    BY <1>2
  <2>5. DOMAIN path = 1 .. m
    BY <1>2, <2>4
  <2>6. name \in Seq(Seq(Nat)) /\ Len(name) = (IF cut + 1 <= m THEN m - cut ELSE 0)
        /\ \A k \in 1 .. Len(name) : name[k] = path[k + cut]
    BY <1>2, <2>2, <2>3, <2>4
  <2>7. \A k \in 1 .. Len(name) : k + cut \in 1 .. m
    BY <2>2, <2>4, <2>6
  <2>8. \A k \in 1 .. Len(name) : name[k] \in Seq(Codes) /\ IsComponent(name[k])
    BY <1>2, <1>3, <2>5, <2>6, <2>7
  <2>9. DOMAIN name = 1 .. Len(name) /\ Len(name) \in Nat
        /\ name = [k \in 1 .. Len(name) |-> name[k]]
    BY <2>6
  <2>10. name \in Seq(Seq(Codes))
    BY <2>8, <2>9
  <2> QED BY <2>8, <2>9, <2>10
<1>5. PICK rules : rules = job.rules
  OBVIOUS
<1>6. IsSeq(rules) /\ \A i \in DOMAIN rules :
        /\ rules[i].include \in BOOLEAN
        /\ rules[i].parts \in Seq(Range(rules[i].parts)) /\ IsPattern(rules[i].parts)
  BY <1>5, JobFacts
<1>7. PICK n \in Nat : n = Len(rules) /\ DOMAIN rules = 1 .. n
  BY <1>6 DEF IsSeq
<1>8. PICK read : read = Rules
  OBVIOUS
<1>9. DOMAIN read = 1 .. n
      /\ \A i \in 1 .. n :
           read[i] = ParseRule(<<Sign(rules[i].include), Characters(rules[i].parts)>>)
  BY <1>5, <1>7, <1>8 DEF Rules, Heard, LinesOf
<1>10. \A i \in 1 .. n : RuleMatches(read[i], Text(name)) <=> About(rules[i].parts, name)
  BY <1>4, <1>6, <1>7, <1>9, RuleAbout
<1>11. \A i \in 1 .. n : read[i].include <=> rules[i].include
  <2>1. SUFFICES ASSUME NEW i \in 1 .. n PROVE read[i].include <=> rules[i].include
    OBVIOUS
  <2>2. PICK parts, include : parts = rules[i].parts /\ include = rules[i].include
    OBVIOUS
  <2>3. /\ parts \in Seq(Range(parts)) /\ IsPattern(parts) /\ include \in BOOLEAN
    BY <1>6, <1>7, <2>2
  <2>4. read[i] = ParseRule(<<Sign(include), Characters(parts)>>)
    BY <1>9, <2>2
  <2>5. PICK sign : sign = Sign(include)
    OBVIOUS
  <2>6. read[i].include <=> sign = "+ "
    <3>1. ParseRule(<<sign, Characters(parts)>>)
            = [include |-> sign = "+ ", pattern |-> Characters(parts),
               wild |-> Has(Characters(parts), {Star, Quest, Open})]
      BY <2>3, RuleRead
    <3>2. PICK b \in BOOLEAN : b <=> sign = "+ "
      OBVIOUS
    <3>3. read[i] = [include |-> b, pattern |-> Characters(parts),
                     wild |-> Has(Characters(parts), {Star, Quest, Open})]
      <4>1. b = (sign = "+ ")
        BY <3>2
      <4> QED BY <2>4, <2>5, <3>1, <4>1, Zenon
    <3>4. read[i].include = b
      BY <3>3
    <3> QED BY <3>2, <3>4
  <2>7. Sign(include) = "+ " <=> include
    <3>1. include => Sign(include) = "+ "
      BY Zenon DEF Sign
    <3>2. ~include => Sign(include) = "- "
      BY Zenon DEF Sign
    <3>3. "- " # "+ "
      BY Zenon
    <3> QED BY <3>1, <3>2, <3>3, Zenon
  <2> QED BY <2>2, <2>5, <2>6, <2>7, Zenon
<1>12. Matches(read, Text(name)) <=>
         \E i \in 1 .. n : /\ About(rules[i].parts, name) /\ ~rules[i].include
                           /\ \A j \in 1 .. i - 1 : ~About(rules[j].parts, name)
  <2>1. \A i \in 1 .. n : \A j \in 1 .. i - 1 : j \in 1 .. n
    OBVIOUS
  <2>2. \A i \in 1 .. n :
          (\A j \in 1 .. i - 1 : ~RuleMatches(read[j], Text(name)))
            <=> \A j \in 1 .. i - 1 : ~About(rules[j].parts, name)
    BY <1>10, <2>1, Zenon
  <2>3. Matches(read, Text(name)) <=>
          \E i \in 1 .. n : /\ RuleMatches(read[i], Text(name)) /\ ~read[i].include
                            /\ \A j \in 1 .. i - 1 : ~RuleMatches(read[j], Text(name))
    BY <1>9, Zenon DEF Matches
  <2> QED BY <1>10, <1>11, <2>2, <2>3, Zenon
<1>13. LeftOut(path) <=>
         \E i \in 1 .. n : /\ About(rules[i].parts, name) /\ ~rules[i].include
                           /\ \A j \in 1 .. i - 1 : ~About(rules[j].parts, name)
  BY <1>1, <1>5, <1>7, Zenon DEF LeftOut, About
<1> QED BY <1>1, <1>8, <1>12, <1>13, Zenon

\* And it stays so.
LEMMA HeardKept ==
  ASSUME Heard, UNCHANGED jobVars
  PROVE  Heard'
<1>1. job' = job /\ copt' = copt /\ dopt' = dopt
  BY DEF jobVars
<1>2. sopt' = sopt
  BY <1>1 DEF sopt
<1> QED BY <1>1, <1>2 DEF Heard

\* Prefixes are a partial order of paths.
LEMMA PrefixMeans ==
  ASSUME NEW S, NEW s \in Seq(S), NEW t \in Seq(S)
  PROVE  IsPrefix(s, t) <=> Len(s) <= Len(t) /\ \A i \in 1 .. Len(s) : s[i] = t[i]
<1>1. Len(s) \in Nat /\ Len(t) \in Nat
  OBVIOUS
<1>2. ASSUME Len(s) <= Len(t)
      PROVE  SubSeq(s, 1, Len(s)) = SubSeq(t, 1, Len(s)) <=> \A i \in 1 .. Len(s) : s[i] = t[i]
  <2>1. SubSeq(s, 1, Len(s)) = [i \in 1 .. Len(s) |-> s[i]]
    OBVIOUS
  <2>2. SubSeq(t, 1, Len(s)) = [i \in 1 .. Len(s) |-> t[i]]
    BY <1>2
  <2> QED BY <2>1, <2>2
<1> QED BY <1>1, <1>2 DEF IsPrefix

\* They are transitive, and antisymmetric.
LEMMA PrefixOrder ==
  ASSUME NEW S
  PROVE  /\ \A s \in Seq(S) : IsPrefix(s, s)
         /\ \A s, t, u \in Seq(S) : IsPrefix(s, t) /\ IsPrefix(t, u) => IsPrefix(s, u)
         /\ \A s, t \in Seq(S) : IsPrefix(s, t) /\ IsPrefix(t, s) => s = t
<1>1. \A s \in Seq(S) : IsPrefix(s, s)
  BY PrefixMeans
<1>2. ASSUME NEW s \in Seq(S), NEW t \in Seq(S), NEW u \in Seq(S), IsPrefix(s, t), IsPrefix(t, u)
      PROVE  IsPrefix(s, u)
  <2>1. PICK l, m, n \in Nat : l = Len(s) /\ m = Len(t) /\ n = Len(u)
    OBVIOUS
  <2>2. l <= m /\ (\A i \in 1 .. l : s[i] = t[i]) /\ m <= n /\ (\A i \in 1 .. m : t[i] = u[i])
    BY <1>2, <2>1, PrefixMeans
  <2>3. l <= n /\ \A i \in 1 .. l : s[i] = u[i]
    BY <2>2
  <2> QED BY <2>1, <2>3, PrefixMeans
<1>3. ASSUME NEW s \in Seq(S), NEW t \in Seq(S), IsPrefix(s, t), IsPrefix(t, s)
      PROVE  s = t
  <2>1. PICK l, m \in Nat : l = Len(s) /\ m = Len(t)
    OBVIOUS
  <2>2. l <= m /\ (\A i \in 1 .. l : s[i] = t[i]) /\ m <= l
    BY <1>3, <2>1, PrefixMeans
  <2>3. l = m
    BY <2>2
  <2>4. s = [i \in 1 .. l |-> s[i]] /\ t = [i \in 1 .. l |-> t[i]]
    <3>1. s = [i \in 1 .. Len(s) |-> s[i]] /\ t = [i \in 1 .. Len(t) |-> t[i]]
      OBVIOUS
    <3> QED BY <2>1, <2>3, <3>1, Zenon
  <2>5. [i \in 1 .. l |-> s[i]] = [i \in 1 .. l |-> t[i]]
    BY <2>2
  <2> QED BY <2>4, <2>5, Zenon
<1> QED BY <1>1, <1>2, <1>3

\* What is above something is a directory.
LEMMA DirAbove ==
  ASSUME NEW path \in DOMAIN Tree, NEW above \in DOMAIN Tree,
         IsPrefix(above, path), above # path
  PROVE  Tree[above].kind = "dir"
<1>1. path \in Seq(Seq(Nat)) /\ above \in Seq(Seq(Nat))
  BY ListConstants
<1>2. PICK n \in Nat : n = Len(above)
  BY <1>1
<1>3. above = SubSeq(path, 1, n) /\ n <= Len(path)
  <2>1. SubSeq(above, 1, n) = above
    BY <1>1, <1>2
  <2> QED BY <1>2, <2>1 DEF IsPrefix
<1>4. n # Len(path)
  <2>1. ASSUME n = Len(path) PROVE FALSE
    <3>1. SubSeq(path, 1, n) = path
      BY <1>1, <2>1
    <3> QED BY <1>3, <3>1
  <2> QED BY <2>1
<1>5. n + 1 \in DOMAIN path /\ (n + 1) - 1 = n
  BY <1>1, <1>2, <1>3, <1>4
<1>6. Tree[SubSeq(path, 1, (n + 1) - 1)].kind = "dir"
  BY <1>5, ListConstants
<1> QED BY <1>3, <1>5, <1>6

-----------------------------------------------------------------------------
(* What the walk has passed.                                               *)

\* The paths that are asked for.
Wants == {path \in DOMAIN Tree : AskedFor(path)}

\* The walk is below the place of the job; above what is still to be visited, it has
\* sent everything, and goes into it.
Tidy(walk, sent) ==
  /\ walk \subseteq WalkOf(job.path)
  /\ \A p \in walk : \A q \in WalkOf(job.path) :
       IsPrefix(q, p) /\ q # p /\ q \notin walk => q \in sent /\ Recurse(copt)

\* Everything that is asked for is in the list, or still to be visited, or an error was
\* noted; and nothing else is in the list.
Covers(walk, sent) ==
  /\ sent \subseteq Wants
  /\ ioErrors = 0 => Wants \subseteq walk \cup sent

\* The second half of the invariant of the walk.
PassedBy ==
  /\ Heard
  /\ Tidy(rest, ToSet(files)) /\ Covers(rest, ToSet(files))
  /\ spc = "sorted" => rest = {}

\* Paths are sequences of names.
LEMMA WalkPaths ==
  ASSUME job \in Jobs
  PROVE  /\ WalkOf(job.path) \subseteq DOMAIN Tree
         /\ DOMAIN Tree \subseteq Seq(Seq(Nat)) /\ job.path \in WalkOf(job.path)
         /\ \A p \in WalkOf(job.path) : IsPrefix(job.path, p)
<1>1. job.path \in DOMAIN Tree /\ DOMAIN Tree \subseteq Seq(Seq(Nat))
  BY ListConstants
<1>2. IsPrefix(job.path, job.path)
  BY <1>1, PrefixOrder
<1> QED BY <1>1, <1>2 DEF WalkOf

\* Without a directory and what is below it,
LEMMA TidySkip ==
  ASSUME job \in Jobs, NEW walk, NEW sent, Tidy(walk, sent), NEW t \in walk,
         NEW more, sent \subseteq more
  PROVE  Tidy(SkipDir(walk, t), more)
<1>1. walk \subseteq WalkOf(job.path) /\ SkipDir(walk, t) \subseteq walk
  BY DEF Tidy, SkipDir
<1>2. walk \subseteq Seq(Seq(Nat)) /\ WalkOf(job.path) \subseteq Seq(Seq(Nat))
  BY <1>1, WalkPaths
<1>3. ASSUME NEW p \in SkipDir(walk, t), NEW q \in WalkOf(job.path), IsPrefix(q, p), q # p,
             q \notin SkipDir(walk, t)
      PROVE  q \in more /\ Recurse(copt)
  <2>1. p \in walk /\ ~IsPrefix(t, p)
    BY DEF SkipDir
  <2>2. ~IsPrefix(t, q)
    BY <1>2, <1>3, <2>1, PrefixOrder
  <2>3. q \notin walk
    BY <1>3, <2>2 DEF SkipDir
  <2>4. q \in sent /\ Recurse(copt)
    BY <1>3, <2>1, <2>3 DEF Tidy
  <2> QED BY <2>4
<1> QED BY <1>1, <1>3 DEF Tidy

\* or without one path that was sent.
LEMMA TidyTaken ==
  ASSUME job \in Jobs, NEW walk, NEW sent, Tidy(walk, sent), NEW t \in walk,
         NEW more, sent \cup {t} \subseteq more, Tree[t].kind = "dir" => Recurse(copt)
  PROVE  Tidy(walk \ {t}, more)
<1>1. walk \subseteq WalkOf(job.path) /\ WalkOf(job.path) \subseteq DOMAIN Tree
  BY WalkPaths DEF Tidy
<1>2. ASSUME NEW p \in walk \ {t}, NEW q \in WalkOf(job.path), IsPrefix(q, p), q # p,
             q \notin walk \ {t}
      PROVE  q \in more /\ Recurse(copt)
  <2>1. CASE q = t
    <3>1. Tree[t].kind = "dir"
      BY <1>1, <1>2, <2>1, DirAbove
    <3> QED BY <2>1, <3>1
  <2>2. CASE q # t
    <3>1. q \in sent /\ Recurse(copt)
      BY <1>2, <2>2 DEF Tidy
    <3> QED BY <3>1
  <2> QED BY <2>1, <2>2
<1> QED BY <1>1, <1>2 DEF Tidy

\* Nothing that is still to be visited is above the next path.
LEMMA NoneAbove ==
  ASSUME rest \subseteq DOMAIN Tree, rest # {}, NEW q \in rest, IsPrefix(q, This)
  PROVE  q = This
<1>1. This \in rest
  BY ThisFound
<1>2. PICK t : t = This
  OBVIOUS
<1>3. SUFFICES ASSUME q # t PROVE FALSE
  BY <1>2
<1>4. q \in Seq(Seq(Nat)) /\ t \in Seq(Seq(Nat)) /\ t \in rest
  BY <1>1, <1>2, ListConstants
<1>5. Before(q, t)
  BY <1>2, <1>3 DEF Before, IsStrictPrefix
<1>6. Before(t, q)
  BY <1>2, <1>3, ThisFound
<1>7. <<q, t>> \in BeforeRel /\ <<t, q>> \in BeforeRel
  <2>1. <<q, t>>[1] = q /\ <<q, t>>[2] = t /\ <<t, q>>[1] = t /\ <<t, q>>[2] = q
    OBVIOUS
  <2>2. <<q, t>> \in Seq(Seq(Nat)) \X Seq(Seq(Nat)) /\ <<t, q>> \in Seq(Seq(Nat)) \X Seq(Seq(Nat))
    BY <1>4
  <2> QED BY <1>5, <1>6, <2>1, <2>2 DEF BeforeRel
<1> QED BY <1>4, <1>7, BeforeStrict DEF Strict

\* What the walk comes to, and does not leave out, is asked for.
LEMMA ThisWanted ==
  ASSUME job \in Jobs, Heard, NEW sent, Tidy(rest, sent), sent \subseteq Wants,
         Wanted, ~Excluded
  PROVE  This \in Wants
<1>1. rest # {} /\ rest \subseteq DOMAIN Tree /\ rest \subseteq WalkOf(job.path)
  BY WalkPaths DEF Wanted, Visiting, Tidy
<1>2. This \in rest
  BY <1>1, ThisFound
<1>3. PICK t : t = This
  OBVIOUS
<1>4. t \in DOMAIN Tree /\ IsPrefix(job.path, t) /\ t \in WalkOf(job.path)
  BY <1>1, <1>2, <1>3, WalkPaths
<1>5. ~LeftOut(t)
  BY <1>3, <1>4, LeftOutMatches DEF Excluded
<1>6. ASSUME NEW q \in WalkOf(job.path), IsPrefix(q, t), q # t
      PROVE  q \in Wants /\ Recurse(copt)
  <2>1. q \notin rest
    BY <1>1, <1>3, <1>6, NoneAbove
  <2>2. q \in sent /\ Recurse(copt)
    BY <1>2, <1>3, <1>6, <2>1 DEF Tidy
  <2> QED BY <2>2
<1>7. ASSUME NEW p \in DOMAIN Tree, IsPrefix(job.path, p), IsPrefix(p, t)
      PROVE  ~LeftOut(p)
  <2>1. CASE p = t
    BY <1>5, <2>1
  <2>2. CASE p # t
    <3>1. p \in WalkOf(job.path)
      BY <1>7 DEF WalkOf
    <3>2. p \in Wants
      BY <1>6, <1>7, <2>2, <3>1
    <3>3. p \in Seq(Seq(Nat)) /\ IsPrefix(p, p)
      BY ListConstants, PrefixOrder
    <3> QED BY <1>7, <3>2, <3>3 DEF Wants, AskedFor
  <2> QED BY <2>1, <2>2
<1>8. t # job.path => job.path \in Wants /\ Recurse(copt)
  BY <1>4, <1>6, WalkPaths
<1>9. Tree[job.path].kind = "dir" => copt.xfer_dirs # 0
  <2>1. CASE t # job.path
    BY <1>8, <2>1 DEF Wants, AskedFor
  <2>2. CASE t = job.path
    BY <1>3, <2>2 DEF Wanted, IsDir, Heard
  <2> QED BY <2>1, <2>2
<1>10. AskedFor(t)
  BY <1>4, <1>7, <1>8, <1>9 DEF AskedFor
<1> QED BY <1>3, <1>4, <1>10 DEF Wants

\* What is skipped is not asked for,
LEMMA SkippedUnwanted ==
  ASSUME job \in Jobs, Heard, rest \subseteq WalkOf(job.path), rest # {},
         \/ IsDir /\ sopt.xfer_dirs = 0
         \/ Excluded,
         NEW p \in rest, IsPrefix(This, p)
  PROVE  p \notin Wants
<1>1. rest \subseteq DOMAIN Tree
  BY WalkPaths
<1>2. This \in rest
  BY <1>1, ThisFound
<1>3. PICK t : t = This
  OBVIOUS
<1>4. t \in DOMAIN Tree /\ IsPrefix(job.path, t) /\ IsPrefix(t, p) /\ p \in DOMAIN Tree
  BY <1>1, <1>2, <1>3, WalkPaths
<1>5. SUFFICES ASSUME AskedFor(p) PROVE FALSE
  BY DEF Wants
<1>6. CASE Excluded
  <2>1. LeftOut(t)
    BY <1>3, <1>4, <1>6, LeftOutMatches DEF Excluded
  <2> QED BY <1>4, <1>5, <2>1 DEF AskedFor
<1>7. CASE IsDir /\ sopt.xfer_dirs = 0
  <2>1. copt.xfer_dirs = 0 /\ ~Recurse(copt)
    BY <1>7 DEF Heard
  <2>2. p = job.path /\ Tree[job.path].kind # "dir"
    BY <1>5, <2>1 DEF AskedFor
  <2>3. t = p
    <3>1. t \in Seq(Seq(Nat)) /\ p \in Seq(Seq(Nat))
      BY <1>4, ListConstants
    <3> QED BY <1>4, <2>2, <3>1, PrefixOrder
  <2> QED BY <1>3, <1>7, <2>2, <2>3 DEF IsDir
<1> QED BY <1>6, <1>7

\* nor is what is below a directory that is sent without -r.
LEMMA BelowUnwanted ==
  ASSUME job \in Jobs, Heard, ~Recurse(sopt), rest \subseteq WalkOf(job.path), rest # {},
         NEW p \in rest, IsPrefix(This, p), p # This
  PROVE  p \notin Wants
<1>1. rest \subseteq DOMAIN Tree
  BY WalkPaths
<1>2. This \in rest
  BY <1>1, ThisFound
<1>3. PICK t : t = This
  OBVIOUS
<1>4. t \in DOMAIN Tree /\ IsPrefix(job.path, t) /\ IsPrefix(t, p) /\ p \in DOMAIN Tree /\ p # t
  BY <1>1, <1>2, <1>3, WalkPaths
<1>5. SUFFICES ASSUME AskedFor(p) PROVE FALSE
  BY DEF Wants
<1>6. p = job.path
  BY <1>5 DEF AskedFor, Heard
<1>7. t \in Seq(Seq(Nat)) /\ p \in Seq(Seq(Nat))
  BY <1>4, ListConstants
<1> QED BY <1>4, <1>6, <1>7, PrefixOrder

\* What is asked for stays the same.
LEMMA WantsKept ==
  ASSUME job' = job, copt' = copt
  PROVE  Wants' = Wants
<1>1. \A path : WireName(path)' = WireName(path)
  BY DEF WireName
<1>2. \A path : LeftOut(path)' <=> LeftOut(path)
  <2>1. SUFFICES ASSUME NEW path PROVE LeftOut(path)' <=> LeftOut(path)
    OBVIOUS
  <2>2. PICK name : name = WireName(path)
    OBVIOUS
  <2>3. WireName(path)' = name
    BY <1>1, <2>2
  <2> DEFINE is(rules) ==
               \E i \in DOMAIN rules :
                 /\ About(rules[i].parts, name) /\ ~rules[i].include
                 /\ \A j \in 1 .. i - 1 : ~About(rules[j].parts, name)
  <2>4. LeftOut(path) <=> is(job.rules)
    BY <2>2, Zenon DEF LeftOut, About
  <2>5. LeftOut(path)' <=> is(job'.rules)
    BY <2>3, Zenon DEF LeftOut, About
  <2> HIDE DEF is
  <2> QED BY <2>4, <2>5
<1>3. \A path : AskedFor(path)' <=> AskedFor(path)
  BY <1>2, Zenon DEF AskedFor
<1> QED BY <1>3, Zenon DEF Wants

\* A step of the walk passes nothing that is asked for.
LEMMA WalkPassed ==
  ASSUME Walked, PassedBy, Walk
  PROVE  PassedBy'
<1>1. /\ job \in Jobs /\ rest \subseteq DOMAIN Tree /\ files \in Seq(DOMAIN Tree)
      /\ ioErrors \in {0, 1}
  BY DEF Walked
<1>2. PICK sent : sent = ToSet(files)
  OBVIOUS
<1>3. /\ Heard /\ Tidy(rest, sent) /\ sent \subseteq Wants
      /\ ioErrors = 0 => Wants \subseteq rest \cup sent
      /\ rest \subseteq WalkOf(job.path)
  BY <1>2 DEF PassedBy, Covers, Tidy
<1>4. job' = job /\ copt' = copt /\ dopt' = dopt
  BY WalkKeeps DEF jobVars
<1>5. Heard'
  BY <1>3, <1>4, HeardKept DEF jobVars
<1>6. \A walk, more : Tidy(walk, more)' <=> Tidy(walk, more)
  BY <1>4 DEF Tidy, WalkOf
<1>7. Wants' = Wants
  BY <1>4, WantsKept
<1>8. ASSUME NEW walk, NEW more, rest' = walk, ToSet(files)' = more, Tidy(walk, more),
             more \subseteq Wants, ioErrors' = 0 => Wants \subseteq walk \cup more,
             spc' = "sorted" => walk = {}
      PROVE  PassedBy'
  <2>1. Tidy(rest, ToSet(files))'
    BY <1>4, <1>8 DEF Tidy, WalkOf
  <2>2. Covers(rest, ToSet(files))'
    BY <1>7, <1>8 DEF Covers
  <2>3. (spc = "sorted" => rest = {})'
    BY <1>8
  <2> QED BY <1>5, <2>1, <2>2, <2>3 DEF PassedBy
<1>9. spc = "walk"
  BY WalkKeeps
<1>10. ASSUME Visiting
       PROVE  /\ This \in rest /\ ToSet(Append(files, This)) = sent \cup {This}
              /\ rest # {}
  <2>1. This \in rest
    BY <1>1, <1>10, ThisFound DEF Visiting
  <2> QED BY <1>1, <1>2, <1>10, <2>1, AppendSet DEF Visiting
<1>11. \A p : p \in rest \ SkipDir(rest, This) => p \in rest /\ IsPrefix(This, p)
  BY DEF SkipDir
<1>12. CASE WalkVanished
  <2>1. Visiting /\ rest' = SkipDir(rest, This) /\ files' = files /\ ioErrors' = 1 /\ spc' = spc
    BY <1>12 DEF WalkVanished
  <2>2. Tidy(SkipDir(rest, This), sent)
    BY <1>1, <1>3, <1>10, <2>1, TidySkip
  <2> QED BY <1>2, <1>3, <1>8, <1>9, <2>1, <2>2
<1>13. CASE WalkSkip \/ WalkExclude
  <2>1. /\ Visiting /\ rest' = SkipDir(rest, This) /\ files' = files /\ ioErrors' = ioErrors
        /\ spc' = spc
        /\ (IsDir /\ sopt.xfer_dirs = 0) \/ Excluded
    BY <1>13 DEF WalkSkip, WalkExclude, Wanted
  <2>2. Tidy(SkipDir(rest, This), sent)
    BY <1>1, <1>3, <1>10, <2>1, TidySkip
  <2>3. ASSUME NEW p \in rest \ SkipDir(rest, This) PROVE p \notin Wants
    BY <1>1, <1>3, <1>10, <1>11, <2>1, SkippedUnwanted
  <2>4. ioErrors' = 0 => Wants \subseteq SkipDir(rest, This) \cup sent
    BY <1>3, <2>1, <2>3
  <2> QED BY <1>2, <1>3, <1>8, <1>9, <2>1, <2>2, <2>4
<1>14. CASE WalkSend \/ WalkUnreadable \/ WalkFail
  <2>1. Wanted /\ ~Excluded /\ Visiting
    BY <1>14 DEF WalkSend, WalkUnreadable, WalkFail, Wanted
  <2>2. files' = Append(files, This)
    BY <1>14 DEF WalkSend, WalkUnreadable, WalkFail, Noted
  <2>3. PICK more : more = sent \cup {This}
    OBVIOUS
  <2>4. ToSet(files)' = more
    BY <1>10, <2>1, <2>2, <2>3
  <2>5. This \in Wants /\ more \subseteq Wants
    BY <1>1, <1>3, <2>1, <2>3, ThisWanted
  <2>6. This \in rest
    BY <1>10, <2>1
  <2>7. spc' # "sorted"
    BY <1>9, <1>14 DEF WalkSend, WalkUnreadable, WalkFail
  <2>8. Tidy(SkipDir(rest, This), more)
    BY <1>1, <1>3, <2>3, <2>6, TidySkip
  <2>9. CASE WalkUnreadable
    <3>1. rest' = SkipDir(rest, This) /\ ioErrors' = 1
      BY <2>9 DEF WalkUnreadable
    <3> QED BY <1>8, <2>4, <2>5, <2>7, <2>8, <3>1
  <2>10. CASE WalkFail
    <3>1. /\ rest' = rest \ {This} /\ ioErrors' = ioErrors
          /\ Tree[This].kind # "dir"
      BY <2>10 DEF WalkFail
    <3>2. Tidy(rest \ {This}, more)
      BY <1>1, <1>3, <2>3, <2>6, <3>1, TidyTaken
    <3>3. ioErrors' = 0 => Wants \subseteq (rest \ {This}) \cup more
      BY <1>3, <2>3, <3>1
    <3> QED BY <1>8, <2>4, <2>5, <2>7, <3>1, <3>2, <3>3
  <2>11. CASE WalkSend
    <3>1. rest' = AfterSent /\ ioErrors' = ioErrors
      BY <2>11 DEF WalkSend
    <3>2. CASE IsDir /\ ~Recurse(sopt)
      <4>1. rest' = SkipDir(rest, This)
        BY <3>1, <3>2 DEF AfterSent
      <4>2. ASSUME NEW p \in rest \ SkipDir(rest, This), p # This PROVE p \notin Wants
        BY <1>1, <1>3, <1>10, <1>11, <2>1, <3>2, <4>2, BelowUnwanted
      <4>3. ioErrors' = 0 => Wants \subseteq SkipDir(rest, This) \cup more
        BY <1>3, <2>3, <3>1, <4>2
      <4> QED BY <1>8, <2>4, <2>5, <2>7, <2>8, <4>1, <4>3
    <3>3. CASE ~(IsDir /\ ~Recurse(sopt))
      <4>1. rest' = rest \ {This}
        BY <3>1, <3>3 DEF AfterSent
      <4>2. Tree[This].kind = "dir" => Recurse(copt)
        BY <1>3, <3>3 DEF IsDir, Heard
      <4>3. Tidy(rest \ {This}, more)
        BY <1>1, <1>3, <2>3, <2>6, <4>2, TidyTaken
      <4>4. ioErrors' = 0 => Wants \subseteq (rest \ {This}) \cup more
        BY <1>3, <2>3, <3>1
      <4> QED BY <1>8, <2>4, <2>5, <2>7, <4>1, <4>3, <4>4
    <3> QED BY <3>2, <3>3
  <2> QED BY <1>14, <2>9, <2>10, <2>11
<1>15. CASE SendEnd
  <2>1. rest = {} /\ rest' = rest /\ files' = SortedFiles /\ ioErrors' = ioErrors
    BY <1>15 DEF SendEnd, FilesToSend
  <2>2. ToSet(files)' = sent
    BY <1>1, <1>2, <2>1, SortedFilesFacts
  <2> QED BY <1>3, <1>8, <2>1, <2>2
<1> QED BY <1>12, <1>13, <1>14, <1>15 DEF Walk

\* At the start everything is still to be visited.
LEMMA PassedInit == Init => PassedBy
<1> SUFFICES ASSUME Init PROVE PassedBy
  OBVIOUS
<1>1. /\ job \in Jobs /\ rest = WalkOf(job.path) /\ files = <<>> /\ spc = "walk"
  BY DEF Init
<1>2. ToSet(files) = {}
  BY <1>1 DEF ToSet
<1>3. Heard
  BY HeardInit
<1>4. Tidy(rest, {})
  BY <1>1 DEF Tidy
<1>5. Wants \subseteq rest
  BY <1>1 DEF Wants, AskedFor, WalkOf
<1> QED BY <1>1, <1>2, <1>3, <1>4, <1>5 DEF PassedBy, Covers

\* What the walk does not touch leaves it as it is.
LEMMA PassedKept ==
  ASSUME PassedBy, UNCHANGED <<jobVars, sendVars>>
  PROVE  PassedBy'
<1>1. job' = job /\ copt' = copt /\ dopt' = dopt
  BY DEF jobVars
<1>2. rest' = rest /\ files' = files /\ ioErrors' = ioErrors /\ spc' = spc
  BY DEF sendVars
<1>3. Heard'
  BY <1>1, HeardKept DEF PassedBy, jobVars
<1>4. Tidy(rest, ToSet(files))'
  BY <1>1, <1>2 DEF PassedBy, Tidy, WalkOf
<1>5. Wants' = Wants
  BY <1>1, WantsKept
<1>6. Covers(rest, ToSet(files))'
  BY <1>2, <1>5 DEF PassedBy, Covers
<1> QED BY <1>2, <1>3, <1>4, <1>6 DEF PassedBy

\* The invariant of the walk, with the one of the wire.
WalkInv == IInv /\ PassedBy

\* It is inductive: only the steps of the walk touch its second half.
LEMMA WalkAlways == Spec => []WalkInv
<1>1. Init => WalkInv
  BY InitInvariant, PassedInit DEF WalkInv
<1>2. WalkInv /\ [Next]_listVars => WalkInv'
  <2> SUFFICES ASSUME WalkInv, [Next]_listVars PROVE WalkInv'
    OBVIOUS
  <2>1. IInv /\ PassedBy /\ Walked
    BY DEF WalkInv, IInv
  <2>2. IInv'
    BY <2>1, StepInvariant
  <2>3. CASE Walk
    BY <2>1, <2>2, <2>3, WalkPassed DEF WalkInv
  <2>4. CASE Receive
    BY <2>1, <2>2, <2>4, ReceiveKeeps, PassedKept DEF WalkInv
  <2>5. CASE UNCHANGED listVars
    BY <2>1, <2>2, <2>5, PassedKept DEF WalkInv, listVars
  <2> QED BY <2>3, <2>4, <2>5 DEF Next
<1> QED BY <1>1, <1>2, PTL DEF Spec

\* The filters do what the rules mean, for every pattern of characters, stars and
\* classes, and every name: exclude.go (parseFilter, addRule, matches, wildmatch's
\* dowild) leaves out exactly the names about which the first rule that says
\* anything says "exclude"; the parser keeps the rules of the command line, in
\* their order (rsyncopts.go).
THEOREM RulesMean == Spec => []FilterMeaning
<1>1. WalkInv => FilterMeaning
  <2> SUFFICES ASSUME WalkInv, NEW path \in rest
               PROVE  Matches(Rules, Text(WireName(path))) = LeftOut(path)
    BY DEF FilterMeaning
  <2>1. job \in Jobs /\ Heard /\ path \in DOMAIN Tree
    BY DEF WalkInv, IInv, Walked, PassedBy
  <2>2. Matches(Rules, Text(WireName(path))) <=> LeftOut(path)
    BY <2>1, LeftOutMatches
  <2>3. Matches(Rules, Text(WireName(path))) \in BOOLEAN /\ LeftOut(path) \in BOOLEAN
    BY Zenon DEF Matches, LeftOut
  <2> QED BY <2>2, <2>3
<1> QED BY <1>1, WalkAlways, PTL

\* The walk (flist.go, walkFn) misses nothing silently: when both sides are done,
\* and the receiver heard of no error, the list is what was asked for; with an
\* error, it is a part of it.  So what --delete takes for gone (receiver/do.go) is
\* gone, or was not asked for.
THEOREM NothingMissed == Spec => [](DevicesAsOne => MissingMeansFlagged)
<1>1. WalkInv => (DevicesAsOne => MissingMeansFlagged)
  <2> SUFFICES ASSUME WalkInv, DevicesAsOne, Done
               PROVE  /\ ToSet(files) \subseteq Wants
                      /\ IOErrors = 0 => ToSet(files) = Wants
    BY DEF MissingMeansFlagged, Wants
  <2>1. Framed /\ PassedBy /\ spc = "sorted" /\ rpc = "sorted"
    BY DEF WalkInv, IInv, Done
  <2>2. PICK cat, all, f, tail, k, r, users, groups, u, g :
           Inside(cat, all, f, tail, k, r, users, groups, u, g)
    BY <2>1 DEF Framed
  <2>3. IOErrors = ioErrors
    BY <2>1, <2>2 DEF Inside, Errors
  <2>4. rest = {}
    BY <2>1 DEF PassedBy
  <2> QED BY <2>1, <2>3, <2>4 DEF PassedBy, Covers
<1> QED BY <1>1, WalkAlways, PTL
=============================================================================
