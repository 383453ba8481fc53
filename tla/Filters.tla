------------------------------- MODULE Filters -------------------------------
(***************************************************************************)
(* The filter rules of the sender (exclude.go): a list of patterns, the    *)
(* first one that matches decides.  Patterns and names are sequences of    *)
(* character codes.                                                        *)
(*                                                                         *)
(* dowild works on the characters of a pattern and tries the lengths a     *)
(* star may have one after the other.  What a pattern means is said here a *)
(* second time, without its characters: a pattern is a sequence of parts,  *)
(* and a part takes the matcher from a set of positions to another one.    *)
(***************************************************************************)
EXTENDS Integers, Sequences

CONSTANT Codes   \* the character codes of names

Slash == 47
Star == 42
Quest == 63
Open == 91
Close == 93
Dash == 45
Bang == 33
Caret == 94

ASSUME CodesOK == Codes \subseteq Nat /\ Slash \in Codes

\* The first position from k on that has no star, or the end of the pattern.
PastStars(p, k) ==
  CHOOSE q \in k .. Len(p) + 1 :
    /\ q > Len(p) \/ p[q] # Star
    /\ \A j \in k .. q - 1 : p[j] = Star

\* The class whose first character is at position c: what it lists, and the
\* position of its closing bracket.  A bracket in first place is listed.
Class(p, c) ==
  LET scan[q \in c .. Len(p) + 3] ==
        IF q > Len(p) THEN [chars |-> {}, end |-> Len(p) + 1]
        ELSE IF p[q] = Close /\ q > c THEN [chars |-> {}, end |-> q]
        ELSE IF q + 2 <= Len(p) /\ p[q + 1] = Dash /\ p[q + 2] # Close
        THEN [scan[q + 3] EXCEPT !.chars = @ \cup p[q] .. p[q + 2]]
        ELSE [scan[q + 1] EXCEPT !.chars = @ \cup {p[q]}]
  IN scan[c]

\* A mistake to be caught: a star may have no length but the shortest one
\* after which the next character fits.
dowildGreedy(p, t) ==
  LET wild[pi \in 1 .. Len(p) + 2, ti \in 1 .. Len(t) + 1] ==
        IF pi > Len(p) THEN ti = Len(t) + 1
        ELSE IF p[pi] # Star
        THEN ti <= Len(t) /\ p[pi] \in {t[ti], Quest} /\ wild[pi + 1, ti + 1]
        ELSE \E k \in ti .. Len(t) + 1 :
               /\ wild[pi + 1, k]
               /\ \A j \in ti .. k - 1 :
                    t[j] # Slash /\ (pi < Len(p) => t[j] # p[pi + 1])
  IN wild[1, 1]

\* The class at position pi of a pattern, and whether it is negated.
Negated(p, pi) == pi < Len(p) /\ p[pi + 1] \in {Bang, Caret}
ClassAt(p, pi) == Class(p, IF Negated(p, pi) THEN pi + 2 ELSE pi + 1)

\* Where a pattern goes on after what is at position pi: a run of stars, a class
\* or a character.
PastElement(p, pi) ==
  CASE p[pi] = Star -> PastStars(p, pi)
    [] p[pi] = Open -> ClassAt(p, pi).end + 1
    [] OTHER -> pi + 1

\* Whether what is at position pi, if it is no star, is about a character.
Takes(p, pi, c) ==
  CASE p[pi] = Quest -> c # Slash
    [] p[pi] = Open -> IF Negated(p, pi) THEN c \notin ClassAt(p, pi).chars
                       ELSE c \in ClassAt(p, pi).chars
    [] OTHER -> c = p[pi]

\* For each position of the pattern, the positions of the text from which the
\* rest of the text fits the rest of the pattern.
dowild(p, t) ==
  LET wild[pi \in 1 .. Len(p) + 2] ==
        IF pi > Len(p) THEN {Len(t) + 1}
        ELSE LET next == PastElement(p, pi)
                 rest == wild[next]
             IN IF p[pi] = Star
                THEN {ti \in 1 .. Len(t) + 1 : \E k \in ti .. Len(t) + 1 :
                        /\ next > pi + 1 \/ \A j \in ti .. k - 1 : t[j] # Slash
                        /\ k \in rest}
                ELSE {ti \in 1 .. Len(t) : Takes(p, pi, t[ti]) /\ ti + 1 \in rest}
  IN 1 \in wild[1]

Has(text, codes) == \E k \in DOMAIN text : text[k] \in codes

\* parseFilter and addRule: a rule is <<sign, pattern>>; a slash at the end of
\* the pattern is dropped.  (It marks the rule, but nothing reads the mark.)
ParseRule(line) ==
  LET text == line[2]
      pattern == IF text # <<>> /\ text[Len(text)] = Slash
                 THEN SubSeq(text, 1, Len(text) - 1) ELSE text
  IN [include |-> line[1] = "+ ", pattern |-> pattern,
      wild |-> Has(pattern, {Star, Quest, Open})]

\* The last component of a name (filepath.Base).
Base(name) ==
  LET cut == {k \in DOMAIN name : name[k] = Slash}
  IN IF cut = {} THEN name
     ELSE SubSeq(name, 1 + CHOOSE k \in cut : \A j \in cut : j <= k, Len(name))

\* filterRule.matches: without a slash, a pattern is about the last component.
RuleMatches(rule, name) ==
  LET text == IF Has(rule.pattern, {Slash}) THEN name ELSE Base(name)
  IN IF rule.wild THEN dowild(rule.pattern, text) ELSE rule.pattern = text

\* filterRuleList.matches: is the name left out?
Matches(rules, name) ==
  \E i \in DOMAIN rules :
    /\ RuleMatches(rules[i], name) /\ ~rules[i].include
    /\ \A j \in 1 .. i - 1 : ~RuleMatches(rules[j], name)
-----------------------------------------------------------------------------
(* What patterns mean.  A part stands for one character of a set, or for   *)
(* any number of them.                                                     *)

Part(many, of, text) == [many |-> many, of |-> of, text |-> text]

Char(c)         == Part(FALSE, {c}, <<c>>)
AnyChar         == Part(FALSE, Codes \ {Slash}, <<Quest>>)
OneOf(lo, hi)   == Part(FALSE, lo .. hi, <<Open, lo, Dash, hi, Close>>)
NoneOf(lo, hi)  == Part(FALSE, Codes \ lo .. hi, <<Open, Bang, lo, Dash, hi, Close>>)
AnyName         == Part(TRUE, Codes \ {Slash}, <<Star>>)
AnyPath         == Part(TRUE, Codes, <<Star, Star>>)

\* The characters of a pattern.
Characters(parts) ==
  LET chars[i \in 0 .. Len(parts)] ==
        IF i = 0 THEN <<>> ELSE chars[i - 1] \o parts[i].text
  IN chars[Len(parts)]

\* The positions a part leads to from position k of a text.
Leads(part, k, text) ==
  IF part.many
  THEN {j \in k .. Len(text) : \A m \in k + 1 .. j : text[m] \in part.of}
  ELSE {j \in {k + 1} : j <= Len(text) /\ text[j] \in part.of}

Fits(parts, text) ==
  LET at[i \in 0 .. Len(parts)] ==
        IF i = 0 THEN {0} ELSE UNION {Leads(parts[i], k, text) : k \in at[i - 1]}
  IN Len(text) \in at[Len(parts)]

\* What a pattern may consist of: a character of its own, a part for any, or a
\* class.  A star next to a star would be two, and a slash at the end is dropped.
IsPart(part) ==
  \/ part \in {AnyChar, AnyName, AnyPath}
  \/ \E c \in Codes \ {Star, Quest, Open} : part = Char(c)
  \/ \E lo \in Codes, hi \in Codes \ {Close} :
       \/ part = NoneOf(lo, hi)
       \/ part = OneOf(lo, hi) /\ lo \notin {Bang, Caret}

IsPattern(parts) ==
  /\ \A i \in DOMAIN parts : IsPart(parts[i])
  /\ \A i \in 1 .. Len(parts) - 1 : ~(parts[i].many /\ parts[i + 1].many)
  /\ parts # <<>> => parts[Len(parts)] # Char(Slash)
=============================================================================
