----------------------------- MODULE StartupProof -----------------------------
(***************************************************************************)
(* The gates of a daemon hold, and the client's line reader is empty when  *)
(* it is forgotten: for any modules, any clients and any options, whatever *)
(* ParseArguments makes of a command line, and however the reader's fills, *)
(* lost connections and timeouts fall between the lines.                   *)
(*                                                                         *)
(* The argument about the reader: until the flags, client and server hold  *)
(* at most one line between them that is not yet answered, so that OK      *)
(* comes alone (AtFlags), and nothing that the server says elsewhere can   *)
(* be taken for OK (NoOK).  The same dialogue makes what the server reads  *)
(* at its challenge the client's own answer to it (AtAuth), so that who    *)
(* gets in has the secret (Gates).                                         *)
(*                                                                         *)
(* The argument about what the server makes of a client: what is on its    *)
(* way to the server is what is left of the flags, then of the rules and   *)
(* the list, after as many items as the server has read (Streams), so that *)
(* it parses the client's own arguments; and those say what the client's   *)
(* options say (Agreement, from OptionsProof).                             *)
(***************************************************************************)
EXTENDS Startup, OptionsProof, FiniteSetTheorems, SequenceTheorems, TLAPS

-----------------------------------------------------------------------------
(* An access list means its first rule that is about the client.           *)

\* The rules of an access list that are about the client, or are not rules.
Decides(acl) ==
  {i \in DOMAIN acl : acl[i].action \notin {"allow", "deny"} \/ Listed(acl[i])}

\* The recursion of checkACL comes to that rule, and to no other.  That there
\* is a function that satisfies its equation needs a witness (g); that it is
\* TRUE from the first rule up to k, the least place where it would not be.
LEMMA FirstRuleAllows ==
  ASSUME NEW acl, acl \in Seq(Range(acl)), checkACL(acl),
         NEW k \in Decides(acl), \A j \in Decides(acl) : k <= j
  PROVE  call.address # None /\ acl[k].action = "allow"
<1> DEFINE
      n == Len(acl)
      rest(f, i) ==
        IF i > n THEN TRUE
        ELSE IF acl[i].action \notin {"allow", "deny"} THEN FALSE
        ELSE IF acl[i].who \in call.nets \cup {"all"} THEN acl[i].action = "allow"
        ELSE f[i + 1]
      reads(f) == f = [i \in 1 .. n + 1 |-> rest(f, i)]
      from == CHOOSE f : reads(f)
      first(i) == {j \in Decides(acl) : i <= j /\ \A l \in Decides(acl) : i <= l => j <= l}
      g == [i \in 1 .. n + 1 |-> \A j \in first(i) : acl[j].action = "allow"]
<1>1. n \in Nat /\ DOMAIN acl = 1 .. n /\ k \in 1 .. n
  BY DEF Decides
<1>2. acl # <<>> 
  BY <1>1
<1>3. call.address # None /\ from[1]
  BY <1>2 DEF checkACL
<1>4. reads(g)
  <2>1. SUFFICES ASSUME NEW i \in 1 .. n + 1
                 PROVE  g[i] = rest(g, i)
    <3>1. g = [i \in 1 .. n + 1 |-> g[i]]
      OBVIOUS
    <3>2. \A i \in 1 .. n + 1 : g[i] = rest(g, i)
      BY <2>1
    <3> QED BY <3>1, <3>2
  <2>2. i \in Nat /\ (i <= n => i + 1 \in 1 .. n + 1 /\ i \in DOMAIN acl)
    BY <1>1
  <2>3. CASE i > n
    <3>1. first(i) = {}
      BY <1>1, <2>2, <2>3 DEF Decides
    <3> QED BY <2>3, <3>1
  <2>4. CASE i \in Decides(acl)
    <3>1. first(i) = {i}
      BY <1>1, <2>2, <2>4 DEF Decides
    <3>2. g[i] <=> acl[i].action = "allow"
      BY <3>1
    <3>3. rest(g, i) <=> acl[i].action = "allow"
      BY <1>1, <2>2, <2>4 DEF Decides, Listed
    <3>4. g[i] \in BOOLEAN /\ rest(g, i) \in BOOLEAN
      BY <1>1, <2>2, <2>4 DEF Decides, Listed
    <3> QED BY <3>2, <3>3, <3>4
  <2>5. CASE i <= n /\ i \notin Decides(acl)
    <3>1. first(i) = first(i + 1)
      BY <1>1, <2>2, <2>5 DEF Decides
    <3>2. g[i] = g[i + 1]
      BY <2>2, <2>5, <3>1
    <3>3. ~(i > n) /\ ~(acl[i].action \notin {"allow", "deny"})
          /\ ~(acl[i].who \in call.nets \cup {"all"})
      BY <1>1, <2>2, <2>5 DEF Decides, Listed
    <3>4. rest(g, i) = g[i + 1]
      BY <3>3, Zenon
    <3> QED BY <3>2, <3>4
  <2> HIDE DEF g, rest
  <2> QED BY <1>1, <2>2, <2>3, <2>4, <2>5
<1>5. reads(from)
  <2> HIDE DEF g, reads
  <2> QED BY <1>4
<1>6. \A i \in 1 .. n + 1 : from[i] = rest(from, i)
  <2> HIDE DEF from
  <2> QED BY <1>5
<1> HIDE DEF from, first, g
<1>7. \A i \in 1 .. k : from[i]
  <2> DEFINE bad == {i \in 1 .. k : ~from[i]}
  <2>1. SUFFICES ASSUME bad # {} PROVE FALSE
    OBVIOUS
  <2>2. bad \subseteq Nat
    BY <1>1
  <2>3. PICK x \in bad : \A y \in bad : x <= y
    BY <2>1, <2>2, LeastNat
  <2>4. x # 1 /\ x \in 1 .. k /\ ~from[x]
    BY <1>3, <2>3
  <2>5. x - 1 \in 1 .. k /\ x - 1 \in 1 .. n /\ x - 1 < k /\ x - 1 < x /\ (x - 1) + 1 = x
    BY <1>1, <2>4
  <2>6. from[x - 1]
    BY <2>3, <2>4, <2>5
  <2>7. x - 1 \notin Decides(acl)
    BY <1>1, <2>5
  <2>8. ~(x - 1 > n) /\ ~(acl[x - 1].action \notin {"allow", "deny"})
        /\ ~(acl[x - 1].who \in call.nets \cup {"all"})
    BY <1>1, <2>5, <2>7 DEF Decides, Listed
  <2>9. x - 1 \in 1 .. n + 1
    BY <1>1, <2>5
  <2>10. from[x - 1] = from[(x - 1) + 1]
    BY <1>6, <2>8, <2>9, Zenon
  <2> QED BY <2>4, <2>5, <2>6, <2>10
<1>8. k \in 1 .. n + 1 /\ from[k] /\ ~(k > n)
  BY <1>1, <1>7
<1>9. rest(from, k)
  <2>1. from[k] = rest(from, k)
    BY <1>6, <1>8
  <2> HIDE DEF rest
  <2> QED BY <1>8, <2>1
<1> QED BY <1>1, <1>3, <1>8, <1>9 DEF Decides, Listed

-----------------------------------------------------------------------------
(* What a daemon asks of a client is what the configuration says.          *)

\* The part of MayUse that needs no answer from the client.
Outside(m) ==
  /\ Modules[m].acl = <<>> \/ call.address # None
  /\ \A k \in Decides(Modules[m].acl) :
       (\A j \in Decides(Modules[m].acl) : k <= j) =>
          Modules[m].acl[k].action = "allow"
  /\ cnAllowed(Modules[m].cns)

\* The part that does.
Secret(m) ==
  Modules[m].users = {}
    \/ /\ call.user \in Modules[m].users
       /\ call.user \in DOMAIN Modules[m].secrets
       /\ Modules[m].secrets[call.user] = call.password

\* What a module asks from outside, and its secret, are all it asks.
LEMMA MayUseParts ==
  ASSUME NEW m, Outside(m), Secret(m)
  PROVE  MayUse(m)
<1> DEFINE mod == Modules[m]
           decides == {i \in DOMAIN mod.acl :
                         mod.acl[i].action \notin {"allow", "deny"} \/ Listed(mod.acl[i])}
           first == {i \in decides : \A j \in decides : i <= j}
<1>1. decides = Decides(mod.acl)
  BY DEF Decides
<1>2. \A i \in first : mod.acl[i].action = "allow"
  BY <1>1 DEF Outside
<1>3. mod.cns = {} \/ "*" \in mod.cns
        \/ (Kind = "socket" /\ call.cn \in mod.cns)
        \/ (Kind # "socket" /\ None \in mod.cns)
  BY DEF Outside, cnAllowed, ClientCN
<1> QED BY <1>2, <1>3 DEF MayUse, Outside, Secret

\* A daemon that lets a client pass (rsyncd.go: ACL, certificate names) has seen that
\* it may use the module, but for the secret.
LEMMA PassesOutside ==
  ASSUME NEW m, Passes(m)
  PROVE  Outside(m)
<1>1. m \in DOMAIN Modules /\ checkACL(Modules[m].acl) /\ cnAllowed(Modules[m].cns)
  BY DEF Passes, Known
<1>2. Modules[m].acl \in Seq(Range(Modules[m].acl))
  BY <1>1, StartupConstants
<1>3. CASE Modules[m].acl = <<>>
  BY <1>1, <1>3 DEF Outside, Decides
<1>4. CASE Modules[m].acl # <<>>
  <2>1. call.address # None
    BY <1>1, <1>4 DEF checkACL
  <2>2. ASSUME NEW k \in Decides(Modules[m].acl),
               \A j \in Decides(Modules[m].acl) : k <= j
        PROVE  Modules[m].acl[k].action = "allow"
    BY <1>1, <1>2, <2>2, FirstRuleAllows
  <2> QED BY <1>1, <2>1, <2>2 DEF Outside
<1> QED BY <1>3, <1>4

\* An answer that authServer accepts is made with the module's secret.
LEMMA AnswerIsSecret ==
  ASSUME NEW m, NEW c, authServer(m, call.user, Hash(call.password, c))
  PROVE  Secret(m)
<1>1. PICK secret \in lookupSecret(m, call.user) :
        Hash(call.password, c) = Hash(secret, challenge)
  BY DEF authServer
<1>2. secret = call.password
  BY <1>1 DEF Hash
<1> QED BY <1>1, <1>2 DEF authServer, lookupSecret, Secret
-----------------------------------------------------------------------------
(* The dialogue of lines.                                                  *)

\* What the server said and the client has not yet taken up.
Ahead == Len(buffer) + Len(down)
Coming == Range(buffer) \cup Range(down)

\* Before a flag is read: who has said how much, and who waits.
AtGreet ==
  spc \in {"main", "greet"} =>
    /\ Ahead = 0 /\ Len(up) <= 1
    /\ cpc \in {"begin", "greeting", "version", "err"}
    /\ cpc = "begin" => Len(up) = 0

AtGreeting ==
  spc = "greeting" =>
    /\ Ahead <= 1 /\ Len(up) + Ahead <= 2
    /\ cpc \in {"begin", "greeting", "lines", "version", "seed", "err"}
    /\ cpc = "begin" => Len(up) = 0
    /\ cpc \in {"greeting", "version", "seed"} => Len(up) <= 1
    /\ cpc \in {"lines", "seed"} => Ahead = 0

AtName ==
  spc = "module" =>
    /\ Len(up) + Ahead <= 1
    /\ cpc \in {"greeting", "lines", "version", "seed", "err"}
    /\ cpc \in {"greeting", "version", "seed"} => Len(up) = 0
    /\ cpc \in {"lines", "seed"} => Ahead = 0

AtAuth ==
  spc = "auth" =>
    /\ Len(up) + Ahead <= 1
    /\ cpc \in {"lines", "err"}
    /\ \A item \in Range(up) : \E c \in Challenges :
         item = <<"line", "auth", call.user, Hash(call.password, c)>>
    /\ \A item \in Coming : item[2] = "@RSYNCD: AUTHREQD" /\ item[3] \in Challenges

\* While OK is on its way, nothing follows it, and the server waits.
AtFlags ==
  spc = "flags" =>
    \/ /\ Ahead = 1 /\ up = <<>> /\ cpc \in {"lines", "err"}
       /\ \A item \in Coming : item = OK
    \/ Ahead = 0 /\ cpc \in {"seed", "err"}

NoOK == spc # "flags" /\ ~ClientGone => \A item \in Coming : item[2] # OK[2]

Shape ==
  /\ IsSeq(buffer) /\ IsSeq(down)
  /\ spc \in {"main", "greet", "greeting", "module", "auth"} => IsSeq(up)

Dialogue ==
  Shape /\ AtGreet /\ AtGreeting /\ AtName /\ AtAuth /\ AtFlags /\ NoOK

\* The server has not yet heard the flags.
Early == {"main", "greet", "greeting", "module", "auth"}

\* What the client never touches.
LEMMA ClientLeaves ==
  ASSUME ClientStep \/ ClientTimeout
  PROVE  ClientOnly
BY Zenon
   DEF ClientStep, ClientTimeout, ClientBegin, ClientFill, ClientGreeting, ClientAuth,
       ClientFlags, ClientExit, ClientRefused, ClientSkip, ClientVersion, ClientSeed,
       ClientFilters, ClientData, ClientMessage, ClientEOF, AtLine

\* How many lines are ahead of the client, and what they can be.
LEMMA AheadFacts ==
  ASSUME Shape
  PROVE  /\ Ahead \in Nat
         /\ buffer # <<>> \/ down # <<>> => Ahead # 0
         /\ Ahead = 1 /\ buffer # <<>> => down = <<>>
         /\ Ahead = 0 => Coming = {}
         /\ spc \in Early => Len(up) \in Nat
BY SeqFacts DEF Shape, Ahead, Coming, Early

\* What has been read is not coming any more.
LEMMA ReadLine ==
  ASSUME Shape, buffer # <<>>, buffer' = Tail(buffer), down' = down
  PROVE  /\ IsSeq(buffer') /\ IsSeq(down') /\ Ahead' = Ahead - 1
         /\ Coming' \subseteq Coming /\ Head(buffer) \in Coming
BY TailFacts, SeqFacts DEF Shape, Ahead, Coming

\* Nor is what has been read from the connection itself.
LEMMA ReadItem ==
  ASSUME Shape, down # <<>>, down' = Tail(down), buffer' = buffer
  PROVE  /\ IsSeq(buffer') /\ IsSeq(down') /\ Ahead' = Ahead - 1
         /\ Coming' \subseteq Coming /\ Head(down) \in Coming
BY TailFacts, SeqFacts DEF Shape, Ahead, Coming

\* The client sends one line.
LEMMA SendOne ==
  ASSUME Shape, NEW x, up' = up \o <<x>>, spc \in Early
  PROVE  /\ IsSeq(up') /\ Len(up') = Len(up) + 1
         /\ Range(up') \subseteq Range(up) \cup {x}
BY OneFacts, ConcatFacts DEF Shape, Early

\* What the client finds when it reads a line.
LEMMA LineSeen ==
  ASSUME Dialogue, cpc = "lines", buffer # <<>>
  PROVE  /\ spc \notin {"main", "greet", "greeting", "module"}
         /\ spc = "auth" => Head(buffer)[2] = "@RSYNCD: AUTHREQD"
         /\ spc = "flags" => Head(buffer) = OK /\ Ahead = 1
         /\ Head(buffer)[2] = OK[2] => spc = "flags"
<1>1. Ahead # 0 /\ Ahead \in Nat /\ Head(buffer) \in Coming
  BY AheadFacts, TailFacts DEF Dialogue, Shape, Coming
<1>2. spc \notin {"main", "greet", "greeting", "module"}
  BY <1>1 DEF Dialogue, AtGreet, AtGreeting, AtName
<1>3. spc = "auth" => Head(buffer)[2] = "@RSYNCD: AUTHREQD"
  BY <1>1 DEF Dialogue, AtAuth
<1>4. spc = "flags" => Head(buffer) = OK /\ Ahead = 1
  BY <1>1 DEF Dialogue, AtFlags
<1>5. Head(buffer)[2] = OK[2] => spc = "flags"
  BY <1>1 DEF Dialogue, NoOK, ClientGone
<1> QED BY <1>2, <1>3, <1>4, <1>5

\* After the flags only OK matters.
LEMMA LateDialogue ==
  ASSUME Dialogue, spc' = spc, spc \notin Early \cup {"flags"},
         IsSeq(buffer'), IsSeq(down'), Coming' \subseteq Coming, ClientGone => ClientGone'
  PROVE  Dialogue'
BY DEF Dialogue, Shape, AtGreet, AtGreeting, AtName, AtAuth, AtFlags, NoOK, Early

\* No two of the daemon's lines can be taken for each other.
LEMMA DifferentLines ==
  /\ OK[2] # "@RSYNCD: AUTHREQD" /\ OK[2] # Exit[2] /\ OK[2] # Error[2]
  /\ OK[2] # "a module" /\ Exit[2] # "@RSYNCD: AUTHREQD"
  /\ Error[2] # "@RSYNCD: AUTHREQD"
BY DEF OK, Exit, Error, Line

\* Whatever the client does keeps the dialogue.
LEMMA ClientDialogue ==
  ASSUME Dialogue, ClientStep \/ ClientTimeout
  PROVE  Dialogue'
<1>1. UNCHANGED <<call, spc>>
  BY ClientLeaves DEF ClientOnly, serverVars
<1> USE DEF Dialogue
<1>2. /\ Ahead \in Nat
      /\ buffer # <<>> \/ down # <<>> => Ahead # 0
      /\ Ahead = 1 /\ buffer # <<>> => down = <<>>
      /\ Ahead = 0 => Coming = {}
      /\ spc \in Early => Len(up) \in Nat
  BY AheadFacts
<1>3. CASE ClientBegin
  <2>1. PICK x : up' = up \o <<x>>
    BY <1>3 DEF ClientBegin, Sends
  <2>2. cpc = "begin" /\ cpc' \in {"greeting", "version"} /\ UNCHANGED <<buffer, down>>
    BY <1>3 DEF ClientBegin
  <2>3. spc \in Early => IsSeq(up') /\ Len(up') = Len(up) + 1
    BY <2>1, SendOne
  <2>4. Shape'
    BY <1>1, <2>2, <2>3 DEF Shape, Early
  <2>5. AtGreet' /\ AtGreeting'
    BY <1>1, <1>2, <2>2, <2>3 DEF AtGreet, AtGreeting, Ahead, Early
  <2>6. AtName' /\ AtAuth' /\ AtFlags'
    BY <1>1, <2>2 DEF AtName, AtAuth, AtFlags
  <2>7. NoOK'
    BY <1>1, <2>2 DEF NoOK, ClientGone, Coming
  <2> QED BY <2>4, <2>5, <2>6, <2>7
<1>4. CASE ClientFill
  <2>1. /\ buffer = <<>> /\ UNCHANGED <<cpc, up>>
        /\ \E n \in DOMAIN down : /\ buffer' = SubSeq(down, 1, n)
                                  /\ down' = SubSeq(down, n + 1, Len(down))
    BY <1>4 DEF ClientFill
  <2>2. /\ IsSeq(buffer') /\ IsSeq(down') /\ Ahead' = Ahead
        /\ Coming' \subseteq Coming
    BY <2>1, SplitFacts, EmptyFacts, SeqFacts DEF Shape, Ahead, Coming
  <2>3. Shape' /\ AtGreet' /\ AtGreeting' /\ AtName' /\ NoOK'
    BY <1>1, <2>1, <2>2 DEF Shape, AtGreet, AtGreeting, AtName, NoOK, ClientGone
  <2>4. AtAuth'
    BY <1>1, <2>1, <2>2 DEF AtAuth
  <2>5. AtFlags'
    BY <1>1, <2>1, <2>2 DEF AtFlags
  <2> QED BY <2>3, <2>4, <2>5
<1>5. CASE ClientGreeting
  <2>1. /\ cpc = "greeting" /\ cpc' = "lines" /\ buffer # <<>>
        /\ buffer' = Tail(buffer) /\ UNCHANGED down
        /\ up' = up \o <<Line(RequestedModule)>>
    BY <1>5 DEF ClientGreeting, Sends
  <2>2. /\ IsSeq(buffer') /\ IsSeq(down') /\ Ahead' = Ahead - 1
        /\ Coming' \subseteq Coming
    BY <2>1, ReadLine
  <2>3. spc \in Early => IsSeq(up') /\ Len(up') = Len(up) + 1
    BY <2>1, SendOne
  <2>4. Shape' /\ AtGreet'
    BY <1>1, <1>2, <2>1, <2>2, <2>3 DEF Shape, AtGreet, Early
  <2>5. AtGreeting' /\ AtName'
    BY <1>1, <1>2, <2>1, <2>2, <2>3 DEF AtGreeting, AtName, Early
  <2>6. AtAuth' /\ AtFlags' /\ NoOK'
    BY <1>1, <2>1, <2>2 DEF AtAuth, AtFlags, NoOK, ClientGone
  <2> QED BY <2>4, <2>5, <2>6
<1>6. CASE ClientAuth
  <2>1. /\ cpc = "lines" /\ buffer # <<>> /\ Head(buffer)[2] = "@RSYNCD: AUTHREQD"
        /\ buffer' = Tail(buffer) /\ UNCHANGED down
        /\ \/ cpc' = "err" /\ UNCHANGED up
           \/ /\ UNCHANGED cpc
              /\ up' = up \o << <<"line", "auth", call.user,
                                  Hash(call.password, Head(buffer)[3])>> >>
    BY <1>6 DEF ClientAuth, AtLine, Sends
  <2>2. /\ IsSeq(buffer') /\ IsSeq(down') /\ Ahead' = Ahead - 1
        /\ Coming' \subseteq Coming /\ Head(buffer) \in Coming
    BY <2>1, ReadLine
  <2>3. spc \notin {"main", "greet", "greeting", "module"} /\ spc # "flags"
    BY <2>1, LineSeen, DifferentLines
  <2>5. CASE spc = "auth"
    <3> USE <2>5
    <3>0. Len(up) \in Nat /\ Len(up) + Ahead <= 1
      BY <1>2 DEF AtAuth, Early
    <3>1. CASE cpc' = "err" /\ UNCHANGED up
      <4>1. AtAuth'
        <5>1. /\ \A item \in Range(up) : \E c \in Challenges :
                    item = <<"line", "auth", call.user, Hash(call.password, c)>>
              /\ \A item \in Coming : item[2] = "@RSYNCD: AUTHREQD" /\ item[3] \in Challenges
          BY <2>5 DEF AtAuth
        <5>2. Len(up') + Ahead' <= 1
          BY <1>2, <2>2, <3>0, <3>1
        <5> HIDE DEF Hash
        <5> QED BY <1>1, <2>2, <3>1, <5>1, <5>2 DEF AtAuth
      <4> QED BY <1>1, <2>2, <2>5, <3>1, <4>1
              DEF Shape, AtGreet, AtGreeting, AtName, AtFlags, NoOK, ClientGone
    <3>2. CASE UNCHANGED cpc /\ up' = up \o << <<"line", "auth", call.user,
                                    Hash(call.password, Head(buffer)[3])>> >>
      <4>1. /\ IsSeq(up') /\ Len(up') = Len(up) + 1
            /\ Range(up') \subseteq Range(up) \cup
                 {<<"line", "auth", call.user, Hash(call.password, Head(buffer)[3])>>}
        BY <2>5, <3>2, SendOne DEF Early
      <4>2. Head(buffer)[3] \in Challenges
        BY <2>2, <2>5 DEF AtAuth
      <4>3. AtAuth'
        <5>1. Len(up') + Ahead' <= 1
          BY <1>2, <2>2, <3>0, <4>1
        <5>2. \A item \in Range(up') : \E c \in Challenges :
                item = <<"line", "auth", call.user, Hash(call.password, c)>>
          <6>1. \A item \in Range(up) : \E c \in Challenges :
                  item = <<"line", "auth", call.user, Hash(call.password, c)>>
            BY <2>5 DEF AtAuth
          <6> HIDE DEF Hash
          <6> QED BY ONLY <6>1, <4>1, <4>2
        <5>3. \A item \in Coming' : item[2] = "@RSYNCD: AUTHREQD" /\ item[3] \in Challenges
          BY <2>2, <2>5 DEF AtAuth
        <5> QED BY <1>1, <2>1, <3>2, <5>1, <5>2, <5>3 DEF AtAuth
      <4>4. Shape' /\ AtGreet' /\ AtGreeting' /\ AtName' /\ AtFlags'
        BY <1>1, <2>2, <2>5, <4>1 DEF Shape, AtGreet, AtGreeting, AtName, AtFlags
      <4>5. NoOK'
        BY <1>1, <2>2, <2>5, <3>2 DEF NoOK, ClientGone
      <4> QED BY <4>3, <4>4, <4>5
    <3> QED BY <2>1, <3>1, <3>2
  <2>6. CASE spc \notin Early \cup {"flags"}
    BY <1>1, <2>1, <2>2, <2>6, LateDialogue DEF ClientGone
  <2> QED BY <2>3, <2>5, <2>6 DEF Early
<1>7. CASE ClientFlags
  <2>1. /\ cpc = "lines" /\ buffer # <<>> /\ Head(buffer)[2] = OK[2]
        /\ buffer' = <<>> /\ cpc' = "seed" /\ UNCHANGED down
    BY <1>7 DEF ClientFlags, AtLine
  <2>2. spc = "flags" /\ Ahead = 1
    BY <2>1, LineSeen
  <2>3. down = <<>>
    BY <1>2, <2>1, <2>2
  <2>4. IsSeq(buffer') /\ IsSeq(down') /\ Ahead' = 0 /\ Coming' = {}
    BY <2>1, <2>3, EmptyFacts DEF Ahead, Coming
  <2> QED BY <1>1, <2>1, <2>2, <2>4
          DEF Shape, AtGreet, AtGreeting, AtName, AtAuth, AtFlags, NoOK
<1>8. CASE ClientExit \/ ClientRefused \/ ClientSkip
  <2>1. /\ cpc = "lines" /\ buffer # <<>>
        /\ Head(buffer)[2] \in {Exit[2], Error[2], "a module"}
        /\ buffer' = Tail(buffer) /\ UNCHANGED down
    BY <1>8 DEF ClientExit, ClientRefused, ClientSkip, AtLine
  <2>2. spc \notin Early \cup {"flags"}
    BY <2>1, LineSeen, DifferentLines DEF Early
  <2>3. /\ IsSeq(buffer') /\ IsSeq(down') /\ Coming' \subseteq Coming
    BY <2>1, ReadLine
  <2>4. ~ClientGone
    BY <2>1 DEF ClientGone
  <2> QED BY <1>1, <2>2, <2>3, <2>4, LateDialogue
<1>9. CASE ClientVersion
  <2>1. /\ cpc = "version" /\ cpc' = "seed" /\ down # <<>>
        /\ down' = Tail(down) /\ UNCHANGED <<buffer, up>>
    BY <1>9 DEF ClientVersion, ClientReads
  <2>2. /\ IsSeq(buffer') /\ IsSeq(down') /\ Ahead' = Ahead - 1
        /\ Coming' \subseteq Coming
    BY <2>1, ReadItem
  <2>3. Shape' /\ AtGreet' /\ AtGreeting' /\ AtName'
    BY <1>1, <1>2, <2>1, <2>2 DEF Shape, AtGreet, AtGreeting, AtName, Early
  <2>4. AtAuth' /\ AtFlags' /\ NoOK'
    BY <1>1, <2>1, <2>2 DEF AtAuth, AtFlags, NoOK, ClientGone
  <2> QED BY <2>3, <2>4
<1>10. CASE ClientSeed
  <2>1. /\ cpc = "seed" /\ cpc' = "filters" /\ down # <<>>
        /\ down' = Tail(down) /\ UNCHANGED buffer
    BY <1>10 DEF ClientSeed, ClientReads
  <2>2. IsSeq(buffer') /\ IsSeq(down') /\ Coming' \subseteq Coming
    BY <2>1, ReadItem
  <2>3. spc \notin Early \cup {"flags"}
    BY <1>2, <2>1 DEF AtGreet, AtGreeting, AtName, AtAuth, AtFlags, Early
  <2>4. ~ClientGone
    BY <2>1 DEF ClientGone
  <2> QED BY <1>1, <2>2, <2>3, <2>4, LateDialogue
<1>11. CASE ClientFilters \/ ClientData \/ ClientMessage
  <2>1. /\ cpc \in {"filters", "list"} /\ UNCHANGED buffer
        /\ UNCHANGED down \/ (down # <<>> /\ down' = Tail(down))
    BY <1>11 DEF ClientFilters, ClientData, ClientMessage, ClientReads
  <2>2. IsSeq(buffer') /\ IsSeq(down') /\ Coming' \subseteq Coming
    BY <2>1, ReadItem DEF Coming, Shape
  <2>3. spc \notin Early \cup {"flags"} /\ ~ClientGone
    BY <2>1 DEF AtGreet, AtGreeting, AtName, AtAuth, AtFlags, Early, ClientGone
  <2> QED BY <1>1, <2>2, <2>3, LateDialogue
<1>12. CASE ClientEOF \/ ClientTimeout
  <2>1. cpc' = "err" /\ UNCHANGED <<buffer, up, down>>
    BY <1>12 DEF ClientEOF, ClientTimeout
  <2>2. cpc \in {"greeting", "lines", "version", "seed", "list"}
    BY <1>12 DEF ClientEOF, ClientTimeout, ClientWaits
  <2>3. Ahead' = Ahead /\ Coming' = Coming
    BY <2>1 DEF Ahead, Coming
  <2>4. Shape' /\ AtGreet' /\ AtGreeting' /\ AtName' /\ NoOK'
    BY <1>1, <2>1, <2>3 DEF Shape, AtGreet, AtGreeting, AtName, NoOK, ClientGone
  <2>5. AtAuth'
    BY <1>1, <2>1, <2>3 DEF AtAuth
  <2>6. AtFlags'
    BY <1>1, <2>1, <2>2, <2>3 DEF AtFlags
  <2> QED BY <2>4, <2>5, <2>6
<1> QED BY <1>3, <1>4, <1>5, <1>6, <1>7, <1>8, <1>9, <1>10, <1>11, <1>12
        DEF ClientStep

\* What the server never touches.
LEMMA ServerLeaves ==
  ASSUME ServerStep
  PROVE  ServerOnly
BY Zenon
   DEF ServerStep, ServerMain, ServerGreet, ServerGreeting, ServerListModules,
       ServerRefuse, ServerAskAuth, ServerAdmit, AtModule, ServerAuth, ServerFlag,
       ServerFlags, ServerVersion, ServerSeed, ServerReceiver, ServerRule, ServerRules,
       ServerSendList, ServerReceiveList, ServerEOF

\* The server sends one line.
LEMMA Said ==
  ASSUME Shape, buffer' = buffer, NEW x, down' = down \o <<x>>
  PROVE  /\ IsSeq(buffer') /\ IsSeq(down') /\ Ahead' = Ahead + 1
         /\ Coming' \subseteq Coming \cup {x}
BY OneFacts, ConcatFacts, SeqFacts DEF Shape, Ahead, Coming

\* The server reads one line.
LEMMA Listened ==
  ASSUME Shape, spc \in Early, up # <<>>, up' = Tail(up)
  PROVE  /\ IsSeq(up') /\ Len(up') = Len(up) - 1 /\ Len(up) \in Nat \ {0}
         /\ Range(up') \subseteq Range(up) /\ Head(up) \in Range(up)
BY TailFacts, SeqFacts DEF Shape, Early

\* Once the flags are read, or will never be, only OK matters.
LEMMA OverDialogue ==
  ASSUME spc' \notin Early \cup {"flags"}, IsSeq(buffer'), IsSeq(down'), NoOK'
  PROVE  Dialogue'
BY DEF Dialogue, Shape, AtGreet, AtGreeting, AtName, AtAuth, AtFlags, Early

\* A list of modules has no OK in it.
LEMMA ModuleListFacts ==
  /\ IsSeq(formatModuleList \o <<Exit>>)
  /\ \A item \in Range(formatModuleList \o <<Exit>>) : item[2] # OK[2]
<1>1. Cardinality(DOMAIN Modules) \in Nat
  BY StartupConstants, FS_CardinalityType
<1> DEFINE line == Line("a module")
<1>2. line[2] # OK[2]
  BY DEF Line, OK
<1>3. formatModuleList = [i \in 1 .. Cardinality(DOMAIN Modules) |-> line]
  BY DEF formatModuleList
<1> HIDE DEF line
<1>4. formatModuleList \in Seq({line})
  BY <1>1, <1>3
<1>5. IsSeq(formatModuleList) /\ Range(formatModuleList) \subseteq {line}
  BY <1>4, SeqIntro
<1>6. IsSeq(<<Exit>>) /\ Range(<<Exit>>) = {Exit}
  BY OneFacts
<1>7. /\ IsSeq(formatModuleList \o <<Exit>>)
      /\ Range(formatModuleList \o <<Exit>>) \subseteq {line, Exit}
  BY <1>5, <1>6, ConcatFacts
<1> QED BY <1>2, <1>7, DifferentLines

\* Whatever the server does keeps the dialogue.
LEMMA ServerDialogue ==
  ASSUME Dialogue, ServerStep
  PROVE  Dialogue'
<1>1. UNCHANGED <<call, cpc, buffer>>
  BY ServerLeaves DEF ServerOnly, clientVars
<1> USE DEF Dialogue
<1>2. /\ Ahead \in Nat
      /\ Ahead = 0 => Coming = {}
      /\ spc \in Early => Len(up) \in Nat
      /\ IsSeq(buffer) /\ IsSeq(down)
  BY AheadFacts DEF Shape
<1>3. CASE ServerMain
  <2>1. spc = "main" /\ spc' \in {"err", "greet", "version"} /\ UNCHANGED <<up, down>>
    BY <1>3 DEF ServerMain
  <2>2. Ahead' = Ahead /\ Coming' = Coming
    BY <1>1, <2>1 DEF Ahead, Coming
  <2>3. Shape' /\ AtGreet' /\ NoOK'
    BY <1>1, <1>2, <2>1, <2>2 DEF Shape, AtGreet, NoOK, ClientGone
  <2> QED BY <2>1, <2>3 DEF AtGreeting, AtName, AtAuth, AtFlags
<1>4. CASE ServerGreet
  <2>1. /\ spc = "greet" /\ spc' = "greeting" /\ UNCHANGED up
        /\ down' = down \o <<Line("@RSYNCD: 31.0")>>
    BY <1>4 DEF ServerGreet, Says
  <2>2. /\ IsSeq(buffer') /\ IsSeq(down') /\ Ahead' = Ahead + 1
        /\ Coming' \subseteq Coming \cup {Line("@RSYNCD: 31.0")}
    BY <1>1, <2>1, Said
  <2>3. Shape' /\ AtGreeting'
    <3>1. Len(up) <= 1 /\ Ahead = 0
      BY <2>1 DEF AtGreet
    <3>2. Len(up) \in Nat
      BY <1>2, <2>1 DEF Early
    <3>3. Ahead' = 1
      <4>1. Ahead' = Ahead + 1
        BY <2>2
      <4> QED BY <3>1, <4>1
    <3>4. Shape'
      BY <2>1, <2>2 DEF Shape
    <3>5. /\ spc = "greet" /\ spc' = "greeting" /\ cpc' = cpc /\ up' = up
          /\ cpc \in {"begin", "greeting", "version", "err"}
          /\ cpc = "begin" => Len(up) = 0
      BY <1>1, <2>1 DEF AtGreet
    <3>6. AtGreeting'
      BY <3>1, <3>2, <3>3, <3>5 DEF AtGreeting
    <3> QED BY <3>4, <3>6
  <2>4. Line("@RSYNCD: 31.0")[2] # OK[2]
    BY DEF Line, OK
  <2>5. NoOK'
    BY <1>1, <2>1, <2>2, <2>4 DEF NoOK, ClientGone
  <2> QED BY <2>1, <2>3, <2>5 DEF AtGreet, AtName, AtAuth, AtFlags
<1>5. CASE ServerGreeting
  <2>1. /\ spc = "greeting" /\ spc' = "module" /\ UNCHANGED down
        /\ up # <<>> /\ up' = Tail(up)
    BY <1>5 DEF ServerGreeting, ServerReads
  <2>2. IsSeq(up') /\ Len(up') = Len(up) - 1 /\ Len(up) \in Nat \ {0}
    BY <2>1, Listened DEF Early
  <2>3. Ahead' = Ahead /\ Coming' = Coming
    BY <1>1, <2>1 DEF Ahead, Coming
  <2>4. Shape' /\ AtName'
    BY <1>1, <1>2, <2>1, <2>2, <2>3 DEF Shape, AtGreeting, AtName
  <2>5. NoOK'
    BY <1>1, <2>1, <2>3 DEF NoOK, ClientGone
  <2> QED BY <2>1, <2>4, <2>5 DEF AtGreet, AtGreeting, AtAuth, AtFlags
<1>6. ASSUME AtModule
      PROVE  /\ spc = "module" /\ IsSeq(up') /\ Len(up') = 0 /\ up' = <<>>
             /\ Ahead = 0 /\ Coming = {} /\ cpc \in {"lines", "err"}
  <2>1. spc = "module" /\ up # <<>> /\ up' = Tail(up)
    BY <1>6 DEF AtModule, ServerReads
  <2>2. IsSeq(up') /\ Len(up') = Len(up) - 1 /\ Len(up) \in Nat \ {0}
    BY <2>1, Listened DEF Early
  <2>3. Len(up) = 1 /\ Ahead = 0 /\ cpc \in {"lines", "err"}
    BY <1>2, <2>1, <2>2 DEF AtName
  <2>4. Len(up') = 0
    BY <2>2, <2>3
  <2>5. up' = <<>>
    BY <2>2, <2>4, SeqFacts
  <2> QED BY <1>2, <2>1, <2>2, <2>3, <2>4, <2>5
<1>7. CASE ServerListModules
  <2>1. spc' = "listed" /\ down' = down \o (formatModuleList \o <<Exit>>) /\ AtModule
    BY <1>7 DEF ServerListModules, Says
  <2>2. /\ IsSeq(down')
        /\ Range(down') \subseteq Range(down) \cup Range(formatModuleList \o <<Exit>>)
    BY <1>2, <2>1, ConcatFacts, ModuleListFacts
  <2>3. Coming' \subseteq Range(formatModuleList \o <<Exit>>)
    BY <1>1, <1>6, <2>1, <2>2 DEF Coming
  <2>4. NoOK'
    BY <2>3, ModuleListFacts DEF NoOK
  <2> QED BY <1>1, <1>2, <2>1, <2>2, <2>4, OverDialogue DEF Early
<1>8. CASE ServerRefuse
  <2>1. spc' = "err" /\ down' = down \o <<Error>> /\ AtModule
    BY <1>8 DEF ServerRefuse, Says
  <2>2. IsSeq(buffer') /\ IsSeq(down') /\ Coming' \subseteq Coming \cup {Error}
    BY <1>1, <2>1, Said
  <2>3. NoOK'
    BY <1>6, <2>1, <2>2, DifferentLines DEF NoOK
  <2> QED BY <2>1, <2>2, <2>3, OverDialogue DEF Early
<1>9. CASE ServerAskAuth
  <2> DEFINE ask == <<"line", "@RSYNCD: AUTHREQD", challenge'>>
  <2>1. /\ spc' = "auth" /\ down' = down \o <<ask>> /\ AtModule
        /\ challenge' \in Challenges
    BY <1>9 DEF ServerAskAuth, Says
  <2>2. ask[2] = "@RSYNCD: AUTHREQD" /\ ask[3] \in Challenges
    BY <2>1
  <2> HIDE DEF ask
  <2>3. /\ IsSeq(buffer') /\ IsSeq(down') /\ Ahead' = Ahead + 1
        /\ Coming' \subseteq Coming \cup {ask}
    BY <1>1, <2>1, Said
  <2>4. Range(up') = {}
    BY <1>6, <2>1, SeqFacts
  <2>5. \A item \in Coming' : item[2] = "@RSYNCD: AUTHREQD" /\ item[3] \in Challenges
    BY <1>6, <2>1, <2>2, <2>3
  <2>6. AtAuth'
    <3>1. Len(up') + Ahead' <= 1 /\ cpc' \in {"lines", "err"}
      BY <1>1, <1>6, <2>1, <2>3
    <3> QED BY <2>1, <2>4, <2>5, <3>1 DEF AtAuth
  <2>7. Shape' /\ NoOK'
    BY <1>6, <2>1, <2>3, <2>5, DifferentLines DEF Shape, NoOK
  <2> QED BY <2>1, <2>6, <2>7 DEF AtGreet, AtGreeting, AtName, AtFlags
<1>10. ASSUME down' = down \o Admittance, spc' = "flags", up' = <<>>, Ahead = 0,
              cpc \in {"lines", "err"}
       PROVE  Dialogue'
  <2>1. /\ IsSeq(buffer') /\ IsSeq(down') /\ Ahead' = Ahead + 1
        /\ Coming' \subseteq Coming \cup {OK}
    BY <1>1, <1>10, Said DEF Admittance
  <2>2. AtFlags'
    BY <1>1, <1>2, <1>10, <2>1 DEF AtFlags
  <2> QED BY <1>10, <2>1, <2>2 DEF Shape, AtGreet, AtGreeting, AtName, AtAuth, NoOK
<1>11. CASE ServerAdmit
  <2>1. AtModule /\ spc' = "flags" /\ down' = down \o Admittance
    BY <1>11 DEF ServerAdmit, Says
  <2> QED BY <1>6, <1>10, <2>1
<1>12. CASE ServerAuth
  <2>1. spc = "auth" /\ up # <<>> /\ up' = Tail(up)
    BY <1>12 DEF ServerAuth, ServerReads
  <2>2. IsSeq(up') /\ Len(up') = Len(up) - 1 /\ Len(up) \in Nat \ {0}
    BY <2>1, Listened DEF Early
  <2>3. Len(up) + Ahead <= 1 /\ cpc \in {"lines", "err"}
    BY <2>1 DEF AtAuth
  <2>4. Ahead = 0 /\ up' = <<>>
    BY <1>2, <2>2, <2>3, SeqFacts
  <2>5. CASE spc' = "flags" /\ down' = down \o Admittance
    BY <1>10, <2>3, <2>4, <2>5
  <2>6. CASE spc' = "err" /\ down' = down \o <<Error>>
    <3>1. IsSeq(buffer') /\ IsSeq(down') /\ Coming' \subseteq Coming \cup {Error}
      BY <1>1, <2>6, Said
    <3>2. NoOK'
      BY <1>2, <2>4, <3>1, DifferentLines DEF NoOK
    <3> QED BY <2>6, <3>1, <3>2, OverDialogue DEF Early
  <2> QED BY <1>12, <2>5, <2>6 DEF ServerAuth, Says
<1>13. CASE ServerFlag
  <2>1. spc = "flags" /\ UNCHANGED <<spc, down>> /\ up # <<>>
    BY <1>13 DEF ServerFlag, ServerReads
  <2>2. Ahead' = Ahead /\ Coming' = Coming
    BY <1>1, <2>1 DEF Ahead, Coming
  <2>3. AtFlags'
    BY <1>1, <2>1, <2>2 DEF AtFlags
  <2> QED BY <1>1, <1>2, <2>1, <2>3
          DEF Shape, AtGreet, AtGreeting, AtName, AtAuth, NoOK
<1>14. CASE ServerFlags
  <2> DEFINE seed == <<"int", "errorSeed">>
  <2>1. spc = "flags" /\ up # <<>> /\ Ahead = 0 /\ Coming = {}
    BY <1>2, <1>14 DEF ServerFlags, ServerReads, AtFlags
  <2>2. seed[2] # OK[2] /\ ErrorXfer[2] # OK[2]
    BY DEF OK, Line, ErrorXfer
  <2> HIDE DEF seed
  <2>3. CASE spc' = "seed" /\ UNCHANGED down
    <3>1. Coming' = Coming
      BY <1>1, <2>3 DEF Coming
    <3> QED BY <1>1, <1>2, <2>1, <2>3, <3>1, OverDialogue DEF NoOK, Early
  <2>4. CASE spc' = "err" /\ down' = down \o <<seed, ErrorXfer>>
    <3>1. /\ IsSeq(<<seed, ErrorXfer>>)
          /\ Range(<<seed, ErrorXfer>>) \subseteq {seed, ErrorXfer}
      BY TwoFacts
    <3>2. IsSeq(down') /\ Range(down') \subseteq Range(down) \cup {seed, ErrorXfer}
      BY <1>2, <2>4, <3>1, ConcatFacts
    <3>3. NoOK'
      BY <1>1, <2>1, <2>2, <3>2 DEF NoOK, Coming
    <3> QED BY <1>1, <1>2, <2>4, <3>2, <3>3, OverDialogue DEF Early
  <2> QED BY <1>14, <2>3, <2>4 DEF ServerFlags, Says, seed
<1>15. CASE ServerEOF
  <2>1. spc' = "err" /\ ClientGone /\ UNCHANGED down
    BY <1>15 DEF ServerEOF
  <2> QED BY <1>1, <1>2, <2>1, OverDialogue DEF NoOK, ClientGone, Early
<1>16. ASSUME spc \notin Early \cup {"flags"}, spc' \notin Early \cup {"flags"},
              UNCHANGED down
       PROVE  Dialogue'
  <2>1. Coming' = Coming
    BY <1>1, <1>16 DEF Coming
  <2> QED BY <1>1, <1>2, <1>16, <2>1, OverDialogue DEF NoOK, ClientGone
<1>17. ASSUME spc \notin Early \cup {"flags"}, spc' \notin Early \cup {"flags"},
              NEW x, x[2] # OK[2], down' = down \o <<x>>
       PROVE  Dialogue'
  <2>1. IsSeq(buffer') /\ IsSeq(down') /\ Coming' \subseteq Coming \cup {x}
    BY <1>1, <1>17, Said
  <2> QED BY <1>1, <1>17, <2>1, OverDialogue DEF NoOK, ClientGone
<1>18. /\ <<"int", "version">>[2] # OK[2] /\ <<"int", "seed">>[2] # OK[2]
       /\ ErrorXfer[2] # OK[2] /\ Data("list")[2] # OK[2] /\ Data("request")[2] # OK[2]
  BY DEF OK, Line, ErrorXfer, Data
<1>19. CASE ServerVersion \/ ServerSeed \/ ServerSendList \/ ServerReceiveList
  <2>1. /\ spc \notin Early \cup {"flags"} /\ spc' \notin Early \cup {"flags"}
        /\ \E x \in {<<"int", "version">>, <<"int", "seed">>, Data("list"), Data("request")} :
             down' = down \o <<x>>
    BY <1>19 DEF ServerVersion, ServerSeed, ServerSendList, ServerReceiveList, Says, Early
  <2> QED BY <1>17, <1>18, <2>1
<1>20. CASE ServerReceiver
  <2>1. /\ spc \notin Early \cup {"flags"} /\ spc' \notin Early \cup {"flags"}
        /\ UNCHANGED down \/ down' = down \o <<ErrorXfer>>
    BY <1>20 DEF ServerReceiver, Says, Early
  <2> QED BY <1>16, <1>17, <1>18, <2>1
<1>21. CASE ServerRule \/ ServerRules
  BY <1>16, <1>21 DEF ServerRule, ServerRules, Early
<1> QED BY <1>3, <1>4, <1>5, <1>7, <1>8, <1>9, <1>11, <1>12, <1>13, <1>14, <1>15,
           <1>19, <1>20, <1>21 DEF ServerStep
-----------------------------------------------------------------------------
(* The gates.                                                              *)

\* Until a module is asked for, and over a pipe, there is none.
NoneYet == spc \in {"main", "greet", "greeting", "version"} => module = None

Passed == spc = "auth" => Outside(module)

\* The server is past its gates.
Inside == {"flags", "seed", "receiver", "filters", "list", "transfer"}

Admitted == spc \in Inside /\ module # None => MayUse(module)

Written == spc \in {"filters", "list", "transfer"} /\ ~Sender(dopt) => Writable

Gates == NoneYet /\ Passed /\ Admitted /\ Written

\* What a module asks of a client does not change while the client stays.
LEMMA SameClient ==
  ASSUME UNCHANGED <<call, copt>>, NEW m
  PROVE  (MayUse(m) => MayUse(m)') /\ (Outside(m) => Outside(m)')
<1>1. call' = call /\ Kind' = Kind
  BY DEF Kind
<1>2. MayUse(m) => MayUse(m)'
  BY <1>1, Zenon DEF MayUse, Listed
<1>3. Outside(m) => Outside(m)'
  BY <1>1, Zenon DEF Outside, Decides, Listed, cnAllowed, ClientCN
<1> QED BY <1>2, <1>3

\* A step that leaves the gates alone keeps them.
LEMMA ClientGates ==
  ASSUME Gates, UNCHANGED <<call, copt, spc, module, dopt>>
  PROVE  Gates'
<1>1. PICK m : m = module
  OBVIOUS
<1>2. m = module'
  BY <1>1
<1>3. (MayUse(m) => MayUse(m)') /\ (Outside(m) => Outside(m)')
  BY SameClient
<1>4. Passed'
  <2>1. spc = "auth" => Outside(m)
    BY <1>1 DEF Gates, Passed
  <2> QED BY <1>2, <1>3, <2>1 DEF Passed
<1>5. Admitted'
  <2>1. spc \in Inside /\ m # None => MayUse(m)
    BY <1>1 DEF Gates, Admitted
  <2>2. spc' \in Inside /\ m # None => MayUse(m)'
    BY <1>3, <2>1
  <2> QED BY <1>2, <2>2 DEF Admitted
<1>6. NoneYet' /\ Written'
  BY DEF Gates, NoneYet, Written, Writable
<1> QED BY <1>4, <1>5, <1>6 DEF Gates

\* Who is inside stays inside; over a pipe there is no module.
LEMMA StaysInside ==
  ASSUME Gates, UNCHANGED <<call, copt, module>>, spc \in Inside \cup {"version"}
  PROVE  Admitted'
<1>1. PICK m : m = module
  OBVIOUS
<1>2. m = module'
  BY <1>1
<1>3. m # None => MayUse(m)
  BY <1>1 DEF Gates, Admitted, NoneYet
<1>4. m # None => MayUse(m)'
  BY <1>3, SameClient
<1> QED BY <1>2, <1>4 DEF Admitted

\* The server opens no gate for a client that may not pass it.
LEMMA ServerGates ==
  ASSUME Gates, Dialogue, ServerStep
  PROVE  Gates'
<1>1. UNCHANGED <<call, copt>>
  BY ServerLeaves DEF ServerOnly, clientVars
<1>2. CASE ServerMain \/ ServerGreet \/ ServerGreeting \/ ServerEOF
  <2>1. UNCHANGED module
    BY <1>2 DEF ServerMain, ServerGreet, ServerGreeting, ServerEOF
  <2>2. \/ spc \in {"main", "greet"} /\ spc' \in {"err", "greet", "version", "greeting"}
        \/ spc' \in {"module", "err"}
    BY <1>2 DEF ServerMain, ServerGreet, ServerGreeting, ServerEOF
  <2> QED BY <2>1, <2>2 DEF Gates, NoneYet, Passed, Admitted, Written, Inside
<1>3. CASE ServerListModules \/ ServerRefuse
  <2>1. spc' \in {"listed", "err"}
    BY <1>3 DEF ServerListModules, ServerRefuse
  <2> QED BY <2>1 DEF Gates, NoneYet, Passed, Admitted, Written, Inside
<1>4. CASE ServerAskAuth \/ ServerAdmit
  <2>1. PICK m : m = Heard[2]
    OBVIOUS
  <2>2. m = module' /\ Passes(m)
    BY <1>4, <2>1 DEF ServerAskAuth, ServerAdmit, AtModule
  <2>3. Outside(m)
    BY <2>2, PassesOutside
  <2>4. CASE spc' = "auth"
    <3>1. Outside(m)'
      BY <1>1, <2>3, SameClient
    <3> QED BY <2>2, <2>4, <3>1 DEF Gates, NoneYet, Passed, Admitted, Written, Inside
  <2>5. CASE spc' = "flags" /\ Modules[m].users = {}
    <3>1. MayUse(m)
      BY <2>3, <2>5, MayUseParts DEF Secret
    <3>2. MayUse(m)'
      BY <1>1, <3>1, SameClient
    <3> QED BY <2>2, <2>5, <3>2 DEF Gates, NoneYet, Passed, Admitted, Written, Inside
  <2> QED BY <1>4, <2>1, <2>4, <2>5 DEF ServerAskAuth, ServerAdmit
<1>5. CASE ServerAuth
  <2>1. spc = "auth" /\ up # <<>> /\ up' = Tail(up) /\ UNCHANGED module
    BY <1>5 DEF ServerAuth, ServerReads
  <2>2. CASE spc' = "err"
    BY <2>2 DEF Gates, NoneYet, Passed, Admitted, Written, Inside
  <2>3. CASE spc' = "flags" /\ authServer(module, Heard[3], Heard[4])
    <3>1. PICK m : m = module
      OBVIOUS
    <3>2. Outside(m)
      BY <2>1, <3>1 DEF Gates, Passed
    <3>3. Head(up) \in Range(up)
      BY <2>1, Listened DEF Dialogue, Early
    <3>4. PICK c : Head(up) = <<"line", "auth", call.user, Hash(call.password, c)>>
      BY <2>1, <3>3 DEF Dialogue, AtAuth
    <3>5. Heard[3] = call.user /\ Heard[4] = Hash(call.password, c)
      BY <3>4 DEF Heard
    <3>6. Secret(m)
      BY <2>3, <3>1, <3>5, AnswerIsSecret
    <3>7. MayUse(m)
      BY <3>2, <3>6, MayUseParts
    <3>8. MayUse(m)' /\ m = module'
      BY <1>1, <2>1, <3>1, <3>7, SameClient
    <3> QED BY <2>3, <3>8 DEF Gates, NoneYet, Passed, Admitted, Written, Inside
  <2> QED BY <1>5, <2>2, <2>3 DEF ServerAuth
<1>6. CASE ServerFlag \/ ServerRule
  BY <1>1, <1>6, ClientGates DEF ServerFlag, ServerRule
<1>7. CASE ServerFlags
  <2>1. spc = "flags" /\ spc' \in {"err", "seed"} /\ UNCHANGED module
    BY <1>7 DEF ServerFlags
  <2>2. Admitted'
    BY <1>1, <2>1, StaysInside DEF Inside
  <2> QED BY <2>1, <2>2 DEF Gates, NoneYet, Passed, Written
<1>8. CASE ServerVersion \/ ServerSeed \/ ServerReceiver \/ ServerRules
             \/ ServerSendList \/ ServerReceiveList
  <2>1. /\ UNCHANGED <<module, dopt>>
        /\ spc \in {"version", "seed", "receiver", "filters", "list"}
        /\ spc' \in {"err", "seed", "receiver", "filters", "list", "transfer"}
    BY <1>8 DEF ServerVersion, ServerSeed, ServerReceiver, ServerRules,
                ServerSendList, ServerReceiveList
  <2>2. Admitted'
    BY <1>1, <2>1, StaysInside DEF Inside
  <2>3. Sender(dopt)' = Sender(dopt) /\ Writable' = Writable
    BY <2>1, Zenon DEF Sender, Writable
  <2>4. Written'
    <3>1. CASE ServerVersion
      BY <3>1 DEF ServerVersion, Written
    <3>2. CASE ServerSeed
      BY <2>3, <3>2 DEF ServerSeed, Written
    <3>3. CASE ServerReceiver
      BY <2>3, <3>3 DEF ServerReceiver, Written
    <3>4. CASE ServerRules \/ ServerSendList \/ ServerReceiveList
      BY <2>3, <3>4 DEF ServerRules, ServerSendList, ServerReceiveList, Gates, Written
    <3> QED BY <1>8, <3>1, <3>2, <3>3, <3>4
  <2> QED BY <2>1, <2>2, <2>4 DEF Gates, NoneYet, Passed
<1> QED BY <1>2, <1>3, <1>4, <1>5, <1>6, <1>7, <1>8 DEF ServerStep
-----------------------------------------------------------------------------
(* What is on its way to the server, and what it has made of it.           *)

\* What of s comes after its first k items.
Rest(s, k) == SubSeq(s, k + 1, Len(s))

\* Reading what is left of a sequence, item by item.
LEMMA RestFacts ==
  ASSUME NEW s, IsSeq(s), NEW k \in 0 .. Len(s)
  PROVE  /\ IsSeq(Rest(s, k))
         /\ \A i \in DOMAIN Rest(s, k) :
              i \in 1 .. Len(s) /\ k + i \in 1 .. Len(s) /\ Rest(s, k)[i] = s[k + i]
         /\ Rest(s, k) # <<>> =>
              /\ k + 1 \in 1 .. Len(s) /\ Head(Rest(s, k)) = s[k + 1]
              /\ Tail(Rest(s, k)) = Rest(s, k + 1)
         /\ k = Len(s) => Rest(s, k) = <<>>
         /\ k = 0 => Rest(s, k) = s
<1>1. PICK n \in Nat : n = Len(s)
  BY DEF IsSeq
<1>2. k \in Nat /\ k <= n /\ DOMAIN s = 1 .. n /\ s \in Seq(Range(s))
  BY <1>1 DEF IsSeq
<1> DEFINE r == Rest(s, k)
<1>3. r = [i \in 1 .. n - k |-> s[i + k]]
  BY <1>1, <1>2 DEF Rest
<1>4. r \in Seq(Range(s)) /\ Len(r) = n - k /\ DOMAIN r = 1 .. n - k
      /\ \A i \in 1 .. n - k : r[i] = s[k + i]
  <2>1. \A i \in 1 .. n - k : i + k \in 1 .. n /\ s[i + k] \in Range(s) /\ i + k = k + i
    BY <1>2 DEF Range
  <2>2. n - k \in Nat
    BY <1>2
  <2> QED BY <1>3, <2>1, <2>2
<1> HIDE DEF r
<1>5. ASSUME r # <<>>
      PROVE  /\ k + 1 \in 1 .. n /\ Head(r) = s[k + 1]
             /\ Tail(r) = Rest(s, k + 1)
  <2>1. Len(r) # 0 /\ n - k \in Nat /\ n - k # 0
    BY <1>2, <1>4, <1>5
  <2>2. k + 1 \in 1 .. n
    BY <1>2, <2>1
  <2>3. Head(r) = r[1] /\ 1 \in 1 .. n - k
    BY <1>4, <1>5, <2>1
  <2> DEFINE t == Rest(s, k + 1)
             u == Tail(r)
  <2>4. t = [i \in 1 .. n - (k + 1) |-> s[i + (k + 1)]]
    BY <1>1, <1>2, <2>2 DEF Rest
  <2>5. n - (k + 1) = (n - k) - 1
    BY <1>2
  <2>6. u = [i \in 1 .. (n - k) - 1 |-> r[i + 1]]
    <3>1. PICK m \in Nat : m = n - k
      BY <1>2
    <3>2. r \in Seq(Range(s)) /\ Len(r) = m /\ r # <<>>
      BY <1>4, <1>5, <3>1
    <3>3. u \in Seq(Range(s)) /\ Len(u) = m - 1 /\ \A i \in 1 .. m - 1 : u[i] = r[i + 1]
      BY <3>2
    <3> HIDE DEF u
    <3>4. u = [i \in 1 .. m - 1 |-> u[i]]
      BY <3>3
    <3> QED BY <3>1, <3>3, <3>4
  <2>7. \A i \in 1 .. (n - k) - 1 : r[i + 1] = s[i + (k + 1)]
    <3>1. SUFFICES ASSUME NEW i \in 1 .. (n - k) - 1 PROVE r[i + 1] = s[i + (k + 1)]
      OBVIOUS
    <3>2. i + 1 \in 1 .. n - k /\ k + (i + 1) = i + (k + 1)
      BY <1>2
    <3> QED BY <1>4, <3>2
  <2> HIDE DEF t, u
  <2>8. t = u
    BY <2>4, <2>5, <2>6, <2>7
  <2> QED BY <1>4, <2>2, <2>3, <2>8 DEF t, u
<1>6. k = n => r = <<>>
  BY <1>2, <1>4
<1>7. ASSUME k = 0 PROVE r = s
  <2>1. n - k = n /\ \A i \in 1 .. n : i + k = i
    BY <1>2, <1>7
  <2>2. s = [i \in 1 .. n |-> s[i]]
    BY <1>1, <1>2
  <2>3. \A i \in 1 .. n : s[i + k] = s[i]
    BY <2>1
  <2>4. r = [i \in 1 .. n |-> s[i + k]]
    BY <1>3, <2>1
  <2> QED BY <2>2, <2>3, <2>4
<1>8. \A i \in DOMAIN r : i \in 1 .. n /\ k + i \in 1 .. n /\ r[i] = s[k + i]
  BY <1>2, <1>4
<1>9. IsSeq(r)
  BY <1>4, SeqIntro
<1> QED BY <1>1, <1>5, <1>6, <1>7, <1>8, <1>9 DEF r

\* A sequence that is read item by item is a prefix of what is read.
LEMMA PrefixFacts ==
  ASSUME NEW s, IsSeq(s), NEW k \in 0 .. Len(s)
  PROVE  /\ IsPrefix(SubSeq(s, 1, k), s)
         /\ k = 0 => SubSeq(s, 1, k) = <<>>
         /\ k = Len(s) => SubSeq(s, 1, k) = s
         /\ k + 1 \in 1 .. Len(s) => Append(SubSeq(s, 1, k), s[k + 1]) = SubSeq(s, 1, k + 1)
<1>1. PICK n \in Nat : n = Len(s)
  BY DEF IsSeq
<1>2. k \in Nat /\ k <= n /\ DOMAIN s = 1 .. n /\ s \in Seq(Range(s))
  BY <1>1 DEF IsSeq
<1> DEFINE p == SubSeq(s, 1, k)
<1>3. p = [i \in 1 .. k |-> s[i]]
  BY <1>1, <1>2
<1>4. p \in Seq(Range(s)) /\ Len(p) = k /\ \A i \in 1 .. k : p[i] = s[i]
  BY <1>2, <1>3 DEF Range
<1> HIDE DEF p
<1>5. IsPrefix(p, s)
  <2>1. SubSeq(p, 1, k) = [i \in 1 .. k |-> p[i]]
    BY <1>2, <1>4
  <2>2. SubSeq(p, 1, k) = p
    BY <1>3, <1>4, <2>1
  <2> QED BY <1>1, <1>2, <1>4, <2>2 DEF IsPrefix, p
<1>6. k = 0 => p = <<>>
  BY <1>4
<1>7. ASSUME k = n PROVE p = s
  <2>1. s = [i \in 1 .. n |-> s[i]]
    BY <1>1, <1>2
  <2> QED BY <1>3, <1>7, <2>1
<1>8. ASSUME k + 1 \in 1 .. n PROVE Append(p, s[k + 1]) = SubSeq(s, 1, k + 1)
  <2> DEFINE q == SubSeq(s, 1, k + 1)
             a == Append(p, s[k + 1])
  <2>1. q = [i \in 1 .. k + 1 |-> s[i]]
    BY <1>1, <1>2, <1>8
  <2>2. s[k + 1] \in Range(s)
    BY <1>2, <1>8 DEF Range
  <2>3. a \in Seq(Range(s)) /\ Len(a) = k + 1 /\ a[k + 1] = s[k + 1]
        /\ \A i \in 1 .. k : a[i] = p[i]
    BY <1>2, <1>4, <2>2
  <2> HIDE DEF q, a
  <2>4. \A i \in 1 .. k + 1 : a[i] = s[i]
    BY <1>2, <1>4, <2>3
  <2>5. a = [i \in 1 .. k + 1 |-> a[i]]
    BY <2>3
  <2> QED BY <2>1, <2>4, <2>5 DEF q, a
<1> QED BY <1>1, <1>5, <1>6, <1>7, <1>8 DEF p

-----------------------------------------------------------------------------
(* The client's options and their likeness.                                *)

\* A client is one of those there are, and its options are its command line's.
Clients == call \in Calls /\ copt = ClientOptions(call)

\* The parts of the arguments of a client's command line.
Parts(args) == (UNION {Range(a) : a \in Range(args)}) \cup Words

\* An argument of a client has at least one part.
LEMMA ArgsNonEmpty ==
  ASSUME NEW c \in Calls, NEW args \in {c.args, c.others}
  PROVE  args \in Seq(NonEmpty(Parts(args)))
<1>1. IsSeq(args) /\ \A a \in Range(args) : IsSeq(a) /\ a # <<>>
  BY StartupConstants DEF IsSeq
<1>2. \A a \in Range(args) : a \in NonEmpty(Parts(args))
  <2>1. SUFFICES ASSUME NEW a \in Range(args) PROVE a \in NonEmpty(Parts(args))
    OBVIOUS
  <2>2. Range(a) \subseteq Parts(args)
    BY DEF Parts
  <2>3. a \in Seq(Parts(args)) /\ a # <<>>
    <3>1. a \in Seq(Range(a)) /\ a # <<>>
      BY <1>1 DEF IsSeq
    <3>2. Len(a) \in Nat /\ a = [i \in 1 .. Len(a) |-> a[i]]
          /\ \A i \in 1 .. Len(a) : a[i] \in Range(a)
      BY <3>1
    <3>3. \A i \in 1 .. Len(a) : a[i] \in Parts(args)
      BY <2>2, <3>2
    <3> QED BY <3>1, <3>2, <3>3
  <2> QED BY <2>3 DEF NonEmpty
<1>3. Len(args) \in Nat /\ args = [i \in 1 .. Len(args) |-> args[i]]
      /\ \A i \in 1 .. Len(args) : args[i] \in Range(args)
  BY <1>1 DEF IsSeq
<1>4. \A i \in 1 .. Len(args) : args[i] \in NonEmpty(Parts(args))
  BY <1>2, <1>3
<1> QED BY <1>3, <1>4

\* Options that a client can start with: its numbers are numbers, its rules are a
\* sequence, and what to do with directories is settled.
Starts(o) ==
  /\ \A f \in Counts : o[f] \in Nat
  /\ o["filterRules"] \in Seq(Range(o["filterRules"]))
  /\ Settled(o)

\* A client starts with such options.
LEMMA ClientStarts ==
  ASSUME Clients
  PROVE  Starts(copt)
<1> DEFINE args == call.args
           P == Parts(args)
           o == ParseArguments(args)
           x == IF call.push THEN 1 ELSE o["am_sender"]
           y == IF call.remote = "none" THEN 1 ELSE o["local_server"]
           o1 == [o EXCEPT !["am_sender"] = x]
           o2 == [o1 EXCEPT !["local_server"] = y]
<1>1. call \in Calls /\ copt = o2
  <2>1. ClientOptions(call) = [o EXCEPT !["am_sender"] = x, !["local_server"] = y]
    BY Zenon DEF ClientOptions
  <2> HIDE DEF o, x, y
  <2>2. [o EXCEPT !["am_sender"] = x, !["local_server"] = y] = o2
    OBVIOUS
  <2> HIDE DEF o2
  <2> QED BY <2>1, <2>2 DEF Clients
<1>2. args \in Seq(NonEmpty(P)) /\ "-" \in P
  BY <1>1, ArgsNonEmpty DEF Parts, Words
<1>3. ~o.failed /\ o.am_daemon # 1
  BY <1>1, StartupConstants
<1> HIDE DEF P, o
<1>4. Sane(o, P) /\ Settled(o)
  <2>1. Sane(o, P) /\ (o.failed \/ o.am_daemon = 1 \/ Settled(o))
    BY <1>2, ParsesSane DEF o
  <2> QED BY <1>3, <2>1
<1>5. /\ "am_sender" \in Fields /\ "local_server" \in Fields
      /\ "am_sender" \notin {"filterRules", "xfer_dirs", "recurse"}
      /\ "local_server" \notin {"filterRules", "xfer_dirs", "recurse"}
      /\ "filterRules" \in Fields /\ "xfer_dirs" \in Fields /\ "recurse" \in Fields
      /\ "am_sender" \in Counts /\ "local_server" \in Counts
  BY FieldsAre DEF Counts
<1>6. Sane(o1, P)
  <2>1. x \in Nat
    BY <1>4, <1>5 DEF Sane
  <2> QED BY <1>4, <1>5, <2>1, SaneSet
<1>7. Sane(o2, P)
  <2>1. y \in Nat
    BY <1>4, <1>5 DEF Sane
  <2> HIDE DEF o1, y
  <2> QED BY <1>5, <1>6, <2>1, SaneSet
<1>8. Settled(o2)
  <2>1. DOMAIN o = Fields
    BY <1>4 DEF Sane
  <2>2. o2["recurse"] = o["recurse"] /\ o2["xfer_dirs"] = o["xfer_dirs"]
    BY <1>5, <2>1
  <2> HIDE DEF o2
  <2> QED BY <1>4, <2>2 DEF Settled
<1> HIDE DEF o2
<1>9. o2["filterRules"] \in Seq(Range(o2["filterRules"]))
  <2>1. o2["filterRules"] \in Seq(RuleWords(P))
    BY <1>7 DEF Sane
  <2> QED BY <2>1, SeqIntro DEF IsSeq
<1> QED BY <1>1, <1>7, <1>8, <1>9 DEF Starts, Sane

\* What the server of such a client makes of its command line has the same fields on,
\* and it is the sender if the client is not.
LEMMA Agreement ==
  ASSUME NEW o, Starts(o), NEW path, NEW d, d = ParseArguments(CommandOptions(o, path))
  PROVE  /\ Sender(o) # Sender(d) /\ DeleteMode(o) = DeleteMode(d)
         /\ \A f \in WireFields : On(o, f) = On(d, f)
         /\ ~On(d, "preserve_hard_links")
<1> DEFINE p == Server1(o, path)
<1>1. d = Implied(p)
  BY ServerHears
<1>2. DOMAIN p = Fields /\ \A f \in Fields : f # "remaining" => p[f] = Told(o)[f]
  <2>1. p = [Told(o) EXCEPT !["remaining"] = <<".", path>>]
    BY DEF Server1
  <2>2. DOMAIN Told(o) = Fields
    BY ToldIs
  <2> QED BY <2>1, <2>2
<1> DEFINE x == IF p["recurse"] # 0 THEN 1
                ELSE IF p["xfer_dirs"] >= 0 THEN p["xfer_dirs"]
                ELSE IF p["list_only"] # 0 THEN 1 ELSE 0
<1>3. d = [p EXCEPT !["xfer_dirs"] = x]
  BY <1>1 DEF Implied
<1> HIDE DEF p, x
<1>4. d["xfer_dirs"] = x /\ \A f \in Fields : f \notin {"remaining", "xfer_dirs"} => d[f] = Told(o)[f]
  BY <1>2, <1>3, FieldsAre
<1>5. o["recurse"] \in Nat /\ o["delete_mode"] \in Nat /\ o["am_sender"] \in Nat
  BY DEF Starts, Counts
<1>6. d["am_sender"] = IF Sender(o) THEN 0 ELSE 1
  <2>1. Told(o)["am_sender"] = IF Sender(o) THEN 0 ELSE 1
    BY ToldIs
  <2> QED BY <1>4, <2>1, FieldsAre
<1>7. Sender(o) # Sender(d)
  <2>1. Sender(d) = (d["am_sender"] # 0)
    BY DEF Sender
  <2>2. Sender(o) \in BOOLEAN /\ Sender(d) \in BOOLEAN
    BY DEF Sender
  <2>3. Sender(d) <=> ~Sender(o)
    BY <1>6 DEF Sender
  <2> QED BY <2>2, <2>3
<1>8. d["delete_mode"] = IF DeleteMode(o) THEN 1 ELSE 0
  <2>1. Told(o)["delete_mode"] = IF DeleteMode(o) THEN 1 ELSE 0
    BY ToldIs
  <2> QED BY <1>4, <2>1, FieldsAre
<1>9. DeleteMode(o) = DeleteMode(d) /\ On(o, "delete_mode") = On(d, "delete_mode")
  <2>1. d["delete_mode"] # 0 <=> o["delete_mode"] # 0
    BY <1>8 DEF DeleteMode
  <2>2. d["delete_mode"] > 0 <=> o["delete_mode"] > 0
    BY <1>5, <1>8 DEF DeleteMode
  <2> QED BY <2>1, <2>2 DEF DeleteMode, On
<1>10. d["recurse"] = IF On(o, "recurse") THEN 2 ELSE 0
  <2>1. Told(o)["recurse"] = IF On(o, "recurse") THEN 2 ELSE 0
    BY ToldIs
  <2> QED BY <1>4, <2>1, FieldsAre
<1>11. On(o, "recurse") = On(d, "recurse")
  BY <1>10 DEF On
<1>12. \A f \in ToldAsIs : On(o, f) = On(d, f)
  <2>1. SUFFICES ASSUME NEW f \in ToldAsIs PROVE On(o, f) = On(d, f)
    OBVIOUS
  <2>2. f \in Fields /\ f \notin {"remaining", "xfer_dirs"}
    BY FieldsAre DEF ToldAsIs
  <2>3. d[f] = IF On(o, f) THEN 1 ELSE 0
    BY <1>4, <2>2, ToldIs
  <2> QED BY <2>3 DEF On
<1>13. On(o, "xfer_dirs") = On(d, "xfer_dirs")
  <2>1. /\ p["recurse"] = IF On(o, "recurse") THEN 2 ELSE 0
        /\ p["xfer_dirs"] = IF ~Recurse(o) /\ On(o, "xfer_dirs") THEN 2 ELSE -1
        /\ p["list_only"] = 0
    <3>1. /\ Told(o)["recurse"] = IF On(o, "recurse") THEN 2 ELSE 0
          /\ Told(o)["xfer_dirs"] = IF ~Recurse(o) /\ On(o, "xfer_dirs") THEN 2 ELSE -1
          /\ Told(o)["list_only"] = Defaults["list_only"]
      BY ToldIs
    <3>2. Defaults["list_only"] = 0
      BY DEF Defaults
    <3> QED BY <1>2, <3>1, <3>2, FieldsAre
  <2>2. (o["recurse"] # 0 => o["xfer_dirs"] = 1) /\ (o["recurse"] = 0 => o["xfer_dirs"] >= 0)
    BY DEF Starts, Settled
  <2>3. CASE o["recurse"] # 0
    <3>1. On(o, "recurse") /\ On(o, "xfer_dirs")
      BY <1>5, <2>2, <2>3 DEF On
    <3>2. x = 1
      BY <2>1, <3>1 DEF x
    <3> QED BY <1>4, <3>1, <3>2 DEF On
  <2>4. CASE o["recurse"] = 0
    <3>1. ~On(o, "recurse") /\ ~Recurse(o)
      BY <2>4 DEF On, Recurse
    <3>2. x = IF On(o, "xfer_dirs") THEN 2 ELSE 0
      BY <2>1, <3>1 DEF x
    <3> QED BY <1>4, <3>2 DEF On
  <2> QED BY <2>3, <2>4
<1>14. ~On(d, "preserve_hard_links")
  <2>1. Told(o)["preserve_hard_links"] = Defaults["preserve_hard_links"]
    BY ToldIs
  <2>2. Defaults["preserve_hard_links"] = 0
    BY DEF Defaults
  <2>3. d["preserve_hard_links"] = 0
    BY <1>4, <2>1, <2>2, FieldsAre
  <2> QED BY <2>3 DEF On
<1>15. WireFields \subseteq ToldAsIs \cup {"recurse", "xfer_dirs", "delete_mode"}
  BY DEF WireFields, ToldAsIs
<1> QED BY <1>7, <1>9, <1>11, <1>12, <1>13, <1>14, <1>15

-----------------------------------------------------------------------------
(* The three things a client says: its flags, its rules, its list.         *)

\* Command lines over a set are command lines over a larger one.
LEMMA NonEmptyMono ==
  ASSUME NEW S, NEW T, S \subseteq T, NEW s \in Seq(NonEmpty(S))
  PROVE  s \in Seq(NonEmpty(T))
<1>1. NonEmpty(S) \subseteq NonEmpty(T)
  BY SeqMono DEF NonEmpty
<1> QED BY <1>1, SeqMono

\* No argument of the server is empty: only the end of the flags is an empty line.
LEMMA ArgumentsFacts ==
  ASSUME Clients
  PROVE  IsSeq(Arguments) /\ \A i \in 1 .. Len(Arguments) : Arguments[i] # <<>>
<1> DEFINE P == ((Words \cup {copt.io_timeout}) \cup Parts(call.others)) \cup {".", "path"}
           a == ServerOptions(copt)
           b == call.others
           c == <<".">>
           d == <<"path">>
<1>1. Arguments = (a \o b) \o <<c, d>>
  BY DEF Arguments
<1>2. Words \subseteq P /\ copt.io_timeout \in P /\ Parts(b) \subseteq P
  OBVIOUS
<1>3. c \in NonEmpty(P) /\ d \in NonEmpty(P)
  BY DEF NonEmpty
<1> HIDE DEF P, c, d
<1>4. a \in Seq(NonEmpty(P))
  BY <1>2, ToldNonEmpty
<1>5. b \in Seq(NonEmpty(P))
  <2>1. b \in Seq(NonEmpty(Parts(b)))
    BY ArgsNonEmpty DEF Clients
  <2> HIDE DEF b
  <2> QED BY <1>2, <2>1, NonEmptyMono
<1> HIDE DEF a, b
<1>6. <<c, d>> \in Seq(NonEmpty(P))
  BY <1>3
<1>7. (a \o b) \o <<c, d>> \in Seq(NonEmpty(P))
  BY <1>4, <1>5, <1>6, ConcatProperties
<1>8. Arguments \in Seq(NonEmpty(P))
  BY <1>1, <1>7
<1>9. IsSeq(Arguments)
  BY <1>8, SeqIntro
<1>10. \A i \in 1 .. Len(Arguments) : Arguments[i] \in NonEmpty(P)
  BY <1>8
<1> QED BY <1>9, <1>10 DEF NonEmpty

\* The flags are the arguments, a line for each, and an empty line.
LEMMA FlagLinesFacts ==
  ASSUME Clients
  PROVE  /\ IsSeq(FlagLines) /\ Len(FlagLines) = Len(Arguments) + 1 /\ Len(Arguments) \in Nat
         /\ \A i \in 1 .. Len(Arguments) :
              FlagLines[i] = Line(Arguments[i]) /\ FlagLines[i] # EndOfFlags
         /\ FlagLines[Len(Arguments) + 1] = EndOfFlags
<1>1. IsSeq(Arguments) /\ \A i \in 1 .. Len(Arguments) : Arguments[i] # <<>>
  BY ArgumentsFacts
<1>2. PICK n \in Nat : n = Len(Arguments) /\ DOMAIN Arguments = 1 .. n
  BY <1>1 DEF IsSeq
<1> DEFINE S == {Line(Arguments[i]) : i \in 1 .. n} \cup {EndOfFlags}
<1>3. ArgLines = [i \in 1 .. n |-> Line(Arguments[i])]
  BY <1>2 DEF ArgLines
<1>4. ArgLines \in Seq(S) /\ Len(ArgLines) = n /\ \A i \in 1 .. n : ArgLines[i] = Line(Arguments[i])
  BY <1>3
<1>5. EndOfFlags \in S
  OBVIOUS
<1> HIDE DEF S
<1>6. /\ FlagLines \in Seq(S) /\ Len(FlagLines) = n + 1 /\ FlagLines[n + 1] = EndOfFlags
      /\ \A i \in 1 .. n : FlagLines[i] = ArgLines[i]
  BY <1>4, <1>5 DEF FlagLines
<1>7. \A i \in 1 .. n : Line(Arguments[i]) # EndOfFlags
  <2>1. SUFFICES ASSUME NEW i \in 1 .. n PROVE Line(Arguments[i]) # EndOfFlags
    OBVIOUS
  <2>2. Line(Arguments[i])[2] = Arguments[i] /\ EndOfFlags[2] = <<>>
    BY DEF Line, EndOfFlags
  <2> QED BY <1>1, <1>2, <2>2
<1>8. IsSeq(FlagLines)
  BY <1>6, SeqIntro
<1> QED BY <1>2, <1>4, <1>6, <1>7, <1>8

\* The arguments of a client that is this program are those of ServerOptions.
LEMMA OwnArguments ==
  ASSUME Clients, call.others = <<>>
  PROVE  Arguments = CommandOptions(copt, "path")
<1> DEFINE a == ServerOptions(copt)
           P == Words \cup {copt.io_timeout}
<1>1. a \in Seq(NonEmpty(P))
  BY ToldNonEmpty
<1> HIDE DEF a, P
<1>2. a \o <<>> = a
  BY <1>1
<1> QED BY <1>2 DEF a, Arguments, CommandOptions

\* What the client says between the seed and the transfer.
Message ==
  (IF SendsFilters THEN RuleItems \o <<EndOfFilters>> ELSE <<>>)
  \o (IF Sender(copt) THEN << <<"list">> >> ELSE <<>>)

\* The rules in their order, their end, and the list; or only the list.
LEMMA MessageFacts ==
  ASSUME Clients, NEW n, n = Len(copt.filterRules)
  PROVE  /\ IsSeq(copt.filterRules) /\ IsSeq(Message) /\ n \in Nat /\ Len(Message) \in Nat
         /\ SendsFilters =>
              /\ n + 1 <= Len(Message) /\ Len(Message) <= n + 2
              /\ \A i \in 1 .. n : Message[i] = <<"rule", copt.filterRules[i]>>
              /\ Message[n + 1] = EndOfFilters
              /\ \A i \in 1 .. Len(Message) : i > n + 1 => Message[i] = <<"list">>
         /\ ~SendsFilters => \A i \in 1 .. Len(Message) : Message[i] = <<"list">>
<1>1. IsSeq(copt.filterRules)
  BY ClientStarts DEF Starts, IsSeq
<1>2. n \in Nat /\ DOMAIN copt.filterRules = 1 .. n
  BY <1>1 DEF IsSeq
<1> DEFINE list == <<"list">>
           rule(i) == <<"rule", copt.filterRules[i]>>
           S == ({rule(i) : i \in 1 .. n} \cup {EndOfFilters}) \cup {list}
           tail == IF Sender(copt) THEN <<list>> ELSE <<>>
           head == RuleItems \o <<EndOfFilters>>
<1>3. RuleItems = [i \in 1 .. n |-> rule(i)]
  BY <1>2 DEF RuleItems
<1>4. RuleItems \in Seq(S) /\ Len(RuleItems) = n /\ \A i \in 1 .. n : RuleItems[i] = rule(i)
  BY <1>2, <1>3
<1>5. list \in S /\ EndOfFilters \in S
  OBVIOUS
<1>6. Message = (IF SendsFilters THEN head ELSE <<>>) \o tail
  BY DEF Message
<1> HIDE DEF S, list, rule
<1>7. /\ tail \in Seq(S) /\ Len(tail) \in 0 .. 1
      /\ \A i \in 1 .. Len(tail) : tail[i] = list
  BY <1>5
<1> HIDE DEF tail
<1>8. /\ head \in Seq(S) /\ Len(head) = n + 1 /\ head[n + 1] = EndOfFilters
      /\ \A i \in 1 .. n : head[i] = rule(i)
  <2>1. PICK r \in Seq(S) : r = RuleItems
    BY <1>4
  <2>2. PICK e \in S : e = EndOfFilters
    BY <1>5
  <2>3. /\ r \o <<e>> \in Seq(S) /\ Len(r \o <<e>>) = n + 1 /\ (r \o <<e>>)[n + 1] = e
        /\ \A i \in 1 .. n : (r \o <<e>>)[i] = r[i]
    BY <1>2, <1>4, <2>1
  <2> QED BY <1>4, <2>1, <2>2, <2>3
<1> HIDE DEF head
<1>9. CASE SendsFilters
  <2>1. Message = head \o tail
    BY <1>6, <1>9
  <2>2. Message \in Seq(S) /\ Len(Message) = (n + 1) + Len(tail)
    BY <1>2, <1>7, <1>8, <2>1
  <2>3. \A i \in 1 .. n + 1 : Message[i] = head[i]
    BY <1>7, <1>8, <2>1
  <2>4. \A i \in 1 .. Len(Message) : i > n + 1 => Message[i] = list
    <3>1. SUFFICES ASSUME NEW i \in 1 .. Len(Message), i > n + 1 PROVE Message[i] = list
      OBVIOUS
    <3>2. Message[i] = tail[i - (n + 1)] /\ i - (n + 1) \in 1 .. Len(tail)
      BY <1>2, <1>7, <1>8, <2>1, <2>2, <3>1
    <3> QED BY <1>7, <3>2
  <2>5. n + 1 <= Len(Message) /\ Len(Message) <= n + 2 /\ Len(Message) \in Nat
    BY <1>2, <1>7, <2>2
  <2>6. \A i \in 1 .. n : Message[i] = rule(i)
    BY <1>2, <1>8, <2>3
  <2>7. Message[n + 1] = EndOfFilters
    BY <1>2, <1>8, <2>3
  <2>8. IsSeq(Message)
    BY <2>2, SeqIntro
  <2> QED BY <1>1, <1>2, <1>9, <2>4, <2>5, <2>6, <2>7, <2>8 DEF rule, list
<1>10. CASE ~SendsFilters
  <2>1. Message = <<>> \o tail
    BY <1>6, <1>10
  <2>2. Message = tail
    BY <1>7, <2>1
  <2>3. IsSeq(Message)
    BY <1>7, <2>2, SeqIntro
  <2> QED BY <1>1, <1>2, <1>7, <1>10, <2>2, <2>3 DEF list
<1> QED BY <1>9, <1>10

\* While the client stays, so does what it says.
LEMMA SameWords ==
  ASSUME UNCHANGED <<call, copt>>
  PROVE  /\ Arguments' = Arguments /\ FlagLines' = FlagLines /\ Message' = Message
         /\ SendsFilters' = SendsFilters /\ Kind' = Kind
         /\ RequestedModule' = RequestedModule /\ (Clients => Clients')
<1>1. Arguments' = Arguments
  BY DEF Arguments
<1>2. FlagLines' = FlagLines
  BY <1>1 DEF FlagLines, ArgLines
<1>3. SendsFilters' = SendsFilters
  BY DEF SendsFilters
<1>4. Message' = Message
  BY <1>3 DEF Message, RuleItems
<1>5. Kind' = Kind
  BY DEF Kind
<1>6. RequestedModule' = RequestedModule
  BY <1>5 DEF RequestedModule
<1>7. Clients => Clients'
  BY DEF Clients
<1> QED BY <1>1, <1>2, <1>3, <1>4, <1>5, <1>6, <1>7

-----------------------------------------------------------------------------
(* The streams to the server.                                              *)

\* After its greeting a client asks for its module.
Names ==
  /\ spc \in {"main", "greet", "greeting"} =>
       \A i \in DOMAIN up : i # 1 => up[i] = Line(RequestedModule)
  /\ spc = "module" => \A i \in DOMAIN up : up[i] = Line(RequestedModule)

\* What has been read of the flags, and what is to come.
FlagsRead ==
  /\ spc \in Early \cup {"version"} => flags = <<>>
  /\ spc = "flags" =>
       \/ Ahead = 1 /\ flags = <<>>
       \/ /\ Ahead = 0
          /\ \E k \in 0 .. Len(Arguments) :
               flags = SubSeq(Arguments, 1, k) /\ up = Rest(FlagLines, k)
  /\ flags # <<>> => IsPrefix(flags, Arguments)

\* Over a pipe the client has said its version at most.
AtVersion ==
  /\ spc = "main" => /\ Kind \in {"local", "shell", "shelldaemon"}
                     /\ Kind # "shelldaemon" => cpc \in {"begin", "version", "err"}
  /\ spc = "version" =>
       /\ Kind \in {"local", "shell"} /\ cpc \in {"begin", "version", "err"} /\ Ahead = 0
       /\ IsSeq(up) /\ Len(up) <= 1
       /\ cpc = "begin" => up = <<>>

\* The client waits for the seed.
AtSeed ==
  spc = "seed" =>
    /\ up = <<>> /\ cpc \in {"version", "seed", "err"}
    /\ cpc = "version" => Ahead <= 1
    /\ cpc = "seed" => Ahead = 0

\* The server has heard the client's arguments.
Heeded ==
  spc \in {"version", "seed", "receiver", "filters", "list", "transfer"} =>
    dopt = ParseArguments(Arguments)

\* The server reads a filter list.
WantsRules == Sender(dopt) \/ DeleteMode(dopt)

\* The client has not yet sent its message, or the server has read k items of it.
NotYet    == up = <<>> /\ cpc \in {"version", "seed", "filters", "err"}
Before(k) == up = Rest(Message, k) /\ cpc \in {"list", "transfer", "err"}

RulesRead ==
  /\ spc \in Early \cup {"flags", "version", "seed", "receiver"} => rules = <<>>
  /\ spc = "receiver" => ~Sender(dopt) /\ (NotYet \/ Before(0))
  /\ spc = "filters" =>
       /\ WantsRules
       /\ \/ NotYet /\ rules = <<>>
          \/ \E k \in 0 .. Len(copt.filterRules) :
               Before(k) /\ rules = SubSeq(copt.filterRules, 1, k)
  /\ spc = "list" => \/ WantsRules /\ SendsFilters /\ Before(Len(copt.filterRules) + 1)
                     \/ ~WantsRules /\ (NotYet \/ Before(0))
  /\ spc \in {"list", "transfer"} /\ WantsRules => rules = copt.filterRules
  /\ IsPrefix(rules, copt.filterRules)

Places ==
  /\ cpc \in ClientPlaces /\ spc \in ServerPlaces
  /\ module \in DOMAIN Modules \cup {None, "#list", call.module}
  /\ challenge \in Challenges
  /\ buffer # <<>> => cpc \in {"greeting", "lines", "listed", "err"}

Streams ==
  Clients /\ Names /\ FlagsRead /\ AtVersion /\ AtSeed /\ Heeded /\ RulesRead /\ Places

\* Nothing happens to the flags.
LEMMA FlagsKept ==
  ASSUME FlagsRead, UNCHANGED <<call, copt, spc, flags>>,
         spc = "flags" => up' = up /\ Ahead' = Ahead
  PROVE  FlagsRead'
BY SameWords DEF FlagsRead

\* Nothing happens to the rules.
LEMMA RulesKept ==
  ASSUME RulesRead, UNCHANGED <<call, copt, dopt, spc, rules>>,
         spc \in {"receiver", "filters", "list"} =>
           /\ up' = up
           /\ cpc \in {"version", "seed", "filters", "err"} =>
                cpc' \in {"version", "seed", "filters", "err"}
           /\ cpc \in {"list", "transfer", "err"} => cpc' \in {"list", "transfer", "err"}
  PROVE  RulesRead'
<1>1. Message' = Message /\ SendsFilters' = SendsFilters
  BY SameWords
<1>2. WantsRules' = WantsRules
  BY DEF WantsRules
<1>3. spc \in {"receiver", "filters", "list"} =>
        (NotYet => NotYet') /\ \A k : Before(k) => Before(k)'
  BY <1>1 DEF NotYet, Before
<1> QED BY <1>1, <1>2, <1>3 DEF RulesRead

\* The client stays in its places.
LEMMA ClientKeepsPlaces ==
  ASSUME Places, ClientStep \/ ClientTimeout
  PROVE  Places'
<1>1. UNCHANGED <<call, spc, module, challenge>>
  BY ClientLeaves DEF ClientOnly, serverVars
<1>2. cpc' \in ClientPlaces /\ (buffer' # <<>> => cpc' \in {"greeting", "lines", "listed", "err"})
  <2> USE DEF Places
  <2>1. CASE ClientBegin \/ ClientFill \/ ClientGreeting
    BY <2>1 DEF ClientBegin, ClientFill, ClientGreeting, ClientPlaces
  <2>2. CASE ClientAuth \/ ClientFlags \/ ClientExit \/ ClientRefused \/ ClientSkip
    BY <2>2 DEF ClientAuth, ClientFlags, ClientExit, ClientRefused, ClientSkip, AtLine,
                ClientPlaces
  <2>3. CASE ClientVersion \/ ClientSeed \/ ClientFilters \/ ClientData \/ ClientMessage
    BY <2>3 DEF ClientVersion, ClientSeed, ClientFilters, ClientData, ClientMessage, ClientPlaces
  <2>4. CASE ClientEOF \/ ClientTimeout
    BY <2>4 DEF ClientEOF, ClientTimeout, ClientPlaces
  <2> QED BY <2>1, <2>2, <2>3, <2>4 DEF ClientStep
<1> QED BY <1>1, <1>2 DEF Places

\* The client speaks when it is its turn, and says what it has to.
LEMMA ClientStreams ==
  ASSUME Dialogue, Streams, ClientStep \/ ClientTimeout
  PROVE  Streams'
<1>1. UNCHANGED <<call, copt, dopt, spc, module, challenge, flags, rules>>
  BY ClientLeaves DEF ClientOnly, serverVars
<1>2. /\ Arguments' = Arguments /\ FlagLines' = FlagLines /\ Message' = Message
      /\ SendsFilters' = SendsFilters /\ Kind' = Kind
      /\ RequestedModule' = RequestedModule /\ Clients'
  BY <1>1, SameWords DEF Streams
<1>3. /\ Ahead \in Nat
      /\ buffer # <<>> \/ down # <<>> => Ahead # 0
      /\ Ahead = 1 /\ buffer # <<>> => down = <<>>
      /\ spc \in Early => Len(up) \in Nat /\ IsSeq(up)
  BY AheadFacts DEF Dialogue, Shape, Early
<1>4. Heeded'
  BY <1>1, <1>2 DEF Streams, Heeded
<1>5. Places'
  BY ClientKeepsPlaces DEF Streams
<1>6. spc \in ServerPlaces
  BY DEF Streams, Places
<1>7. ASSUME Names', AtVersion', AtSeed', spc = "flags" => up' = up /\ Ahead' = Ahead,
             spc \in {"receiver", "filters", "list"} =>
               /\ up' = up
               /\ cpc \in {"version", "seed", "filters", "err"} =>
                    cpc' \in {"version", "seed", "filters", "err"}
               /\ cpc \in {"list", "transfer", "err"} => cpc' \in {"list", "transfer", "err"}
      PROVE  Streams'
  BY <1>1, <1>2, <1>4, <1>5, <1>7, FlagsKept, RulesKept DEF Streams
<1>8. ASSUME spc \in {"auth", "transfer", "listed", "err"}
      PROVE  Streams'
  BY <1>1, <1>7, <1>8 DEF Names, AtVersion, AtSeed
<1>9. CASE ClientBegin
  <2>1. cpc = "begin" /\ UNCHANGED <<buffer, down>>
    BY <1>9 DEF ClientBegin
  <2>2. spc \in {"main", "greet", "greeting", "version", "auth", "transfer", "listed", "err"}
    BY <1>6, <2>1 DEF Dialogue, AtName, AtFlags, Streams, AtSeed, RulesRead, NotYet, Before,
                      ServerPlaces
  <2>3. PICK x : up' = up \o <<x>>
    BY <1>9 DEF ClientBegin, Sends
  <2>4. spc \in {"main", "greet", "greeting", "version"} => up = <<>>
    <3>1. spc \in {"main", "greet", "greeting"} => Len(up) = 0 /\ IsSeq(up)
      BY <1>3, <2>1 DEF Dialogue, AtGreet, AtGreeting, Early
    <3>2. spc = "version" => up = <<>>
      BY <2>1 DEF Streams, AtVersion
    <3> QED BY <3>1, <3>2, SeqFacts
  <2>5. spc \in {"main", "greet", "greeting", "version"} => up' = <<x>>
    <3>1. x \in {x}
      OBVIOUS
    <3>2. <<>> \o <<x>> = <<x>>
      BY <3>1, OneThing
    <3> QED BY <2>3, <2>4, <3>2
  <2>6. Names'
    BY <1>1, <2>2, <2>5 DEF Names
  <2>7. AtVersion'
    <3>1. CASE spc = "version"
      <4>1. Kind \in {"local", "shell"} /\ Ahead = 0
        BY <3>1 DEF Streams, AtVersion
      <4>2. cpc' = "version"
        BY <1>9, <4>1 DEF ClientBegin
      <4>3. Ahead' = Ahead
        BY <2>1 DEF Ahead
      <4>4. IsSeq(up') /\ Len(up') = 1
        BY <2>5, <3>1, OneFacts
      <4> QED BY <1>2, <4>1, <4>2, <4>3, <4>4 DEF AtVersion
    <3>2. CASE spc = "main"
      <4>1. Kind \in {"local", "shell"} => cpc' = "version"
        BY <1>9 DEF ClientBegin
      <4>2. Kind \in {"local", "shell", "shelldaemon"}
        BY <3>2 DEF Streams, AtVersion
      <4> QED BY <1>1, <1>2, <3>2, <4>1, <4>2 DEF AtVersion
    <3>3. CASE spc \notin {"main", "version"}
      BY <1>1, <3>3 DEF AtVersion
    <3> QED BY <3>1, <3>2, <3>3
  <2>8. AtSeed'
    BY <1>1, <2>2 DEF AtSeed
  <2> QED BY <1>7, <2>2, <2>6, <2>7, <2>8
<1>10. CASE ClientFill
  <2>1. /\ buffer = <<>> /\ UNCHANGED <<cpc, up>>
        /\ \E n \in DOMAIN down : /\ buffer' = SubSeq(down, 1, n)
                                  /\ down' = SubSeq(down, n + 1, Len(down))
    BY <1>10 DEF ClientFill
  <2>2. Ahead' = Ahead
    BY <2>1, SplitFacts, EmptyFacts, SeqFacts DEF Dialogue, Shape, Ahead
  <2>3. Names'
    BY <1>1, <1>2, <2>1 DEF Streams, Names
  <2>4. AtVersion' /\ AtSeed'
    BY <1>1, <1>2, <2>1, <2>2 DEF Streams, AtVersion, AtSeed
  <2> QED BY <1>7, <2>1, <2>2, <2>3, <2>4
<1>11. CASE ClientGreeting
  <2>1. /\ cpc = "greeting" /\ buffer # <<>> /\ up' = up \o <<Line(RequestedModule)>>
    BY <1>11 DEF ClientGreeting, Sends
  <2>2. spc \in {"greeting", "module", "auth", "transfer", "listed", "err"}
    BY <1>3, <1>6, <2>1 DEF Dialogue, AtGreet, AtFlags, Streams, AtSeed, RulesRead, NotYet, Before,
                      AtVersion, ServerPlaces
  <2>3. ASSUME spc \in {"greeting", "module"}
        PROVE  Names'
    <3>1. /\ IsSeq(up) /\ Len(up) <= 1 /\ Len(up) \in Nat
          /\ spc = "module" => Len(up) = 0
      BY <1>3, <2>1, <2>3 DEF Dialogue, AtGreeting, AtName, Early
    <3>2. PICK line : line = Line(RequestedModule)
      OBVIOUS
    <3>3. up \in Seq(Range(up) \cup {line})
      BY <3>1, SeqMono DEF IsSeq
    <3>4. /\ DOMAIN up' = 1 .. Len(up) + 1 /\ up'[Len(up) + 1] = line
      BY <2>1, <3>2, <3>3
    <3>5. \A i \in DOMAIN up' : i # 1 => up'[i] = line
      BY <3>1, <3>4
    <3>6. spc = "module" => \A i \in DOMAIN up' : up'[i] = line
      BY <3>1, <3>4
    <3> QED BY <1>1, <1>2, <3>2, <3>5, <3>6 DEF Names
  <2>4. ASSUME spc \in {"greeting", "module"}
        PROVE  AtVersion' /\ AtSeed'
    BY <1>1, <2>4 DEF AtVersion, AtSeed
  <2> QED BY <1>7, <1>8, <2>2, <2>3, <2>4
<1>12. CASE ClientAuth \/ ClientExit \/ ClientRefused \/ ClientSkip
  <2>1. cpc = "lines" /\ buffer # <<>> /\ Head(buffer)[2] # OK[2]
    BY <1>12, DifferentLines DEF ClientAuth, ClientExit, ClientRefused, ClientSkip, AtLine
  <2>2. spc \notin {"main", "greet", "greeting", "module", "flags"}
    BY <2>1, LineSeen
  <2>3. spc \in {"auth", "transfer", "listed", "err"}
    BY <1>6, <2>1, <2>2 DEF Streams, AtVersion, AtSeed, RulesRead, NotYet, Before, ServerPlaces
  <2> QED BY <1>8, <2>3
<1>13. CASE ClientFlags
  <2>1. /\ cpc = "lines" /\ buffer # <<>> /\ Head(buffer)[2] = OK[2]
        /\ buffer' = <<>> /\ UNCHANGED down /\ up' = up \o FlagLines
    BY <1>13 DEF ClientFlags, AtLine, Sends
  <2>2. spc = "flags" /\ Ahead = 1
    BY <2>1, LineSeen
  <2>3. down = <<>> /\ up = <<>> /\ flags = <<>>
    BY <1>3, <2>1, <2>2 DEF Dialogue, AtFlags, Streams, FlagsRead
  <2>4. Ahead' = 0
    BY <2>1, <2>3, EmptyFacts DEF Ahead
  <2>5. /\ IsSeq(FlagLines) /\ Len(Arguments) \in Nat /\ Len(FlagLines) = Len(Arguments) + 1
        /\ IsSeq(Arguments)
    BY FlagLinesFacts, ArgumentsFacts DEF Streams
  <2>6. up' = FlagLines
    BY <2>1, <2>3, <2>5 DEF IsSeq
  <2>7. flags = SubSeq(Arguments, 1, 0) /\ up' = Rest(FlagLines, 0)
    BY <2>3, <2>5, <2>6, RestFacts, PrefixFacts
  <2>8. FlagsRead'
    <3>1. 0 \in 0 .. Len(Arguments)
      BY <2>5
    <3> QED BY <1>1, <1>2, <2>2, <2>3, <2>4, <2>7, <3>1 DEF FlagsRead, Early
  <2>9. Names' /\ AtVersion' /\ AtSeed'
    BY <1>1, <2>2 DEF Names, AtVersion, AtSeed
  <2>10. RulesRead'
    BY <1>1, <2>2, RulesKept DEF Streams
  <2> QED BY <1>2, <1>4, <1>5, <2>8, <2>9, <2>10 DEF Streams
<1>14. CASE ClientVersion \/ ClientSeed
  <2>1. /\ \/ cpc = "version" /\ cpc' = "seed"
           \/ cpc = "seed" /\ cpc' = "filters"
        /\ UNCHANGED <<up, buffer>> /\ down # <<>> /\ down' = Tail(down)
    BY <1>14 DEF ClientVersion, ClientSeed, ClientReads
  <2>2. Ahead' = Ahead - 1 /\ Ahead # 0
    BY <1>3, <2>1, ReadItem DEF Dialogue
  <2>3. spc # "flags" /\ spc # "version" /\ spc # "main"
    BY <2>1, <2>2 DEF Dialogue, AtGreet, AtFlags, Streams, AtVersion
  <2>4. Names'
    BY <1>1, <1>2, <2>1 DEF Streams, Names
  <2>5. AtVersion'
    BY <1>1, <2>3 DEF AtVersion
  <2>6. AtSeed'
    BY <1>1, <1>3, <2>1, <2>2 DEF Streams, AtSeed
  <2> QED BY <1>7, <2>1, <2>3, <2>4, <2>5, <2>6
<1>15. CASE ClientFilters
  <2>1. cpc = "filters" /\ cpc' = "list" /\ up' = up \o Message
    BY <1>15 DEF ClientFilters, Sends, Message
  <2>2. spc \in {"receiver", "filters", "list", "transfer", "listed", "err"}
    BY <1>6, <2>1 DEF Dialogue, AtGreet, AtGreeting, AtName, AtAuth, AtFlags, Streams,
                      AtVersion, AtSeed, ServerPlaces
  <2>3. CASE spc \in {"receiver", "filters", "list"}
    <3>1. spc # "list" => rules = SubSeq(copt.filterRules, 1, 0)
      <4>1. spc # "list" => rules = <<>>
        BY <2>1, <2>3 DEF Streams, RulesRead, Before, Early
      <4>2. IsSeq(copt.filterRules) /\ 0 \in 0 .. Len(copt.filterRules)
        BY MessageFacts DEF Streams
      <4> QED BY <4>1, <4>2, PrefixFacts
    <3>2. up = <<>> /\ (spc = "list" => ~WantsRules)
      BY <2>1, <2>3 DEF Streams, RulesRead, NotYet, Before
    <3>3. IsSeq(Message) /\ Len(copt.filterRules) \in Nat /\ Len(Message) \in Nat
      BY MessageFacts DEF Streams
    <3>4. up' = Message
      BY <2>1, <3>2, <3>3 DEF IsSeq
    <3>5. Before(0)'
      <4>1. up' = Rest(Message, 0)
        BY <3>3, <3>4, RestFacts
      <4> QED BY <1>2, <2>1, <4>1 DEF Before
    <3>6. WantsRules' = WantsRules /\ 0 \in 0 .. Len(copt.filterRules)
      BY <1>1, <3>3 DEF WantsRules
    <3>7. RulesRead'
      BY <1>1, <1>2, <2>3, <3>1, <3>2, <3>5, <3>6 DEF Streams, RulesRead, Early
    <3>8. Names' /\ AtVersion' /\ AtSeed'
      BY <1>1, <2>3 DEF Names, AtVersion, AtSeed
    <3>9. FlagsRead'
      BY <1>1, <2>3, FlagsKept DEF Streams
    <3> QED BY <1>2, <1>4, <1>5, <3>7, <3>8, <3>9 DEF Streams
  <2>4. CASE spc \in {"transfer", "listed", "err"}
    BY <1>8, <2>4
  <2> QED BY <2>2, <2>3, <2>4
<1>16. CASE ClientData \/ ClientMessage
  <2>1. cpc = "list" /\ cpc' \in {"list", "transfer"} /\ UNCHANGED up
    BY <1>16 DEF ClientData, ClientMessage
  <2>2. spc \notin Early \cup {"flags", "version", "seed"}
    BY <2>1 DEF Dialogue, AtGreet, AtGreeting, AtName, AtAuth, AtFlags, Streams,
                AtVersion, AtSeed, Early
  <2>3. Names' /\ AtVersion' /\ AtSeed'
    BY <1>1, <2>2 DEF Names, AtVersion, AtSeed, Early
  <2> QED BY <1>7, <2>1, <2>2, <2>3
<1>17. CASE ClientEOF \/ ClientTimeout
  <2>1. cpc' = "err" /\ UNCHANGED <<buffer, up, down>>
    BY <1>17 DEF ClientEOF, ClientTimeout
  <2>2. Ahead' = Ahead
    BY <2>1 DEF Ahead
  <2>3. Names'
    BY <1>1, <1>2, <2>1 DEF Streams, Names
  <2>4. AtVersion' /\ AtSeed'
    BY <1>1, <1>2, <2>1, <2>2 DEF Streams, AtVersion, AtSeed
  <2> QED BY <1>7, <2>1, <2>2, <2>3, <2>4
<1> QED BY <1>9, <1>10, <1>11, <1>12, <1>13, <1>14, <1>15, <1>16, <1>17 DEF ClientStep

\* The server stays in its places.
LEMMA ServerKeepsPlaces ==
  ASSUME Dialogue, Streams, ServerStep
  PROVE  Places'
<1> USE DEF Streams, Places
<1>1. UNCHANGED <<call, copt, cpc, buffer>>
  BY ServerLeaves DEF ServerOnly, clientVars
<1>2. ASSUME AtModule PROVE module' \in {None, call.module}
  <2>1. spc = "module" /\ up # <<>> /\ module' = Head(up)[2]
    BY <1>2 DEF AtModule, ServerReads, Heard
  <2>2. IsSeq(up) /\ Len(up) \in Nat /\ Len(up) # 0
    BY <2>1, SeqFacts DEF Dialogue, Shape
  <2>3. Head(up) = up[1] /\ 1 \in DOMAIN up
    BY <2>1, <2>2 DEF IsSeq
  <2>4. Head(up) = Line(RequestedModule)
    BY <2>1, <2>3 DEF Names
  <2>5. module' = RequestedModule
    BY <2>1, <2>4 DEF Line
  <2> QED BY <2>5 DEF RequestedModule
<1>3. /\ spc' \in ServerPlaces
      /\ challenge' \in Challenges
      /\ UNCHANGED module \/ AtModule
  <2>1. CASE ServerMain \/ ServerGreet \/ ServerGreeting \/ ServerListModules
    BY <2>1 DEF ServerMain, ServerGreet, ServerGreeting, ServerListModules, ServerPlaces
  <2>2. CASE ServerRefuse \/ ServerAskAuth \/ ServerAdmit
    BY <2>2 DEF ServerRefuse, ServerAskAuth, ServerAdmit, ServerPlaces
  <2>3. CASE ServerAuth \/ ServerFlag \/ ServerFlags \/ ServerVersion
    BY <2>3 DEF ServerAuth, ServerFlag, ServerFlags, ServerVersion, ServerPlaces
  <2>4. CASE ServerSeed \/ ServerReceiver \/ ServerRule \/ ServerRules
    BY <2>4 DEF ServerSeed, ServerReceiver, ServerRule, ServerRules, ServerPlaces
  <2>5. CASE ServerSendList \/ ServerReceiveList \/ ServerEOF
    BY <2>5 DEF ServerSendList, ServerReceiveList, ServerEOF, ServerPlaces
  <2> QED BY <2>1, <2>2, <2>3, <2>4, <2>5 DEF ServerStep
<1> QED BY <1>1, <1>2, <1>3

\* What the server reads is what the client has said.
LEMMA ServerStreams ==
  ASSUME Dialogue, Streams, ServerStep
  PROVE  Streams'
<1>1. UNCHANGED <<call, copt, cpc, buffer>>
  BY ServerLeaves DEF ServerOnly, clientVars
<1>2. /\ Arguments' = Arguments /\ FlagLines' = FlagLines /\ Message' = Message
      /\ SendsFilters' = SendsFilters /\ Kind' = Kind
      /\ RequestedModule' = RequestedModule /\ Clients'
  BY <1>1, SameWords DEF Streams
<1>3. /\ Ahead \in Nat
      /\ spc \in Early => Len(up) \in Nat /\ IsSeq(up)
  BY AheadFacts DEF Dialogue, Shape, Early
<1>4. Places'
  BY ServerKeepsPlaces
<1>5. ASSUME spc \in Early, spc' \in Early \cup {"flags", "version", "listed", "err"},
             UNCHANGED <<flags, rules>>
      PROVE  RulesRead' /\ AtSeed' /\ (spc' # "flags" => FlagsRead')
  <2>1. flags = <<>> /\ rules = <<>>
    BY <1>5 DEF Streams, FlagsRead, RulesRead, Early
  <2>2. IsPrefix(rules, copt.filterRules)
    BY DEF Streams, RulesRead
  <2> QED BY <1>1, <1>2, <1>5, <2>1, <2>2 DEF RulesRead, FlagsRead, AtSeed, Early
<1>6. ASSUME spc' \in {"listed", "err"}, UNCHANGED <<flags, rules>>
      PROVE  Streams'
  <2>1. IsPrefix(rules, copt.filterRules) /\ (flags # <<>> => IsPrefix(flags, Arguments))
    BY DEF Streams, RulesRead, FlagsRead
  <2> QED BY <1>1, <1>2, <1>4, <1>6, <2>1
          DEF Streams, Names, FlagsRead, AtVersion, AtSeed, Heeded, RulesRead, Early
<1>7. CASE ServerListModules \/ ServerRefuse \/ ServerEOF
  BY <1>6, <1>7 DEF ServerListModules, ServerRefuse, ServerEOF, AtModule
<1>8. CASE ServerMain
  <2>1. /\ spc = "main" /\ UNCHANGED <<up, down, flags, rules>>
        /\ dopt' = ParseArguments(CommandLine)
        /\ spc' = IF dopt'.failed THEN "err" ELSE IF dopt'.am_daemon = 1 THEN "greet"
                  ELSE "version"
    BY <1>8, Zenon DEF ServerMain
  <2>2. Ahead' = Ahead
    BY <1>1, <2>1 DEF Ahead
  <2>3. /\ Ahead = 0 /\ Len(up) <= 1 /\ IsSeq(up)
        /\ cpc = "begin" => up = <<>>
    BY <1>3, <2>1, SeqFacts DEF Dialogue, AtGreet, Early
  <2>4. spc' = "version" => Kind # "shelldaemon"
    <3>1. Kind = "shelldaemon" =>
            CommandLine = << <<"--", "server">>, <<"--", "daemon">>, <<".">> >>
      BY Zenon DEF CommandLine
    <3>2. Kind = "shelldaemon" => ~dopt'.failed /\ dopt'.am_daemon = 1
      BY <2>1, <3>1, DaemonHears
    <3> QED BY <2>1, <3>2
  <2>5. spc' = "version" => AtVersion' /\ Heeded'
    <3>1. spc' = "version" => CommandLine = Arguments
      BY <2>4, Zenon DEF CommandLine
    <3>2. Kind \in {"local", "shell", "shelldaemon"}
          /\ (Kind # "shelldaemon" => cpc \in {"begin", "version", "err"})
      BY <2>1 DEF Streams, AtVersion
    <3>3. spc' = "version" => AtVersion'
      BY <1>1, <1>2, <2>1, <2>2, <2>3, <2>4, <3>2 DEF AtVersion
    <3>4. spc' = "version" => Heeded'
      BY <1>2, <2>1, <3>1 DEF Heeded
    <3> QED BY <3>3, <3>4
  <2>6. spc' # "version" => AtVersion' /\ Heeded'
    BY <2>1 DEF AtVersion, Heeded
  <2>7. Names'
    BY <1>2, <2>1 DEF Streams, Names
  <2>8. RulesRead' /\ AtSeed' /\ FlagsRead'
    BY <1>5, <2>1 DEF Early
  <2> QED BY <1>2, <1>4, <2>5, <2>6, <2>7, <2>8 DEF Streams
<1>9. CASE ServerGreet \/ ServerGreeting
  <2>1. /\ spc \in Early /\ spc' \in {"greeting", "module"} /\ UNCHANGED <<flags, rules>>
    BY <1>9 DEF ServerGreet, ServerGreeting, Early
  <2>2. RulesRead' /\ AtSeed' /\ FlagsRead' /\ AtVersion' /\ Heeded'
    BY <1>5, <2>1 DEF Early, AtVersion, Heeded
  <2>3. ASSUME ServerGreet PROVE Names'
    <3>1. spc = "greet" /\ spc' = "greeting" /\ up' = up
      BY <2>3 DEF ServerGreet
    <3> QED BY <1>2, <3>1 DEF Streams, Names
  <2>4. ASSUME ServerGreeting PROVE Names'
    <3>1. spc = "greeting" /\ spc' = "module" /\ up # <<>> /\ up' = Tail(up)
      BY <2>4 DEF ServerGreeting, ServerReads
    <3>2. /\ IsSeq(up) /\ Len(up) \in Nat
          /\ \A i \in DOMAIN up : i # 1 => up[i] = Line(RequestedModule)
      BY <1>3, <3>1 DEF Streams, Names, Early
    <3>3. PICK line : line = Line(RequestedModule)
      OBVIOUS
    <3>4. DOMAIN up = 1 .. Len(up)
      BY <3>2 DEF IsSeq
    <3>5. \A i \in DOMAIN up' : up'[i] = up[i + 1] /\ i + 1 \in DOMAIN up /\ i + 1 # 1
      BY <3>1, <3>2, <3>4 DEF IsSeq
    <3>6. \A i \in DOMAIN up' : up'[i] = line
      BY <3>2, <3>3, <3>5
    <3> QED BY <1>2, <3>1, <3>3, <3>6 DEF Names
  <2>5. Names'
    BY <1>9, <2>3, <2>4
  <2> QED BY <1>2, <1>4, <2>2, <2>5 DEF Streams
<1>10. CASE ServerAskAuth
  <2>1. spc = "module" /\ spc' = "auth" /\ UNCHANGED <<flags, rules>>
    BY <1>10 DEF ServerAskAuth, AtModule
  <2>2. RulesRead' /\ AtSeed' /\ FlagsRead'
    BY <1>5, <2>1 DEF Early
  <2> QED BY <1>2, <1>4, <2>1, <2>2 DEF Streams, Names, AtVersion, Heeded
<1>11. ASSUME spc \in Early, spc' = "flags", UNCHANGED <<flags, rules>>,
              down' = down \o Admittance, Ahead = 0
       PROVE  Streams'
  <2>1. Ahead' = Ahead + 1
    BY <1>1, <1>11, Said DEF Dialogue, Admittance
  <2>2. Ahead' = 1 /\ flags' = <<>>
    BY <1>11, <2>1 DEF Streams, FlagsRead
  <2>3. FlagsRead'
    BY <1>11, <2>2 DEF FlagsRead, Early
  <2>4. RulesRead' /\ AtSeed'
    BY <1>5, <1>11
  <2> QED BY <1>2, <1>4, <1>11, <2>3, <2>4 DEF Streams, Names, AtVersion, Heeded
<1>12. CASE ServerAdmit
  <2>1. /\ spc = "module" /\ spc' = "flags" /\ UNCHANGED <<flags, rules>>
        /\ down' = down \o Admittance /\ up # <<>>
    BY <1>12 DEF ServerAdmit, AtModule, Says, ServerReads
  <2>2. Len(up) \in Nat /\ Len(up) # 0 /\ Len(up) + Ahead <= 1
    BY <1>3, <2>1, SeqFacts DEF Dialogue, AtName, Early
  <2>3. Ahead = 0
    BY <1>3, <2>2
  <2> QED BY <1>11, <2>1, <2>3 DEF Early
<1>13. CASE ServerAuth
  <2>1. /\ spc = "auth" /\ UNCHANGED <<flags, rules>> /\ up # <<>>
        /\ spc' = "err" \/ (spc' = "flags" /\ down' = down \o Admittance)
    BY <1>13 DEF ServerAuth, Says, ServerReads
  <2>2. Len(up) \in Nat /\ Len(up) # 0 /\ Len(up) + Ahead <= 1
    BY <1>3, <2>1, SeqFacts DEF Dialogue, AtAuth, Early
  <2>3. Ahead = 0
    BY <1>3, <2>2
  <2> QED BY <1>6, <1>11, <2>1, <2>3 DEF Early
<1>14. ASSUME spc = "flags", up # <<>>, up' = Tail(up)
       PROVE  /\ Ahead = 0 /\ cpc \in {"seed", "err"}
              /\ Heard # EndOfFlags =>
                   \E k \in 0 .. Len(Arguments) :
                     /\ Append(flags, Heard[2]) = SubSeq(Arguments, 1, k)
                     /\ up' = Rest(FlagLines, k)
                     /\ IsPrefix(Append(flags, Heard[2]), Arguments)
              /\ Heard = EndOfFlags => flags = Arguments /\ up' = <<>>
  <2>1. Ahead = 0 /\ cpc \in {"seed", "err"}
    BY <1>14 DEF Dialogue, AtFlags
  <2>2. PICK n \in Nat : n = Len(Arguments)
    BY FlagLinesFacts DEF Streams
  <2>3. /\ IsSeq(FlagLines) /\ Len(FlagLines) = n + 1 /\ IsSeq(Arguments)
        /\ \A i \in 1 .. n :
             FlagLines[i] = Line(Arguments[i]) /\ FlagLines[i] # EndOfFlags
        /\ FlagLines[n + 1] = EndOfFlags
    BY <2>2, FlagLinesFacts, ArgumentsFacts DEF Streams
  <2>4. PICK k \in 0 .. n : flags = SubSeq(Arguments, 1, k) /\ up = Rest(FlagLines, k)
    BY <1>14, <2>1, <2>2 DEF Streams, FlagsRead
  <2>5. k \in 0 .. Len(FlagLines) /\ k \in 0 .. Len(Arguments) /\ k \in Nat /\ k <= n
    BY <2>2, <2>3, <2>4
  <2>6. /\ k + 1 \in 1 .. n + 1 /\ Head(up) = FlagLines[k + 1]
        /\ Tail(up) = Rest(FlagLines, k + 1)
    BY <1>14, <2>3, <2>4, <2>5, RestFacts
  <2>7. ASSUME Heard # EndOfFlags
        PROVE  \E j \in 0 .. Len(Arguments) :
                 /\ Append(flags, Heard[2]) = SubSeq(Arguments, 1, j)
                 /\ up' = Rest(FlagLines, j)
                 /\ IsPrefix(Append(flags, Heard[2]), Arguments)
    <3>1. k # n
      BY <2>3, <2>6, <2>7 DEF Heard
    <3>2. k + 1 \in 1 .. n /\ k + 1 \in 0 .. Len(Arguments)
      BY <2>2, <2>5, <3>1
    <3>3. Heard[2] = Arguments[k + 1]
      BY <2>3, <2>6, <3>2 DEF Heard, Line
    <3>4. Append(flags, Heard[2]) = SubSeq(Arguments, 1, k + 1)
      <4>1. Append(SubSeq(Arguments, 1, k), Arguments[k + 1]) = SubSeq(Arguments, 1, k + 1)
        BY <2>2, <2>3, <2>5, <3>2, PrefixFacts
      <4> QED BY <2>4, <3>3, <4>1
    <3>5. IsPrefix(SubSeq(Arguments, 1, k + 1), Arguments)
      BY <2>3, <3>2, PrefixFacts
    <3>6. up' = Rest(FlagLines, k + 1)
      BY <1>14, <2>6
    <3> QED BY <3>2, <3>4, <3>5, <3>6
  <2>8. ASSUME Heard = EndOfFlags
        PROVE  flags = Arguments /\ up' = <<>>
    <3>1. k \notin 1 .. n - 1 /\ k + 1 \notin 1 .. n
      BY <2>3, <2>6, <2>8 DEF Heard
    <3>2. k = n
      BY <2>5, <3>1
    <3>3. flags = Arguments
      BY <2>2, <2>3, <2>4, <2>5, <3>2, PrefixFacts
    <3>4. Rest(FlagLines, n + 1) = <<>>
      <4>1. n + 1 \in 0 .. Len(FlagLines) /\ n + 1 = Len(FlagLines)
        BY <2>3
      <4> QED BY <2>3, <4>1, RestFacts
    <3> QED BY <1>14, <2>6, <3>2, <3>3, <3>4
  <2> QED BY <2>1, <2>7, <2>8
<1>15. CASE ServerFlag
  <2>1. /\ spc = "flags" /\ spc' = "flags" /\ up # <<>> /\ up' = Tail(up)
        /\ Heard # EndOfFlags /\ flags' = Append(flags, Heard[2])
        /\ UNCHANGED <<dopt, rules, down>>
    BY <1>15 DEF ServerFlag, ServerReads
  <2>2. Ahead' = 0
    BY <1>1, <1>14, <2>1 DEF Ahead
  <2>3. \E k \in 0 .. Len(Arguments) :
          /\ flags' = SubSeq(Arguments, 1, k) /\ up' = Rest(FlagLines, k)
          /\ IsPrefix(flags', Arguments)
    BY <1>14, <2>1
  <2>4. FlagsRead'
    BY <1>2, <2>1, <2>2, <2>3 DEF FlagsRead, Early
  <2>5. RulesRead'
    BY <1>1, <2>1, RulesKept DEF Streams
  <2> QED BY <1>2, <1>4, <2>1, <2>4, <2>5 DEF Streams, Names, AtVersion, AtSeed, Heeded
<1>16. CASE ServerFlags
  <2>1. /\ spc = "flags" /\ up # <<>> /\ up' = Tail(up)
        /\ Heard = EndOfFlags /\ dopt' = ParseArguments(flags)
        /\ UNCHANGED <<flags, rules>>
        /\ spc' = "err" \/ (spc' = "seed" /\ UNCHANGED down)
    BY <1>16 DEF ServerFlags, ServerReads
  <2>2. Ahead = 0 /\ cpc \in {"seed", "err"} /\ flags = Arguments /\ up' = <<>>
    BY <1>14, <2>1
  <2>3. CASE spc' = "err"
    BY <1>6, <2>1, <2>3
  <2>4. CASE spc' = "seed" /\ UNCHANGED down
    <3>1. AtSeed'
      <4>1. Ahead' = 0
        BY <1>1, <2>2, <2>4 DEF Ahead
      <4> QED BY <1>1, <2>2, <4>1 DEF AtSeed
    <3>2. FlagsRead'
      <4>1. flags # <<>> => IsPrefix(flags, Arguments)
        BY DEF Streams, FlagsRead
      <4> QED BY <1>2, <2>1, <2>4, <4>1 DEF FlagsRead, Early
    <3>3. rules = <<>> /\ IsPrefix(rules, copt.filterRules)
      BY <2>1 DEF Streams, RulesRead
    <3>4. RulesRead'
      BY <1>1, <2>1, <2>4, <3>3 DEF RulesRead
    <3>5. Heeded'
      BY <1>2, <2>1, <2>2, <2>4 DEF Heeded
    <3> QED BY <1>2, <1>4, <2>4, <3>1, <3>2, <3>4, <3>5 DEF Streams, Names, AtVersion, Early
  <2> QED BY <2>1, <2>3, <2>4
<1>17. ASSUME spc' \notin Early \cup {"version", "flags"}, UNCHANGED flags
       PROVE  FlagsRead'
  <2>1. flags # <<>> => IsPrefix(flags, Arguments)
    BY DEF Streams, FlagsRead
  <2> QED BY <1>2, <1>17, <2>1 DEF FlagsRead
<1>18. ASSUME spc \in {"version", "seed", "receiver", "filters", "list"},
              spc' \in {"seed", "receiver", "filters", "list", "transfer"},
              UNCHANGED <<dopt, flags>>, AtSeed', RulesRead'
       PROVE  Streams'
  <2>1. FlagsRead'
    BY <1>17, <1>18 DEF Early
  <2>2. Heeded'
    BY <1>2, <1>18 DEF Streams, Heeded
  <2>3. Names' /\ AtVersion'
    BY <1>18 DEF Names, AtVersion
  <2> QED BY <1>2, <1>4, <1>18, <2>1, <2>2, <2>3 DEF Streams
<1>19. CASE ServerVersion
  <2> DEFINE version == <<"int", "version">>
  <2>1. /\ spc = "version" /\ spc' = "seed" /\ up # <<>> /\ up' = Tail(up)
        /\ UNCHANGED <<dopt, flags, rules>> /\ down' = down \o <<version>>
    BY <1>19 DEF ServerVersion, ServerReads, Says
  <2> HIDE DEF version
  <2>2. /\ cpc \in {"begin", "version", "err"} /\ Ahead = 0 /\ IsSeq(up) /\ Len(up) <= 1
        /\ cpc = "begin" => up = <<>>
    BY <2>1 DEF Streams, AtVersion
  <2>3. up' = <<>>
    <3>1. IsSeq(Tail(up)) /\ Len(Tail(up)) = Len(up) - 1 /\ Len(up) \in Nat /\ Len(up) # 0
      BY <2>1, <2>2, TailFacts, SeqFacts
    <3>2. Len(Tail(up)) = 0
      BY <2>2, <3>1
    <3> QED BY <2>1, <3>1, <3>2, SeqFacts
  <2>4. Ahead' = Ahead + 1
    BY <1>1, <2>1, Said DEF Dialogue
  <2>5. AtSeed'
    BY <1>1, <2>1, <2>2, <2>3, <2>4 DEF AtSeed
  <2>6. rules = <<>> /\ IsPrefix(rules, copt.filterRules)
    BY <2>1 DEF Streams, RulesRead
  <2>7. RulesRead'
    BY <1>1, <2>1, <2>6 DEF RulesRead
  <2> QED BY <1>18, <2>1, <2>5, <2>7
<1>20. ASSUME UNCHANGED <<dopt, up>>
       PROVE  /\ WantsRules' = WantsRules
              /\ Sender(dopt)' = Sender(dopt)
              /\ NotYet => NotYet'
              /\ \A k : Before(k) => Before(k)'
  <2>1. WantsRules' = WantsRules /\ Sender(dopt)' = Sender(dopt)
    BY <1>20, Zenon DEF WantsRules, Sender, DeleteMode
  <2> QED BY <1>1, <1>2, <1>20, <2>1 DEF NotYet, Before
<1>21. IsSeq(copt.filterRules) /\ Len(copt.filterRules) \in Nat /\ IsSeq(Message)
  BY MessageFacts DEF Streams
<1>22. CASE ServerSeed
  <2>1. /\ spc = "seed" /\ UNCHANGED <<dopt, flags, rules, up>>
        /\ spc' = IF Sender(dopt) THEN "filters" ELSE "receiver"
    BY <1>22 DEF ServerSeed
  <2>2. NotYet'
    BY <1>1, <2>1 DEF Streams, AtSeed, NotYet
  <2>3. rules = <<>> /\ IsPrefix(rules, copt.filterRules)
    BY <2>1 DEF Streams, RulesRead
  <2>4. RulesRead'
    <3>1. Sender(dopt) => WantsRules
      BY DEF WantsRules
    <3> QED BY <1>1, <1>20, <2>1, <2>2, <2>3, <3>1 DEF RulesRead, Early
  <2>5. AtSeed'
    BY <2>1 DEF AtSeed
  <2> QED BY <1>18, <2>1, <2>4, <2>5
<1>23. CASE ServerReceiver
  <2>1. /\ spc = "receiver" /\ UNCHANGED <<dopt, flags, rules, up>>
        /\ spc' = "err" \/ spc' = IF DeleteMode(dopt) THEN "filters" ELSE "list"
    BY <1>23 DEF ServerReceiver
  <2>2. CASE spc' = "err"
    BY <1>6, <2>1, <2>2
  <2>3. CASE spc' = IF DeleteMode(dopt) THEN "filters" ELSE "list"
    <3>1. /\ ~Sender(dopt) /\ (NotYet \/ Before(0))
          /\ rules = <<>> /\ IsPrefix(rules, copt.filterRules)
      BY <2>1 DEF Streams, RulesRead
    <3>2. SubSeq(copt.filterRules, 1, 0) = <<>> /\ 0 \in 0 .. Len(copt.filterRules)
      BY <1>21, PrefixFacts
    <3>3. WantsRules <=> DeleteMode(dopt)
      BY <3>1 DEF WantsRules
    <3>4. NotYet' \/ Before(0)'
      BY <1>20, <2>1, <3>1
    <3>5. spc' = "filters" => WantsRules'
      BY <1>20, <2>1, <2>3, <3>3
    <3>6. spc' = "list" => ~WantsRules'
      BY <1>20, <2>1, <2>3, <3>3
    <3>7. RulesRead'
      BY <1>1, <2>1, <2>3, <3>1, <3>2, <3>4, <3>5, <3>6 DEF RulesRead, Early
    <3>8. AtSeed'
      BY <2>3 DEF AtSeed
    <3> QED BY <1>18, <2>1, <2>3, <3>7, <3>8
  <2> QED BY <2>1, <2>2, <2>3
<1>24. ASSUME spc = "filters", up # <<>>, up' = Tail(up), UNCHANGED dopt
       PROVE  /\ WantsRules' = WantsRules /\ WantsRules
              /\ Heard[1] = "rule" =>
                   \E k \in 0 .. Len(copt.filterRules) :
                     /\ Before(k)' /\ Append(rules, Heard[2]) = SubSeq(copt.filterRules, 1, k)
                     /\ IsPrefix(Append(rules, Heard[2]), copt.filterRules)
              /\ Heard = EndOfFilters =>
                   /\ SendsFilters /\ Before(Len(copt.filterRules) + 1)'
                   /\ rules = copt.filterRules
  <2>1. WantsRules /\ WantsRules' = WantsRules
    BY <1>24 DEF Streams, RulesRead, WantsRules
  <2>2. PICK n \in Nat : n = Len(copt.filterRules)
    BY <1>21
  <2>3. PICK k \in 0 .. n : Before(k) /\ rules = SubSeq(copt.filterRules, 1, k)
    BY <1>24, <2>2 DEF Streams, RulesRead, NotYet
  <2>4. up = Rest(Message, k) /\ cpc \in {"list", "transfer", "err"}
    BY <2>3 DEF Before
  <2>5. /\ Len(Message) \in Nat
        /\ SendsFilters =>
             /\ n + 1 <= Len(Message)
             /\ \A i \in 1 .. n : Message[i] = <<"rule", copt.filterRules[i]>>
             /\ Message[n + 1] = EndOfFilters
        /\ ~SendsFilters => \A i \in 1 .. Len(Message) : Message[i] = <<"list">>
    BY <2>2, MessageFacts DEF Streams
  <2>6. k \in 0 .. Len(Message)
    <3>1. CASE SendsFilters
      BY <2>5, <3>1
    <3>2. CASE ~SendsFilters /\ Len(Message) < k
      <4>1. up = SubSeq(Message, k + 1, Len(Message))
        BY <2>4 DEF Rest
      <4>2. up = <<>>
        BY <2>5, <3>2, <4>1
      <4> QED BY <1>24, <4>2
    <3> QED BY <2>5, <3>1, <3>2
  <2>7. /\ k + 1 \in 1 .. Len(Message) /\ Head(up) = Message[k + 1]
        /\ Tail(up) = Rest(Message, k + 1)
    BY <1>21, <1>24, <2>4, <2>6, RestFacts
  <2>8. Before(k + 1)'
    BY <1>1, <1>2, <1>24, <2>4, <2>7 DEF Before
  <2>9. Heard[1] = "rule" \/ Heard = EndOfFilters => SendsFilters
    BY <2>5, <2>7 DEF Heard, EndOfFilters
  <2>10. ASSUME Heard[1] = "rule"
         PROVE  \E j \in 0 .. Len(copt.filterRules) :
                  /\ Before(j)' /\ Append(rules, Heard[2]) = SubSeq(copt.filterRules, 1, j)
                  /\ IsPrefix(Append(rules, Heard[2]), copt.filterRules)
    <3>1. k # n
      BY <2>5, <2>7, <2>9, <2>10 DEF Heard, EndOfFilters
    <3>2. k + 1 \in 1 .. n /\ k + 1 \in 0 .. Len(copt.filterRules)
      BY <2>2, <3>1
    <3>3. Heard[2] = copt.filterRules[k + 1]
      BY <2>5, <2>7, <2>9, <2>10, <3>2 DEF Heard
    <3>4. Append(rules, Heard[2]) = SubSeq(copt.filterRules, 1, k + 1)
      <4>1. Append(SubSeq(copt.filterRules, 1, k), copt.filterRules[k + 1])
              = SubSeq(copt.filterRules, 1, k + 1)
        BY <1>21, <2>2, <3>2, PrefixFacts
      <4> QED BY <2>3, <3>3, <4>1
    <3>5. IsPrefix(SubSeq(copt.filterRules, 1, k + 1), copt.filterRules)
      BY <1>21, <3>2, PrefixFacts
    <3> QED BY <2>8, <3>2, <3>4, <3>5
  <2>11. ASSUME Heard = EndOfFilters
         PROVE  /\ SendsFilters /\ Before(Len(copt.filterRules) + 1)'
                /\ rules = copt.filterRules
    <3>1. SendsFilters
      BY <2>9, <2>11
    <3>2. k + 1 \notin 1 .. n
      BY <2>5, <2>7, <2>11, <3>1 DEF Heard, EndOfFilters
    <3>3. k = n
      BY <3>2
    <3>4. rules = copt.filterRules
      BY <1>21, <2>2, <2>3, <3>3, PrefixFacts
    <3> QED BY <1>1, <2>2, <2>8, <3>1, <3>3, <3>4 DEF Before
  <2> QED BY <2>1, <2>10, <2>11
<1>25. CASE ServerRule
  <2>1. /\ spc = "filters" /\ spc' = "filters" /\ up # <<>> /\ up' = Tail(up)
        /\ Heard[1] = "rule" /\ rules' = Append(rules, Heard[2]) /\ UNCHANGED <<dopt, flags>>
    BY <1>25 DEF ServerRule, ServerReads
  <2>2. /\ WantsRules'
        /\ \E k \in 0 .. Len(copt.filterRules) :
             /\ Before(k)' /\ rules' = SubSeq(copt.filterRules, 1, k)
             /\ IsPrefix(rules', copt.filterRules)
    BY <1>24, <2>1
  <2>3. RulesRead'
    BY <1>1, <2>1, <2>2 DEF RulesRead, Early
  <2>4. AtSeed'
    BY <2>1 DEF AtSeed
  <2> QED BY <1>18, <2>1, <2>3, <2>4
<1>26. CASE ServerRules
  <2>1. /\ spc = "filters" /\ spc' = "list" /\ up # <<>> /\ up' = Tail(up)
        /\ Heard = EndOfFilters /\ UNCHANGED <<dopt, flags, rules>>
    BY <1>26 DEF ServerRules, ServerReads
  <2>2. /\ WantsRules' /\ SendsFilters /\ Before(Len(copt.filterRules) + 1)'
        /\ rules = copt.filterRules
    BY <1>24, <2>1
  <2>3. IsPrefix(rules, copt.filterRules)
    BY DEF Streams, RulesRead
  <2>4. RulesRead'
    BY <1>1, <1>2, <2>1, <2>2, <2>3 DEF RulesRead, Early
  <2>5. AtSeed'
    BY <2>1 DEF AtSeed
  <2> QED BY <1>18, <2>1, <2>4, <2>5
<1>27. CASE ServerSendList \/ ServerReceiveList
  <2>1. /\ spc = "list" /\ spc' = "transfer" /\ UNCHANGED <<dopt, flags, rules>>
    BY <1>27 DEF ServerSendList, ServerReceiveList
  <2>2. WantsRules' = WantsRules
    BY <2>1 DEF WantsRules
  <2>3. IsPrefix(rules, copt.filterRules) /\ (WantsRules => rules = copt.filterRules)
    BY <2>1 DEF Streams, RulesRead
  <2>4. RulesRead'
    BY <1>1, <2>1, <2>2, <2>3 DEF RulesRead, Early
  <2>5. AtSeed'
    BY <2>1 DEF AtSeed
  <2> QED BY <1>18, <2>1, <2>4, <2>5
<1> QED BY <1>7, <1>8, <1>9, <1>10, <1>12, <1>13, <1>15, <1>16, <1>19, <1>22, <1>23,
           <1>25, <1>26, <1>27 DEF ServerStep
-----------------------------------------------------------------------------
(* The invariant, and what it says.                                        *)

StartInv == Dialogue /\ Gates /\ NothingDropped /\ Streams

\* Nothing has been said when the connection begins.
LEMMA InitStreams ==
  ASSUME Init
  PROVE  Streams
<1>1. /\ call \in Calls /\ copt = ClientOptions(call) /\ cpc = "begin" /\ buffer = <<>>
      /\ module = None /\ challenge = CHOOSE c \in Challenges : TRUE
      /\ flags = <<>> /\ rules = <<>> /\ up = <<>>
      /\ spc = IF Kind = "socket" THEN "greet" ELSE "main"
  BY DEF Init
<1>2. Clients
  BY <1>1 DEF Clients
<1>3. spc \in {"main", "greet"}
  BY <1>1
<1>4. DOMAIN up = {}
  BY <1>1
<1>5. Names /\ FlagsRead /\ AtSeed /\ Heeded
  BY <1>1, <1>3, <1>4 DEF Names, FlagsRead, AtSeed, Heeded
<1>6. AtVersion
  <2>1. Kind \in {"local", "shell", "socket", "shelldaemon"}
    BY <1>1, StartupConstants, Zenon DEF Kind
  <2> QED BY <1>1, <1>3, <2>1 DEF AtVersion
<1>7. RulesRead
  <2>1. IsSeq(copt.filterRules)
    BY <1>2, MessageFacts
  <2>2. SubSeq(copt.filterRules, 1, 0) = <<>> /\ IsPrefix(SubSeq(copt.filterRules, 1, 0), copt.filterRules)
    BY <2>1, SeqFacts, PrefixFacts
  <2> QED BY <1>1, <1>3, <2>2 DEF RulesRead
<1>8. Places
  <2>1. challenge \in Challenges
    BY <1>1, StartupConstants
  <2> QED BY <1>1, <1>3, <2>1 DEF Places, ClientPlaces, ServerPlaces
<1> QED BY <1>2, <1>5, <1>6, <1>7, <1>8 DEF Streams

\* The invariant holds when the connection begins.
LEMMA InitStartInv == Init => StartInv
<1> SUFFICES ASSUME Init PROVE StartInv
  OBVIOUS
<1>1. spc \in {"main", "greet"} /\ cpc = "begin" /\ up = <<>> /\ buffer = <<>>
      /\ down = <<>> /\ module = None /\ dropped = <<>>
  BY DEF Init
<1>2. Len(up) = 0 /\ Len(buffer) = 0 /\ Len(down) = 0
  BY <1>1, EmptyFacts
<1>3. Ahead = 0 /\ Coming = {}
  <2>1. Ahead = 0
    BY <1>2 DEF Ahead
  <2>2. Coming = {}
    BY <1>1, EmptyFacts DEF Coming
  <2> QED BY <2>1, <2>2
<1>4. Shape
  BY <1>1, EmptyFacts DEF Shape
<1>5. AtGreet
  <2>1. cpc = "begin"
    BY <1>1
  <2> QED BY <1>2, <1>3, <2>1 DEF AtGreet
<1>6. AtGreeting /\ AtName /\ AtAuth /\ AtFlags /\ NoOK
  <2>1. spc \in {"main", "greet"}
    BY <1>1
  <2>2. AtGreeting /\ AtName
    BY <2>1 DEF AtGreeting, AtName
  <2>3. AtAuth /\ AtFlags
    BY <2>1 DEF AtAuth, AtFlags
  <2>4. NoOK
    BY <1>3 DEF NoOK
  <2> QED BY <2>2, <2>3, <2>4
<1> QED BY <1>1, <1>4, <1>5, <1>6, InitStreams
        DEF StartInv, Dialogue, Gates, NoneYet, Passed, Admitted, Written, Inside,
            NothingDropped

\* What is lost on the way to the client changes nothing on the way to the server.
LEMMA OtherStreams ==
  ASSUME Streams, Reset \/ Stall \/ UNCHANGED startVars
  PROVE  Streams'
<1>1. UNCHANGED <<call, copt, spc, module, challenge, flags, rules, dopt, cpc, buffer, up>>
  BY DEF Reset, Stall, clientVars, serverVars, startVars
<1>2. /\ Arguments' = Arguments /\ FlagLines' = FlagLines /\ Message' = Message
      /\ Kind' = Kind /\ RequestedModule' = RequestedModule /\ Clients'
  BY <1>1, SameWords DEF Streams
<1>3. Ahead' = Ahead \/ spc \in {"listed", "err"}
  BY <1>1 DEF Reset, Stall, startVars, ServerGone, Ahead
<1>4. Names'
  BY <1>1, <1>2 DEF Streams, Names
<1>5. FlagsRead'
  BY <1>1, <1>3, FlagsKept DEF Streams
<1>6. AtVersion' /\ AtSeed'
  BY <1>1, <1>2, <1>3 DEF Streams, AtVersion, AtSeed
<1>7. Heeded' /\ Places'
  BY <1>1, <1>2 DEF Streams, Heeded, Places
<1>8. RulesRead'
  BY <1>1, RulesKept DEF Streams
<1> QED BY <1>2, <1>4, <1>5, <1>6, <1>7, <1>8 DEF Streams

\* StartInv is inductive.
LEMMA StepStartInv == StartInv /\ [Next]_startVars => StartInv'
<1> SUFFICES ASSUME StartInv, [Next]_startVars PROVE StartInv'
  OBVIOUS
<1>1. CASE ServerStep
  BY <1>1, ServerLeaves, ServerDialogue, ServerGates, ServerStreams
     DEF StartInv, ServerOnly, clientVars, NothingDropped
<1>2. CASE ClientStep \/ ClientTimeout
  <2>1. UNCHANGED <<call, copt, spc, module, dopt>>
    BY <1>2, ClientLeaves DEF ClientOnly, serverVars
  <2>2. CASE ClientFlags
    <3>1. cpc = "lines" /\ buffer # <<>> /\ Head(buffer)[2] = OK[2] /\ dropped' = Tail(buffer)
      BY <2>2 DEF ClientFlags, AtLine
    <3>2. Ahead = 1
      BY <3>1, LineSeen DEF StartInv
    <3>3. IsSeq(Tail(buffer)) /\ Len(Tail(buffer)) = Len(buffer) - 1
      BY <3>1, TailFacts DEF StartInv, Dialogue, Shape
    <3>4. Len(buffer) \in Nat \ {0} /\ Len(down) \in Nat
      BY <3>1, SeqFacts DEF StartInv, Dialogue, Shape
    <3>5. Len(Tail(buffer)) = 0
      <4>1. Len(buffer) + Len(down) = 1
        BY <3>2 DEF Ahead
      <4>2. Len(Tail(buffer)) = Len(buffer) - 1
        BY <3>3
      <4> QED BY <3>4, <4>1, <4>2
    <3>6. dropped' = <<>>
      BY <3>1, <3>3, <3>5, SeqFacts
    <3> QED BY <1>2, <2>1, <3>6, ClientDialogue, ClientGates, ClientStreams
            DEF StartInv, NothingDropped
  <2>3. CASE ~ClientFlags
    <3>1. UNCHANGED dropped
      BY <1>2, <2>3, Zenon
         DEF ClientStep, ClientTimeout, ClientBegin, ClientFill, ClientGreeting, ClientAuth,
             ClientExit, ClientRefused, ClientSkip, ClientVersion, ClientSeed,
             ClientFilters, ClientData, ClientMessage, ClientEOF
    <3> QED BY <1>2, <2>1, <3>1, ClientDialogue, ClientGates, ClientStreams
            DEF StartInv, NothingDropped
  <2> QED BY <2>2, <2>3
<1>3. CASE Reset \/ Stall \/ UNCHANGED startVars
  <2>1. UNCHANGED <<call, copt, spc, module, dopt, cpc, buffer, dropped, up>>
    BY <1>3 DEF Reset, Stall, clientVars, serverVars, startVars
  <2>2. \/ UNCHANGED down
        \/ down' = <<>> /\ spc \in {"listed", "err"}
    BY <1>3 DEF Reset, Stall, startVars, ServerGone
  <2>3. Dialogue'
    <3>1. CASE UNCHANGED down
      <4>1. Ahead' = Ahead /\ Coming' = Coming
        BY <2>1, <3>1 DEF Ahead, Coming
      <4>2. Shape' /\ AtGreet' /\ AtGreeting' /\ AtName'
        BY <2>1, <3>1, <4>1 DEF StartInv, Dialogue, Shape, AtGreet, AtGreeting, AtName
      <4>3. AtAuth'
        BY <2>1, <4>1 DEF StartInv, Dialogue, AtAuth
      <4>4. AtFlags' /\ NoOK'
        BY <2>1, <4>1 DEF StartInv, Dialogue, AtFlags, NoOK, ClientGone
      <4> QED BY <4>2, <4>3, <4>4 DEF Dialogue
    <3>2. CASE down' = <<>> /\ spc \in {"listed", "err"}
      <4>1. Coming' \subseteq Coming /\ IsSeq(down') /\ IsSeq(buffer')
        BY <2>1, <3>2, EmptyFacts DEF StartInv, Dialogue, Shape, Coming
      <4> QED BY <2>1, <3>2, <4>1, LateDialogue DEF StartInv, Early, ClientGone
    <3> QED BY <2>2, <3>1, <3>2
  <2> QED BY <1>3, <2>1, <2>3, ClientGates, OtherStreams DEF StartInv, NothingDropped
<1> QED BY <1>1, <1>2, <1>3 DEF Next

\* Dialogue, gates, reader and streams together are inductive.
THEOREM StartInvariant == Spec => []StartInv
BY InitStartInv, StepStartInv, PTL DEF Spec

\* Whatever the modules, the clients and the options: a daemon is past its
\* gates (HandleDaemonConn, authServer, handleConnReceiver) only for a client
\* that the module's access rules, certificates and secrets let in, and a
\* module is written to only if it is writable.
THEOREM Gated == Spec => []GatesPassed
<1>1. StartInv => GatesPassed
  BY DEF StartInv, Gates, Admitted, Written, Inside, GatesPassed, Writable
<1> QED BY <1>1, StartInvariant, PTL

\* The reader of StartInbandExchange is dropped when it has read OK, and is
\* then empty, however much it read at once.
THEOREM NoneDropped == Spec => []NothingDropped
<1>1. StartInv => NothingDropped
  BY DEF StartInv
<1> QED BY <1>1, StartInvariant, PTL

\* Every variable keeps to its values: the places of client and server, what the
\* server remembers, and what it has received, which never is anything but a
\* beginning of what the client has to say.
THEOREM TypeCorrect == Spec => []TypeOK
<1>1. StartInv => TypeOK
  BY DEF StartInv, Streams, Clients, FlagsRead, RulesRead, Places, TypeOK
<1> QED BY <1>1, StartInvariant, PTL

\* Whatever the command line of a client that is this program: when the file list
\* begins, the server has its options, though it has seen only what ServerOptions
\* makes of them, and parsed it again.
THEOREM OptionsAgree == Spec => [](call.others = <<>> => AgreeOnOptions)
<1>1. StartInv => (call.others = <<>> => AgreeOnOptions)
  <2>1. SUFFICES ASSUME StartInv, call.others = <<>>, spc \in {"list", "transfer"}
                 PROVE  /\ Sender(copt) # Sender(dopt)
                        /\ \A field \in WireFields : On(copt, field) = On(dopt, field)
    BY DEF AgreeOnOptions
  <2>2. Clients /\ dopt = ParseArguments(Arguments)
    BY <2>1 DEF StartInv, Streams, Heeded
  <2>3. dopt = ParseArguments(CommandOptions(copt, "path"))
    BY <2>1, <2>2, OwnArguments
  <2>4. Starts(copt)
    BY <2>2, ClientStarts
  <2> QED BY <2>3, <2>4, Agreement
<1> QED BY <1>1, StartInvariant, PTL

\* Whatever the rules of such a client: the server reads a filter list exactly if it
\* is sent one, all of its rules in their order, and nothing of the file list.
THEOREM RulesArrive == Spec => [](call.others = <<>> => FiltersArrive)
<1>1. StartInv => (call.others = <<>> => FiltersArrive)
  <2> SUFFICES ASSUME StartInv, call.others = <<>>
               PROVE  FiltersArrive
    OBVIOUS
  <2>1. Streams /\ Clients
    BY DEF StartInv, Streams
  <2>2. PICK n \in Nat : n = Len(copt.filterRules)
    BY <2>1, MessageFacts
  <2>3. /\ IsSeq(Message) /\ Len(Message) \in Nat
        /\ SendsFilters =>
             /\ n + 1 <= Len(Message) /\ Len(Message) <= n + 2
             /\ \A i \in 1 .. n : Message[i] = <<"rule", copt.filterRules[i]>>
             /\ Message[n + 1] = EndOfFilters
             /\ \A i \in 1 .. Len(Message) : i > n + 1 => Message[i] = <<"list">>
        /\ ~SendsFilters => \A i \in 1 .. Len(Message) : Message[i] = <<"list">>
    BY <2>1, <2>2, MessageFacts
  <2>4. spc \in {"filters", "list"} => (WantsRules <=> SendsFilters)
    <3>1. SUFFICES ASSUME spc \in {"filters", "list"} PROVE WantsRules <=> SendsFilters
      OBVIOUS
    <3>2. dopt = ParseArguments(CommandOptions(copt, "path")) /\ Starts(copt)
      BY <2>1, <3>1, OwnArguments, ClientStarts DEF Streams, Heeded
    <3>3. Sender(copt) # Sender(dopt) /\ DeleteMode(copt) = DeleteMode(dopt)
      BY <3>2, Agreement
    <3>4. Sender(copt) \in BOOLEAN /\ Sender(dopt) \in BOOLEAN
      BY DEF Sender
    <3> QED BY <3>3, <3>4 DEF WantsRules, SendsFilters
  <2>5. ASSUME spc = "filters", NEW i \in DOMAIN up, up[i] = <<"list">>
        PROVE  i > 1 /\ up[i - 1] = EndOfFilters
    <3>1. PICK k \in 0 .. n : up = Rest(Message, k)
      BY <2>1, <2>2, <2>5 DEF Streams, RulesRead, NotYet, Before
    <3>2. SendsFilters
      BY <2>1, <2>4, <2>5 DEF Streams, RulesRead
    <3>3. k \in 0 .. Len(Message)
      BY <2>2, <2>3, <3>2
    <3>4. \A j \in DOMAIN up :
            j \in 1 .. Len(Message) /\ k + j \in 1 .. Len(Message) /\ up[j] = Message[k + j]
      BY <2>3, <3>1, <3>3, RestFacts
    <3>5. k + i \notin 1 .. n /\ k + i # n + 1
      BY <2>3, <2>5, <3>2, <3>4 DEF EndOfFilters
    <3>6. k + i = n + 2 /\ i > 1
      BY <2>2, <2>3, <3>1, <3>2, <3>4, <3>5
    <3>7. i - 1 \in DOMAIN up
      <4>1. IsSeq(up)
        BY <2>3, <3>1, <3>3, RestFacts
      <4> QED BY <3>4, <3>6, <4>1 DEF IsSeq
    <3>8. up[i - 1] = Message[k + (i - 1)] /\ k + (i - 1) = n + 1
      BY <3>3, <3>4, <3>6, <3>7
    <3> QED BY <2>3, <3>2, <3>6, <3>8
  <2>6. ASSUME spc = "list", up # <<>>
        PROVE  up[1] = <<"list">>
    <3>1. PICK k \in 0 .. Len(Message) :
            up = Rest(Message, k) /\ (SendsFilters => k = n + 1)
      <4>1. CASE SendsFilters
        BY <2>1, <2>2, <2>3, <2>4, <2>6, <4>1 DEF Streams, RulesRead, Before
      <4>2. CASE ~SendsFilters
        BY <2>1, <2>3, <2>4, <2>6, <4>2 DEF Streams, RulesRead, NotYet, Before
      <4> QED BY <4>1, <4>2
    <3>2. k + 1 \in 1 .. Len(Message) /\ Head(up) = Message[k + 1]
      BY <2>3, <2>6, <3>1, RestFacts
    <3>3. Message[k + 1] = <<"list">>
      BY <2>2, <2>3, <3>1, <3>2
    <3>4. Head(up) = up[1]
      <4>1. IsSeq(up)
        BY <2>3, <3>1, RestFacts
      <4> QED BY <2>6, <4>1 DEF IsSeq
    <3> QED BY <3>2, <3>3, <3>4
  <2>7. spc \in {"list", "transfer"} /\ (Sender(dopt) \/ DeleteMode(dopt)) =>
          rules = copt.filterRules
    BY <2>1 DEF Streams, RulesRead, WantsRules
  <2> QED BY <2>5, <2>6, <2>7 DEF FiltersArrive
<1> QED BY <1>1, StartInvariant, PTL
=============================================================================
