---------------------------- MODULE SessionProof ----------------------------
(***************************************************************************)
(* Types and control of Session, that it implements Mirror, and what       *)
(* success means; for any number of files, any contents, any options and   *)
(* any capacity of the connection.                                         *)
(***************************************************************************)
EXTENDS Session, SequenceTheorems, TLAPS

\* What the program counters say about the other variables.
GenControl == gpc = "sums" => gi \in Idx

RecvControl ==
  /\ rpc \in {"tok", "sum", "commit"} => tmp \in Content
  /\ rpc \in {"idx", "perms", "ok", "err"} => tmp = NoFile
  /\ rpc \in {"tok", "sum", "commit", "perms"} => rcur \in Idx

SendControl ==
  /\ spc \in {"sums", "data", "sum"} => scur \in Idx
  /\ hpc # "off" => spc \in {"data", "sum"}
  /\ spc \notin {"data", "sum"} => sread = <<>> /\ hread = <<>>
  /\ hpc \in {"off", "open"} => hread = <<>>

DoControl == dpc \in {"report", "bye", "ok"} => gpc = "ok" /\ rpc = "ok"

Control == GenControl /\ RecvControl /\ SendControl /\ DoControl

TInv == TypeOK /\ Control

-----------------------------------------------------------------------------
(* Types.                                                                  *)

\* The items the processes write are items, and sequences of items stay so.
LEMMA ItemTypes ==
  /\ Done \in Item /\ Stats \in Item
  /\ \A i \in Idx : Index(i) \in Item /\ End(i) \in Item
  /\ \A i \in Idx, c \in Content : Sums(i, c) \in Item /\ FileSum(i, c) \in Item
  /\ \A i \in Idx, b \in Block : Literal(i, b) \in Item
  /\ \A i \in Idx, j \in Nat : Match(i, j) \in Item
  BY DEF Done, Stats, Index, End, Sums, FileSum, Literal, Match, Item, Kind, Content

\* Contents: the empty file, more blocks, and the mark of an absent file.
LEMMA ContentFacts ==
  /\ <<>> \in Content /\ NoFile \notin Content
  /\ \A c \in Content, b \in Block : Append(c, b) \in Content /\ <<b>> \in Content
  /\ \A c, d \in Content : c \o d \in Content
  /\ \A c \in Content : Len(c) \in Nat /\ \A k \in 1 .. Len(c) : c[k] \in Block
  BY OptionsOK DEF Content

\* Reading an item leaves a sequence of items.
LEMMA TailTyped ==
  ASSUME NEW S, NEW q \in Seq(S), q # <<>>
  PROVE  Head(q) \in S /\ Tail(q) \in Seq(S) /\ Len(q) \in Nat \ {0}
  OBVIOUS

\* setPerms leaves a map of times, whatever the options.
LEMMA SetTimesTyped ==
  ASSUME NEW i \in Idx, SetTimes(i),
         dmt \in [Idx -> Nat], lmt \in [Idx -> Nat \ {Now}]
  PROVE  dmt' \in [Idx -> Nat]
  BY DEF SetTimes

\* Every action of the generator keeps the types and the program counters.
LEMMA GenerateTyped ==
  ASSUME TInv, Generate
  PROVE  TInv'
<1>1. UNCHANGED <<recvVars, sendVars, dpc, boundVars, treeVars, listVars, tmp, data, link>>
  BY DEF Generate, GenNext
<1>2. RecvTypeOK' /\ RecvControl'
  BY <1>1 DEF TInv, TypeOK, Control, RecvTypeOK, RecvControl, recvVars
<1>3. SendTypeOK' /\ SendControl'
  BY <1>1 DEF TInv, TypeOK, Control, SendTypeOK, SendControl, sendVars, hashVars
<1>4. GenTypeOK' /\ GenControl' /\ (gpc = "ok" => gpc' = "ok")
  BY OptionsOK DEF TInv, TypeOK, Control, Generate, GenNext, GenTypeOK, GenControl,
     GenUnlisted, GenSkip, GenRequest, GenSums, GenDone, GenFail, AtEntry, Idx
<1>5. DoControl'
  BY <1>1, <1>4 DEF TInv, Control, DoControl, recvVars
<1>6. dst' = dst
  BY DEF Generate, GenNext, GenUnlisted, GenSkip, GenRequest, GenSums, GenDone, GenFail
<1>7. dmt' \in [Idx -> Nat]
  <2>1. CASE GenSkip
    BY <2>1, SetTimesTyped DEF GenSkip, AtEntry, TInv, TypeOK, WorldTypeOK
  <2>2. CASE ~GenSkip
    BY <2>2 DEF Generate, GenNext, GenUnlisted, GenRequest, GenSums, GenDone, GenFail,
       TInv, TypeOK, WorldTypeOK
  <2> QED BY <2>1, <2>2
<1>8. req' \in Seq(Item)
  <2>1. req \in Seq(Item)
    BY DEF TInv, TypeOK, WorldTypeOK
  <2>2. CASE GenRequest
    BY <2>1, <2>2, ItemTypes DEF GenRequest, AtEntry, WriteReq
  <2>3. CASE GenSums
    <3>1. gi \in Idx /\ dst[gi] \in MaybeContent
      BY <2>3 DEF GenSums, TInv, TypeOK, WorldTypeOK, Control, GenControl
    <3>2. Basis(gi) \subseteq Content
      BY <3>1, ContentFacts DEF Basis, MaybeContent
    <3> QED BY <2>1, <2>3, <3>1, <3>2, ItemTypes DEF GenSums, WriteReq
  <2>4. CASE GenDone
    BY <2>1, <2>4, ItemTypes DEF GenDone, WriteReq
  <2>5. CASE GenUnlisted \/ GenSkip \/ GenFail
    BY <2>1, <2>5 DEF GenUnlisted, GenSkip, GenFail
  <2> QED BY <2>2, <2>3, <2>4, <2>5 DEF Generate, GenNext
<1>9. WorldTypeOK'
  BY <1>1, <1>6, <1>7, <1>8
     DEF TInv, TypeOK, WorldTypeOK, treeVars, listVars, boundVars
<1> QED BY <1>2, <1>3, <1>4, <1>5, <1>9 DEF TInv, TypeOK, Control

\* Every action of the receiver keeps the types and the program counters.
LEMMA ReceiveTyped ==
  ASSUME TInv, Receive
  PROVE  TInv'
<1>1. UNCHANGED <<genVars, sendVars, dpc, boundVars, treeVars, listVars, req, link>>
  BY DEF Receive, RecvNext
<1>2. GenTypeOK' /\ GenControl'
  BY <1>1 DEF TInv, TypeOK, Control, GenTypeOK, GenControl, genVars
<1>3. SendTypeOK' /\ SendControl'
  BY <1>1 DEF TInv, TypeOK, Control, SendTypeOK, SendControl, sendVars, hashVars
<1>4. data' \in Seq(Item)
  <2>1. data \in Seq(Item)
    BY DEF TInv, TypeOK, WorldTypeOK
  <2>2. CASE RecvPhase \/ RecvIndex \/ RecvLiteral \/ RecvMatch \/ RecvEnd
             \/ RecvSumOK \/ RecvJunk
    <3>1. data # <<>> /\ data' = Tail(data)
      BY <2>2 DEF RecvPhase, RecvIndex, RecvLiteral, RecvMatch, RecvEnd, RecvSumOK,
         RecvJunk, ReadData, NextIs, SumReady
    <3> QED BY <2>1, <3>1, TailTyped
  <2>3. CASE RecvCommit \/ RecvPerms \/ RecvFail
    BY <2>1, <2>3 DEF RecvCommit, RecvPerms, RecvFail
  <2> QED BY <2>2, <2>3 DEF Receive, RecvNext
<1>5. /\ tmp' \in MaybeContent /\ RecvTypeOK' /\ RecvControl'
      /\ dst' \in [Idx -> MaybeContent] /\ dmt' \in [Idx -> Nat]
      /\ rpc = "ok" => rpc' = "ok"
  <2>1. CASE RecvPhase
    BY <2>1 DEF RecvPhase, TInv, TypeOK, WorldTypeOK, RecvTypeOK, Control, RecvControl
  <2>2. CASE RecvIndex
    <3>1. Head(data) \in Item /\ Head(data).k = "idx"
      BY <2>2, TailTyped DEF RecvIndex, NextIs, TInv, TypeOK, WorldTypeOK
    <3>2. Head(data).i \in Idx
      BY <3>1 DEF Item
    <3>3. dst[Head(data).i] \in MaybeContent
      BY <3>2 DEF TInv, TypeOK, WorldTypeOK
    <3> QED BY <2>2, <3>2, <3>3, ContentFacts DEF RecvIndex, TInv, TypeOK, WorldTypeOK,
       RecvTypeOK, Control, RecvControl, MaybeContent
  <2>3. CASE RecvLiteral
    <3>1. Head(data) \in Item
      BY <2>3, TailTyped DEF RecvLiteral, NextIs, TInv, TypeOK, WorldTypeOK
    <3>2. tmp \in Content /\ Head(data).v \in Content
      BY <2>3, <3>1 DEF RecvLiteral, Item, TInv, Control, RecvControl
    <3> QED BY <2>3, <3>2, ContentFacts DEF RecvLiteral, recvVars, TInv, TypeOK,
       WorldTypeOK, RecvTypeOK, Control, RecvControl, MaybeContent
  <2>4. CASE RecvMatch
    <3>1. tmp \in Content /\ rbasis \in Content
      BY <2>4 DEF RecvMatch, CanCopy, TInv, TypeOK, RecvTypeOK, Control, RecvControl,
         MaybeContent
    <3>2. rbasis[Head(data).n] \in Block
      BY <2>4, <3>1, ContentFacts DEF RecvMatch, CanCopy
    <3> QED BY <2>4, <3>1, <3>2, ContentFacts DEF RecvMatch, recvVars, TInv, TypeOK,
       WorldTypeOK, RecvTypeOK, Control, RecvControl, MaybeContent
  <2>5. CASE RecvEnd
    BY <2>5 DEF RecvEnd, TInv, TypeOK, WorldTypeOK, RecvTypeOK, Control, RecvControl
  <2>6. CASE RecvSumOK
    BY <2>6 DEF RecvSumOK, SumReady, TInv, TypeOK, WorldTypeOK, RecvTypeOK, Control,
       RecvControl
  <2>7. CASE RecvCommit
    BY <2>7 DEF RecvCommit, TInv, TypeOK, WorldTypeOK, RecvTypeOK, Control,
       RecvControl, MaybeContent, Now
  <2>8. CASE RecvPerms
    <3>1. dmt' \in [Idx -> Nat]
      BY <2>8, SetTimesTyped DEF RecvPerms, TInv, TypeOK, WorldTypeOK, Control, RecvControl
    <3> QED BY <2>8, <3>1 DEF RecvPerms, TInv, TypeOK, WorldTypeOK, RecvTypeOK,
       Control, RecvControl, MaybeContent
  <2>9. CASE RecvJunk
    <3>1. Bytes(Head(data)) \in Nat
      BY DEF Bytes
    <3> QED BY <2>9, <3>1 DEF RecvJunk, TInv, TypeOK, WorldTypeOK, RecvTypeOK,
       Control, RecvControl
  <2>10. CASE RecvFail
    BY <2>10 DEF RecvFail, SumReady, ReadFails, TInv, TypeOK, WorldTypeOK, RecvTypeOK,
       Control, RecvControl, MaybeContent
  <2> QED BY <2>1, <2>2, <2>3, <2>4, <2>5, <2>6, <2>7, <2>8, <2>9, <2>10
     DEF Receive, RecvNext
<1>6. DoControl'
  BY <1>1, <1>5 DEF TInv, Control, DoControl, genVars
<1>7. WorldTypeOK'
  BY <1>1, <1>4, <1>5
     DEF TInv, TypeOK, WorldTypeOK, treeVars, listVars, boundVars
<1> QED BY <1>2, <1>3, <1>5, <1>6, <1>7 DEF TInv, TypeOK, Control

\* Every action of the sender and of its hashing goroutine keeps them too.
LEMMA SendTyped ==
  ASSUME TInv, Send
  PROVE  TInv'
<1>1. UNCHANGED <<genVars, recvVars, dpc, boundVars, treeVars, destVars, listVars, tmp, link>>
  BY DEF Send, SendNext
<1>2. GenTypeOK' /\ GenControl'
  BY <1>1 DEF TInv, TypeOK, Control, GenTypeOK, GenControl, genVars
<1>3. RecvTypeOK' /\ RecvControl' /\ DoControl'
  BY <1>1 DEF TInv, TypeOK, Control, RecvTypeOK, RecvControl, DoControl, recvVars, genVars
<1>4. /\ req \in Seq(Item) /\ data \in Seq(Item)
      /\ req # <<>> => Head(req) \in Item /\ Tail(req) \in Seq(Item)
  BY TailTyped DEF TInv, TypeOK, WorldTypeOK
<1>5. /\ SendTypeOK /\ SendControl
      /\ src \in [Idx -> MaybeContent]
      /\ ssums \in Content /\ sfile \in Content /\ sread \in Content
      /\ hfile \in Content /\ hread \in Content
  BY DEF TInv, TypeOK, Control, WorldTypeOK, SendTypeOK
<1>6. ASSUME NEW pc \in {"idx", "panic", "err"}, ReturnTo(pc)
      PROVE  /\ spc' = pc /\ scur' \in Idx \cup {0} /\ sphase' \in {0, 1}
             /\ {ssums', sfile', sread', hfile', hread'} \subseteq Content
             /\ ssize' \in Nat /\ hpc' = "off" /\ SendControl'
  BY <1>5, <1>6, ContentFacts DEF ReturnTo, SendTypeOK, SendControl
<1>7. req' \in Seq(Item) /\ data' \in Seq(Item) /\ SendTypeOK' /\ SendControl'
  <2>1. CASE SendIndex
    <3>1. Head(req) \in Item /\ Head(req).k = "idx"
      BY <2>1, <1>4 DEF SendIndex, NextIs
    <3>2. Head(req).i \in Idx
      BY <3>1 DEF Item
    <3>3. req' \in Seq(Item) /\ data' \in Seq(Item)
      <4>1. Index(Head(req).i) \in Item
        BY <3>2, ItemTypes
      <4>2. req # <<>> /\ req' = Tail(req)
        BY <2>1 DEF SendIndex, NextIs, ReadReq
      <4>3. data' = data \/ data' = Append(data, Index(Head(req).i))
        BY <2>1 DEF SendIndex, WriteData
      <4>4. req' \in Seq(Item)
        BY <1>4, <4>2
      <4>5. Append(data, Index(Head(req).i)) \in Seq(Item)
        BY <1>4, <4>1
      <4> QED BY <1>4, <4>3, <4>4, <4>5
    <3> QED BY <2>1, <1>5, <3>2, <3>3 DEF SendIndex, SendTypeOK, SendControl, hashVars
  <2>2. CASE SendPhase
    <3>1. req' \in Seq(Item) /\ data' \in Seq(Item)
      BY <2>2, <1>4, ItemTypes DEF SendPhase, NextIs, ReadReq, WriteData
    <3> QED BY <2>2, <1>5, <3>1 DEF SendPhase, SendTypeOK, SendControl, hashVars
  <2>3. CASE SendVanished
    <3>1. req' \in Seq(Item) /\ data' \in Seq(Item)
      BY <2>3, <1>4 DEF SendVanished, NextIs, ReadReq
    <3> QED BY <2>3, <1>5, <1>6, <3>1 DEF SendVanished, SendTypeOK
  <2>4. CASE SendPanic
    <3>1. req' \in Seq(Item) /\ data' \in Seq(Item)
      BY <2>4, <1>4, <1>5, ItemTypes DEF SendPanic, NextIs, ReadReq, WriteData, SendControl
    <3> QED BY <2>4, <1>5, <1>6, <3>1 DEF SendPanic, SendTypeOK
  <2>5. CASE SendOpen
    <3>1. scur \in Idx /\ src[scur] \in Content /\ Len(src[scur]) \in Nat
      BY <2>5, <1>5, ContentFacts DEF SendOpen, SendControl, MaybeContent
    <3>2. Head(req).v \in Content
      BY <2>5, <1>4 DEF SendOpen, NextIs, Item
    <3>3. req' \in Seq(Item) /\ data' \in Seq(Item)
      BY <2>5, <1>4, <3>1, ItemTypes DEF SendOpen, NextIs, ReadReq, WriteData
    <3> QED BY <2>5, <1>5, <3>1, <3>2, <3>3 DEF SendOpen, SendTypeOK, SendControl
  <2>6. CASE SendBlock
    <3>1. NextBlock \in Block
      <4>1. Len(sread) \in Nat /\ Len(sfile) \in Nat /\ Len(sread) < Len(sfile)
        BY <2>6, <1>5, ContentFacts DEF SendBlock
      <4>2. Len(sread) + 1 \in 1 .. Len(sfile)
        BY <4>1
      <4> QED BY <4>2, <1>5, ContentFacts DEF NextBlock
    <3>2. sread' \in Content
      BY <2>6, <1>5, <3>1, ContentFacts DEF SendBlock
    <3>3. scur \in Idx /\ \A j \in 1 .. Len(ssums) : j \in Nat
      BY <2>6, <1>5, ContentFacts DEF SendBlock, SendControl
    <3>4. \E item \in Item : WriteData(item)
      <4>1. CASE WriteData(Literal(scur, NextBlock))
        BY <4>1, <3>1, <3>3, ItemTypes
      <4>2. CASE \E j \in 1 .. Len(ssums) : WriteData(Match(scur, j))
        BY <4>2, <3>3, ItemTypes
      <4> QED BY <2>6, <4>1, <4>2 DEF SendBlock
    <3>5. req' \in Seq(Item) /\ data' \in Seq(Item)
      BY <2>6, <1>4, <3>4 DEF SendBlock, WriteData
    <3> QED BY <2>6, <1>5, <3>2, <3>5 DEF SendBlock, SendTypeOK, SendControl, hashVars
  <2>7. CASE SendEnd
    <3>1. req' \in Seq(Item) /\ data' \in Seq(Item)
      BY <2>7, <1>4, <1>5, ItemTypes DEF SendEnd, WriteData, SendControl
    <3> QED BY <2>7, <1>5, <3>1 DEF SendEnd, SendTypeOK, SendControl, hashVars
  <2>8. CASE SendSum
    <3>1. scur \in Idx /\ Sum \in Content
      BY <2>8, <1>5 DEF SendSum, SendControl, Sum
    <3>2. req' \in Seq(Item) /\ data' \in Seq(Item)
      BY <2>8, <1>4, <3>1, ItemTypes DEF SendSum, WriteData
    <3>3. vouched' \subseteq Idx \X Content
      BY <2>8, <1>5, <3>1 DEF SendSum, SendTypeOK
    <3> QED BY <2>8, <1>6, <3>2, <3>3 DEF SendSum, SendTypeOK
  <2>9. CASE SendUnhashed
    BY <2>9, <1>4, <1>5, <1>6 DEF SendUnhashed, SendTypeOK
  <2>10. CASE HashOpen
    <3>1. scur \in Idx
      BY <2>10, <1>5 DEF HashOpen, SendControl
    <3>2. src[scur] # NoFile => src[scur] \in Content
      BY <3>1, <1>5 DEF MaybeContent
    <3> QED BY <2>10, <1>4, <1>5, <3>2 DEF HashOpen, SendTypeOK, SendControl
  <2>11. CASE HashBlock
    <3>1. hread' \in Content
      <4>1. CASE Len(hread) < Len(hfile)
        <5>1. Len(hread) + 1 \in 1 .. Len(hfile)
          BY <4>1, <1>5, ContentFacts
        <5> QED BY <5>1, <4>1, <2>11, <1>5, ContentFacts DEF HashBlock
      <4> QED BY <4>1, <2>11, <1>5 DEF HashBlock
    <3> QED BY <2>11, <1>4, <1>5, <3>1 DEF HashBlock, SendTypeOK, SendControl
  <2>12. CASE SendStats
    BY <2>12, <1>4, <1>5, ItemTypes DEF SendStats, WriteData, SendTypeOK, SendControl, hashVars
  <2>13. CASE SendBye
    BY <2>13, <1>4, <1>5 DEF SendBye, NextIs, ReadReq, SendTypeOK, SendControl, hashVars
  <2>14. CASE SendFail
    BY <2>14, <1>4, <1>5, <1>6 DEF SendFail, SendTypeOK
  <2> QED BY <2>1, <2>2, <2>3, <2>4, <2>5, <2>6, <2>7, <2>8, <2>9, <2>10, <2>11, <2>12,
     <2>13, <2>14 DEF Send, SendNext
<1>8. WorldTypeOK'
  BY <1>1, <1>7 DEF TInv, TypeOK, WorldTypeOK, treeVars, destVars, listVars, boundVars
<1> QED BY <1>2, <1>3, <1>7, <1>8 DEF TInv, TypeOK, Control

\* Do, the end of the connection, and the world.
LEMMA OthersTyped ==
  ASSUME TInv, Do \/ Hangup \/ Change \/ Reset \/ Crash \/ Rerun
  PROVE  TInv'
<1>1. CASE Do \/ Hangup \/ Reset
  <2>1. UNCHANGED <<doOnly>>
    BY <1>1 DEF Do, DoFail, DoJoin, DoReport, DoBye, DoLost, Hangup, Reset, doOnly
  <2>2. req' \in Seq(Item) /\ data' \in Seq(Item)
    <3>1. req \in Seq(Item) /\ data \in Seq(Item)
      BY DEF TInv, TypeOK, WorldTypeOK
    <3>2. CASE DoReport
      BY <3>1, <3>2, TailTyped DEF DoReport, NextIs, ReadData
    <3>3. CASE DoBye
      BY <3>1, <3>3, ItemTypes DEF DoBye, WriteReq
    <3>4. CASE DoFail \/ DoJoin \/ DoLost \/ Hangup \/ Reset
      BY <3>1, <3>4 DEF DoFail, DoJoin, DoLost, Hangup, Reset, chanVars
    <3> QED BY <1>1, <3>2, <3>3, <3>4 DEF Do
  <2>3. /\ dpc' \in {"wait", "report", "bye", "ok", "err", "dead"} /\ DoControl'
        /\ link' \in {"up", "closed", "reset"}
    BY <1>1, <2>1 DEF TInv, TypeOK, WorldTypeOK, Control, DoControl, Do, DoFail, DoJoin,
       DoReport, DoBye, DoLost, Hangup, Reset, chanVars, doOnly, genVars, recvVars
  <2>4. GenTypeOK' /\ RecvTypeOK' /\ GenControl' /\ RecvControl'
    BY <2>1 DEF TInv, TypeOK, Control, GenTypeOK, RecvTypeOK, GenControl,
       RecvControl, doOnly, genVars, recvVars
  <2>5. SendTypeOK' /\ SendControl'
    BY <2>1 DEF TInv, TypeOK, Control, SendTypeOK, SendControl, doOnly, sendVars, hashVars
  <2>6. WorldTypeOK'
    BY <2>1, <2>2, <2>3 DEF TInv, TypeOK, WorldTypeOK, doOnly, treeVars, destVars,
       listVars, boundVars
  <2> QED BY <2>3, <2>4, <2>5, <2>6 DEF TInv, TypeOK, Control
<1>2. CASE Change
  <2>1. UNCHANGED <<destVars, listVars, tmp, chanVars, genVars, recvVars, dpc, sessions,
           spc, scur, sphase, ssums, ssize, sread, hpc, hread, vouched>>
    BY <1>2 DEF Change
  <2>2. PICK i \in Idx, c \in NewContents \cup {NoFile} :
          /\ src' = [src EXCEPT ![i] = c] /\ smt' = [smt EXCEPT ![i] = @ + 1]
          /\ sfile' = sfile \/ (spc = "data" /\ sfile' = c /\ c \in NewContents)
          /\ hfile' = hfile \/ (hpc = "read" /\ hfile' = c /\ c \in NewContents)
    BY <1>2 DEF Change
  <2>3. c \in MaybeContent /\ (c \in NewContents => c \in Content)
    BY WorldOK DEF MaybeContent
  <2>4. src' \in [Idx -> MaybeContent] /\ smt' \in [Idx -> Nat \ {Now}]
    BY <2>2, <2>3 DEF TInv, TypeOK, WorldTypeOK, Now
  <2>5. changes' \in Nat
    BY <1>2 DEF Change, TInv, TypeOK, WorldTypeOK
  <2>6. WorldTypeOK'
    BY <2>1, <2>4, <2>5 DEF TInv, TypeOK, WorldTypeOK, destVars, listVars, chanVars
  <2>7. GenTypeOK' /\ RecvTypeOK' /\ GenControl' /\ RecvControl' /\ DoControl'
    BY <2>1 DEF TInv, TypeOK, Control, GenTypeOK, RecvTypeOK, GenControl,
       RecvControl, DoControl, genVars, recvVars
  <2>8. SendTypeOK' /\ SendControl'
    BY <2>1, <2>2, <2>3 DEF TInv, TypeOK, Control, SendTypeOK, SendControl
  <2> QED BY <2>6, <2>7, <2>8 DEF TInv, TypeOK, Control
<1>3. CASE Crash
  BY <1>3 DEF Crash, TInv, TypeOK, Control, GenTypeOK, RecvTypeOK, SendTypeOK,
     WorldTypeOK, GenControl, RecvControl, SendControl, DoControl, treeVars, destVars,
     listVars, sendVars, hashVars, boundVars
<1>4. CASE Rerun
  <2>1. gi' \in 1 .. NumFiles + 1
    BY <1>4, OptionsOK DEF Rerun
  <2>2. req' \in Seq(Item) /\ data' \in Seq(Item)
    BY <1>4 DEF Rerun
  <2>3. SendTypeOK' /\ SendControl'
    BY <1>4 DEF Rerun, SessionEnded, SenderEnded, TInv, TypeOK, Control, SendTypeOK,
       SendControl, hashVars
  <2>4. WorldTypeOK'
    BY <1>4, <2>2, OptionsOK DEF Rerun, TInv, TypeOK, WorldTypeOK, treeVars, destVars, MaybeContent
  <2> QED BY <1>4, <2>1, <2>3, <2>4 DEF Rerun, TInv, TypeOK, Control, GenTypeOK,
     RecvTypeOK, GenControl, RecvControl, DoControl, MaybeContent
<1> QED BY <1>1, <1>2, <1>3, <1>4

\* Every state a session reaches has the types the code relies on, and the
\* program counters of its goroutines agree with what they hold: the receiver
\* has a pending file exactly inside a transfer, Do has joined both goroutines.
LEMMA ControlCorrect == Spec => []TInv
<1>1. Init => TInv
  <2> SUFFICES ASSUME Init PROVE TInv
    OBVIOUS
  <2>1. GenTypeOK /\ GenControl
    BY OptionsOK DEF Init, InitAny, GenInit, GenTypeOK, GenControl
  <2>2. RecvTypeOK /\ RecvControl /\ DoControl
    BY DEF Init, InitAny, RecvInit, RecvTypeOK, RecvControl, DoControl, MaybeContent
  <2>3. SendTypeOK /\ SendControl
    BY ContentFacts DEF Init, InitAny, SendInit, Closed, SendTypeOK, SendControl
  <2>4. WorldTypeOK
    BY WorldOK, OptionsOK DEF Init, InitAny, WorldTypeOK, MaybeContent, Now
  <2> QED BY <2>1, <2>2, <2>3, <2>4 DEF TInv, TypeOK, Control
<1>2. TInv /\ [Next]_vars => TInv'
  <2> SUFFICES ASSUME TInv, [Next]_vars PROVE TInv'
    OBVIOUS
  <2>1. CASE Next
    BY <2>1, GenerateTyped, ReceiveTyped, SendTyped, OthersTyped DEF Next
  <2>2. CASE UNCHANGED vars
    BY <2>2 DEF vars, TInv, TypeOK, Control, GenTypeOK, RecvTypeOK, SendTypeOK,
       WorldTypeOK, GenControl, RecvControl, SendControl, DoControl, treeVars, destVars,
       listVars, chanVars, genVars, recvVars, sendVars, hashVars, boundVars
  <2> QED BY <2>1, <2>2
<1> QED BY <1>1, <1>2, PTL DEF Spec

\* Type correctness of the session.
THEOREM TypeCorrect == Spec => []TypeOK
<1>1. TInv => TypeOK
  BY DEF TInv
<1> QED BY <1>1, ControlCorrect, PTL
-----------------------------------------------------------------------------
(* Dry runs.                                                               *)

\* In a dry run no block sums are asked for, no transfer begins, and there is
\* no pending file: what a crash leaves behind is none either.
DryIdle ==
  dryRun => gpc # "sums" /\ rpc \notin {"tok", "sum", "commit", "perms"} /\ tmp = NoFile

\* What the goroutines do in a dry run leaves it one, and the destination alone.
LEMMA DryGoroutines ==
  ASSUME dryRun, DryIdle, Generate \/ Receive
  PROVE  DryIdle' /\ dryRun' = dryRun /\ UNCHANGED <<destVars, tmp>>
<1>1. CASE Generate
  BY <1>1 DEF Generate, GenNext, GenUnlisted, GenSkip, GenRequest, GenSums, GenDone,
     GenFail, SetTimes, DryIdle, listVars, destVars, recvVars
<1>2. CASE Receive
  BY <1>2 DEF Receive, RecvNext, RecvPhase, RecvIndex, RecvLiteral, RecvMatch, RecvEnd,
     RecvSumOK, SumReady, RecvCommit, RecvPerms, RecvJunk, RecvFail, DryIdle, listVars,
     destVars, genVars
<1> QED BY <1>1, <1>2

\* The other steps leave the goroutines of a dry run where they are, or end it.
LEMMA DryStep ==
  ASSUME DryIdle, [Next]_vars
  PROVE  DryIdle' /\ (dryRun => UNCHANGED <<destVars, tmp>>)
<1>1. CASE Generate \/ Receive
  <2>1. CASE dryRun
    BY <1>1, <2>1, DryGoroutines
  <2>2. CASE ~dryRun
    BY <1>1, <2>2 DEF Generate, GenNext, Receive, RecvNext, listVars, DryIdle
  <2> QED BY <2>1, <2>2
<1>2. CASE Send
  BY <1>2 DEF Send, SendNext, DryIdle, genVars, recvVars, listVars
<1>3. CASE Do \/ Hangup \/ Reset
  BY <1>3 DEF Do, DoFail, DoJoin, DoReport, DoBye, DoLost, Hangup, Reset, doOnly, DryIdle,
     genVars, recvVars, listVars
<1>4. CASE Change
  BY <1>4 DEF Change, DryIdle, genVars, recvVars, listVars
<1>5. CASE Crash
  BY <1>5 DEF Crash, DryIdle, listVars
<1>6. CASE Rerun
  BY <1>6 DEF Rerun, DryIdle
<1>7. CASE UNCHANGED vars
  BY <1>7 DEF vars, DryIdle, genVars, recvVars, listVars
<1> QED BY <1>1, <1>2, <1>3, <1>4, <1>5, <1>6, <1>7 DEF Next

\* A dry run leaves the destination alone, and no pending file, from any
\* destination (generator.go, receiver.go: the returns under DryRun).
THEOREM DryRunIsDry == MisdatedSpec => DryRunTouchesNothing
<1>1. InitAny => DryIdle
  BY DEF InitAny, GenInit, RecvInit, DryIdle
<1> QED BY <1>1, DryStep, PTL DEF MisdatedSpec, DryRunTouchesNothing
-----------------------------------------------------------------------------
(***************************************************************************)
(* Session implements Mirror, and so the quick check of a later run is     *)
(* sound, whatever fails or changes: for any number of files, any          *)
(* contents, any options but --size-only, and any capacity of the          *)
(* connection.                                                             *)
(*                                                                         *)
(* The argument: the items of a file stay together on the wire             *)
(* (StreamOK), so that the checksum the receiver compares its pending file *)
(* with is one the sender sent for that very file (RecvGenuine); and that  *)
(* checksum is the one of the listed version if the source still is that   *)
(* version (ReadGenuine, SumsGenuine).                                     *)
(***************************************************************************)

\* The body of a file on the wire: each item follows one of the same file.
Body == {"lit", "match", "end", "sum"}
Opening == {"idx", "lit", "match", "end"}

Adjacent(q) ==
  \A k \in 1 .. Len(q) - 1 :
    q[k + 1].k \in Body => q[k].k \in Opening /\ q[k].i = q[k + 1].i

\* The receiver is inside the body of rcur.
Receiving == rpc \in {"tok", "sum"} /\ rjunk = 0

FirstOK == Receiving /\ data # <<>> /\ data[1].k \in Body => data[1].i = rcur

LastOK ==
  spc \in {"data", "sum"} =>
    /\ data # <<>> => data[Len(data)].k \in Opening /\ data[Len(data)].i = scur
    /\ data = <<>> /\ Receiving => rcur = scur

StreamOK == Adjacent(data) /\ FirstOK /\ LastOK

\* A content the sender vouched for as file i, and the listed version if the
\* source still is that version.
Genuine(i, c) == <<i, c>> \in vouched /\ (Fresh(i) => c = src[i])

SumsGenuine ==
  \A k \in 1 .. Len(data) : data[k].k = "sum" => Genuine(data[k].i, data[k].v)

RecvGenuine ==
  /\ rpc = "commit" => Genuine(rcur, tmp)
  /\ rpc = "perms" => dst[rcur] # NoFile /\ (Fresh(rcur) => dst[rcur] = src[rcur])

Prefix(s, t) == Len(s) <= Len(t) /\ \A k \in 1 .. Len(s) : s[k] = t[k]

\* What the sender read so far of a source file that has not changed.
ReadGenuine ==
  spc \in {"data", "sum"} /\ Fresh(scur) =>
    /\ sfile = src[scur] /\ ssize = Len(sfile)
    /\ Prefix(sread, sfile)
    /\ spc = "sum" => Len(sread) = Len(sfile)
    /\ hpc \in {"read", "done"} => hfile = src[scur] /\ Prefix(hread, hfile)
    /\ hpc = "done" => Len(hread) = Len(hfile)

ListGenuine ==
  \A i \in Idx : lmt[i] <= smt[i] /\ (Fresh(i) => lsrc[i] = src[i])

SInv ==
  /\ StreamOK /\ SumsGenuine /\ RecvGenuine /\ ReadGenuine /\ ListGenuine
  /\ QuickCheck!NoFutureStamp /\ QuickCheck!QuickCheckSound
-----------------------------------------------------------------------------
(* The promise of Mirror, kept by its steps and by the steps of Session.   *)

\* The two invariants of Mirror are inductive.
LEMMA MirrorStep ==
  ASSUME WorldTypeOK, QuickCheck!NoFutureStamp, QuickCheck!QuickCheckSound,
         [QuickCheck!MirrorNext]_(QuickCheck!mirrorVars)
  PROVE  QuickCheck!NoFutureStamp' /\ QuickCheck!QuickCheckSound'
<1> USE DEF QuickCheck!NoFutureStamp, QuickCheck!QuickCheckSound, QuickCheck!WouldSkip,
            QuickCheck!Now, Now, WorldTypeOK
<1>1. CASE UNCHANGED QuickCheck!mirrorVars
  BY <1>1 DEF QuickCheck!mirrorVars
<1>2. ASSUME NEW i \in Idx, QuickCheck!Modify(i)
      PROVE  QuickCheck!NoFutureStamp' /\ QuickCheck!QuickCheckSound'
  BY <1>2 DEF QuickCheck!Modify
<1>3. ASSUME NEW i \in Idx, QuickCheck!Vouch(i)
      PROVE  QuickCheck!NoFutureStamp' /\ QuickCheck!QuickCheckSound'
  BY <1>3 DEF QuickCheck!Vouch
<1>4. ASSUME NEW i \in Idx, QuickCheck!Install(i)
      PROVE  QuickCheck!NoFutureStamp' /\ QuickCheck!QuickCheckSound'
  BY <1>4 DEF QuickCheck!Install
<1>5. ASSUME NEW i \in Idx, QuickCheck!Stamp(i)
      PROVE  QuickCheck!NoFutureStamp' /\ QuickCheck!QuickCheckSound'
  BY <1>5 DEF QuickCheck!Stamp
<1> QED BY <1>1, <1>2, <1>3, <1>4, <1>5 DEF QuickCheck!MirrorNext

\* Skipping a file stamps it only if the quick check was right about it.
LEMMA GenerateRefines ==
  ASSUME Check # "size", TInv, SInv, Generate
  PROVE  [QuickCheck!MirrorNext]_(QuickCheck!mirrorVars)
<1>1. UNCHANGED <<src, smt, vouched, dst>>
  BY DEF Generate, GenNext, treeVars, sendVars, GenUnlisted, GenSkip, GenRequest,
     GenSums, GenDone, GenFail
<1>2. CASE GenSkip
  <2>1. gi \in Idx /\ dst[gi] # NoFile /\ Listed(gi)
    BY <1>2 DEF GenSkip, AtEntry, SkipFile
  <2>2. lmt[gi] \in Nat /\ smt[gi] \in Nat /\ lmt[gi] <= smt[gi]
    BY <2>1 DEF TInv, TypeOK, WorldTypeOK, SInv, ListGenuine
  <2>3. lmt[gi] = smt[gi] => dst[gi] = src[gi]
    <3> SUFFICES ASSUME lmt[gi] = smt[gi] PROVE dst[gi] = src[gi]
      OBVIOUS
    <3>1. lsrc[gi] = src[gi]
      BY <2>1 DEF SInv, ListGenuine, Fresh
    <3>2. CASE Check = "checksum"
      BY <1>2, <3>1, <3>2 DEF GenSkip, SkipFile
    <3>3. CASE Check = "times"
      BY <1>2, <2>1, <3>1, <3>3 DEF GenSkip, SkipFile, Listed, SInv,
         QuickCheck!QuickCheckSound, QuickCheck!WouldSkip
    <3> QED BY <1>2, <3>2, <3>3, OptionsOK DEF GenSkip, SkipFile
  <2>4. dmt' = dmt \/ dmt' = [dmt EXCEPT ![gi] = lmt[gi]]
    BY <1>2 DEF GenSkip, SetTimes
  <2>5. CASE dmt' = dmt
    BY <2>5, <1>1 DEF QuickCheck!mirrorVars
  <2>6. CASE dmt' = [dmt EXCEPT ![gi] = lmt[gi]]
    <3>1. lmt[gi] \in 0 .. smt[gi]
      BY <2>2
    <3>2. QuickCheck!Stamp(gi)
      BY <1>1, <2>1, <2>3, <2>6, <3>1, Zenon DEF QuickCheck!Stamp
    <3> QED BY <2>1, <3>2 DEF QuickCheck!MirrorNext
  <2> QED BY <2>4, <2>5, <2>6
<1>3. CASE ~GenSkip
  BY <1>1, <1>3 DEF Generate, GenNext, GenUnlisted, GenRequest, GenSums, GenDone,
     GenFail, QuickCheck!mirrorVars
<1> QED BY <1>2, <1>3

\* The rename installs a vouched content, setPerms stamps what was installed.
LEMMA ReceiveRefines ==
  ASSUME TInv, SInv, Receive
  PROVE  [QuickCheck!MirrorNext]_(QuickCheck!mirrorVars)
<1>1. UNCHANGED <<src, smt, vouched>>
  BY DEF Receive, RecvNext, treeVars, sendVars
<1>2. CASE RecvCommit
  <2>1. rcur \in Idx /\ <<rcur, tmp>> \in vouched
    BY <1>2 DEF RecvCommit, TInv, Control, RecvControl, SInv, RecvGenuine, Genuine
  <2>2. QuickCheck!Install(rcur)
    BY <1>1, <1>2, <2>1 DEF RecvCommit, QuickCheck!Install, QuickCheck!Now, Now
  <2> QED BY <2>1, <2>2 DEF QuickCheck!MirrorNext
<1>3. CASE RecvPerms
  <2>1. /\ rcur \in Idx /\ dst[rcur] # NoFile
        /\ lmt[rcur] = smt[rcur] => dst[rcur] = src[rcur]
    BY <1>3 DEF RecvPerms, TInv, Control, RecvControl, SInv, RecvGenuine, Fresh
  <2>2. lmt[rcur] \in Nat /\ smt[rcur] \in Nat /\ lmt[rcur] <= smt[rcur]
    BY <2>1 DEF TInv, TypeOK, WorldTypeOK, SInv, ListGenuine
  <2>3. dst' = dst /\ (dmt' = dmt \/ dmt' = [dmt EXCEPT ![rcur] = lmt[rcur]])
    BY <1>3 DEF RecvPerms, SetTimes
  <2>4. CASE dmt' = dmt
    BY <1>1, <2>3, <2>4 DEF QuickCheck!mirrorVars
  <2>5. CASE dmt' = [dmt EXCEPT ![rcur] = lmt[rcur]]
    <3>1. lmt[rcur] \in 0 .. smt[rcur]
      BY <2>2
    <3>2. QuickCheck!Stamp(rcur)
      BY <1>1, <2>1, <2>3, <2>5, <3>1, Zenon DEF QuickCheck!Stamp
    <3> QED BY <2>1, <3>2 DEF QuickCheck!MirrorNext
  <2> QED BY <2>3, <2>4, <2>5
<1>4. CASE ~RecvCommit /\ ~RecvPerms
  BY <1>1, <1>4 DEF Receive, RecvNext, RecvPhase, RecvIndex, RecvLiteral, RecvMatch,
     RecvEnd, RecvSumOK, RecvJunk, RecvFail, QuickCheck!mirrorVars
<1> QED BY <1>2, <1>3, <1>4

\* The sender vouches; the source is modified.
LEMMA OthersRefine ==
  ASSUME TInv, TInv', Next, ~Generate, ~Receive
  PROVE  [QuickCheck!MirrorNext]_(QuickCheck!mirrorVars)
<1>1. CASE Send /\ SendSum
  <2>1. UNCHANGED <<src, smt, dst, dmt>>
    BY <1>1 DEF Send, SendNext, treeVars, destVars
  <2>2. scur \in Idx /\ vouched' = vouched \cup {<<scur, Sum>>}
    BY <1>1 DEF SendSum, TInv, Control, SendControl
  <2>3. vouched' \subseteq Idx \X QuickCheck!Content
    BY DEF TInv, TypeOK, SendTypeOK, Content, QuickCheck!Content
  <2>4. QuickCheck!Vouch(scur)
    BY <2>1, <2>2, <2>3 DEF QuickCheck!Vouch
  <2> QED BY <2>2, <2>4 DEF QuickCheck!MirrorNext
<1>2. CASE Send /\ ~SendSum
  BY <1>2 DEF Send, SendNext, treeVars, destVars, SendIndex, SendPhase, SendVanished,
     SendPanic, SendOpen, SendBlock, SendEnd, SendUnhashed, HashOpen, HashBlock,
     SendStats, SendBye, SendFail, QuickCheck!mirrorVars
<1>3. CASE Change
  <2>1. PICK i \in Idx, c \in NewContents \cup {NoFile} :
          src' = [src EXCEPT ![i] = c] /\ smt' = [smt EXCEPT ![i] = @ + 1]
    BY <1>3 DEF Change
  <2>2. src'[i] = c /\ c \in QuickCheck!MaybeContent
    BY <2>1, WorldOK DEF QuickCheck!MaybeContent, QuickCheck!Content, Content,
       TInv, TypeOK, WorldTypeOK
  <2>3. UNCHANGED <<dst, dmt, vouched>>
    BY <1>3 DEF Change, destVars
  <2>4. QuickCheck!Modify(i)
    BY <2>1, <2>2, <2>3 DEF QuickCheck!Modify
  <2> QED BY <2>4 DEF QuickCheck!MirrorNext
<1>4. CASE Do \/ Hangup \/ Reset \/ Crash \/ Rerun
  BY <1>4 DEF Do, DoFail, DoJoin, DoReport, DoBye, DoLost, Hangup, Reset, Crash, Rerun,
     doOnly, treeVars, destVars, sendVars, QuickCheck!mirrorVars
<1> QED BY <1>1, <1>2, <1>3, <1>4 DEF Next

\* Every step of a session is a step of Mirror or changes nothing of it.
LEMMA StepRefines ==
  ASSUME Check # "size", TInv, TInv', SInv, [Next]_vars
  PROVE  [QuickCheck!MirrorNext]_(QuickCheck!mirrorVars)
<1>1. CASE UNCHANGED vars
  BY <1>1 DEF vars, treeVars, destVars, sendVars, QuickCheck!mirrorVars
<1> QED BY <1>1, GenerateRefines, ReceiveRefines, OthersRefine DEF Next
-----------------------------------------------------------------------------
(* The wire.                                                               *)

\* Taking the first item, adding one at the end.
LEMMA TailFacts ==
  ASSUME NEW S, NEW q \in Seq(S), q # <<>>
  PROVE  /\ Len(Tail(q)) = Len(q) - 1 /\ Len(q) \in Nat \ {0} /\ Head(q) = q[1]
         /\ \A k \in 1 .. Len(q) - 1 : Tail(q)[k] = q[k + 1]
  OBVIOUS

\* A sequence is empty exactly if its length is 0.
LEMMA EmptyFacts ==
  ASSUME NEW S, NEW q \in Seq(S)
  PROVE  Len(q) \in Nat /\ (q = <<>> <=> Len(q) = 0)
  OBVIOUS

\* A sequence with one more element keeps the others where they are.
LEMMA AppendFacts ==
  ASSUME NEW S, NEW q \in Seq(S), NEW x \in S
  PROVE  /\ Len(Append(q, x)) = Len(q) + 1 /\ Len(q) \in Nat
         /\ Append(q, x)[Len(q) + 1] = x
         /\ \A k \in 1 .. Len(q) : Append(q, x)[k] = q[k]
  OBVIOUS

\* The receiver takes an item: what follows it stays in order, and continues
\* the same file.
LEMMA ReadKeeps ==
  ASSUME data \in Seq(Item), data # <<>>, data' = Tail(data), Adjacent(data), LastOK,
         SumsGenuine, UNCHANGED <<src, smt, lmt, vouched, spc, scur>>
  PROVE  /\ Adjacent(data)' /\ SumsGenuine'
         /\ data' # <<>> /\ data'[1].k \in Body =>
              Head(data).k \in Opening /\ data'[1].i = Head(data).i
         /\ spc \in {"data", "sum"} =>
              /\ data' # <<>> =>
                   data'[Len(data')].k \in Opening /\ data'[Len(data')].i = scur
              /\ data' = <<>> => Head(data).k \in Opening /\ Head(data).i = scur
<1>1. /\ Len(data') = Len(data) - 1 /\ Len(data) \in Nat \ {0} /\ Head(data) = data[1]
      /\ \A k \in 1 .. Len(data) - 1 : data'[k] = data[k + 1]
  BY TailFacts
<1>2. data' # <<>> <=> Len(data) > 1
  <2>1. data' \in Seq(Item)
    BY TailTyped
  <2>2. Len(data') \in Nat /\ (data' = <<>> <=> Len(data') = 0)
    BY <2>1, EmptyFacts
  <2>3. Len(data') = Len(data) - 1 /\ Len(data) \in Nat
    BY <1>1
  <2>4. ASSUME NEW m, NEW n \in Nat, m \in Nat, m = n - 1
        PROVE  m # 0 <=> n > 1
    BY <2>4
  <2> QED BY <2>2, <2>3, <2>4, Zenon
<1>3. Adjacent(data)'
  <2> SUFFICES ASSUME NEW k \in 1 .. Len(data') - 1, data'[k + 1].k \in Body
               PROVE  data'[k].k \in Opening /\ data'[k].i = data'[k + 1].i
    BY DEF Adjacent
  <2>1. data'[k] = data[k + 1] /\ data'[k + 1] = data[(k + 1) + 1]
    BY <1>1
  <2>2. k + 1 \in 1 .. Len(data) - 1
    BY <1>1
  <2> QED BY <2>1, <2>2 DEF Adjacent
<1>4. SumsGenuine'
  <2> SUFFICES ASSUME NEW k \in 1 .. Len(data'), data'[k].k = "sum"
               PROVE  Genuine(data[k].i, data[k].v)'
    BY DEF SumsGenuine
  <2>1. k + 1 \in 1 .. Len(data) /\ data'[k] = data[k + 1]
    BY <1>1
  <2> QED BY <2>1 DEF SumsGenuine, Genuine, Fresh
<1>5. data' # <<>> /\ data'[1].k \in Body =>
        Head(data).k \in Opening /\ data'[1].i = Head(data).i
  <2> SUFFICES ASSUME data' # <<>>, data'[1].k \in Body
               PROVE  Head(data).k \in Opening /\ data'[1].i = Head(data).i
    OBVIOUS
  <2>1. 1 \in 1 .. Len(data) - 1 /\ data'[1] = data[1 + 1]
    BY <1>1, <1>2
  <2> QED BY <1>1, <2>1 DEF Adjacent
<1>6. ASSUME spc \in {"data", "sum"}
      PROVE  /\ data' # <<>> =>
                  data'[Len(data')].k \in Opening /\ data'[Len(data')].i = scur
             /\ data' = <<>> => Head(data).k \in Opening /\ Head(data).i = scur
  <2>1. data[Len(data)].k \in Opening /\ data[Len(data)].i = scur
    BY <1>6 DEF LastOK
  <2>2. data' = <<>> => Len(data) = 1
    BY <1>1, <1>2
  <2>3. data' # <<>> => data'[Len(data')] = data[Len(data)]
    <3> SUFFICES ASSUME data' # <<>> PROVE data'[Len(data')] = data[Len(data)]
      OBVIOUS
    <3>1. Len(data') \in 1 .. Len(data) - 1 /\ Len(data') + 1 = Len(data)
      BY <1>1, <1>2
    <3> QED BY <1>1, <3>1
  <2> QED BY <1>1, <2>1, <2>2, <2>3
<1> QED BY <1>3, <1>4, <1>5, <1>6

\* The sender adds an item: it continues the body of scur, or opens a new one.
LEMMA WriteKeeps ==
  ASSUME data \in Seq(Item), NEW item \in Item, data' = Append(data, item),
         StreamOK, item.k \in Body => spc \in {"data", "sum"} /\ item.i = scur,
         UNCHANGED <<rpc, rcur, rjunk>>
  PROVE  /\ Adjacent(data)' /\ FirstOK'
         /\ data' # <<>> /\ data'[Len(data')] = item
<1>1. /\ Len(data') = Len(data) + 1 /\ Len(data) \in Nat
      /\ data'[Len(data) + 1] = item
      /\ \A k \in 1 .. Len(data) : data'[k] = data[k]
  BY AppendFacts
<1>2. data = <<>> <=> Len(data) = 0
  OBVIOUS
<1>3. Adjacent(data)'
  <2> SUFFICES ASSUME NEW k \in 1 .. Len(data') - 1, data'[k + 1].k \in Body
               PROVE  data'[k].k \in Opening /\ data'[k].i = data'[k + 1].i
    BY DEF Adjacent
  <2>1. CASE k = Len(data)
    <3>1. data # <<>> /\ data'[k] = data[Len(data)] /\ data'[k + 1] = item
      BY <1>1, <1>2, <2>1
    <3> QED BY <3>1 DEF StreamOK, LastOK
  <2>2. CASE k # Len(data)
    <3>1. k \in 1 .. Len(data) - 1 /\ data'[k] = data[k] /\ data'[k + 1] = data[k + 1]
      BY <1>1, <2>2
    <3> QED BY <3>1 DEF StreamOK, Adjacent
  <2> QED BY <2>1, <2>2
<1>4. FirstOK'
  <2>1. CASE data = <<>>
    <3>1. data'[1] = item
      BY <1>1, <1>2, <2>1
    <3> QED BY <2>1, <3>1 DEF StreamOK, LastOK, FirstOK, Receiving
  <2>2. CASE data # <<>>
    <3>1. data'[1] = data[1]
      BY <1>1, <1>2, <2>2
    <3> QED BY <2>2, <3>1 DEF StreamOK, FirstOK, Receiving
  <2> QED BY <2>1, <2>2
<1>5. data' # <<>> /\ data'[Len(data')] = item
  <2>1. data' \in Seq(Item) /\ Len(data') # 0
    BY <1>1
  <2>2. data' # <<>>
    BY <2>1
  <2> QED BY <1>1, <2>2
<1> QED BY <1>3, <1>4, <1>5

\* What the sender vouched for stays vouched for.
LEMMA WriteSums ==
  ASSUME data \in Seq(Item), NEW item \in Item, data' = Append(data, item), SumsGenuine,
         UNCHANGED <<src, smt, lmt>>, vouched \subseteq vouched',
         item.k = "sum" => Genuine(item.i, item.v)'
  PROVE  SumsGenuine'
<1>1. /\ Len(data') = Len(data) + 1 /\ Len(data) \in Nat
      /\ data'[Len(data) + 1] = item
      /\ \A k \in 1 .. Len(data) : data'[k] = data[k]
  BY AppendFacts
<1> SUFFICES ASSUME NEW k \in 1 .. Len(data'), data'[k].k = "sum"
             PROVE  Genuine(data[k].i, data[k].v)'
  BY DEF SumsGenuine
<1>2. CASE k = Len(data) + 1
  BY <1>1, <1>2
<1>3. CASE k # Len(data) + 1
  <2>1. k \in 1 .. Len(data) /\ data'[k] = data[k]
    BY <1>1, <1>3
  <2> QED BY <2>1 DEF SumsGenuine, Genuine, Fresh
<1> QED BY <1>2, <1>3
-----------------------------------------------------------------------------
(* The steps.                                                              *)

Wire == StreamOK /\ SumsGenuine /\ RecvGenuine /\ ReadGenuine /\ ListGenuine

\* The generator leaves alone what the invariant speaks of.
LEMMA GenerateKeeps ==
  ASSUME Wire, Generate
  PROVE  Wire'
<1>1. UNCHANGED <<src, smt, lsrc, lmt, dst, tmp, data, rpc, rcur, rjunk, spc, scur,
                  sfile, ssize, sread, hpc, hfile, hread, vouched>>
  BY DEF Generate, GenNext, GenUnlisted, GenSkip, GenRequest, GenSums, GenDone,
     GenFail, treeVars, listVars, recvVars, sendVars, hashVars
<1> QED BY <1>1 DEF Wire, StreamOK, FirstOK, LastOK, Receiving, SumsGenuine, Genuine,
     RecvGenuine, ReadGenuine, ListGenuine, Fresh

\* The receiver: every item it takes continues the file it is assembling.
LEMMA ReceiveKeeps ==
  ASSUME TInv, Wire, Receive
  PROVE  Wire'
<1>1. UNCHANGED <<src, smt, lsrc, lmt, spc, scur, sfile, ssize, sread, hpc, hfile,
                  hread, vouched>>
  BY DEF Receive, RecvNext, treeVars, listVars, sendVars, hashVars
<1>2. ReadGenuine' /\ ListGenuine'
  BY <1>1 DEF Wire, ReadGenuine, ListGenuine, Fresh
<1>3. data \in Seq(Item) /\ (data # <<>> => Head(data) \in Item /\ Head(data) = data[1])
  BY TailTyped, TailFacts DEF TInv, TypeOK, WorldTypeOK
<1>4. CASE data' = data
  <2>1. rpc' \notin {"tok", "sum"} /\ RecvGenuine'
    <3>1. CASE RecvCommit
      <4>1. rcur \in Idx /\ tmp \in Content /\ Genuine(rcur, tmp)
        BY <3>1 DEF RecvCommit, TInv, Control, RecvControl, Wire, RecvGenuine
      <4>2. dst'[rcur] = tmp /\ tmp # NoFile
        BY <3>1, <4>1, ContentFacts DEF RecvCommit, TInv, TypeOK, WorldTypeOK
      <4> QED BY <1>1, <3>1, <4>1, <4>2 DEF RecvCommit, RecvGenuine, Genuine, Fresh
    <3>2. CASE RecvPerms \/ RecvFail
      BY <3>2 DEF RecvPerms, RecvFail, RecvGenuine
    <3>3. CASE ~RecvCommit /\ ~RecvPerms /\ ~RecvFail
      <4>1. data # <<>> /\ data' = Tail(data)
        BY <3>3 DEF Receive, RecvNext, RecvPhase, RecvIndex, RecvLiteral, RecvMatch,
           RecvEnd, RecvSumOK, RecvJunk, ReadData, NextIs, SumReady
      <4>2. Len(data) \in Nat \ {0} /\ Len(Tail(data)) = Len(data) - 1
        BY <1>3, <4>1, TailFacts
      <4> QED BY <1>4, <4>1, <4>2
    <3> QED BY <3>1, <3>2, <3>3
  <2> QED BY <1>1, <1>2, <1>4, <2>1 DEF Wire, StreamOK, FirstOK, LastOK, Receiving,
     SumsGenuine, Genuine, Fresh
<1>5. CASE data # <<>> /\ data' = Tail(data)
  <2>1. /\ Adjacent(data)' /\ SumsGenuine'
        /\ data' # <<>> /\ data'[1].k \in Body =>
             Head(data).k \in Opening /\ data'[1].i = Head(data).i
        /\ spc \in {"data", "sum"} =>
             /\ data' # <<>> =>
                  data'[Len(data')].k \in Opening /\ data'[Len(data')].i = scur
             /\ data' = <<>> => Head(data).k \in Opening /\ Head(data).i = scur
    BY <1>1, <1>3, <1>5, ReadKeeps DEF Wire, StreamOK
  <2>2. Receiving' /\ Head(data).k \in Opening => rcur' = Head(data).i
    <3> SUFFICES ASSUME Receiving', Head(data).k \in Opening
                 PROVE  rcur' = Head(data).i
      OBVIOUS
    <3>1. CASE RecvIndex
      BY <3>1 DEF RecvIndex, Receiving
    <3>2. CASE RecvLiteral \/ RecvMatch \/ RecvEnd
      BY <1>3, <1>5, <3>2 DEF RecvLiteral, RecvMatch, RecvEnd, NextIs, recvVars, Receiving,
         Wire, StreamOK, FirstOK, Body
    <3>3. CASE RecvJunk
      <4>1. Bytes(Head(data)) \in Nat \ {0}
        BY DEF Bytes
      <4> QED BY <3>3, <4>1 DEF RecvJunk, Receiving, TInv, TypeOK, RecvTypeOK
    <3>4. CASE RecvPhase \/ RecvSumOK \/ RecvCommit \/ RecvPerms \/ RecvFail
      BY <3>4 DEF RecvPhase, RecvSumOK, RecvCommit, RecvPerms, RecvFail, Receiving
    <3> QED BY <3>1, <3>2, <3>3, <3>4 DEF Receive, RecvNext
  <2>3. StreamOK'
    BY <1>1, <2>1, <2>2 DEF StreamOK, FirstOK, LastOK
  <2>4. RecvGenuine'
    <3>1. CASE RecvSumOK
      <4>1. /\ data[1].k = "sum" /\ data[1].i = rcur /\ data[1].v = tmp
            /\ tmp' = tmp /\ rcur' = rcur /\ rpc' = "commit"
        BY <1>3, <1>5, <3>1 DEF RecvSumOK, SumReady, NextIs, Wire, StreamOK, FirstOK,
           Receiving, Body
      <4>2. 1 \in 1 .. Len(data)
        BY <1>3, <1>5, EmptyFacts
      <4>3. Genuine(rcur, tmp)
        BY <4>1, <4>2 DEF Wire, SumsGenuine
      <4> QED BY <1>1, <4>1, <4>3 DEF RecvGenuine, Genuine, Fresh
    <3>2. CASE ~RecvSumOK
      <4>1. rpc' \notin {"commit", "perms"}
        <5>1. CASE RecvCommit
          <6>1. Len(data) \in Nat \ {0} /\ Len(Tail(data)) = Len(data) - 1
            BY <1>3, <1>5, TailFacts
          <6> QED BY <1>5, <5>1, <6>1 DEF RecvCommit
        <5>2. CASE ~RecvCommit
          BY <3>2, <5>2 DEF Receive, RecvNext, RecvPhase, RecvIndex, RecvLiteral,
             RecvMatch, RecvEnd, RecvPerms, RecvJunk, RecvFail, NextIs, recvVars
        <5> QED BY <5>1, <5>2
      <4> QED BY <4>1 DEF RecvGenuine
    <3> QED BY <3>1, <3>2
  <2> QED BY <1>2, <2>1, <2>3, <2>4 DEF Wire
<1> QED BY <1>4, <1>5 DEF Receive, RecvNext, RecvPhase, RecvIndex, RecvLiteral,
     RecvMatch, RecvEnd, RecvSumOK, RecvCommit, RecvPerms, RecvJunk, RecvFail,
     ReadData, NextIs, SumReady

\* Two contents of the same length, one a prefix of the other, are the same.
LEMMA PrefixFacts ==
  /\ \A s, t \in Content : Prefix(s, t) /\ Len(s) = Len(t) => s = t
  /\ \A t \in Content : Prefix(<<>>, t)
  /\ \A s, t \in Content :
       Prefix(s, t) /\ Len(s) < Len(t) => Prefix(Append(s, t[Len(s) + 1]), t)
<1>1. ASSUME NEW s \in Content, NEW t \in Content, Prefix(s, t), Len(s) = Len(t)
      PROVE  s = t
  BY <1>1 DEF Prefix, Content
<1>2. ASSUME NEW t \in Content PROVE Prefix(<<>>, t)
  BY DEF Prefix, Content
<1>3. ASSUME NEW s \in Content, NEW t \in Content, Prefix(s, t), Len(s) < Len(t)
      PROVE  Prefix(Append(s, t[Len(s) + 1]), t)
  BY <1>3 DEF Prefix, Content
<1> QED BY <1>1, <1>2, <1>3

\* What a step of the sender does to the part of the invariant it can disturb,
\* when it writes nothing.
LEMMA SilentKeeps ==
  ASSUME Wire, UNCHANGED <<src, smt, lsrc, lmt, dst, tmp, data, rpc, rcur, rjunk,
                           vouched>>,
         spc' \in {"data", "sum"} => spc' = spc /\ scur' = scur
  PROVE  StreamOK' /\ SumsGenuine' /\ RecvGenuine' /\ ListGenuine'
  BY DEF Wire, StreamOK, FirstOK, LastOK, Receiving, SumsGenuine, Genuine, RecvGenuine,
     ListGenuine, Fresh

\* When it writes an item that carries no checksum.
LEMMA ItemKeeps ==
  ASSUME data \in Seq(Item), Wire, NEW item \in Item, data' = Append(data, item),
         item.k # "sum", item.k \in Body => spc = "data" /\ item.i = scur,
         spc' \in {"data", "sum"} => item.k \in Opening /\ item.i = scur',
         UNCHANGED <<src, smt, lsrc, lmt, dst, tmp, rpc, rcur, rjunk, vouched>>
  PROVE  StreamOK' /\ SumsGenuine' /\ RecvGenuine' /\ ListGenuine'
<1>1. Adjacent(data)' /\ FirstOK' /\ data' # <<>> /\ data'[Len(data')] = item
  BY WriteKeeps DEF Wire
<1>2. StreamOK'
  BY <1>1 DEF StreamOK, LastOK
<1>3. SumsGenuine'
  BY WriteSums DEF Wire
<1> QED BY <1>2, <1>3 DEF Wire, Genuine, RecvGenuine, ListGenuine, Fresh

\* The sender reads what it later vouches for.
LEMMA SendKeeps ==
  ASSUME TInv, Wire, Send
  PROVE  Wire'
<1>1. UNCHANGED <<src, smt, lsrc, lmt, dst, tmp, rpc, rcur, rjunk>>
  BY DEF Send, SendNext, treeVars, destVars, listVars, recvVars
<1>2. /\ data \in Seq(Item) /\ SendTypeOK /\ SendControl
      /\ src \in [Idx -> MaybeContent]
      /\ sread \in Content /\ sfile \in Content /\ hread \in Content /\ hfile \in Content
      /\ req # <<>> => Head(req) \in Item
  BY TailTyped DEF TInv, TypeOK, WorldTypeOK, Control, SendTypeOK
<1>3. CASE SendIndex
  <2>1. ReadGenuine'
    BY <1>3 DEF SendIndex, ReadGenuine
  <2>2. CASE dryRun
    <3>1. Head(req) \in Item /\ Head(req).k = "idx"
      BY <1>2, <1>3 DEF SendIndex, NextIs
    <3>2. Index(Head(req).i) \in Item
      BY <3>1, ItemTypes DEF Item
    <3>3. /\ data' = Append(data, Index(Head(req).i)) /\ spc' = "idx" /\ vouched' = vouched
          /\ Index(Head(req).i).k = "idx"
      BY <1>3, <2>2 DEF SendIndex, WriteData, Index
    <3> QED BY <1>1, <1>2, <2>1, <3>2, <3>3, ItemKeeps DEF Wire, Body
  <2>3. CASE ~dryRun
    BY <1>1, <1>3, <2>1, <2>3, SilentKeeps DEF SendIndex, Wire
  <2> QED BY <2>2, <2>3
<1>4. CASE SendPhase \/ SendStats
  <2>1. spc' \notin {"data", "sum"}
    BY <1>4 DEF SendPhase, SendStats
  <2>2. PICK item \in Item : WriteData(item) /\ item.k \in {"done", "stats"}
    BY <1>4, ItemTypes DEF SendPhase, SendStats, Done, Stats
  <2>3. vouched' = vouched
    BY <1>4 DEF SendPhase, SendStats
  <2>4. StreamOK' /\ SumsGenuine' /\ RecvGenuine' /\ ListGenuine'
    BY <1>1, <1>2, <2>1, <2>2, <2>3, ItemKeeps DEF WriteData, Body
  <2> QED BY <2>1, <2>4 DEF Wire, ReadGenuine
<1>5. CASE SendVanished \/ SendUnhashed \/ SendFail \/ SendBye
  <2>1. spc' \notin {"data", "sum"} /\ UNCHANGED <<data, vouched>>
    BY <1>5 DEF SendVanished, SendUnhashed, SendFail, SendBye, ReturnTo
  <2> QED BY <1>1, <2>1, SilentKeeps DEF Wire, ReadGenuine
<1>6. CASE SendPanic
  <2>1. spc' = "panic" /\ vouched' = vouched /\ data' = Append(data, Index(scur))
    BY <1>6 DEF SendPanic, ReturnTo, WriteData
  <2>2. Index(scur) \in Item /\ Index(scur).k = "idx"
    BY <1>2, <1>6, ItemTypes DEF SendPanic, SendControl, Index
  <2> QED BY <1>1, <1>2, <2>1, <2>2, ItemKeeps DEF Wire, ReadGenuine, Body
<1>7. CASE SendOpen
  <2>1. /\ spc' = "data" /\ scur' = scur /\ vouched' = vouched
        /\ data' = Append(data, Index(scur))
    BY <1>7 DEF SendOpen, WriteData
  <2>2. Index(scur) \in Item /\ Index(scur).k = "idx" /\ Index(scur).i = scur
    BY <1>2, <1>7, ItemTypes DEF SendOpen, SendControl, Index
  <2>3. StreamOK' /\ SumsGenuine' /\ RecvGenuine' /\ ListGenuine'
    BY <1>1, <1>2, <2>1, <2>2, ItemKeeps DEF Body, Opening
  <2>4. ReadGenuine'
    <3>1. sread = <<>> /\ scur \in Idx /\ src[scur] \in Content
      BY <1>2, <1>7 DEF SendOpen, SendControl, MaybeContent
    <3>2. Prefix(sread, src[scur])
      BY <3>1, PrefixFacts
    <3> QED BY <1>1, <1>7, <3>2 DEF SendOpen, ReadGenuine
  <2> QED BY <2>3, <2>4 DEF Wire
<1>8. CASE SendBlock
  <2>1. /\ spc = "data" /\ spc' = "data" /\ vouched' = vouched /\ scur \in Idx
        /\ UNCHANGED <<scur, sfile, ssize, hpc, hfile, hread>>
    BY <1>2, <1>8 DEF SendBlock, hashVars, SendControl
  <2>2. NextBlock \in Block /\ Len(sread) < Len(sfile)
    <3>1. Len(sread) \in Nat /\ Len(sfile) \in Nat /\ Len(sread) < Len(sfile)
      BY <1>2, <1>8, ContentFacts DEF SendBlock
    <3>2. Len(sread) + 1 \in 1 .. Len(sfile)
      BY <3>1
    <3> QED BY <1>2, <3>1, <3>2, ContentFacts DEF NextBlock
  <2>3. PICK item \in Item : /\ WriteData(item) /\ item.k \in {"lit", "match"}
                             /\ item.i = scur
    <3>1. CASE WriteData(Literal(scur, NextBlock))
      BY <2>1, <2>2, <3>1, ItemTypes DEF Literal
    <3>2. CASE \E j \in 1 .. Len(ssums) : WriteData(Match(scur, j))
      BY <2>1, <3>2, ItemTypes DEF Match
    <3> QED BY <1>8, <3>1, <3>2 DEF SendBlock
  <2>4. StreamOK' /\ SumsGenuine' /\ RecvGenuine' /\ ListGenuine'
    BY <1>1, <1>2, <2>1, <2>3, ItemKeeps DEF WriteData, Body, Opening
  <2>5. Prefix(sread, sfile) => Prefix(sread', sfile)
    BY <1>2, <1>8, <2>2, PrefixFacts DEF SendBlock, NextBlock
  <2>6. ReadGenuine'
    BY <1>1, <2>1, <2>5 DEF Wire, ReadGenuine, Fresh
  <2> QED BY <2>4, <2>6 DEF Wire
<1>9. CASE SendEnd
  <2>1. /\ spc = "data" /\ spc' = "sum" /\ scur \in Idx
        /\ UNCHANGED <<vouched, scur, sfile, ssize, sread, hpc, hfile, hread>>
    BY <1>2, <1>9 DEF SendEnd, hashVars, SendControl
  <2>2. End(scur) \in Item /\ End(scur).k = "end" /\ End(scur).i = scur
    BY <2>1, ItemTypes DEF End
  <2>3. StreamOK' /\ SumsGenuine' /\ RecvGenuine' /\ ListGenuine'
    BY <1>1, <1>2, <1>9, <2>1, <2>2, ItemKeeps DEF SendEnd, WriteData, Opening
  <2>4. Prefix(sread, sfile) /\ ssize = Len(sfile) => Len(sread) = Len(sfile)
    BY <1>2, <1>9, ContentFacts DEF SendEnd, HasMore, Prefix
  <2>5. ReadGenuine'
    BY <1>1, <2>1, <2>4 DEF Wire, ReadGenuine, Fresh
  <2> QED BY <2>3, <2>5 DEF Wire
<1>10. CASE SendSum
  <2>1. /\ spc = "sum" /\ spc' = "idx" /\ scur \in Idx /\ Sum \in Content
        /\ vouched' = vouched \cup {<<scur, Sum>>}
        /\ data' = Append(data, FileSum(scur, Sum))
    BY <1>2, <1>10 DEF SendSum, ReturnTo, WriteData, Sum, SendControl
  <2>2. PICK item \in Item : /\ data' = Append(data, item)
                             /\ item.k = "sum" /\ item.i = scur /\ item.v = Sum
    BY <2>1, ItemTypes DEF FileSum
  <2>3. Fresh(scur) => Sum = src[scur]
    <3> SUFFICES ASSUME Fresh(scur) PROVE Sum = src[scur]
      OBVIOUS
    <3>1. CASE Delta
      BY <1>2, <2>1, <3>1, PrefixFacts DEF Sum, Wire, ReadGenuine
    <3>2. CASE ~Delta
      BY <1>2, <1>10, <2>1, <3>2, PrefixFacts DEF SendSum, Sum, Wire, ReadGenuine
    <3> QED BY <3>1, <3>2
  <2>4. Adjacent(data)' /\ FirstOK'
    BY <1>1, <1>2, <2>1, <2>2, WriteKeeps DEF Wire
  <2>5. StreamOK'
    BY <2>1, <2>4 DEF StreamOK, LastOK
  <2>6. Genuine(item.i, item.v)'
    BY <1>1, <2>1, <2>2, <2>3 DEF Genuine, Fresh
  <2>7. SumsGenuine'
    BY <1>1, <1>2, <2>1, <2>2, <2>6, WriteSums DEF Wire
  <2>8. RecvGenuine' /\ ListGenuine' /\ ReadGenuine'
    BY <1>1, <2>1 DEF Wire, RecvGenuine, ListGenuine, ReadGenuine, Genuine, Fresh
  <2> QED BY <2>5, <2>7, <2>8 DEF Wire
<1>11. CASE HashOpen
  <2>1. /\ hpc = "open" /\ hread = <<>> /\ spc \in {"data", "sum"} /\ scur \in Idx
        /\ UNCHANGED <<data, vouched, spc, scur, sfile, ssize, sread>>
    BY <1>2, <1>11 DEF HashOpen, SendControl
  <2>2. src[scur] # NoFile => src[scur] \in Content /\ Prefix(<<>>, src[scur])
    BY <1>2, <2>1, PrefixFacts DEF MaybeContent
  <2>3. ReadGenuine'
    BY <1>1, <1>11, <2>1, <2>2 DEF HashOpen, Wire, ReadGenuine, Fresh
  <2> QED BY <1>1, <2>1, <2>3, SilentKeeps DEF Wire
<1>12. CASE HashBlock
  <2>1. /\ hpc = "read"
        /\ UNCHANGED <<data, vouched, spc, scur, sfile, ssize, sread, hfile>>
    BY <1>12 DEF HashBlock
  <2>2. Prefix(hread, hfile) /\ hpc' # "done" => Prefix(hread', hfile)
    BY <1>2, <1>12, PrefixFacts DEF HashBlock
  <2>3. Prefix(hread, hfile) /\ hpc' = "done" =>
          hread' = hread /\ Len(hread) = Len(hfile)
    BY <1>2, <1>12, ContentFacts DEF HashBlock, Prefix
  <2>4. hpc' \in {"read", "done"}
    BY <1>12 DEF HashBlock
  <2>5. ReadGenuine'
    BY <1>1, <2>1, <2>2, <2>3, <2>4 DEF Wire, ReadGenuine, Fresh
  <2> QED BY <1>1, <2>1, <2>5, SilentKeeps DEF Wire
<1> QED BY <1>3, <1>4, <1>5, <1>6, <1>7, <1>8, <1>9, <1>10, <1>11, <1>12
   DEF Send, SendNext

\* A changed source file is not the listed version any more, and never again.
LEMMA ChangeKeeps ==
  ASSUME TInv, Wire, Change
  PROVE  Wire'
<1>1. UNCHANGED <<dst, lsrc, lmt, tmp, data, rpc, rcur, rjunk, spc, scur, ssize, sread,
                  hpc, hread, vouched>>
  BY DEF Change, destVars, listVars, chanVars, recvVars
<1>2. PICK i \in Idx, c \in NewContents \cup {NoFile} :
        /\ src' = [src EXCEPT ![i] = c] /\ smt' = [smt EXCEPT ![i] = @ + 1]
        /\ scur # i => sfile' = sfile /\ hfile' = hfile
  BY DEF Change
<1>3. smt[i] \in Nat /\ lmt[i] \in Nat /\ lmt[i] <= smt[i] /\ smt'[i] = smt[i] + 1
  BY <1>2 DEF TInv, TypeOK, WorldTypeOK, Wire, ListGenuine
<1>4. ~Fresh(i)'
  BY <1>1, <1>3 DEF Fresh
<1>5. \A j \in Idx : j # i => src'[j] = src[j] /\ smt'[j] = smt[j]
  BY <1>2 DEF TInv, TypeOK, WorldTypeOK
<1>6. \A j \in Idx : Fresh(j)' => Fresh(j) /\ src'[j] = src[j] /\ j # i
  BY <1>1, <1>4, <1>5 DEF Fresh
<1>7. /\ rpc \in {"commit", "perms"} => rcur \in Idx
      /\ spc \in {"data", "sum"} => scur \in Idx
  BY DEF TInv, Control, RecvControl, SendControl
<1>8. StreamOK'
  BY <1>1 DEF Wire, StreamOK, FirstOK, LastOK, Receiving
<1>9. SumsGenuine'
  <2> SUFFICES ASSUME NEW k \in 1 .. Len(data), data[k].k = "sum"
               PROVE  Genuine(data[k].i, data[k].v)'
    BY <1>1 DEF SumsGenuine
  <2>1. Genuine(data[k].i, data[k].v)
    BY DEF Wire, SumsGenuine
  <2>2. data[k].i \in Idx
    BY <2>1 DEF Genuine, TInv, TypeOK, SendTypeOK
  <2> QED BY <1>1, <1>6, <2>1, <2>2 DEF Genuine
<1>10. RecvGenuine'
  BY <1>1, <1>6, <1>7 DEF Wire, RecvGenuine, Genuine
<1>11. ReadGenuine'
  BY <1>1, <1>2, <1>6, <1>7 DEF Wire, ReadGenuine
<1>12. ListGenuine'
  <2> SUFFICES ASSUME NEW j \in Idx
               PROVE  lmt[j] <= smt'[j] /\ (Fresh(j)' => lsrc[j] = src'[j])
    BY <1>1 DEF ListGenuine, Fresh
  <2>1. lmt[j] \in Nat /\ smt[j] \in Nat /\ lmt[j] <= smt[j]
    BY DEF TInv, TypeOK, WorldTypeOK, Wire, ListGenuine
  <2>2. smt'[j] = smt[j] \/ smt'[j] = smt[j] + 1
    BY <1>3, <1>5
  <2>3. lmt[j] <= smt'[j]
    BY <2>1, <2>2
  <2> QED BY <1>6, <2>3 DEF Wire, ListGenuine
<1> QED BY <1>8, <1>9, <1>10, <1>11, <1>12 DEF Wire

\* The end of the processes, and a new session with a new list.
LEMMA OthersKeep ==
  ASSUME TInv, Wire, Do \/ Hangup \/ Reset \/ Crash \/ Rerun
  PROVE  Wire'
<1>1. UNCHANGED <<src, smt, dst, scur, sfile, ssize, sread, hpc, hfile, hread, vouched>>
  BY DEF Do, DoFail, DoJoin, DoReport, DoBye, DoLost, Hangup, Reset, Crash, Rerun,
     doOnly, treeVars, destVars, sendVars, hashVars
<1>2. CASE (Do /\ ~DoReport) \/ Hangup \/ Reset
  BY <1>1, <1>2 DEF Do, DoFail, DoJoin, DoBye, DoLost, Hangup, Reset, doOnly, chanVars,
     listVars, recvVars, sendVars, Wire, StreamOK, FirstOK, LastOK, Receiving,
     SumsGenuine, Genuine, RecvGenuine, ReadGenuine, ListGenuine, Fresh
<1>3. CASE DoReport
  <2>1. /\ data \in Seq(Item) /\ data # <<>> /\ data' = Tail(data) /\ rpc = "ok"
        /\ Head(data) = data[1]
    BY <1>3, TailFacts DEF DoReport, NextIs, ReadData, TInv, TypeOK, WorldTypeOK,
       Control, DoControl
  <2>2. UNCHANGED <<lsrc, lmt, tmp, rpc, rcur, rjunk, spc>>
    BY <1>3 DEF DoReport, doOnly, listVars, recvVars, sendVars
  <2>3. /\ Adjacent(data)' /\ SumsGenuine'
        /\ spc \in {"data", "sum"} /\ data' # <<>> =>
             data'[Len(data')].k \in Opening /\ data'[Len(data')].i = scur
    BY <1>1, <2>1, <2>2, ReadKeeps DEF Wire, StreamOK
  <2>4. ~Receiving'
    BY <2>1, <2>2 DEF Receiving
  <2>5. StreamOK'
    BY <1>1, <2>2, <2>3, <2>4 DEF StreamOK, FirstOK, LastOK
  <2>6. RecvGenuine' /\ ReadGenuine' /\ ListGenuine'
    BY <1>1, <2>2 DEF Wire, RecvGenuine, ReadGenuine, ListGenuine, Genuine, Fresh
  <2> QED BY <2>3, <2>5, <2>6 DEF Wire
<1>4. CASE Crash
  <2>1. UNCHANGED <<data, lsrc, lmt, spc>> /\ rpc' = "dead"
    BY <1>4 DEF Crash, listVars, sendVars
  <2> QED BY <1>1, <2>1 DEF Wire, StreamOK, FirstOK, LastOK, Receiving, SumsGenuine,
     Genuine, RecvGenuine, ReadGenuine, ListGenuine, Fresh
<1>5. CASE Rerun
  <2>1. data' = <<>> /\ rpc' = "idx" /\ spc' = "idx" /\ lsrc' = src /\ lmt' = smt
    BY <1>5 DEF Rerun
  <2>2. Len(data') = 0
    BY <2>1
  <2>3. StreamOK' /\ SumsGenuine' /\ RecvGenuine' /\ ReadGenuine'
    BY <2>1, <2>2 DEF StreamOK, Adjacent, FirstOK, LastOK, SumsGenuine, RecvGenuine,
       ReadGenuine
  <2>4. ListGenuine'
    BY <1>1, <2>1 DEF ListGenuine, Fresh, TInv, TypeOK, WorldTypeOK
  <2> QED BY <2>3, <2>4 DEF Wire
<1> QED BY <1>2, <1>3, <1>4, <1>5
-----------------------------------------------------------------------------
(* The theorems.                                                           *)

\* Every step of a session keeps the invariant.
LEMMA InvariantStep ==
  ASSUME Check # "size", TInv, TInv', SInv, [Next]_vars
  PROVE  SInv'
<1>1. QuickCheck!NoFutureStamp' /\ QuickCheck!QuickCheckSound'
  BY StepRefines, MirrorStep DEF SInv, TInv, TypeOK
<1>2. Wire'
  <2>1. Wire
    BY DEF SInv, Wire
  <2>2. CASE Next
    BY <2>1, <2>2, GenerateKeeps, ReceiveKeeps, SendKeeps, ChangeKeeps, OthersKeep DEF Next
  <2>3. CASE UNCHANGED vars
    BY <2>1, <2>3 DEF vars, treeVars, destVars, listVars, chanVars, recvVars, sendVars,
       hashVars, Wire, StreamOK, FirstOK, LastOK, Receiving, SumsGenuine, Genuine,
       RecvGenuine, ReadGenuine, ListGenuine, Fresh
  <2> QED BY <2>2, <2>3
<1> QED BY <1>1, <1>2 DEF SInv, Wire

\* A session starts with the invariant, and where Mirror may start.
LEMMA InvariantInit == Init => SInv /\ QuickCheck!MirrorInit
<1> SUFFICES ASSUME Init PROVE SInv /\ QuickCheck!MirrorInit
  OBVIOUS
<1>1. /\ data = <<>> /\ Len(data) = 0 /\ rpc = "idx" /\ spc = "idx" /\ vouched = {}
      /\ lsrc = src /\ lmt = smt /\ smt = [i \in Idx |-> 1] /\ dmt \in [Idx -> {Now, 1}]
      /\ src \in [Idx -> MaybeContent] /\ dst \in [Idx -> MaybeContent]
      /\ QuickCheck!QuickCheckSound
  BY WorldOK DEF Init, InitAny, RecvInit, SendInit, QuickCheckSound
<1>2. QuickCheck!NoFutureStamp
  BY <1>1 DEF QuickCheck!NoFutureStamp, Now
<1>3. SInv
  BY <1>1, <1>2 DEF SInv, StreamOK, Adjacent, FirstOK, LastOK, SumsGenuine, RecvGenuine,
     ReadGenuine, ListGenuine, Fresh
<1>4. QuickCheck!MirrorTypeOK
  BY <1>1 DEF QuickCheck!MirrorTypeOK, QuickCheck!MaybeContent, QuickCheck!Content,
     QuickCheck!Now, MaybeContent, Content, Now
<1> QED BY <1>1, <1>2, <1>3, <1>4 DEF QuickCheck!MirrorInit

\* The inductive invariant.
LEMMA InvariantCorrect ==
  ASSUME Check # "size"
  PROVE  Spec => []SInv
<1>1. TInv /\ TInv' /\ SInv /\ [Next]_vars => SInv'
  BY InvariantStep
<1>2. Init => SInv
  BY InvariantInit
<1> QED BY <1>1, <1>2, ControlCorrect, PTL DEF Spec

\* skipFile never hides a stale file from a later run, unless --size-only
\* makes it: no order of the goroutines, no change of a source file while it
\* is sent, no failure and no crash gives a destination file the size and the
\* time of a source version it does not hold.
THEOREM QuickCheckCorrect ==
  ASSUME Check # "size"
  PROVE  Spec => []QuickCheckSound
<1>1. SInv => QuickCheckSound
  BY DEF SInv, QuickCheckSound
<1> QED BY <1>1, InvariantCorrect, PTL

\* The session implements Mirror: a destination file is replaced only as a
\* whole and only by a content the sender vouched for as that file, and it
\* gets the time of a source version only when it holds it.
THEOREM SessionImplementsMirror ==
  ASSUME Check # "size"
  PROVE  Spec => MirrorSpec
<1>1. Init => QuickCheck!MirrorInit
  BY InvariantInit
<1>2. TInv /\ TInv' /\ SInv /\ [Next]_vars
        => [QuickCheck!MirrorNext]_(QuickCheck!mirrorVars)
  BY StepRefines
<1> QED BY <1>1, <1>2, ControlCorrect, InvariantCorrect, PTL
   DEF Spec, MirrorSpec, QuickCheck!MirrorSpec

\* Do joins both goroutines before it reports success, so nothing touches the
\* destination afterwards.
THEOREM SuccessIsQuiet == Spec => QuietAfterSuccess
<1>1. TInv /\ [Next]_vars => [dpc = "ok" => UNCHANGED <<destVars, tmp>>]_vars
  <2> SUFFICES ASSUME TInv, Next, dpc = "ok" PROVE UNCHANGED <<destVars, tmp>>
    OBVIOUS
  <2>1. gpc = "ok" /\ rpc = "ok" /\ tmp = NoFile
    BY DEF TInv, Control, DoControl, RecvControl
  <2>2. ~Generate
    BY <2>1 DEF Generate, GenNext, GenUnlisted, GenSkip, GenRequest, GenSums, GenDone,
       GenFail, AtEntry
  <2>3. ~Receive
    BY <2>1 DEF Receive, RecvNext, RecvPhase, RecvIndex, RecvLiteral, RecvMatch, RecvEnd,
       RecvSumOK, RecvCommit, RecvPerms, RecvJunk, RecvFail, SumReady
  <2>4. CASE Send \/ Do \/ Hangup \/ Change \/ Reset \/ Crash
    BY <2>4 DEF Send, SendNext, Do, DoFail, DoJoin, DoReport, DoBye, DoLost, Hangup,
       Change, Reset, Crash, doOnly, destVars
  <2>5. CASE Rerun
    BY <2>1, <2>5 DEF Rerun
  <2> QED BY <2>2, <2>3, <2>4, <2>5 DEF Next
<1> QED BY <1>1, ControlCorrect, PTL DEF Spec, QuietAfterSuccess

-----------------------------------------------------------------------------
(* What success means: when Do reports it, every listed file whose source  *)
(* has not changed since is at the destination with its time.              *)
(*                                                                         *)
(* The argument: a file the generator has passed is settled at the         *)
(* destination, or its transfer is somewhere in the circle generator -     *)
(* sender - receiver, or the session has failed (Delivered).  The first -1 *)
(* the generator writes goes round that circle behind every request and    *)
(* every file (Barrier); so when the receiver has counted it, nothing is   *)
(* in flight, and it cannot end well in any other way.                     *)

\* Requests, and all that answers them.
Work == {"idx", "sums"} \cup Body

NoneOf(q, kinds) == \A k \in 1 .. Len(q) : q[k].k \notin kinds
Carries(q, kind, i) == \E k \in 1 .. Len(q) : q[k].k = kind /\ q[k].i = i

WorkBeforeDone(q) ==
  \A j, k \in 1 .. Len(q) : j < k /\ q[j].k = "done" => q[k].k \notin Work

\* Work never overtakes the first -1, wherever that is: at the generator, on
\* the way to the sender, on the way to the receiver, or read by the receiver.
Barrier ==
  /\ gpc \in {"last", "ok"} => gi = NumFiles + 1
  /\ gpc \in {"entry", "sums"} => sphase = 0 /\ NoneOf(req, {"done"})
  /\ WorkBeforeDone(req)
  /\ sphase = 1 => spc \notin {"sums", "data", "sum"} /\ NoneOf(req, Work)
  /\ WorkBeforeDone(data)
  /\ sphase = 0 => rphase = 0 /\ NoneOf(data, {"done"})
  /\ rphase = 1 => NoneOf(data, Work) /\ rpc \in {"idx", "ok", "err", "dead"}
  /\ rpc = "ok" => rphase = 1

\* An index and its sums stay together on the way to the sender.
Paired ==
  /\ \A k \in 1 .. Len(req) - 1 :
       req[k + 1].k = "sums" => req[k].k = "idx" /\ req[k].i = req[k + 1].i
  /\ spc = "sums" /\ req # <<>> /\ req[1].k = "sums" => req[1].i = scur
  /\ gpc = "sums" =>
       /\ req # <<>> => req[Len(req)].k = "idx" /\ req[Len(req)].i = gi
       /\ req = <<>> /\ spc = "sums" => scur = gi

\* The hashing goroutine fails only if the file is gone, and it stays gone.
HashGone == hpc = "err" => src[scur] = NoFile

\* The session will not end well.
Failed ==
  \/ rpc \in {"err", "dead"} \/ (rpc = "sum" /\ rjunk > 0)
  \/ spc \in {"err", "panic"} /\ sphase = 0

\* The generator has still to come to file i, or its transfer is on its way.
InFlight(i) ==
  \/ gi <= i
  \/ Carries(req, "sums", i)
  \/ spc \in {"data", "sum"} /\ scur = i
  \/ Carries(data, "sum", i)
  \/ rpc \in {"commit", "perms"} /\ rcur = i

Settled(i) ==
  /\ Check # "size" => dst[i] = src[i]
  /\ PreserveTimes => dmt[i] = smt[i]

Delivered ==
  ~dryRun /\ ~Failed =>
    \A i \in Idx : Listed(i) /\ Fresh(i) => InFlight(i) \/ Settled(i)

DInv == Barrier /\ Paired /\ HashGone /\ Delivered

\* The quick check is sound, unless --size-only makes it unsound.
SoundUnlessSize == Check # "size" => QuickCheck!QuickCheckSound
-----------------------------------------------------------------------------
(* Channels.                                                               *)

\* Writing an item: the others stay, and it comes after them.
LEMMA AppendKinds ==
  ASSUME NEW q \in Seq(Item), NEW x \in Item, NEW r, r = Append(q, x)
  PROVE  /\ \A K : NoneOf(q, K) /\ x.k \notin K => NoneOf(r, K)
         /\ WorkBeforeDone(q) /\ (NoneOf(q, {"done"}) \/ x.k \notin Work)
              => WorkBeforeDone(r)
         /\ \A kind, i : Carries(q, kind, i) => Carries(r, kind, i)
         /\ Carries(r, x.k, x.i)
<1>1. /\ Len(r) = Len(q) + 1 /\ Len(q) \in Nat /\ r[Len(q) + 1] = x
      /\ \A k \in 1 .. Len(q) : r[k] = q[k]
  BY AppendFacts
<1>2. \A k \in 1 .. Len(r) : k = Len(q) + 1 \/ k \in 1 .. Len(q)
  BY <1>1
<1>3. Len(q) + 1 \in 1 .. Len(r) /\ \A k \in 1 .. Len(q) : k \in 1 .. Len(r)
  BY <1>1
<1>4. ASSUME NEW K, NoneOf(q, K), x.k \notin K PROVE NoneOf(r, K)
  BY <1>1, <1>2, <1>4, Zenon DEF NoneOf
<1>5. ASSUME WorkBeforeDone(q), NoneOf(q, {"done"}) \/ x.k \notin Work
      PROVE  WorkBeforeDone(r)
  <2> SUFFICES ASSUME NEW j \in 1 .. Len(r), NEW k \in 1 .. Len(r), j < k,
                      r[j].k = "done"
               PROVE  r[k].k \notin Work
    BY DEF WorkBeforeDone
  <2>1. j \in 1 .. Len(q)
    BY <1>1
  <2>2. CASE k \in 1 .. Len(q)
    BY <1>1, <1>5, <2>1, <2>2 DEF WorkBeforeDone
  <2>3. CASE k = Len(q) + 1
    BY <1>1, <1>5, <2>1, <2>3 DEF NoneOf
  <2> QED BY <1>2, <2>2, <2>3
<1>6. ASSUME NEW kind, NEW i, Carries(q, kind, i) PROVE Carries(r, kind, i)
  BY <1>1, <1>3, <1>6, Zenon DEF Carries
<1>7. Carries(r, x.k, x.i)
  BY <1>1, <1>3, Zenon DEF Carries
<1> QED BY <1>4, <1>5, <1>6, <1>7

\* Reading an item: it is the only one that goes.
LEMMA TailKinds ==
  ASSUME NEW q \in Seq(Item), q # <<>>, NEW r, r = Tail(q)
  PROVE  /\ \A K : NoneOf(q, K) => NoneOf(r, K) /\ Head(q).k \notin K
         /\ WorkBeforeDone(q) =>
              /\ WorkBeforeDone(r)
              /\ Head(q).k = "done" => NoneOf(r, Work)
         /\ \A kind, i : Carries(q, kind, i) =>
              Carries(r, kind, i) \/ (Head(q).k = kind /\ Head(q).i = i)
<1>1. /\ Len(r) = Len(q) - 1 /\ Len(q) \in Nat \ {0} /\ Head(q) = q[1]
      /\ \A k \in 1 .. Len(q) - 1 : r[k] = q[k + 1]
  BY TailFacts
<1>2. /\ 1 \in 1 .. Len(q)
      /\ \A k \in 1 .. Len(r) : k + 1 \in 1 .. Len(q) /\ r[k] = q[k + 1] /\ 1 < k + 1
      /\ \A j, k \in 1 .. Len(r) : j < k => j + 1 < k + 1
  BY <1>1
<1>3. \A k \in 1 .. Len(q) : k = 1 \/ \E m \in 1 .. Len(r) : k = m + 1
  <2> SUFFICES ASSUME NEW k \in 1 .. Len(q), k # 1
               PROVE  \E m \in 1 .. Len(r) : k = m + 1
    OBVIOUS
  <2>1. k - 1 \in 1 .. Len(r) /\ k = (k - 1) + 1
    BY <1>1
  <2> QED BY <2>1
<1>4. ASSUME NEW K, NoneOf(q, K) PROVE NoneOf(r, K) /\ Head(q).k \notin K
  BY <1>1, <1>2, <1>4, Zenon DEF NoneOf
<1>5. ASSUME WorkBeforeDone(q)
      PROVE  WorkBeforeDone(r) /\ (Head(q).k = "done" => NoneOf(r, Work))
  <2>1. ASSUME NEW j \in 1 .. Len(r), NEW k \in 1 .. Len(r), j < k, r[j].k = "done"
        PROVE  r[k].k \notin Work
    BY <1>2, <1>5, <2>1 DEF WorkBeforeDone
  <2>2. ASSUME Head(q).k = "done", NEW k \in 1 .. Len(r)
        PROVE  r[k].k \notin Work
    BY <1>1, <1>2, <1>5, <2>2 DEF WorkBeforeDone
  <2> QED BY <2>1, <2>2 DEF WorkBeforeDone, NoneOf
<1>6. ASSUME NEW kind, NEW i, Carries(q, kind, i)
      PROVE  Carries(r, kind, i) \/ (Head(q).k = kind /\ Head(q).i = i)
  <2>1. PICK k \in 1 .. Len(q) : q[k].k = kind /\ q[k].i = i
    BY <1>6 DEF Carries
  <2>2. CASE k = 1
    BY <1>1, <2>1, <2>2
  <2>3. CASE \E m \in 1 .. Len(r) : k = m + 1
    BY <1>2, <2>1, <2>3 DEF Carries
  <2> QED BY <1>3, <2>2, <2>3
<1> QED BY <1>4, <1>5, <1>6

\* What the types say of the two channels.
LEMMA ChannelFacts ==
  ASSUME TInv
  PROVE  /\ req \in Seq(Item) /\ data \in Seq(Item)
         /\ req # <<>> => Head(req) \in Item
         /\ data # <<>> => Head(data) \in Item
  BY TailTyped DEF TInv, TypeOK, WorldTypeOK
\* What the sender writes after it has opened a file.
LEMMA SentItem ==
  ASSUME TInv, SendBlock \/ SendEnd \/ SendSum \/ SendStats
  PROVE  \E item \in Item :
           /\ data' = Append(data, item) /\ item.k # "done"
           /\ SendStats => item.k = "stats"
           /\ SendSum => item.k = "sum" /\ item.i = scur
<1>1. /\ spc \in {"sums", "data", "sum"} => scur \in Idx
      /\ {ssums, sfile, sread, hread} \subseteq Content
  BY DEF TInv, TypeOK, SendTypeOK, Control, SendControl
<1>2. CASE SendBlock
  <2>1. ~SendStats /\ ~SendSum /\ scur \in Idx
    BY <1>1, <1>2 DEF SendBlock, SendStats, SendSum
  <2>2. CASE WriteData(Literal(scur, NextBlock))
    <3>1. Len(sread) \in Nat /\ Len(sfile) \in Nat /\ Len(sread) < Len(sfile)
      BY <1>1, <1>2, ContentFacts DEF SendBlock
    <3>2. Len(sread) + 1 \in 1 .. Len(sfile)
      BY <3>1
    <3>3. NextBlock \in Block
      BY <1>1, <3>2, ContentFacts DEF NextBlock
    <3> QED BY <2>1, <2>2, <3>3, ItemTypes DEF WriteData, Literal
  <2>3. CASE \E j \in 1 .. Len(ssums) : WriteData(Match(scur, j))
    BY <2>1, <2>3, ItemTypes DEF WriteData, Match
  <2> QED BY <1>2, <2>2, <2>3 DEF SendBlock
<1>3. CASE SendEnd
  BY <1>1, <1>3, ItemTypes DEF SendEnd, SendStats, SendSum, WriteData, End
<1>4. CASE SendSum
  <2>1. Sum \in Content
    BY <1>1 DEF Sum
  <2> QED BY <1>1, <1>4, <2>1, ItemTypes DEF SendSum, SendStats, WriteData, FileSum
<1>5. CASE SendStats
  BY <1>5, ItemTypes DEF SendStats, SendSum, WriteData, Stats
<1> QED BY <1>2, <1>3, <1>4, <1>5

-----------------------------------------------------------------------------
(* The barrier.                                                            *)

\* The generator requests nothing once it has written its first -1.
LEMMA GenerateBarrier ==
  ASSUME TInv, Barrier, Generate
  PROVE  Barrier'
<1>1. UNCHANGED <<data, rpc, rphase, spc, sphase>>
  BY DEF Generate, GenNext, recvVars, sendVars
<1>2. req \in Seq(Item)
  BY ChannelFacts
<1>3. CASE GenRequest \/ GenSums
  <2>1. PICK item \in Item : /\ req' = Append(req, item)
                             /\ item.k \in {"idx", "sums"}
    <3>1. CASE GenRequest
      BY <3>1, ItemTypes DEF GenRequest, AtEntry, WriteReq, Index
    <3>2. CASE GenSums
      <4>1. gi \in Idx /\ \A c \in Basis(gi) : c \in Content
        BY <3>2, ContentFacts DEF GenSums, Basis, TInv, TypeOK, WorldTypeOK, Control,
           GenControl, MaybeContent
      <4> QED BY <3>2, <4>1, ItemTypes DEF GenSums, WriteReq, Sums
    <3> QED BY <1>3, <3>1, <3>2
  <2>2. gpc \in {"entry", "sums"} /\ gpc' \in {"entry", "sums"}
    BY <1>3 DEF GenRequest, GenSums, AtEntry
  <2>3. sphase = 0 /\ NoneOf(req, {"done"}) /\ WorkBeforeDone(req)
    BY <2>2 DEF Barrier
  <2>4. NoneOf(req', {"done"}) /\ WorkBeforeDone(req')
    <3>1. item.k \notin {"done"}
      BY <2>1
    <3> QED BY <1>2, <2>1, <2>3, <3>1, AppendKinds
  <2> QED BY <1>1, <2>2, <2>3, <2>4 DEF Barrier
<1>4. CASE GenDone
  <2>1. Done \in Item /\ Done.k = "done" /\ Done.k \notin Work /\ req' = Append(req, Done)
    BY <1>4, ItemTypes DEF GenDone, WriteReq, Done, Work, Body
  <2>2. WorkBeforeDone(req') /\ (NoneOf(req, Work) => NoneOf(req', Work))
    BY <1>2, <2>1, AppendKinds DEF Barrier
  <2>3. gi' = NumFiles + 1 /\ gpc' \in {"last", "ok"}
    BY <1>4 DEF GenDone, Barrier
  <2> QED BY <1>1, <2>2, <2>3 DEF Barrier
<1>5. CASE GenUnlisted \/ GenSkip \/ GenFail
  BY <1>1, <1>5 DEF GenUnlisted, GenSkip, GenFail, AtEntry, Barrier
<1> QED BY <1>3, <1>4, <1>5 DEF Generate, GenNext

\* The receiver counts a -1 only between files, and then there are no more.
LEMMA ReceiveBarrier ==
  ASSUME TInv, Barrier, Receive
  PROVE  Barrier'
<1>1. UNCHANGED <<req, gpc, gi, spc, sphase>>
  BY DEF Receive, RecvNext, genVars, sendVars
<1>2. data \in Seq(Item)
  BY ChannelFacts
<1>3. CASE RecvPhase
  <2>1. data # <<>> /\ data' = Tail(data) /\ Head(data).k = "done" /\ rpc = "idx"
    BY <1>3 DEF RecvPhase, NextIs, ReadData
  <2>2. /\ \A K : NoneOf(data, K) => NoneOf(data', K) /\ Head(data).k \notin K
        /\ WorkBeforeDone(data) => WorkBeforeDone(data') /\ NoneOf(data', Work)
    BY <1>2, <2>1, TailKinds
  <2>3. sphase # 0 /\ WorkBeforeDone(data') /\ NoneOf(data', Work)
    BY <2>1, <2>2 DEF Barrier
  <2>4. (rphase' = 1 /\ rpc' = "idx") \/ (rphase = 1 /\ rphase' = rphase /\ rpc' = "ok")
    BY <1>3 DEF RecvPhase, TInv, TypeOK, RecvTypeOK
  <2> QED BY <1>1, <2>3, <2>4 DEF Barrier
<1>4. CASE RecvIndex \/ RecvLiteral \/ RecvMatch \/ RecvEnd \/ RecvSumOK \/ RecvJunk
  <2>1. data # <<>> /\ data' = Tail(data)
    BY <1>4 DEF RecvIndex, RecvLiteral, RecvMatch, RecvEnd, RecvSumOK, RecvJunk,
       ReadData, NextIs, SumReady
  <2>2. /\ \A K : NoneOf(data, K) => NoneOf(data', K) /\ Head(data).k \notin K
        /\ WorkBeforeDone(data) => WorkBeforeDone(data')
    BY <1>2, <2>1, TailKinds
  <2>3. rphase' = rphase /\ rpc' # "ok"
    BY <1>4 DEF RecvIndex, RecvLiteral, RecvMatch, RecvEnd, RecvSumOK, RecvJunk, recvVars
  <2>4. rphase # 1
    <3> SUFFICES ASSUME rphase = 1 PROVE FALSE
      OBVIOUS
    <3>1. rpc \in {"idx", "ok", "err", "dead"} /\ Head(data).k \notin Work
      BY <2>2 DEF Barrier
    <3> QED BY <1>4, <3>1 DEF RecvIndex, RecvLiteral, RecvMatch, RecvEnd, RecvSumOK,
       RecvJunk, NextIs, SumReady, Work
  <2> QED BY <1>1, <2>2, <2>3, <2>4 DEF Barrier
<1>5. CASE RecvCommit \/ RecvPerms \/ RecvFail
  BY <1>1, <1>5 DEF RecvCommit, RecvPerms, RecvFail, Barrier
<1> QED BY <1>3, <1>4, <1>5 DEF Receive, RecvNext

\* The sender acknowledges the first -1 between files; later there are none.
LEMMA SendBarrier ==
  ASSUME TInv, Barrier, Send
  PROVE  Barrier'
<1>1. UNCHANGED <<gpc, gi, rpc, rphase>>
  BY DEF Send, SendNext, genVars, recvVars
<1>2. req \in Seq(Item) /\ data \in Seq(Item) /\ (req # <<>> => Head(req) \in Item)
  BY ChannelFacts
<1>3. sphase \in {0, 1} /\ (spc \in {"sums", "data", "sum"} => scur \in Idx)
  BY DEF TInv, TypeOK, SendTypeOK, Control, SendControl
<1>4. ASSUME req # <<>>, req' = Tail(req)
      PROVE  /\ \A K : NoneOf(req, K) => NoneOf(req', K) /\ Head(req).k \notin K
             /\ WorkBeforeDone(req')
             /\ Head(req).k = "done" => NoneOf(req', Work)
  BY <1>2, <1>4, TailKinds DEF Barrier
<1>5. ASSUME NEW item \in Item, data' = Append(data, item), item.k # "done",
             sphase = 0 \/ item.k \notin Work
      PROVE  /\ WorkBeforeDone(data')
             /\ \A K : NoneOf(data, K) /\ item.k \notin K => NoneOf(data', K)
  <2>1. NoneOf(data, {"done"}) \/ item.k \notin Work
    BY <1>5 DEF Barrier
  <2> QED BY <1>2, <1>5, <2>1, AppendKinds DEF Barrier
<1>6. CASE SendPhase
  <2>1. /\ Done \in Item /\ Done.k \notin Work /\ data' = Append(data, Done)
        /\ req # <<>> /\ req' = Tail(req) /\ Head(req).k = "done" /\ spc = "idx"
    BY <1>6, ItemTypes DEF SendPhase, NextIs, ReadReq, WriteData, Done, Work, Body
  <2>2. WorkBeforeDone(data') /\ (NoneOf(data, Work) => NoneOf(data', Work))
    BY <1>2, <2>1, AppendKinds DEF Barrier
  <2>3. gpc \notin {"entry", "sums"}
    BY <1>4, <2>1 DEF Barrier
  <2>4. sphase' = 1 /\ spc' \in {"idx", "stats", "bye"}
    BY <1>3, <1>6 DEF SendPhase
  <2> QED BY <1>1, <1>4, <2>1, <2>2, <2>3, <2>4 DEF Barrier
<1>7. CASE SendIndex \/ SendVanished \/ SendPanic \/ SendOpen
  <2>1. /\ req # <<>> /\ req' = Tail(req) /\ Head(req).k \in Work
        /\ sphase' = sphase
    BY <1>7 DEF SendIndex, SendVanished, SendPanic, SendOpen, NextIs, ReadReq, ReturnTo,
       Work
  <2>2. sphase = 0
    BY <1>3, <1>4, <2>1 DEF Barrier
  <2>3. \/ data' = data
        \/ \E i \in Idx : data' = Append(data, Index(i))
    <3>1. CASE SendIndex
      <4>1. Head(req).i \in Idx
        BY <1>2, <2>1, <3>1 DEF SendIndex, NextIs, Item
      <4> QED BY <3>1, <4>1 DEF SendIndex, WriteData
    <3>2. CASE ~SendIndex
      BY <1>3, <1>7, <3>2 DEF SendVanished, SendPanic, SendOpen, WriteData
    <3> QED BY <3>1, <3>2
  <2>4. WorkBeforeDone(data') /\ NoneOf(data', {"done"})
    <3>1. WorkBeforeDone(data) /\ NoneOf(data, {"done"})
      BY <2>2 DEF Barrier
    <3>2. ASSUME NEW i \in Idx, data' = Append(data, Index(i))
          PROVE  WorkBeforeDone(data') /\ NoneOf(data', {"done"})
      <4>1. Index(i) \in Item /\ Index(i).k \notin {"done"}
        BY ItemTypes DEF Index
      <4> QED BY <1>2, <3>1, <3>2, <4>1, AppendKinds
    <3> QED BY <2>3, <3>1, <3>2
  <2> QED BY <1>1, <1>4, <2>1, <2>2, <2>4 DEF Barrier
<1>8. CASE SendBlock \/ SendEnd \/ SendSum \/ SendStats
  <2>1. PICK item \in Item : data' = Append(data, item) /\ item.k # "done"
                             /\ (spc = "stats" => item.k = "stats")
    BY <1>8, SentItem DEF SendBlock, SendEnd, SendSum
  <2>2. /\ req' = req /\ sphase' = sphase /\ spc \in {"data", "sum", "stats"}
        /\ spc = "stats" => spc' = "bye"
    BY <1>8 DEF SendBlock, SendEnd, SendSum, SendStats, ReturnTo
  <2>3. sphase = 0 \/ spc = "stats"
    BY <1>3, <2>2 DEF Barrier
  <2>4. sphase = 0 \/ item.k \notin Work
    BY <2>1, <2>3 DEF Work, Body
  <2>5. /\ WorkBeforeDone(data')
        /\ \A K : NoneOf(data, K) /\ item.k \notin K => NoneOf(data', K)
    BY <1>5, <2>1, <2>4
  <2>6. item.k \notin {"done"}
    BY <2>1
  <2> QED BY <1>1, <2>2, <2>3, <2>4, <2>5, <2>6 DEF Barrier
<1>9. CASE SendUnhashed \/ HashOpen \/ HashBlock \/ SendFail
  <2>1. UNCHANGED <<req, data, sphase>> /\ (spc' = spc \/ spc' \in {"idx", "err"})
    BY <1>9 DEF SendUnhashed, HashOpen, HashBlock, SendFail, ReturnTo
  <2> QED BY <1>1, <2>1 DEF Barrier
<1>10. CASE SendBye
  <2>1. /\ req # <<>> /\ req' = Tail(req) /\ Head(req).k = "done"
        /\ UNCHANGED <<data, sphase>> /\ spc' = "ok"
    BY <1>10 DEF SendBye, NextIs, ReadReq
  <2> QED BY <1>1, <1>4, <2>1 DEF Barrier
<1> QED BY <1>6, <1>7, <1>8, <1>9, <1>10 DEF Send, SendNext

\* The end of the processes, the world, and a new session.
LEMMA OthersBarrier ==
  ASSUME TInv, Barrier, Do \/ Hangup \/ Change \/ Reset \/ Crash \/ Rerun
  PROVE  Barrier'
<1>1. req \in Seq(Item) /\ data \in Seq(Item)
  BY ChannelFacts
<1>2. CASE DoReport
  <2>1. /\ data # <<>> /\ data' = Tail(data)
        /\ UNCHANGED <<req, gpc, gi, rpc, rphase, spc, sphase>>
    BY <1>2 DEF DoReport, NextIs, ReadData, doOnly, genVars, recvVars, sendVars
  <2>2. /\ \A K : NoneOf(data, K) => NoneOf(data', K)
        /\ WorkBeforeDone(data) => WorkBeforeDone(data')
    BY <1>1, <2>1, TailKinds
  <2> QED BY <2>1, <2>2 DEF Barrier
<1>3. CASE DoBye
  <2>1. /\ Done \in Item /\ Done.k \notin Work /\ req' = Append(req, Done)
        /\ UNCHANGED <<data, gpc, gi, rpc, rphase, spc, sphase>> /\ gpc = "ok"
    BY <1>3, ItemTypes DEF DoBye, WriteReq, Done, Work, Body, doOnly, genVars, recvVars,
       sendVars, TInv, Control, DoControl
  <2>2. WorkBeforeDone(req') /\ (NoneOf(req, Work) => NoneOf(req', Work))
    BY <1>1, <2>1, AppendKinds DEF Barrier
  <2> QED BY <2>1, <2>2 DEF Barrier
<1>4. CASE DoFail \/ DoJoin \/ DoLost \/ Hangup \/ Reset \/ Change
  BY <1>4 DEF DoFail, DoJoin, DoLost, Hangup, Reset, Change, doOnly, chanVars, genVars,
     recvVars, sendVars, Barrier
<1>5. CASE Crash
  BY <1>5 DEF Crash, sendVars, Barrier
<1>6. CASE Rerun
  <2>1. /\ req' = <<>> /\ data' = <<>> /\ Len(<<>>) = 0 /\ gpc' = "entry"
        /\ rpc' = "idx" /\ rphase' = 0 /\ sphase' = 0
    BY <1>6 DEF Rerun
  <2>2. \A K : NoneOf(<<>>, K) /\ WorkBeforeDone(<<>>)
    BY <2>1 DEF NoneOf, WorkBeforeDone
  <2> QED BY <2>1, <2>2 DEF Barrier
<1> QED BY <1>2, <1>3, <1>4, <1>5, <1>6 DEF Do
-----------------------------------------------------------------------------
(* The pairs of index and sums.                                            *)

\* Reading keeps the pairs that are left; the reader has seen the index of
\* sums that come next.
LEMMA TailPaired ==
  ASSUME TInv, Paired, req # <<>>, req' = Tail(req)
  PROVE  /\ \A k \in 1 .. Len(req') - 1 :
              req'[k + 1].k = "sums" => req'[k].k = "idx" /\ req'[k].i = req'[k + 1].i
         /\ req' # <<>> /\ req'[1].k = "sums" =>
              Head(req).k = "idx" /\ Head(req).i = req'[1].i
         /\ req' # <<>> => req'[Len(req')] = req[Len(req)]
         /\ req' = <<>> => Head(req) = req[Len(req)]
<1>1. req \in Seq(Item) /\ req' \in Seq(Item)
  BY ChannelFacts, TailTyped
<1>2. /\ Len(req') = Len(req) - 1 /\ Len(req) \in Nat \ {0} /\ Head(req) = req[1]
      /\ \A k \in 1 .. Len(req) - 1 : req'[k] = req[k + 1]
  BY <1>1, TailFacts
<1>3. Len(req') \in Nat /\ (req' = <<>> <=> Len(req') = 0)
  BY <1>1, EmptyFacts
<1>4. ASSUME NEW k \in 1 .. Len(req') - 1, req'[k + 1].k = "sums"
      PROVE  req'[k].k = "idx" /\ req'[k].i = req'[k + 1].i
  <2>1. /\ k + 1 \in 1 .. Len(req) - 1 /\ req'[k] = req[k + 1]
        /\ req'[k + 1] = req[(k + 1) + 1]
    BY <1>2
  <2> QED BY <1>4, <2>1 DEF Paired
<1>5. ASSUME req' # <<>>, req'[1].k = "sums"
      PROVE  Head(req).k = "idx" /\ Head(req).i = req'[1].i
  <2>1. 1 \in 1 .. Len(req) - 1 /\ req'[1] = req[1 + 1]
    BY <1>2, <1>3, <1>5
  <2> QED BY <1>2, <1>5, <2>1 DEF Paired
<1>6. ASSUME req' # <<>> PROVE req'[Len(req')] = req[Len(req)]
  <2>1. Len(req') \in 1 .. Len(req) - 1 /\ Len(req') + 1 = Len(req)
    BY <1>2, <1>3, <1>6
  <2> QED BY <1>2, <2>1
<1>7. ASSUME req' = <<>> PROVE Head(req) = req[Len(req)]
  <2>1. Len(req) = 1
    BY <1>2, <1>3, <1>7
  <2> QED BY <1>2, <2>1
<1> QED BY <1>4, <1>5, <1>6, <1>7

\* Writing keeps the pairs if sums are written after their index.
LEMMA AppendPaired ==
  ASSUME TInv, Paired, NEW item \in Item, req' = Append(req, item),
         item.k = "sums" => gpc = "sums" /\ item.i = gi, UNCHANGED <<spc, scur>>,
         gpc' = "sums" => item.k = "idx" /\ item.i = gi'
  PROVE  Paired'
<1>1. req \in Seq(Item) /\ Len(req) \in Nat /\ (req = <<>> <=> Len(req) = 0)
  BY ChannelFacts, EmptyFacts
<1>2. /\ Len(req') = Len(req) + 1 /\ req'[Len(req) + 1] = item
      /\ \A k \in 1 .. Len(req) : req'[k] = req[k]
  BY <1>1, AppendFacts
<1>3. ASSUME NEW k \in 1 .. Len(req') - 1, req'[k + 1].k = "sums"
      PROVE  req'[k].k = "idx" /\ req'[k].i = req'[k + 1].i
  <2>1. CASE k = Len(req)
    <3>1. req # <<>> /\ req'[k] = req[Len(req)] /\ req'[k + 1] = item
      BY <1>1, <1>2, <2>1
    <3> QED BY <1>3, <3>1 DEF Paired
  <2>2. CASE k # Len(req)
    <3>1. k \in 1 .. Len(req) - 1 /\ req'[k] = req[k] /\ req'[k + 1] = req[k + 1]
      BY <1>1, <1>2, <2>2
    <3> QED BY <1>3, <3>1 DEF Paired
  <2> QED BY <2>1, <2>2
<1>4. ASSUME spc' = "sums", req'[1].k = "sums" PROVE req'[1].i = scur'
  <2>1. CASE req = <<>>
    <3>1. req'[1] = item
      BY <1>1, <1>2, <2>1
    <3> QED BY <1>4, <2>1, <3>1 DEF Paired
  <2>2. CASE req # <<>>
    <3>1. req'[1] = req[1]
      BY <1>1, <1>2, <2>2
    <3> QED BY <1>4, <2>2, <3>1 DEF Paired
  <2> QED BY <2>1, <2>2
<1>5. req' # <<>> /\ req'[Len(req')] = item
  <2>1. req' \in Seq(Item) /\ Len(req') # 0
    BY <1>1, <1>2
  <2>2. req' # <<>>
    BY <2>1
  <2> QED BY <1>2, <2>2
<1> QED BY <1>3, <1>4, <1>5 DEF Paired

\* Every step keeps an index and its sums together.
LEMMA PairedStep ==
  ASSUME TInv, Paired, Next
  PROVE  Paired'
<1>1. CASE Generate
  <2>1. UNCHANGED <<spc, scur>>
    BY <1>1 DEF Generate, sendVars
  <2>2. CASE GenRequest
    <3>1. /\ Index(gi) \in Item /\ req' = Append(req, Index(gi)) /\ Index(gi).k = "idx"
          /\ Index(gi).i = gi /\ (gpc' = "sums" => gi' = gi)
      BY <2>2, ItemTypes DEF GenRequest, AtEntry, WriteReq, Index
    <3> QED BY <2>1, <3>1, AppendPaired
  <2>3. CASE GenSums
    <3>1. gi \in Idx /\ \A c \in Basis(gi) : c \in Content
      BY <2>3, ContentFacts DEF GenSums, Basis, TInv, TypeOK, WorldTypeOK, Control,
         GenControl, MaybeContent
    <3>2. PICK c \in Basis(gi) : WriteReq(Sums(gi, c))
      BY <2>3 DEF GenSums
    <3>3. /\ Sums(gi, c) \in Item /\ req' = Append(req, Sums(gi, c))
          /\ Sums(gi, c).i = gi /\ gpc = "sums" /\ gpc' = "entry"
      BY <2>3, <3>1, <3>2, ItemTypes DEF GenSums, WriteReq, Sums
    <3> QED BY <2>1, <3>3, AppendPaired
  <2>4. CASE GenDone
    <3>1. /\ Done \in Item /\ req' = Append(req, Done) /\ Done.k = "done"
          /\ gpc' # "sums"
      BY <2>4, ItemTypes DEF GenDone, WriteReq, Done
    <3> QED BY <2>1, <3>1, AppendPaired
  <2>5. CASE GenUnlisted \/ GenSkip \/ GenFail
    BY <2>1, <2>5 DEF GenUnlisted, GenSkip, GenFail, AtEntry, Paired
  <2> QED BY <1>1, <2>2, <2>3, <2>4, <2>5 DEF Generate, GenNext
<1>2. CASE Send
  <2>1. UNCHANGED <<gpc, gi>>
    BY <1>2 DEF Send, genVars
  <2>2. CASE SendIndex \/ SendPhase \/ SendVanished \/ SendPanic \/ SendOpen \/ SendBye
    <3>1. req # <<>> /\ req' = Tail(req)
      BY <2>2 DEF SendIndex, SendPhase, SendVanished, SendPanic, SendOpen, SendBye, NextIs,
         ReadReq
    <3>2. spc' = "sums" => Head(req).k = "idx" /\ scur' = Head(req).i
      BY <2>2 DEF SendIndex, SendPhase, SendVanished, SendPanic, SendOpen, SendBye, NextIs,
         ReturnTo
    <3> QED BY <2>1, <3>1, <3>2, TailPaired DEF Paired
  <2>3. CASE SendBlock \/ SendEnd \/ SendSum \/ SendUnhashed \/ HashOpen \/ HashBlock
             \/ SendStats \/ SendFail
    <3>1. req' = req /\ (spc' = "sums" => spc = "sums" /\ scur' = scur)
      BY <2>3 DEF SendBlock, SendEnd, SendSum, SendUnhashed, HashOpen, HashBlock,
         SendStats, SendFail, ReturnTo
    <3> QED BY <2>1, <3>1 DEF Paired
  <2> QED BY <1>2, <2>2, <2>3 DEF Send, SendNext
<1>3. CASE DoBye
  <2>1. /\ Done \in Item /\ req' = Append(req, Done) /\ Done.k = "done"
        /\ UNCHANGED <<gpc, gi, spc, scur>> /\ gpc = "ok"
    BY <1>3, ItemTypes DEF DoBye, WriteReq, Done, doOnly, genVars, sendVars, TInv,
       Control, DoControl
  <2> QED BY <2>1, AppendPaired
<1>4. CASE Receive \/ DoFail \/ DoJoin \/ DoReport \/ DoLost \/ Hangup \/ Reset \/ Change
  BY <1>4 DEF Receive, RecvNext, DoFail, DoJoin, DoReport, DoLost, Hangup, Reset, Change,
     doOnly, chanVars, genVars, sendVars, Paired
<1>5. CASE Crash
  BY <1>5 DEF Crash, sendVars, Paired
<1>6. CASE Rerun
  <2>1. req' = <<>> /\ Len(<<>>) = 0 /\ gpc' = "entry" /\ spc' = "idx"
    BY <1>6 DEF Rerun
  <2> QED BY <2>1 DEF Paired
<1> QED BY <1>1, <1>2, <1>3, <1>4, <1>5, <1>6 DEF Next, Do

\* A source file that is gone does not come back.
LEMMA HashGoneStep ==
  ASSUME TInv, HashGone, Next
  PROVE  HashGone'
<1>1. CASE Send
  <2>1. src' = src
    BY <1>1 DEF Send, SendNext, treeVars
  <2> QED BY <1>1, <2>1 DEF Send, SendNext, SendIndex, SendPhase, SendVanished, SendPanic,
     SendOpen, SendBlock, SendEnd, SendSum, SendUnhashed, HashOpen, HashBlock, SendStats,
     SendBye, SendFail, ReturnTo, hashVars, HashGone, TInv, Control, SendControl
<1>2. CASE Change
  <2>1. PICK i \in Idx, c \in NewContents \cup {NoFile} :
          src[i] # NoFile /\ src' = [src EXCEPT ![i] = c]
    BY <1>2 DEF Change
  <2>2. UNCHANGED <<hpc, scur>>
    BY <1>2 DEF Change
  <2> QED BY <2>1, <2>2 DEF HashGone, TInv, TypeOK, WorldTypeOK
<1>3. CASE Generate \/ Receive \/ Do \/ Hangup \/ Reset \/ Crash \/ Rerun
  <2>1. UNCHANGED <<src, scur, hpc>>
    BY <1>3 DEF Generate, GenNext, Receive, RecvNext, Do, DoFail, DoJoin, DoReport, DoBye,
       DoLost, Hangup, Reset, Crash, Rerun, doOnly, treeVars, sendVars, hashVars
  <2> QED BY <2>1 DEF HashGone
<1> QED BY <1>1, <1>2, <1>3 DEF Next
-----------------------------------------------------------------------------
(* No file gets lost.                                                      *)

\* A listed file that has not changed: what the list says of it is true.
LEMMA FreshFacts ==
  ASSUME ListGenuine, NEW i \in Idx, Listed(i), Fresh(i)
  PROVE  src[i] # NoFile /\ lsrc[i] = src[i] /\ lmt[i] = smt[i]
  BY DEF ListGenuine, Listed, Fresh

\* A file the generator skips is up to date, and gets its time.
LEMMA SkipSettles ==
  ASSUME TInv, ListGenuine, SoundUnlessSize, GenSkip, ~dryRun, UNCHANGED treeVars,
         NEW i \in Idx, i = gi, Fresh(i)
  PROVE  Settled(i)'
<1>1. Listed(i) /\ SkipFile(i) /\ SetTimes(i) /\ dst' = dst
  BY DEF GenSkip, AtEntry
<1>2. lsrc[i] = src[i] /\ lmt[i] = smt[i]
  BY <1>1, FreshFacts
<1>3. ASSUME Check # "size" PROVE dst[i] = src[i]
  <2>1. CASE Check = "checksum"
    BY <1>1, <1>2, <2>1 DEF SkipFile
  <2>2. CASE Check = "times"
    BY <1>1, <1>2, <1>3, <2>2 DEF SkipFile, Listed, SoundUnlessSize,
       QuickCheck!QuickCheckSound, QuickCheck!WouldSkip
  <2> QED BY <1>1, <1>3, <2>1, <2>2, OptionsOK DEF SkipFile
<1>4. PreserveTimes => dmt'[i] = lmt[i]
  BY <1>1 DEF SetTimes, TInv, TypeOK, WorldTypeOK
<1> QED BY <1>1, <1>2, <1>3, <1>4 DEF Settled, treeVars

\* The generator passes a file when it is settled or its request is written.
LEMMA GenerateDelivers ==
  ASSUME TInv, ListGenuine, SoundUnlessSize, Delivered, Generate
  PROVE  Delivered'
<1>1. /\ UNCHANGED <<src, smt, lsrc, lmt, dryRun, data, rpc, rcur, rjunk, spc, scur,
                     sphase>>
      /\ req \in Seq(Item) /\ gi \in Nat
  BY ChannelFacts DEF Generate, GenNext, treeVars, listVars, recvVars, sendVars, TInv,
     TypeOK, GenTypeOK
<1> SUFFICES ASSUME ~dryRun, ~Failed, NEW i \in Idx, Listed(i), Fresh(i),
                    InFlight(i) \/ Settled(i)
             PROVE  InFlight(i)' \/ Settled(i)'
  BY <1>1 DEF Delivered, Failed, Listed, Fresh
<1>2. CASE GenUnlisted
  <2>1. i # gi /\ gi' = gi + 1 /\ UNCHANGED <<dst, dmt, req>> /\ i \in Nat
    BY <1>2 DEF GenUnlisted, Idx
  <2>2. gi <= i => gi' <= i
    BY <1>1, <2>1
  <2> QED BY <1>1, <2>1, <2>2 DEF InFlight, Settled
<1>3. CASE GenSkip
  <2>1. /\ gi' = gi + 1 /\ UNCHANGED <<dst, req>> /\ i \in Nat
        /\ SetTimes(gi) /\ gi \in Idx
    BY <1>3 DEF GenSkip, AtEntry, Idx
  <2>2. CASE i = gi
    BY <1>1, <1>3, <2>2, SkipSettles DEF treeVars
  <2>3. CASE i # gi
    <3>1. gi <= i => gi' <= i
      BY <1>1, <2>1, <2>3
    <3>2. dmt'[i] = dmt[i]
      BY <2>1, <2>3 DEF SetTimes, TInv, TypeOK, WorldTypeOK
    <3> QED BY <1>1, <2>1, <3>1, <3>2 DEF InFlight, Settled
  <2> QED BY <2>2, <2>3
<1>4. CASE GenRequest
  <2>1. /\ Index(gi) \in Item /\ req' = Append(req, Index(gi)) /\ gi' = gi
        /\ UNCHANGED <<dst, dmt>>
    BY <1>4, ItemTypes DEF GenRequest, AtEntry, WriteReq
  <2>2. Carries(req, "sums", i) => Carries(req', "sums", i)
    BY <1>1, <2>1, AppendKinds
  <2> QED BY <1>1, <2>1, <2>2 DEF InFlight, Settled
<1>5. CASE GenSums
  <2>1. gi \in Idx /\ \A c \in Basis(gi) : c \in Content
    BY <1>5, ContentFacts DEF GenSums, Basis, TInv, TypeOK, WorldTypeOK, Control,
       GenControl, MaybeContent
  <2>2. PICK c \in Basis(gi) : WriteReq(Sums(gi, c))
    BY <1>5 DEF GenSums
  <2>3. /\ Sums(gi, c) \in Item /\ req' = Append(req, Sums(gi, c))
        /\ Sums(gi, c).k = "sums" /\ Sums(gi, c).i = gi /\ gi' = gi + 1
        /\ UNCHANGED <<dst, dmt>> /\ i \in Nat
    BY <1>5, <2>1, <2>2, ItemTypes DEF GenSums, WriteReq, Sums, Idx
  <2>4. Carries(req, "sums", i) => Carries(req', "sums", i)
    BY <1>1, <2>3, AppendKinds
  <2>5. i = gi => Carries(req', "sums", i)
    <3>1. Carries(req', Sums(gi, c).k, Sums(gi, c).i)
      BY <1>1, <2>3, AppendKinds
    <3> QED BY <2>3, <3>1
  <2>6. gi <= i => i = gi \/ gi' <= i
    BY <1>1, <2>3
  <2> QED BY <1>1, <2>3, <2>4, <2>5, <2>6 DEF InFlight, Settled
<1>6. CASE GenDone
  <2>1. /\ Done \in Item /\ req' = Append(req, Done) /\ UNCHANGED <<gi, dst, dmt>>
    BY <1>6, ItemTypes DEF GenDone, WriteReq
  <2>2. Carries(req, "sums", i) => Carries(req', "sums", i)
    BY <1>1, <2>1, AppendKinds
  <2> QED BY <1>1, <2>1, <2>2 DEF InFlight, Settled
<1>7. CASE GenFail
  BY <1>1, <1>7 DEF GenFail, InFlight, Settled
<1> QED BY <1>2, <1>3, <1>4, <1>5, <1>6, <1>7 DEF Generate, GenNext

\* The receiver settles the file it has received, or fails.
LEMMA ReceiveDelivers ==
  ASSUME TInv, Wire, Delivered, Receive
  PROVE  Delivered'
<1>1. /\ UNCHANGED <<src, smt, lsrc, lmt, dryRun, req, gi, spc, scur, sphase>>
      /\ data \in Seq(Item) /\ rjunk \in Nat
  BY ChannelFacts DEF Receive, RecvNext, treeVars, listVars, genVars, sendVars, TInv,
     TypeOK, RecvTypeOK
<1>2. Failed => Failed'
  <2>1. rpc \notin {"err", "dead"}
    BY DEF Receive, RecvNext, RecvPhase, RecvIndex, RecvLiteral, RecvMatch, RecvEnd,
       RecvSumOK, RecvCommit, RecvPerms, RecvJunk, RecvFail, SumReady
  <2>2. ASSUME rpc = "sum", rjunk > 0
        PROVE  rpc' = "err" \/ (rpc' = "sum" /\ rjunk' > 0)
    <3>1. Bytes(Head(data)) \in Nat
      BY DEF Bytes
    <3>2. RecvJunk \/ RecvFail
      BY <1>1, <2>2 DEF Receive, RecvNext, RecvPhase, RecvIndex, RecvLiteral, RecvMatch,
         RecvEnd, RecvSumOK, RecvCommit, RecvPerms, SumReady
    <3> QED BY <1>1, <2>2, <3>1, <3>2 DEF RecvJunk, RecvFail
  <2> QED BY <1>1, <2>1, <2>2 DEF Failed
<1> SUFFICES ASSUME ~dryRun, ~Failed, ~Failed', NEW i \in Idx, Listed(i), Fresh(i),
                    InFlight(i) \/ Settled(i)
             PROVE  InFlight(i)' \/ Settled(i)'
  BY <1>1, <1>2 DEF Delivered, Listed, Fresh
<1>3. src[i] # NoFile /\ lsrc[i] = src[i] /\ lmt[i] = smt[i]
  BY FreshFacts DEF Wire
<1>4. CASE RecvPhase \/ RecvIndex \/ RecvLiteral \/ RecvMatch \/ RecvEnd
  <2>1. /\ data # <<>> /\ data' = Tail(data) /\ Head(data).k # "sum"
        /\ UNCHANGED <<dst, dmt>> /\ rpc \notin {"commit", "perms"}
    BY <1>4 DEF RecvPhase, RecvIndex, RecvLiteral, RecvMatch, RecvEnd, NextIs, ReadData
  <2>2. Carries(data, "sum", i) => Carries(data', "sum", i)
    BY <1>1, <2>1, TailKinds
  <2> QED BY <1>1, <2>1, <2>2 DEF InFlight, Settled
<1>5. CASE RecvSumOK
  <2>1. /\ data # <<>> /\ data' = Tail(data) /\ Head(data).k = "sum" /\ rpc = "sum"
        /\ UNCHANGED <<dst, dmt, rcur>> /\ rpc' = "commit" /\ rjunk = 0
    BY <1>5 DEF RecvSumOK, SumReady, NextIs, ReadData
  <2>2. Head(data).i = rcur
    BY <1>1, <2>1, TailFacts DEF Wire, StreamOK, FirstOK, Receiving, Body
  <2>3. Carries(data, "sum", i) => Carries(data', "sum", i) \/ i = rcur
    BY <1>1, <2>1, <2>2, TailKinds
  <2> QED BY <1>1, <2>1, <2>3 DEF InFlight, Settled
<1>6. CASE RecvCommit
  <2>1. /\ UNCHANGED <<data, rcur>> /\ rpc = "commit" /\ rpc' = "perms"
        /\ i # rcur => dst'[i] = dst[i] /\ dmt'[i] = dmt[i]
    BY <1>6 DEF RecvCommit, TInv, TypeOK, WorldTypeOK
  <2> QED BY <1>1, <2>1 DEF InFlight, Settled
<1>7. CASE RecvPerms
  <2>1. /\ UNCHANGED <<data, dst>> /\ rpc = "perms" /\ rcur \in Idx /\ SetTimes(rcur)
    BY <1>7 DEF RecvPerms, TInv, Control, RecvControl
  <2>2. CASE i = rcur
    <3>1. dst[i] = src[i]
      BY <2>1, <2>2 DEF Wire, RecvGenuine
    <3>2. PreserveTimes => dmt'[i] = lmt[i]
      BY <2>1, <2>2 DEF SetTimes, TInv, TypeOK, WorldTypeOK
    <3> QED BY <1>1, <1>3, <2>1, <3>1, <3>2 DEF Settled
  <2>3. CASE i # rcur
    <3>1. dmt'[i] = dmt[i]
      BY <2>1, <2>3 DEF SetTimes, TInv, TypeOK, WorldTypeOK
    <3> QED BY <1>1, <2>1, <2>3, <3>1 DEF InFlight, Settled
  <2> QED BY <2>2, <2>3
<1>8. CASE RecvJunk \/ RecvFail
  <2>1. Bytes(Head(data)) \in Nat \ {0}
    BY DEF Bytes
  <2>2. Failed'
    BY <1>1, <1>8, <2>1 DEF RecvJunk, RecvFail, Failed
  <2> QED BY <2>2
<1> QED BY <1>4, <1>5, <1>6, <1>7, <1>8 DEF Receive, RecvNext

\* The sender answers every request with the file and its checksum, unless the
\* file is gone, or it fails before it has seen the first -1.
LEMMA SendDelivers ==
  ASSUME TInv, Wire, DInv, Send
  PROVE  Delivered'
<1>1. /\ UNCHANGED <<src, smt, dst, dmt, lsrc, lmt, dryRun, gi, rpc, rcur, rjunk>>
      /\ req \in Seq(Item) /\ data \in Seq(Item) /\ sphase \in {0, 1}
      /\ req # <<>> => Head(req) \in Item
  BY ChannelFacts DEF Send, SendNext, treeVars, destVars, listVars, genVars, recvVars,
     TInv, TypeOK, SendTypeOK
<1>2. Failed => Failed'
  <2>1. spc \in {"err", "panic"} => spc' = spc /\ sphase' = sphase
    BY DEF Send, SendNext, SendIndex, SendPhase, SendVanished, SendPanic, SendOpen,
       SendBlock, SendEnd, SendSum, SendUnhashed, HashOpen, HashBlock, SendStats, SendBye,
       SendFail
  <2> QED BY <1>1, <2>1 DEF Failed
<1> SUFFICES ASSUME ~dryRun, ~Failed', NEW i \in Idx, Listed(i), Fresh(i),
                    InFlight(i) \/ Settled(i)
             PROVE  InFlight(i)' \/ Settled(i)'
  BY <1>1, <1>2 DEF DInv, Delivered, Listed, Fresh
<1>3. src[i] # NoFile
  BY FreshFacts DEF Wire
<1>4. Settled(i) => Settled(i)'
  BY <1>1 DEF Settled
<1>5. CASE SendIndex \/ SendPhase \/ SendBye
  <2>1. /\ req # <<>> /\ req' = Tail(req) /\ Head(req).k # "sums"
        /\ spc \notin {"data", "sum"}
    BY <1>5 DEF SendIndex, SendPhase, SendBye, NextIs, ReadReq
  <2>2. Carries(req, "sums", i) => Carries(req', "sums", i)
    BY <1>1, <2>1, TailKinds
  <2>3. data' = data \/ \E item \in Item : data' = Append(data, item)
    <3>1. CASE SendIndex
      <4>1. Head(req).i \in Idx
        BY <1>1, <2>1, <3>1 DEF SendIndex, NextIs, Item
      <4> QED BY <3>1, <4>1, ItemTypes DEF SendIndex, WriteData
    <3>2. CASE SendPhase \/ SendBye
      BY <3>2, ItemTypes DEF SendPhase, SendBye, WriteData
    <3> QED BY <1>5, <3>1, <3>2
  <2>4. Carries(data, "sum", i) => Carries(data', "sum", i)
    BY <1>1, <2>3, AppendKinds
  <2> QED BY <1>1, <1>4, <2>1, <2>2, <2>4 DEF InFlight
<1>6. CASE SendVanished \/ SendPanic \/ SendOpen
  <2>1. /\ req # <<>> /\ req' = Tail(req) /\ Head(req).k = "sums" /\ spc = "sums"
        /\ scur \in Idx
    BY <1>6 DEF SendVanished, SendPanic, SendOpen, NextIs, ReadReq, TInv, Control,
       SendControl
  <2>2. Head(req).i = scur
    BY <1>1, <2>1, TailFacts DEF DInv, Paired
  <2>3. Carries(req, "sums", i) => Carries(req', "sums", i) \/ i = scur
    BY <1>1, <2>1, <2>2, TailKinds
  <2>4. CASE SendVanished
    <3>1. i # scur /\ data' = data
      BY <1>3, <2>4 DEF SendVanished
    <3> QED BY <1>1, <1>4, <2>1, <2>3, <3>1 DEF InFlight
  <2>5. CASE SendPanic
    <3>1. sphase' = 0 /\ spc' = "panic"
      BY <1>1, <2>1, <2>5 DEF SendPanic, ReturnTo, DInv, Barrier
    <3> QED BY <3>1 DEF Failed
  <2>6. CASE SendOpen
    <3>1. /\ Index(scur) \in Item /\ data' = Append(data, Index(scur))
          /\ spc' = "data" /\ scur' = scur
      BY <2>1, <2>6, ItemTypes DEF SendOpen, WriteData
    <3>2. Carries(data, "sum", i) => Carries(data', "sum", i)
      BY <1>1, <3>1, AppendKinds
    <3> QED BY <1>1, <1>4, <2>1, <2>3, <3>1, <3>2 DEF InFlight
  <2> QED BY <1>6, <2>4, <2>5, <2>6
<1>7. CASE SendBlock \/ SendEnd \/ SendSum \/ SendStats
  <2>1. PICK item \in Item :
          /\ data' = Append(data, item) /\ item.k # "done"
          /\ SendSum => item.k = "sum" /\ item.i = scur
    BY <1>7, SentItem
  <2>2. /\ Carries(data, "sum", i) => Carries(data', "sum", i)
        /\ Carries(data', item.k, item.i)
    BY <1>1, <2>1, AppendKinds
  <2>3. req' = req
    BY <1>7 DEF SendBlock, SendEnd, SendSum, SendStats
  <2>4. CASE SendSum
    BY <1>1, <1>4, <2>1, <2>2, <2>3, <2>4 DEF InFlight
  <2>5. CASE SendBlock \/ SendEnd \/ SendStats
    <3>1. spc \in {"data", "sum"} => spc' \in {"data", "sum"} /\ scur' = scur
      BY <2>5 DEF SendBlock, SendEnd, SendStats
    <3> QED BY <1>1, <1>4, <2>2, <2>3, <3>1 DEF InFlight
  <2> QED BY <1>7, <2>4, <2>5
<1>8. CASE SendUnhashed
  <2>1. i # scur /\ UNCHANGED <<req, data>>
    BY <1>3, <1>8 DEF SendUnhashed, DInv, HashGone
  <2> QED BY <1>1, <1>4, <2>1 DEF InFlight
<1>9. CASE HashOpen \/ HashBlock
  BY <1>1, <1>4, <1>9 DEF HashOpen, HashBlock, InFlight
<1>10. CASE SendFail
  <2>1. spc' = "err" /\ sphase' = sphase /\ UNCHANGED <<req, data>>
    BY <1>10 DEF SendFail, ReturnTo
  <2>2. spc \notin {"data", "sum"}
    BY <1>1, <2>1 DEF Failed, DInv, Barrier
  <2> QED BY <1>1, <1>4, <2>1, <2>2 DEF InFlight
<1> QED BY <1>5, <1>6, <1>7, <1>8, <1>9, <1>10 DEF Send, SendNext

\* A changed file need not arrive; the other files go their way.
LEMMA ChangeDelivers ==
  ASSUME TInv, Wire, Delivered, Change
  PROVE  Delivered'
<1>1. UNCHANGED <<dst, dmt, lsrc, lmt, dryRun, req, data, gi, rpc, rcur, rjunk, spc, scur,
                  sphase>>
  BY DEF Change, destVars, listVars, chanVars, genVars, recvVars
<1>2. PICK i \in Idx, c \in NewContents \cup {NoFile} :
        src' = [src EXCEPT ![i] = c] /\ smt' = [smt EXCEPT ![i] = @ + 1]
  BY DEF Change
<1>3. smt[i] \in Nat /\ lmt[i] \in Nat /\ lmt[i] <= smt[i] /\ smt'[i] = smt[i] + 1
  BY <1>2 DEF TInv, TypeOK, WorldTypeOK, Wire, ListGenuine
<1>4. ~Fresh(i)'
  BY <1>1, <1>3 DEF Fresh
<1>5. \A j \in Idx : Fresh(j)' => Fresh(j) /\ src'[j] = src[j] /\ smt'[j] = smt[j]
  BY <1>1, <1>2, <1>4 DEF Fresh, TInv, TypeOK, WorldTypeOK
<1> QED BY <1>1, <1>5 DEF Delivered, Failed, InFlight, Settled, Listed

\* The end of the processes, and a new session, which begins at the first file.
LEMMA OthersDeliver ==
  ASSUME TInv, Delivered, Do \/ Hangup \/ Reset \/ Crash \/ Rerun
  PROVE  Delivered'
<1>1. req \in Seq(Item) /\ data \in Seq(Item)
  BY ChannelFacts
<1>2. CASE Do \/ Hangup \/ Reset
  <2>1. UNCHANGED <<src, smt, dst, dmt, lsrc, lmt, dryRun, gi, rpc, rcur, rjunk, spc,
                    scur, sphase>>
    BY <1>2 DEF Do, DoFail, DoJoin, DoReport, DoBye, DoLost, Hangup, Reset, doOnly,
       treeVars, destVars, listVars, genVars, recvVars, sendVars
  <2>2. ASSUME NEW i
        PROVE  /\ Carries(req, "sums", i) => Carries(req', "sums", i)
               /\ Carries(data, "sum", i) => Carries(data', "sum", i)
    <3>1. CASE DoReport
      <4>1. data # <<>> /\ data' = Tail(data) /\ Head(data).k # "sum" /\ req' = req
        BY <3>1 DEF DoReport, NextIs, ReadData
      <4> QED BY <1>1, <4>1, TailKinds
    <3>2. CASE DoBye
      <4>1. Done \in Item /\ req' = Append(req, Done) /\ data' = data
        BY <3>2, ItemTypes DEF DoBye, WriteReq
      <4> QED BY <1>1, <4>1, AppendKinds
    <3>3. CASE DoFail \/ DoJoin \/ DoLost \/ Hangup \/ Reset
      BY <3>3 DEF DoFail, DoJoin, DoLost, Hangup, Reset, chanVars
    <3> QED BY <1>2, <3>1, <3>2, <3>3 DEF Do
  <2> QED BY <2>1, <2>2 DEF Delivered, Failed, InFlight, Settled, Listed, Fresh
<1>3. CASE Crash
  BY <1>3 DEF Crash, Delivered, Failed
<1>4. CASE Rerun
  <2>1. gi' = 1 /\ \A i \in Idx : 1 <= i
    BY <1>4 DEF Rerun, Idx
  <2> QED BY <2>1 DEF Delivered, InFlight
<1> QED BY <1>2, <1>3, <1>4
-----------------------------------------------------------------------------
(* The theorems.                                                           *)

\* Every step of a session keeps the invariant.
LEMMA DeliveryStep ==
  ASSUME TInv, Wire, SoundUnlessSize, DInv, [Next]_vars
  PROVE  DInv'
<1>1. CASE UNCHANGED vars
  BY <1>1 DEF vars, treeVars, destVars, listVars, chanVars, genVars, recvVars, sendVars,
     hashVars, DInv, Barrier, Paired, HashGone, Delivered, Failed, InFlight, Settled,
     Listed, Fresh
<1>2. CASE Next
  <2>1. Barrier' /\ Paired' /\ HashGone'
    BY <1>2, GenerateBarrier, ReceiveBarrier, SendBarrier, OthersBarrier, PairedStep,
       HashGoneStep DEF Next, DInv
  <2>2. Delivered'
    BY <1>2, GenerateDelivers, ReceiveDelivers, SendDelivers, ChangeDelivers,
       OthersDeliver DEF Next, DInv, Wire
  <2> QED BY <2>1, <2>2 DEF DInv
<1> QED BY <1>1, <1>2

\* A session starts with every file still to come.
LEMMA DeliveryInit == Init => DInv
<1> SUFFICES ASSUME Init PROVE DInv
  OBVIOUS
<1>1. /\ req = <<>> /\ data = <<>> /\ Len(<<>>) = 0 /\ gpc = "entry" /\ gi = 1
      /\ rpc = "idx" /\ rphase = 0 /\ spc = "idx" /\ sphase = 0 /\ hpc = "off"
  BY DEF Init, InitAny, GenInit, RecvInit, SendInit, Closed
<1>2. \A K : NoneOf(<<>>, K) /\ WorkBeforeDone(<<>>)
  BY <1>1 DEF NoneOf, WorkBeforeDone
<1>3. Barrier /\ Paired /\ HashGone
  BY <1>1, <1>2 DEF Barrier, Paired, HashGone
<1>4. \A i \in Idx : gi <= i
  BY <1>1 DEF Idx
<1> QED BY <1>3, <1>4 DEF DInv, Delivered, InFlight

\* What the wire carries is genuine, whatever the options.
LEMMA WireCorrect == Spec => []Wire
<1>1. Init => Wire
  BY InvariantInit DEF SInv, Wire
<1>2. TInv /\ Wire /\ [Next]_vars => Wire'
  <2> SUFFICES ASSUME TInv, Wire, [Next]_vars PROVE Wire'
    OBVIOUS
  <2>1. CASE Next
    BY <2>1, GenerateKeeps, ReceiveKeeps, SendKeeps, ChangeKeeps, OthersKeep DEF Next
  <2>2. CASE UNCHANGED vars
    BY <2>2 DEF vars, treeVars, destVars, listVars, chanVars, recvVars, sendVars,
       hashVars, Wire, StreamOK, FirstOK, LastOK, Receiving, SumsGenuine, Genuine,
       RecvGenuine, ReadGenuine, ListGenuine, Fresh
  <2> QED BY <2>1, <2>2
<1> QED BY <1>1, <1>2, ControlCorrect, PTL DEF Spec

\* The quick check can be relied on where it is used.
LEMMA SoundCorrect == Spec => []SoundUnlessSize
<1>1. CASE Check # "size"
  <2>1. SInv => SoundUnlessSize
    BY DEF SInv, SoundUnlessSize
  <2>2. Spec => []SInv
    BY <1>1, InvariantCorrect
  <2> QED BY <2>1, <2>2, PTL
<1>2. CASE Check = "size"
  <2>1. SoundUnlessSize
    BY <1>2 DEF SoundUnlessSize
  <2> QED BY <2>1, PTL
<1> QED BY <1>1, <1>2

\* The inductive invariant: no file gets lost in the circle.
LEMMA DeliveryCorrect == Spec => []DInv
<1>1. TInv /\ Wire /\ SoundUnlessSize /\ DInv /\ [Next]_vars => DInv'
  BY DeliveryStep
<1> QED BY <1>1, DeliveryInit, ControlCorrect, WireCorrect, SoundCorrect, PTL DEF Spec

\* Success leaves nothing in flight.
LEMMA SuccessSettles ==
  ASSUME TInv, DInv, dpc = "ok", ~dryRun, NEW i \in Idx, Listed(i), Fresh(i)
  PROVE  Settled(i)
<1>1. gpc = "ok" /\ rpc = "ok"
  BY DEF TInv, Control, DoControl
<1>2. rphase = 1 /\ gi = NumFiles + 1 /\ NoneOf(data, Work)
  BY <1>1 DEF DInv, Barrier
<1>3. sphase = 1 /\ spc \notin {"sums", "data", "sum"} /\ NoneOf(req, Work)
  BY <1>2 DEF DInv, Barrier, TInv, TypeOK, SendTypeOK
<1>4. ~InFlight(i)
  <2>1. ~(gi <= i)
    BY <1>2, OptionsOK DEF Idx
  <2>2. ~Carries(req, "sums", i) /\ ~Carries(data, "sum", i)
    BY <1>2, <1>3 DEF Carries, NoneOf, Work, Body
  <2> QED BY <1>1, <1>3, <2>1, <2>2 DEF InFlight
<1>5. ~Failed
  BY <1>1, <1>3 DEF Failed
<1> QED BY <1>4, <1>5 DEF DInv, Delivered

\* When Do reports success, every listed file whose source is still the listed
\* version is at the destination, unless --size-only skipped it: no request
\* and no file is lost between the generator's -1, the sender's echoes and the
\* receiver's count of them, whatever changes or fails meanwhile.
THEOREM SuccessIsSynced ==
  ASSUME Check # "size"
  PROVE  Spec => []SuccessMeansSynced
<1>1. TInv /\ DInv => SuccessMeansSynced
  BY SuccessSettles DEF SuccessMeansSynced, Settled
<1> QED BY <1>1, ControlCorrect, DeliveryCorrect, PTL

\* Success with --times also leaves every such file with the listed time, so
\* that a later run skips it: a skipped file gets its time from the generator,
\* a received one from the receiver, and no later rename takes it away.
THEOREM SuccessIsStamped == Spec => []SuccessMeansStamped
<1>1. TInv /\ DInv => SuccessMeansStamped
  BY SuccessSettles DEF SuccessMeansStamped, Settled
<1> QED BY <1>1, ControlCorrect, DeliveryCorrect, PTL
=============================================================================
