---------------------------- MODULE MetadataProof ----------------------------
(***************************************************************************)
(* What becomes of the entries of the list, for any tree, any options, any *)
(* destination and any interleaving of the two goroutines: what a dry run  *)
(* leaves alone, where a requested file finds its directory, and what is   *)
(* there after a success.                                                  *)
(*                                                                         *)
(* A dry run: once the list is there nothing changes it, and the options   *)
(* that make a run a dry one never change.  Then an entry is made only     *)
(* where no directory is, under the name of a link or where there is no    *)
(* entry at all; it is removed only under the name of a requested file,    *)
(* and never if it is a file itself.                                       *)
(*                                                                         *)
(* Any other run: every step concerns the name of one entry, and of what   *)
(* else is there it changes no more than the time of a directory (Apart);  *)
(* it may make the directories above.  So what was made stays made         *)
(* (Progress), as long as no other entry of the list has its name; and a   *)
(* directory that was opened stays open, and is remembered, until          *)
(* touchUpDirs goes over the list once more, when both goroutines are      *)
(* done.                                                                   *)
(*                                                                         *)
(* No two entries have one name: the walk visits no path twice, sorting    *)
(* repeats nothing, and a path can be told from its text, because its      *)
(* components have no slash.  There is one exception, OwnName.             *)
(***************************************************************************)
EXTENDS Metadata, FileListProof

\* What is known of an entry, also of one that the transfer has made.
NodeFields == {"kind", "perm", "size", "sum", "mtime", "uid", "gid", "target"}
IsNode(x) == DOMAIN x = NodeFields /\ x = [field \in NodeFields |-> x[field]]
Nodes(d) == \A name \in DOMAIN d : IsNode(d[name])

Regular(d) == {name \in DOMAIN d : d[name].kind \in {"file", "dir"}}

\* An entry with another time.
Timed(x, t) == [x EXCEPT !.mtime = t]

\* The destination d has of what was there all files and directories, but for
\* those whose names are in gone, and all files but for the names of links.
Keeps(d, was, gone, links) ==
  /\ Regular(d) \subseteq Regular(was)
  /\ \A name \in Regular(was) \ gone :
       /\ name \in DOMAIN d
       /\ Timed(d[name], was[name].mtime) = was[name]
  /\ \A name \in Regular(was) :
       was[name].kind = "file" /\ name \notin links => name \in DOMAIN d /\ d[name] = was[name]

NamesWith(kinds) == {NameOf(i) : i \in {j \in DOMAIN fileList : EntryKind(j) \in kinds}}

Kept ==
  /\ world \in Worlds /\ Nodes(dest)
  /\ Keeps(dest, OpenDest(world.dest), NamesWith({"file", "link"}), NamesWith({"link"}))

DryInv ==
  /\ mpc # "list" => Done
  /\ DryRun => ~retouchDirPerms
  /\ mpc # "list" /\ DryRun => Kept
-----------------------------------------------------------------------------
(* The operations of the file system.                                      *)

\* A changed time is all that changes.
LEMMA TimeSet ==
  ASSUME NEW x, IsNode(x), NEW t
  PROVE  /\ IsNode(Timed(x, t)) /\ Timed(x, t).kind = x.kind
         /\ \A u : Timed(Timed(x, t), u) = Timed(x, u)
<1>1. "kind" \in DOMAIN x /\ "mtime" \in DOMAIN x /\ "kind" # "mtime"
  BY DEF IsNode, NodeFields
<1> DEFINE y == [x EXCEPT !.mtime = t]
<1>2. DOMAIN y = NodeFields /\ y = [field \in NodeFields |-> y[field]] /\ y.kind = x.kind
  BY <1>1 DEF IsNode
<1>3. ASSUME NEW u PROVE Timed(Timed(x, t), u) = Timed(x, u)
  BY <1>1 DEF IsNode, Timed
<1> QED BY <1>2, <1>3 DEF IsNode, Timed

\* An entry n of d, after name was made or removed.
Beside(d, name, n) == IF n = Parent(name) THEN Timed(d[n], Now) ELSE d[n]

\* What Placed and Removed do, name by name.
LEMMA PlacedAt ==
  \A d, name, new :
    /\ DOMAIN Placed(d, name, new) = DOMAIN d \cup {name}
    /\ Placed(d, name, new)[name] = new
    /\ \A n \in DOMAIN d \ {name} : Placed(d, name, new)[n] = Beside(d, name, n)
<1> SUFFICES
      ASSUME NEW d, NEW name, NEW new
      PROVE  /\ DOMAIN Placed(d, name, new) = DOMAIN d \cup {name}
             /\ Placed(d, name, new)[name] = new
             /\ \A n \in DOMAIN d \ {name} : Placed(d, name, new)[n] = Beside(d, name, n)
  OBVIOUS
<1> DEFINE p == Parent(name)
           t == [d EXCEPT ![p].mtime = Now]
<1>1. DOMAIN t = DOMAIN d
      /\ \A n \in DOMAIN d : t[n] = IF n = p THEN [d[n] EXCEPT !.mtime = Now] ELSE d[n]
  OBVIOUS
<1>2. Placed(d, name, new) = [n \in DOMAIN d \cup {name} |-> IF n = name THEN new ELSE t[n]]
  BY DEF Placed, Touched
<1> HIDE DEF t, p
<1>3. Placed(d, name, new)[name] = new
      /\ \A n \in DOMAIN d \ {name} : Placed(d, name, new)[n] = t[n]
  BY <1>2
<1>4. \A n \in DOMAIN d \ {name} : t[n] = Beside(d, name, n)
  BY <1>1 DEF Beside, p, Timed
<1> QED BY <1>2, <1>3, <1>4

LEMMA RemovedAt ==
  ASSUME NEW d, NEW name
  PROVE  /\ DOMAIN Removed(d, name) = DOMAIN d \ {name}
         /\ \A n \in DOMAIN d \ {name} : Removed(d, name)[n] = Beside(d, name, n)
<1> DEFINE s == [n \in DOMAIN d \ {name} |-> d[n]]
<1>1. DOMAIN s = DOMAIN d \ {name} /\ \A n \in DOMAIN s : s[n] = d[n]
  OBVIOUS
<1>2. Removed(d, name) = [s EXCEPT ![Parent(name)].mtime = Now]
  BY DEF Removed, Touched
<1> HIDE DEF s
<1>3. DOMAIN Removed(d, name) = DOMAIN d \ {name}
      /\ \A n \in DOMAIN d \ {name} : Removed(d, name)[n] = Beside(d, name, n)
  BY <1>1, <1>2 DEF Beside, Timed
<1> QED BY <1>3

\* A new entry that is neither file nor directory, in a directory, where none was
\* or under the name of a link.
LEMMA KeepsPlaced ==
  ASSUME NEW d, NEW was, NEW gone, NEW links, Keeps(d, was, gone, links), Nodes(d),
         NEW name, NEW node, IsNode(node), node.kind \notin {"file", "dir"},
         Parent(name) \in DOMAIN d, d[Parent(name)].kind = "dir",
         \/ name \in links /\ name \in gone
         \/ name \notin DOMAIN d \/ d[name].kind \notin {"file", "dir"}
  PROVE  Nodes(Placed(d, name, node)) /\ Keeps(Placed(d, name, node), was, gone, links)
<1>0. PICK e : e = Placed(d, name, node)
  OBVIOUS
<1>1. /\ DOMAIN e = DOMAIN d \cup {name} /\ e[name] = node
      /\ \A n \in DOMAIN d \ {name} : e[n] = Beside(d, name, n)
  <2>1. DOMAIN Placed(d, name, node) = DOMAIN d \cup {name}
    BY PlacedAt
  <2>2. Placed(d, name, node)[name] = node
    BY PlacedAt
  <2>3. \A n \in DOMAIN d \ {name} : Placed(d, name, node)[n] = Beside(d, name, n)
    BY PlacedAt
  <2> QED BY <1>0, <2>1, <2>2, <2>3
<1>2. ASSUME NEW n \in DOMAIN d
      PROVE  /\ IsNode(Beside(d, name, n)) /\ Beside(d, name, n).kind = d[n].kind
             /\ \A t : Timed(Beside(d, name, n), t) = Timed(d[n], t)
             /\ d[n].kind # "dir" => Beside(d, name, n) = d[n]
  <2>1. IsNode(d[n])
    BY DEF Nodes
  <2> QED BY <2>1, TimeSet DEF Beside
<1>3. Nodes(e)
  BY <1>1, <1>2 DEF Nodes
<1>4. Regular(e) \subseteq Regular(was)
  BY <1>1, <1>2 DEF Regular, Keeps
<1>5. ASSUME NEW n \in Regular(was) \ gone
      PROVE  n \in DOMAIN e /\ Timed(e[n], was[n].mtime) = was[n]
  <2>1. n \in DOMAIN d /\ Timed(d[n], was[n].mtime) = was[n]
    BY DEF Keeps
  <2>2. d[n].kind = was[n].kind
    BY <2>1, TimeSet DEF Nodes
  <2>3. n # name
    <3>1. was[n].kind \in {"file", "dir"} /\ n \notin gone
      BY DEF Regular
    <3>2. CASE name \in links /\ name \in gone
      BY <3>1, <3>2
    <3>3. CASE name \notin DOMAIN d \/ d[name].kind \notin {"file", "dir"}
      BY <2>1, <2>2, <3>1, <3>3
    <3> QED BY <3>2, <3>3
  <2> QED BY <1>1, <1>2, <2>1, <2>3
<1>6. ASSUME NEW n \in Regular(was), was[n].kind = "file", n \notin links
      PROVE  n \in DOMAIN e /\ e[n] = was[n]
  <2>1. n \in DOMAIN d /\ d[n] = was[n]
    BY <1>6 DEF Keeps
  <2>2. n # name
    BY <1>6, <2>1
  <2> QED BY <1>1, <1>2, <1>6, <2>1, <2>2
<1>7. Keeps(e, was, gone, links)
  BY <1>4, <1>5, <1>6 DEF Keeps
<1> QED BY <1>0, <1>3, <1>7

\* An entry that is no file is removed, under the name of a requested one.
LEMMA KeepsRemoved ==
  ASSUME NEW d, NEW was, NEW gone, NEW links, Keeps(d, was, gone, links), Nodes(d),
         NEW name, name \in gone, name \notin DOMAIN d \/ d[name].kind # "file",
         Parent(name) \in DOMAIN d, d[Parent(name)].kind = "dir"
  PROVE  Nodes(Removed(d, name)) /\ Keeps(Removed(d, name), was, gone, links)
<1>0. PICK e : e = Removed(d, name)
  OBVIOUS
<1>1. /\ DOMAIN e = DOMAIN d \ {name}
      /\ \A n \in DOMAIN d \ {name} : e[n] = Beside(d, name, n)
  BY <1>0, RemovedAt
<1>2. ASSUME NEW n \in DOMAIN d
      PROVE  /\ IsNode(Beside(d, name, n)) /\ Beside(d, name, n).kind = d[n].kind
             /\ \A t : Timed(Beside(d, name, n), t) = Timed(d[n], t)
             /\ d[n].kind # "dir" => Beside(d, name, n) = d[n]
  <2>1. IsNode(d[n])
    BY DEF Nodes
  <2> QED BY <2>1, TimeSet DEF Beside
<1>3. Nodes(e)
  BY <1>1, <1>2 DEF Nodes
<1>4. Regular(e) \subseteq Regular(was)
  BY <1>1, <1>2 DEF Regular, Keeps
<1>5. ASSUME NEW n \in Regular(was) \ gone
      PROVE  n \in DOMAIN e /\ Timed(e[n], was[n].mtime) = was[n]
  BY <1>1, <1>2 DEF Keeps
<1>6. ASSUME NEW n \in Regular(was), was[n].kind = "file", n \notin links
      PROVE  n \in DOMAIN e /\ e[n] = was[n]
  <2>1. n \in DOMAIN d /\ d[n] = was[n]
    BY <1>6 DEF Keeps
  <2>2. n # name
    BY <1>6, <2>1
  <2> QED BY <1>1, <1>2, <1>6, <2>1, <2>2
<1>7. Keeps(e, was, gone, links)
  BY <1>4, <1>5, <1>6 DEF Keeps
<1> QED BY <1>0, <1>3, <1>7
-----------------------------------------------------------------------------
(* The two phases.                                                         *)

\* The steps that make the list leave the options alone, and end with it.
LEMMA ListSteps == Next => UNCHANGED jobVars /\ ~Done
<1>1. ASSUME Walk PROVE UNCHANGED jobVars /\ spc = "walk"
  <2>1. WalkVanished => UNCHANGED jobVars /\ spc = "walk"
    BY DEF WalkVanished, Visiting
  <2>2. WalkSkip => UNCHANGED jobVars /\ spc = "walk"
    BY DEF WalkSkip, Visiting
  <2>3. WalkExclude => UNCHANGED jobVars /\ spc = "walk"
    BY DEF WalkExclude, Wanted, Visiting
  <2>4. WalkSend => UNCHANGED jobVars /\ spc = "walk"
    BY DEF WalkSend, Wanted, Visiting
  <2>5. WalkUnreadable => UNCHANGED jobVars /\ spc = "walk"
    BY DEF WalkUnreadable, Wanted, Visiting
  <2>6. WalkFail => UNCHANGED jobVars /\ spc = "walk"
    BY DEF WalkFail, Wanted, Visiting
  <2>7. SendEnd => UNCHANGED jobVars /\ spc = "walk"
    BY DEF SendEnd
  <2> QED BY <1>1, <2>1, <2>2, <2>3, <2>4, <2>5, <2>6, <2>7 DEF Walk
<1>2. ASSUME Receive PROVE UNCHANGED jobVars /\ rpc = "list"
  <2>1. RecvFlags => UNCHANGED jobVars /\ rpc = "list"
    BY DEF RecvFlags, Reading
  <2>2. RecvAttribute => UNCHANGED jobVars /\ rpc = "list"
    BY Zenon DEF RecvAttribute
  <2>3. RecvLength => UNCHANGED jobVars /\ rpc = "list"
    BY DEF RecvLength, Reading
  <2>4. RecvId => UNCHANGED jobVars /\ rpc = "list"
    BY DEF RecvId, Reading
  <2>5. RecvIdName => UNCHANGED jobVars /\ rpc = "list"
    BY DEF RecvIdName, Reading
  <2>6. RecvIOErrors => UNCHANGED jobVars /\ rpc = "list"
    BY DEF RecvIOErrors, Reading
  <2>7. RecvEOF => UNCHANGED jobVars /\ rpc = "list"
    BY DEF RecvEOF
  <2> QED BY <1>2, <2>1, <2>2, <2>3, <2>4, <2>5, <2>6, <2>7 DEF Receive
<1> QED BY <1>1, <1>2 DEF Next, Done

\* What is known of an entry of a world.
LEMMA NodeTyped == ASSUME NEW x \in Node PROVE IsNode(x)
  BY DEF Node, IsNode, NodeFields

\* At the start everything is as it was.
LEMMA KeepsSelf ==
  ASSUME NEW d, Nodes(d), NEW gone, NEW links
  PROVE  Keeps(d, d, gone, links)
<1>1. ASSUME NEW x, IsNode(x) PROVE Timed(x, x.mtime) = x
  BY <1>1 DEF IsNode, Timed, NodeFields
<1> QED BY <1>1 DEF Keeps, Regular, Nodes

\* What the generator and the receiver do in a dry run.
DryStep ==
  \/ dest' = dest
  \/ \E node :
       /\ IsNode(node) /\ node.kind \notin {"file", "dir"}
       /\ KindAt(Parent(NameOf(gi))) = "dir" /\ gi \in DOMAIN fileList
       /\ EntryKind(gi) = "link" \/ KindAt(NameOf(gi)) = "none"
       /\ dest' = Placed(dest, NameOf(gi), node)
  \/ /\ KindAt(Parent(NameOf(gi))) = "dir" /\ KindAt(NameOf(gi)) # "file"
     /\ gi \in DOMAIN fileList /\ EntryKind(gi) = "file"
     /\ dest' = Removed(dest, NameOf(gi))

LEMMA SetPermsDry == ASSUME DryRun, NEW d, NEW i, NEW mode PROVE SetPerms(d, i, mode) = d
  BY DEF SetPerms

\* A new link or device.
LEMMA FreshNode ==
  ASSUME NEW kind, NEW perm
  PROVE  /\ IsNode(Fresh(kind, perm)) /\ Fresh(kind, perm).kind = kind
         /\ \A target : LET link == [Fresh(kind, perm) EXCEPT !.target = target]
                       IN IsNode(link) /\ link.kind = kind
  BY DEF Fresh, IsNode, NodeFields

LEMMA DryTransfer ==
  ASSUME DryRun, ~retouchDirPerms, mpc # "list", Transfer
  PROVE  DryStep /\ UNCHANGED <<world, retouchDirPerms>> /\ mpc' # "list"
<1>1. ASSUME Begin PROVE FALSE
  BY <1>1 DEF Begin
<1>2. ASSUME GenDir \/ GenDirHalf PROVE FALSE
  BY <1>2 DEF GenDir, GenDirHalf, MakesDirs
<1>3. ASSUME GenIgnore PROVE dest' = dest /\ UNCHANGED <<world, retouchDirPerms>> /\ mpc' # "list"
  BY <1>3 DEF GenIgnore, Advance
<1>4. ASSUME GenLink
      PROVE  DryStep /\ UNCHANGED <<world, retouchDirPerms>> /\ mpc' # "list"
  <2> DEFINE new == [Fresh("link", 1) EXCEPT !.target = fileList[gi].LinkTarget]
  <2>1. /\ At("link") /\ (SameLink \/ MayChange(NameOf(gi)))
        /\ Advance(SetPerms(IF SameLink THEN dest ELSE Placed(dest, NameOf(gi), new),
                            gi, modes[gi]))
        /\ UNCHANGED <<queue, retouchDirPerms>>
    BY <1>4, Zenon DEF GenLink
  <2>2. IsNode(new) /\ new.kind = "link"
    BY FreshNode
  <2> HIDE DEF new
  <2>3. /\ dest' = IF SameLink THEN dest ELSE Placed(dest, NameOf(gi), new)
        /\ UNCHANGED <<world, mpc>>
    BY <2>1, SetPermsDry DEF Advance
  <2>4. gi \in DOMAIN fileList /\ EntryKind(gi) = "link" /\ mpc = "run"
    BY <2>1 DEF At, Generating
  <2>5. SameLink \/ KindAt(Parent(NameOf(gi))) = "dir"
    BY <2>1 DEF MayChange
  <2>6. DryStep
    <3>1. CASE SameLink
      BY <2>3, <3>1 DEF DryStep
    <3>2. CASE ~SameLink
      BY <2>2, <2>3, <2>4, <2>5, <3>2 DEF DryStep
    <3> QED BY <3>1, <3>2
  <2> QED BY <2>1, <2>3, <2>4, <2>6
<1>5. ASSUME GenDevice
      PROVE  DryStep /\ UNCHANGED <<world, retouchDirPerms>> /\ mpc' # "list"
  <2> DEFINE new == Fresh(EntryKind(gi), Perm(modes[gi]))
  <2>1. /\ gi \in DOMAIN fileList /\ EntryKind(gi) \in {"dev", "pipe"}
        /\ UNCHANGED <<world, mpc, retouchDirPerms>>
        /\ \/ dest' = dest
           \/ /\ KindAt(NameOf(gi)) = "none" /\ KindAt(Parent(NameOf(gi))) = "dir"
              /\ dest' = Placed(dest, NameOf(gi), new)
    BY <1>5 DEF GenDevice, At, Generating, Advance, Here, MayChange
  <2>2. IsNode(new) /\ new.kind = EntryKind(gi)
    BY FreshNode
  <2> HIDE DEF new
  <2>3. new.kind \notin {"file", "dir"}
    BY <2>1, <2>2
  <2> QED BY <2>1, <2>2, <2>3 DEF DryStep
<1>6. ASSUME GenSkip
      PROVE  dest' = dest /\ UNCHANGED <<world, retouchDirPerms>> /\ mpc' # "list"
  BY <1>6, SetPermsDry DEF GenSkip, Advance
<1>7. ASSUME GenRequest
      PROVE  DryStep /\ UNCHANGED <<world, retouchDirPerms>> /\ mpc' # "list"
  <2>1. /\ gi \in DOMAIN fileList /\ EntryKind(gi) = "file"
        /\ UNCHANGED <<world, mpc, retouchDirPerms>>
        /\ InTheWay => MayClear
        /\ dest' = IF InTheWay THEN Removed(dest, NameOf(gi)) ELSE dest
    BY <1>7 DEF GenRequest, At, Generating, Advance
  <2>2. CASE ~InTheWay
    BY <2>1, <2>2 DEF DryStep
  <2>3. CASE InTheWay
    <3>1. KindAt(NameOf(gi)) # "file" /\ KindAt(Parent(NameOf(gi))) = "dir"
      BY <2>1, <2>3 DEF InTheWay, Here, MayClear, MayChange
    <3> QED BY <2>1, <2>3, <3>1 DEF DryStep
  <2> QED BY <2>2, <2>3
<1>8. ASSUME GenFail \/ RecvFail
      PROVE  dest' = dest /\ UNCHANGED <<world, retouchDirPerms>> /\ mpc' # "list"
  BY <1>8 DEF GenFail, RecvFail
<1>9. ASSUME RecvDry
      PROVE  dest' = dest /\ UNCHANGED <<world, retouchDirPerms>> /\ mpc' # "list"
  BY <1>9 DEF RecvDry
<1>10. ASSUME RecvFile PROVE FALSE
  BY <1>10 DEF RecvFile
<1>11. ASSUME Finish
       PROVE  dest' = dest /\ UNCHANGED <<world, retouchDirPerms>> /\ mpc' # "list"
  BY <1>11 DEF Finish
<1> QED
  BY <1>1, <1>2, <1>3, <1>4, <1>5, <1>6, <1>7, <1>8, <1>9, <1>10, <1>11
     DEF Transfer, DryStep

\* A step of a dry run keeps what it is about to keep.
LEMMA DryStepKeeps == Kept /\ DryStep /\ UNCHANGED <<listVars, world>> => Kept'
<1> SUFFICES ASSUME Kept, DryStep, UNCHANGED <<listVars, world>> PROVE Kept'
  OBVIOUS
<1> DEFINE was == OpenDest(world.dest)
           gone == NamesWith({"file", "link"})
           links == NamesWith({"link"})
<1>1. (NamesWith({"file", "link"}))' = gone /\ (NamesWith({"link"}))' = links
      /\ (OpenDest(world.dest))' = was
  BY DEF listVars, recvVars, NamesWith, NameOf, EntryKind
<1>2. world' \in Worlds /\ Nodes(dest) /\ Keeps(dest, was, gone, links)
  BY DEF Kept
<1>3. ASSUME gi \in DOMAIN fileList
      PROVE  /\ EntryKind(gi) = "link" => NameOf(gi) \in links /\ NameOf(gi) \in gone
             /\ EntryKind(gi) = "file" => NameOf(gi) \in gone
  BY <1>3 DEF NamesWith
<1> HIDE DEF was, gone, links
<1>4. ASSUME NEW name
      PROVE  /\ KindAt(name) = "dir" => name \in DOMAIN dest /\ dest[name].kind = "dir"
             /\ KindAt(name) = "none" =>
                  name \notin DOMAIN dest \/ dest[name].kind \notin {"file", "dir"}
             /\ KindAt(name) # "file" => name \notin DOMAIN dest \/ dest[name].kind # "file"
  BY DEF KindAt
<1>5. Nodes(dest') /\ Keeps(dest', was, gone, links)
  <2>1. CASE dest' = dest
    BY <1>2, <2>1
  <2>2. ASSUME NEW node, IsNode(node), node.kind \notin {"file", "dir"},
               KindAt(Parent(NameOf(gi))) = "dir", gi \in DOMAIN fileList,
               EntryKind(gi) = "link" \/ KindAt(NameOf(gi)) = "none",
               dest' = Placed(dest, NameOf(gi), node)
        PROVE  Nodes(dest') /\ Keeps(dest', was, gone, links)
    <3>1. PICK name : name = NameOf(gi)
      OBVIOUS
    <3>2. Parent(name) \in DOMAIN dest /\ dest[Parent(name)].kind = "dir"
      BY <1>4, <2>2, <3>1
    <3>3. \/ name \in links /\ name \in gone
          \/ name \notin DOMAIN dest \/ dest[name].kind \notin {"file", "dir"}
      BY <1>3, <1>4, <2>2, <3>1
    <3> QED BY <1>2, <2>2, <3>1, <3>2, <3>3, KeepsPlaced
  <2>3. ASSUME KindAt(Parent(NameOf(gi))) = "dir", KindAt(NameOf(gi)) # "file",
               gi \in DOMAIN fileList, EntryKind(gi) = "file",
               dest' = Removed(dest, NameOf(gi))
        PROVE  Nodes(dest') /\ Keeps(dest', was, gone, links)
    <3>1. PICK name : name = NameOf(gi)
      OBVIOUS
    <3>2. Parent(name) \in DOMAIN dest /\ dest[Parent(name)].kind = "dir"
      BY <1>4, <2>3, <3>1
    <3>3. name \in gone /\ (name \notin DOMAIN dest \/ dest[name].kind # "file")
      BY <1>3, <1>4, <2>3, <3>1
    <3> QED BY <1>2, <2>3, <3>1, <3>2, <3>3, KeepsRemoved
  <2> QED BY <2>1, <2>2, <2>3 DEF DryStep
<1> QED BY <1>1, <1>2, <1>5 DEF Kept
-----------------------------------------------------------------------------
LEMMA DryInit == MetaInit => DryInv
  BY DEF MetaInit, DryInv

LEMMA DryNext == DryInv /\ [MetaNext]_<<listVars, metaVars>> => DryInv'
<1> SUFFICES ASSUME DryInv, [MetaNext]_<<listVars, metaVars>> PROVE DryInv'
  OBVIOUS
<1>1. CASE Next /\ UNCHANGED metaVars
  <2>1. UNCHANGED jobVars /\ ~Done
    BY <1>1, ListSteps
  <2>2. mpc = "list" /\ mpc' = "list" /\ (DryRun => ~retouchDirPerms)
    BY <1>1, <2>1 DEF DryInv, metaVars
  <2>3. DryRun' = DryRun /\ retouchDirPerms' = retouchDirPerms
    BY <1>1, <2>1 DEF DryRun, ropt, jobVars, metaVars
  <2> QED BY <2>2, <2>3 DEF DryInv
<1>2. CASE Transfer /\ UNCHANGED listVars
  <2>1. DryRun' = DryRun /\ Done' = Done
    BY <1>2 DEF DryRun, ropt, Done, listVars, jobVars, sendVars, recvVars
  <2>2. CASE Begin
    <3>1. mpc = "list" /\ Done /\ retouchDirPerms' = retouchDirPerms
      BY <2>2 DEF Begin
    <3>2. PICK w \in Worlds : world' = w /\ dest' = OpenDest(w.dest)
      BY <2>2 DEF Begin
    <3>3. Nodes(OpenDest(w.dest))
      <4>1. Nodes(w.dest)
        BY <3>2, WorldsOK, NodeTyped DEF Nodes
      <4>2. IsNode(Fresh("dir", 1))
        BY FreshNode
      <4> QED BY <4>1, <4>2 DEF OpenDest, Nodes
    <3>4. Kept'
      BY <3>2, <3>3, KeepsSelf DEF Kept
    <3> QED BY <2>1, <3>1, <3>4 DEF DryInv
  <2>3. CASE ~Begin
    <3>1. mpc # "list"
      BY <1>2, <2>3 DEF Transfer, GenDir, GenDirHalf, GenIgnore, GenLink, GenDevice, GenSkip, GenRequest,
         GenFail, Blocked, RecvDry, RecvFile, RecvFail, Finish, Receiving, At, Generating
    <3>2. Done
      BY <3>1 DEF DryInv
    <3>3. CASE DryRun
      <4>1. ~retouchDirPerms /\ Kept
        BY <3>1, <3>3 DEF DryInv
      <4>2. DryStep /\ UNCHANGED <<world, retouchDirPerms>> /\ mpc' # "list"
        BY <1>2, <3>1, <3>3, <4>1, DryTransfer
      <4>3. Kept'
        BY <1>2, <4>1, <4>2, DryStepKeeps
      <4> QED BY <2>1, <3>2, <4>1, <4>2, <4>3 DEF DryInv
    <3>4. CASE ~DryRun
      BY <2>1, <3>2, <3>4 DEF DryInv
    <3> QED BY <3>3, <3>4
  <2> QED BY <2>2, <2>3
<1>3. CASE UNCHANGED <<listVars, metaVars>>
  <2>1. DryRun' = DryRun /\ Done' = Done /\ Kept' = Kept
    BY <1>3 DEF DryRun, ropt, Done, Kept, NamesWith, NameOf, EntryKind, listVars, jobVars,
       sendVars, recvVars, metaVars
  <2> QED BY <1>3, <2>1 DEF DryInv, metaVars
<1> QED BY <1>1, <1>2, <1>3 DEF MetaNext

\* A dry run leaves every directory and every file at the destination as it was,
\* but for the names of links and of requested files, and makes none: of the
\* directories not even the mode, of the files not even the time.  The one
\* directory that is made is the destination, if it is missing, which nothing in
\* the code asks the dry run about (README.md:65; clientmaincmd.go:426,
\* rsyncd.go:609; generator.go, the dry-run tests of recvGenerator, setPerms and
\* recvFile1).
THEOREM DryRunLeaves == MetaSpec => []DryRunKeeps
<1>1. DryInv => DryRunKeeps
  <2> SUFFICES ASSUME DryInv, mpc # "list", DryRun
               PROVE  DryRunKeeps
    BY DEF DryRunKeeps
  <2> DEFINE was == world.dest
             gone == NamesWith({"file", "link"})
             links == NamesWith({"link"})
  <2>1. world \in Worlds /\ Keeps(dest, OpenDest(was), gone, links)
    BY DEF DryInv, Kept
  <2>2. was = <<>> \/ Dot \in DOMAIN was
    BY <2>1, WorldsOK
  <2>3. CASE Dot \in DOMAIN was
    <3>1. Keeps(dest, was, gone, links)
      BY <2>1, <2>3 DEF OpenDest
    <3> QED BY <3>1 DEF DryRunKeeps, Keeps, NamesWith, Timed, Regular
  <2>4. CASE was = <<>>
    <3>1. Regular(was) = {} /\ Regular(OpenDest(was)) \subseteq {Dot}
      BY <2>4 DEF Regular, OpenDest
    <3>2. Regular(dest) \subseteq {Dot}
      BY <2>1, <3>1 DEF Keeps
    <3> QED BY <3>1, <3>2 DEF DryRunKeeps, Regular
  <2> QED BY <2>2, <2>3, <2>4
<1>2. DryInv /\ [MetaNext]_<<listVars, metaVars>> => DryInv'
  BY DryNext
<1> QED BY <1>1, <1>2, DryInit, PTL DEF MetaSpec

-----------------------------------------------------------------------------
(* The list, once it is there.                                             *)

\* An entry of the list, and the kind its mode tells.
EntryOK(i) ==
  /\ EntryKind(i) \in Kinds
  /\ fileList[i].Mode \in Nat /\ FileType(fileList[i].Mode) = TypeOf(EntryKind(i))
  /\ Perm(fileList[i].Mode) \in {0, 1}

ListOK ==
  /\ Len(fileList) \in Nat /\ DOMAIN fileList = 1 .. Len(fileList)
  /\ \A i \in DOMAIN fileList : EntryOK(i)

\* A mode is a type and a permission.
LEMMA PermType == \A mode \in Int : Perm(mode) \in {0, 1} /\ FileType(mode) \in Int
  BY DEF Perm, FileType

\* Different kinds are different types.
LEMMA TypesDiffer ==
  \A a, b \in Kinds : TypeOf(a) = TypeOf(b) => a = b
<1>1. /\ TypeOf("pipe") = 1 /\ TypeOf("dev") = 2 /\ TypeOf("dir") = 4
      /\ TypeOf("file") = 8 /\ TypeOf("link") = 10
  BY DEF TypeOf
<1> QED BY <1>1 DEF Kinds

\* Every entry is what the sender found at a path.
LEMMA ListExpected ==
  ASSUME IInv, DevicesAsOne, Done
  PROVE  /\ Len(fileList) \in Nat /\ DOMAIN fileList = 1 .. Len(fileList)
         /\ \A i \in DOMAIN fileList :
              \E path \in DOMAIN Tree : fileList[i] = Expected(path)
<1>1. job \in Jobs /\ Agreed
  BY DEF IInv, Walked
<1>2. PICK cat, all, users, groups, u, g :
           /\ Fixed(cat, u, g) /\ all \in Seq(DOMAIN Tree) /\ AllSound(cat)
           /\ files = SortedPaths(cat, all) /\ fileList = Sorted(cat, all)
  BY BothLists
<1>3. fileList \in Seq(Says(cat))
  BY <1>2, SortedFacts
<1>4. \A path \in DOMAIN Tree : cat[path].says = Expected(path)
  BY <1>1, <1>2, FixedFacts
<1>5. \A i \in 1 .. Len(fileList) : fileList[i] \in Says(cat)
  BY <1>3
<1>6. Len(fileList) \in Nat /\ DOMAIN fileList = 1 .. Len(fileList)
  BY <1>3
<1>7. ASSUME NEW i \in DOMAIN fileList
      PROVE  \E path \in DOMAIN Tree : fileList[i] = Expected(path)
  BY <1>4, <1>5, <1>6, Zenon DEF Says
<1> QED BY <1>6, <1>7

LEMMA ListIsOK ==
  ASSUME IInv, DevicesAsOne, Done
  PROVE  ListOK
<1> SUFFICES ASSUME NEW i \in DOMAIN fileList PROVE EntryOK(i)
  BY ListExpected DEF ListOK
<1>1. PICK path \in DOMAIN Tree : fileList[i] = Expected(path)
  BY ListExpected
<1>2. PICK info : info = Tree[path]
  OBVIOUS
<1>3. info \in FileInfo
  BY <1>2, ListConstants
<1>4. fileList[i].Mode = ModeOf(info)
  <2>1. Expected(path)["Mode"] = ModeOf(info)
    BY <1>2, ExpectedIs
  <2> QED BY <1>1, <2>1
<1>5. ModeOf(info) \in Nat /\ FileType(ModeOf(info)) = TypeOf(info.kind) /\ info.kind \in Kinds
  BY <1>3, KindTypes DEF FileInfo
<1>6. EntryKind(i) \in Kinds /\ FileType(fileList[i].Mode) = TypeOf(EntryKind(i))
  BY <1>4, <1>5 DEF EntryKind
<1> QED BY <1>4, <1>5, <1>6, PermType DEF EntryOK
-----------------------------------------------------------------------------
(* The destination.                                                        *)

\* Every name has an entry.
IsMap(d) == d = [n \in DOMAIN d |-> d[n]]

\* And every entry is one, and is in a directory.
Formed(d) ==
  /\ IsMap(d)
  /\ \A n \in DOMAIN d : IsNode(d[n]) /\ d[n].kind \in Kinds /\ d[n].perm \in {0, 1}
  /\ \A n \in DOMAIN d : Parent(n) \in DOMAIN d /\ d[Parent(n)].kind = "dir"

\* What an entry keeps when another one is made, changed or removed: everything
\* but the time, and the time if it is no directory.
Like(x, y) ==
  /\ y.kind = x.kind /\ y.perm = x.perm /\ y.uid = x.uid /\ y.target = x.target
  /\ x.kind # "dir" => y.mtime = x.mtime

\* What one entry of the list does not concern stays.
Apart(d, e, name) ==
  \A n \in DOMAIN d \ {name} : n \in DOMAIN e /\ Like(d[n], e[n])

LEMMA ApartSelf == \A d, name : Apart(d, d, name)
  BY DEF Apart, Like

LEMMA ApartThen ==
  ASSUME NEW d, NEW e, NEW f, NEW name, Apart(d, e, name), Apart(e, f, name)
  PROVE  Apart(d, f, name)
BY DEF Apart, Like

\* A changed time.
LEMMA TimedLike ==
  ASSUME NEW x, IsNode(x), NEW t
  PROVE  /\ IsNode(Timed(x, t)) /\ Timed(x, t).kind = x.kind /\ Timed(x, t).perm = x.perm
         /\ Timed(x, t).uid = x.uid /\ Timed(x, t).target = x.target
<1> DEFINE y == [x EXCEPT !.mtime = t]
<1>1. "mtime" \in NodeFields /\ DOMAIN x = NodeFields
  BY DEF IsNode, NodeFields
<1>2. /\ DOMAIN y = NodeFields /\ y = [field \in NodeFields |-> y[field]]
      /\ y.kind = x.kind /\ y.perm = x.perm /\ y.uid = x.uid /\ y.target = x.target
  BY <1>1 DEF NodeFields
<1> QED BY <1>2 DEF IsNode, Timed

\* What is next to an entry that is made or removed.
LEMMA BesideLike ==
  ASSUME NEW d, Formed(d), NEW name,
         Parent(name) \in DOMAIN d => d[Parent(name)].kind = "dir",
         NEW n \in DOMAIN d
  PROVE  /\ IsNode(Beside(d, name, n)) /\ Beside(d, name, n).kind = d[n].kind
         /\ Beside(d, name, n).perm = d[n].perm /\ Like(d[n], Beside(d, name, n))
<1>1. IsNode(d[n])
  BY DEF Formed
<1>2. CASE n = Parent(name)
  <2>1. d[n].kind = "dir" /\ Beside(d, name, n) = Timed(d[n], Now)
    BY <1>2 DEF Beside
  <2> QED BY <1>1, <2>1, TimedLike DEF Like
<1>3. CASE n # Parent(name)
  BY <1>1, <1>3 DEF Beside, Like
<1> QED BY <1>2, <1>3

\* What setPerms does to an entry.
Stamped(x, i, mode) ==
  LET f == fileList[i]
      isLink == FileType(mode) = TypeOf("link")
  IN [x EXCEPT
        !.mtime = IF On(ropt, "preserve_mtimes") /\ ~isLink THEN f.ModTime ELSE @,
        !.uid = IF On(ropt, "preserve_uid") /\ world.root THEN f.Uid ELSE @,
        !.gid = IF /\ On(ropt, "preserve_gid")
                   /\ world.root \/ f.Gid \in world.groups
                THEN f.Gid ELSE @,
        !.perm = IF isLink THEN @ ELSE Perm(mode)]

\* What the operations make of a map is one.
LEMMA MapKept ==
  ASSUME NEW d
  PROVE  /\ \A name, node : IsMap(Placed(d, name, node))
         /\ \A name : IsMap(Removed(d, name))
         /\ \A i, mode : IsMap(d) => IsMap(SetPerms(d, i, mode))
<1>1. \A name, node : IsMap(Placed(d, name, node))
  BY DEF Placed, IsMap
<1>2. ASSUME NEW name PROVE IsMap(Removed(d, name))
  <2>1. PICK s : s = [n \in DOMAIN d \ {name} |-> d[n]]
    OBVIOUS
  <2>2. Removed(d, name) = [s EXCEPT ![Parent(name)].mtime = Now]
    BY <2>1 DEF Removed, Touched
  <2> QED BY <2>2 DEF IsMap
<1>3. ASSUME NEW i, NEW mode, IsMap(d) PROVE IsMap(SetPerms(d, i, mode))
  <2>1. SetPerms(d, i, mode) = IF DryRun THEN d ELSE [d EXCEPT ![NameOf(i)] = Stamped(@, i, mode)]
    BY DEF SetPerms, Stamped, NameOf
  <2> QED BY <1>3, <2>1 DEF IsMap
<1> QED BY <1>1, <1>2, <1>3

\* An entry is made.
LEMMA FormedPlaced ==
  ASSUME NEW d, Formed(d), NEW name, NEW node,
         IsNode(node), node.kind \in Kinds, node.perm \in {0, 1},
         Parent(name) \in DOMAIN d, d[Parent(name)].kind = "dir",
         name \in DOMAIN d => d[name].kind # "dir"
  PROVE  /\ Formed(Placed(d, name, node)) /\ Apart(d, Placed(d, name, node), name)
         /\ name \in DOMAIN Placed(d, name, node) /\ Placed(d, name, node)[name] = node
<1>0. PICK e : e = Placed(d, name, node)
  OBVIOUS
<1>1. /\ DOMAIN e = DOMAIN d \cup {name} /\ e[name] = node
      /\ \A n \in DOMAIN d \ {name} : e[n] = Beside(d, name, n)
  <2>1. DOMAIN Placed(d, name, node) = DOMAIN d \cup {name}
    BY PlacedAt
  <2>2. Placed(d, name, node)[name] = node
    BY PlacedAt
  <2>3. \A n \in DOMAIN d \ {name} : Placed(d, name, node)[n] = Beside(d, name, n)
    BY PlacedAt
  <2> QED BY <1>0, <2>1, <2>2, <2>3
<1>2. ASSUME NEW n \in DOMAIN d \ {name}
      PROVE  /\ IsNode(e[n]) /\ e[n].kind = d[n].kind /\ e[n].perm = d[n].perm /\ Like(d[n], e[n])
  BY <1>1, BesideLike
<1>3. ASSUME NEW n \in DOMAIN e
      PROVE  /\ IsNode(e[n]) /\ e[n].kind \in Kinds /\ e[n].perm \in {0, 1}
             /\ Parent(n) \in DOMAIN e /\ e[Parent(n)].kind = "dir"
  <2>1. IsNode(e[n]) /\ e[n].kind \in Kinds /\ e[n].perm \in {0, 1}
    <3>1. CASE n = name
      BY <1>1, <3>1
    <3>2. CASE n # name
      BY <1>1, <1>2, <3>2 DEF Formed
    <3> QED BY <3>1, <3>2
  <2>2. Parent(n) \in DOMAIN d /\ d[Parent(n)].kind = "dir"
    BY <1>1 DEF Formed
  <2>3. Parent(n) # name
    BY <2>2
  <2> QED BY <1>1, <1>2, <2>1, <2>2, <2>3
<1>4. Formed(e)
  BY <1>0, <1>3, MapKept DEF Formed
<1>5. Apart(d, e, name)
  BY <1>1, <1>2 DEF Apart
<1> QED BY <1>0, <1>1, <1>4, <1>5

\* Directories are made, each in one that is there or is made with it.
LEMMA FormedMade ==
  ASSUME NEW d, Formed(d), NEW names, NEW node,
         IsNode(node), node.kind = "dir", node.perm \in {0, 1},
         \A n \in names : \/ Parent(n) \in names
                          \/ Parent(n) \in DOMAIN d /\ d[Parent(n)].kind = "dir",
         \A n \in names \cap DOMAIN d : d[n].kind # "dir"
  PROVE  LET e == MadeDirs(d, names, node)
         IN /\ Formed(e)
            /\ \A n \in DOMAIN d \ names : n \in DOMAIN e /\ Like(d[n], e[n])
            /\ \A n \in names : n \in DOMAIN e /\ e[n] = node
<1>0. PICK e : e = MadeDirs(d, names, node)
  OBVIOUS
<1>1. /\ IsMap(e) /\ DOMAIN e = DOMAIN d \cup names
      /\ \A n \in names : e[n] = node
      /\ \A n \in DOMAIN d \ names :
           \/ e[n] = d[n]
           \/ e[n] = Timed(d[n], Now) /\ \E m \in names : n = Parent(m)
  <2>1. e = [n \in DOMAIN d \cup names |->
               IF n \in names THEN node
               ELSE IF \E m \in names : n = Parent(m) THEN Timed(d[n], Now)
               ELSE d[n]]
    BY <1>0 DEF MadeDirs, Timed
  <2> QED BY <2>1 DEF IsMap
<1>2. ASSUME NEW n \in DOMAIN d \ names
      PROVE  /\ IsNode(e[n]) /\ e[n].kind = d[n].kind /\ e[n].perm = d[n].perm
             /\ Like(d[n], e[n])
  <2>1. IsNode(d[n])
    BY DEF Formed
  <2>2. CASE e[n] = d[n]
    BY <2>1, <2>2 DEF Like
  <2>3. CASE e[n] = Timed(d[n], Now) /\ \E m \in names : n = Parent(m)
    <3>1. d[n].kind = "dir"
      BY <2>3
    <3> QED BY <2>1, <2>3, <3>1, TimedLike DEF Like
  <2> QED BY <1>1, <2>2, <2>3
<1>3. ASSUME NEW n \in DOMAIN e
      PROVE  IsNode(e[n]) /\ e[n].kind \in Kinds /\ e[n].perm \in {0, 1}
  <2>1. CASE n \in names
    BY <1>1, <2>1 DEF Kinds
  <2>2. CASE n \notin names
    BY <1>1, <1>2, <2>2 DEF Formed
  <2> QED BY <2>1, <2>2
<1>4. ASSUME NEW n, n \in DOMAIN d, d[n].kind = "dir"
      PROVE  n \in DOMAIN e /\ e[n].kind = "dir"
  BY <1>1, <1>2, <1>4
<1>5. ASSUME NEW n \in DOMAIN e
      PROVE  Parent(n) \in DOMAIN e /\ e[Parent(n)].kind = "dir"
  <2>1. CASE Parent(n) \in names
    BY <1>1, <2>1
  <2>2. CASE Parent(n) \notin names
    <3>1. Parent(n) \in DOMAIN d /\ d[Parent(n)].kind = "dir"
      BY <1>1, <2>2 DEF Formed
    <3> QED BY <1>4, <3>1
  <2> QED BY <2>1, <2>2
<1>6. Formed(e)
  BY <1>1, <1>3, <1>5 DEF Formed
<1> QED BY <1>0, <1>1, <1>2, <1>6

\* An entry is removed that is no directory, or an empty one.
LEMMA FormedRemoved ==
  ASSUME NEW d, Formed(d), NEW name,
         Parent(name) \in DOMAIN d => d[Parent(name)].kind = "dir",
         \A n \in DOMAIN d \ {name} : Parent(n) # name
  PROVE  /\ Formed(Removed(d, name)) /\ Apart(d, Removed(d, name), name)
         /\ DOMAIN Removed(d, name) = DOMAIN d \ {name}
<1>0. PICK e : e = Removed(d, name)
  OBVIOUS
<1>1. /\ DOMAIN e = DOMAIN d \ {name}
      /\ \A n \in DOMAIN d \ {name} : e[n] = Beside(d, name, n)
  BY <1>0, RemovedAt
<1>2. ASSUME NEW n \in DOMAIN d \ {name}
      PROVE  /\ IsNode(e[n]) /\ e[n].kind = d[n].kind /\ e[n].perm = d[n].perm /\ Like(d[n], e[n])
  BY <1>1, BesideLike
<1>3. ASSUME NEW n \in DOMAIN e
      PROVE  /\ IsNode(e[n]) /\ e[n].kind \in Kinds /\ e[n].perm \in {0, 1}
             /\ Parent(n) \in DOMAIN e /\ e[Parent(n)].kind = "dir"
  <2>1. Parent(n) \in DOMAIN d /\ d[Parent(n)].kind = "dir" /\ Parent(n) # name
    BY <1>1 DEF Formed
  <2> QED BY <1>1, <1>2, <2>1 DEF Formed
<1>4. Formed(e)
  BY <1>0, <1>3, MapKept DEF Formed
<1>5. Apart(d, e, name)
  BY <1>1, <1>2 DEF Apart
<1> QED BY <1>0, <1>1, <1>4, <1>5

LEMMA StampedIs ==
  ASSUME NEW x, IsNode(x), NEW i, NEW mode
  PROVE  LET y == Stamped(x, i, mode)
             isLink == FileType(mode) = TypeOf("link")
         IN /\ IsNode(y) /\ y.kind = x.kind /\ y.target = x.target
            /\ y.mtime = IF On(ropt, "preserve_mtimes") /\ ~isLink
                         THEN fileList[i].ModTime ELSE x.mtime
            /\ y.uid = IF On(ropt, "preserve_uid") /\ world.root THEN fileList[i].Uid ELSE x.uid
            /\ y.perm = IF isLink THEN x.perm ELSE Perm(mode)
<1> DEFINE isLink == FileType(mode) = TypeOf("link")
<1>1. PICK a : a = IF On(ropt, "preserve_mtimes") /\ ~isLink THEN fileList[i].ModTime ELSE x.mtime
  OBVIOUS
<1>2. PICK b : b = IF On(ropt, "preserve_uid") /\ world.root THEN fileList[i].Uid ELSE x.uid
  OBVIOUS
<1>3. PICK c : c = IF /\ On(ropt, "preserve_gid")
                      /\ world.root \/ fileList[i].Gid \in world.groups
                   THEN fileList[i].Gid ELSE x.gid
  OBVIOUS
<1>4. PICK p : p = IF isLink THEN x.perm ELSE Perm(mode)
  OBVIOUS
<1> DEFINE y == [x EXCEPT !.mtime = a, !.uid = b, !.gid = c, !.perm = p]
<1>5. DOMAIN x = NodeFields
  BY DEF IsNode
<1>6. Stamped(x, i, mode) = y
  BY <1>1, <1>2, <1>3, <1>4, <1>5 DEF Stamped, NodeFields
<1>7. /\ DOMAIN y = NodeFields /\ y = [field \in NodeFields |-> y[field]]
      /\ y.kind = x.kind /\ y.target = x.target /\ y.mtime = a /\ y.uid = b /\ y.perm = p
  BY <1>5 DEF NodeFields
<1> HIDE DEF y
<1> QED BY <1>1, <1>2, <1>4, <1>6, <1>7 DEF IsNode

LEMMA SetPermsAt ==
  ASSUME NEW d, NEW i, NEW mode
  PROVE  /\ DOMAIN SetPerms(d, i, mode) = DOMAIN d
         /\ \A n \in DOMAIN d :
              SetPerms(d, i, mode)[n] =
                IF ~DryRun /\ n = NameOf(i) THEN Stamped(d[n], i, mode) ELSE d[n]
<1>1. CASE DryRun
  BY <1>1 DEF SetPerms
<1>2. CASE ~DryRun
  <2>1. SetPerms(d, i, mode) = [d EXCEPT ![NameOf(i)] = Stamped(@, i, mode)]
    BY <1>2 DEF SetPerms, Stamped, NameOf
  <2> QED BY <1>2, <2>1
<1> QED BY <1>1, <1>2

\* An entry is changed.
LEMMA FormedSet ==
  ASSUME NEW d, Formed(d), NEW i, NEW mode \in Int
  PROVE  /\ Formed(SetPerms(d, i, mode)) /\ Apart(d, SetPerms(d, i, mode), NameOf(i))
         /\ DOMAIN SetPerms(d, i, mode) = DOMAIN d
<1>0. PICK e : e = SetPerms(d, i, mode)
  OBVIOUS
<1>1. /\ DOMAIN e = DOMAIN d
      /\ \A n \in DOMAIN d :
           e[n] = IF ~DryRun /\ n = NameOf(i) THEN Stamped(d[n], i, mode) ELSE d[n]
  BY <1>0, SetPermsAt
<1>2. ASSUME NEW n \in DOMAIN d
      PROVE  /\ IsNode(e[n]) /\ e[n].kind = d[n].kind /\ e[n].perm \in {0, 1}
             /\ n # NameOf(i) => Like(d[n], e[n])
  <2>1. IsNode(d[n]) /\ d[n].perm \in {0, 1} /\ Perm(mode) \in {0, 1}
    BY PermType DEF Formed
  <2>2. /\ IsNode(Stamped(d[n], i, mode)) /\ Stamped(d[n], i, mode).kind = d[n].kind
        /\ Stamped(d[n], i, mode).perm \in {0, 1}
    BY <2>1, StampedIs
  <2> QED BY <1>1, <2>1, <2>2 DEF Like
<1>3. Formed(e)
  <2>1. IsMap(e)
    BY <1>0, MapKept DEF Formed
  <2> QED BY <1>1, <1>2, <2>1 DEF Formed
<1>4. Apart(d, e, NameOf(i))
  BY <1>1, <1>2 DEF Apart
<1> QED BY <1>0, <1>1, <1>3, <1>4

-----------------------------------------------------------------------------
(* The generator.                                                          *)

\* Whether the options ask for the kind of an entry.
Handled(i) ==
  /\ EntryKind(i) = "link" => On(ropt, "preserve_links")
  /\ EntryKind(i) \in {"dev", "pipe"} => On(ropt, "preserve_devices")

\* An entry as it is while the transfer runs: as the list says, but a directory
\* can be written.
MadeAs(i, x) ==
  LET f == fileList[i]
      kind == EntryKind(i)
  IN /\ x.kind = kind
     /\ kind = "dir" => x.perm = 1
     /\ kind = "link" => x.target = f.LinkTarget
     /\ kind = "file" /\ On(ropt, "preserve_perms") => x.perm = Perm(f.Mode)
     /\ kind = "file" /\ On(ropt, "preserve_mtimes") => x.mtime = f.ModTime
     /\ world.root /\ On(ropt, "preserve_uid") /\ kind \notin {"dev", "pipe"} => x.uid = f.Uid

MadeIn(i, d) == Handled(i) => NameOf(i) \in DOMAIN d /\ MadeAs(i, d[NameOf(i)])

\* What is known of a mode: only that of a file changes, if modes are not kept,
\* and then it does not become that of a directory or a link.
ModeKept(i) ==
  /\ modes[i] \in Int
  /\ EntryKind(i) # "file" \/ On(ropt, "preserve_perms") => modes[i] = fileList[i].Mode
  /\ EntryKind(i) = "file" => FileType(modes[i]) \notin {4, 10}

\* What holds whatever the names are.
Typed ==
  /\ world \in Worlds /\ Formed(dest)
  /\ DOMAIN modes = DOMAIN fileList /\ \A i \in DOMAIN fileList : ModeKept(i)
  /\ gi \in 1 .. Len(fileList) + 1
  /\ queue \in Seq(Nat)
  /\ \A k \in DOMAIN queue :
       queue[k] \in DOMAIN fileList /\ queue[k] < gi /\ EntryKind(queue[k]) = "file"

\* A step of the generator: it concerns the entry's own name only, and either
\* requests the entry, or has made it.
Passed ==
  /\ gi \in DOMAIN fileList /\ gi' = gi + 1 /\ UNCHANGED <<mpc, world, modes>>
  /\ Formed(dest') /\ Apart(dest, dest', NameOf(gi))
  /\ \/ queue' = Append(queue, gi) /\ EntryKind(gi) = "file"
     \/ queue' = queue /\ (~DryRun => MadeIn(gi, dest'))
  /\ retouchDirPerms => retouchDirPerms'
  /\ ~DryRun /\ EntryKind(gi) = "dir" /\ Perm(fileList[gi].Mode) = 0 => retouchDirPerms'

LEMMA KindIs ==
  ASSUME NEW name, NEW kind \in Kinds
  PROVE  KindAt(name) = kind <=> name \in DOMAIN dest /\ dest[name].kind = kind
BY DEF KindAt, Kinds

\* A new entry.
LEMMA FreshIs ==
  ASSUME NEW kind, NEW perm
  PROVE  /\ IsNode(Fresh(kind, perm)) /\ Fresh(kind, perm).kind = kind
         /\ Fresh(kind, perm).perm = perm
         /\ \A target : LET link == [Fresh(kind, perm) EXCEPT !.target = target]
                       IN /\ IsNode(link) /\ link.kind = kind /\ link.perm = perm
                          /\ link.target = target
BY DEF Fresh, IsNode, NodeFields

\* The modes of the kinds.
LEMMA ModeFacts ==
  ASSUME ListOK, Typed, NEW i \in DOMAIN fileList
  PROVE  /\ EntryKind(i) \in Kinds /\ modes[i] \in Int /\ Perm(modes[i]) \in {0, 1}
         /\ EntryKind(i) # "file" =>
              /\ modes[i] = fileList[i].Mode
              /\ FileType(modes[i]) = TypeOf("link") <=> EntryKind(i) = "link"
              /\ FileType(modes[i]) = TypeOf("dir") <=> EntryKind(i) = "dir"
         /\ EntryKind(i) = "file" =>
              FileType(modes[i]) # TypeOf("link") /\ FileType(modes[i]) # TypeOf("dir")
<1>1. EntryKind(i) \in Kinds /\ FileType(fileList[i].Mode) = TypeOf(EntryKind(i))
  BY DEF ListOK, EntryOK
<1>2. ModeKept(i)
  BY DEF Typed
<1>3. modes[i] \in Int /\ Perm(modes[i]) \in {0, 1}
  BY <1>2, PermType DEF ModeKept
<1>4. TypeOf("link") = 10 /\ TypeOf("dir") = 4 /\ "link" \in Kinds /\ "dir" \in Kinds
  BY DEF TypeOf, Kinds
<1> QED BY <1>1, <1>2, <1>3, <1>4, TypesDiffer DEF ModeKept

\* A directory is made, and opened.
LEMMA GenDirPasses ==
  ASSUME ListOK, Typed, GenDir
  PROVE  Passed
<1>1. /\ gi \in DOMAIN fileList /\ EntryKind(gi) = "dir" /\ ~DryRun
      /\ Here = "dir" \/ MayMake(NameOf(gi))
      /\ dest' = SetPerms(WithDir, gi, Opened(modes[gi])) /\ gi' = gi + 1
      /\ UNCHANGED <<mpc, world, modes, queue>>
      /\ retouchDirPerms' = (retouchDirPerms \/ Perm(modes[gi]) = 0)
  BY DEF GenDir, At, Generating, Advance, MakesDirs
<1>2. PICK name : name = NameOf(gi)
  OBVIOUS
<1>3. modes[gi] = fileList[gi].Mode /\ modes[gi] \in Int /\ Perm(modes[gi]) \in {0, 1}
      /\ FileType(modes[gi]) = TypeOf("dir")
  BY <1>1, ModeFacts
<1>4. PICK mode : mode = Opened(modes[gi])
  OBVIOUS
<1>5. mode \in Int /\ Perm(mode) = 1 /\ FileType(mode) # TypeOf("link")
  <2>1. TypeOf("dir") = 4 /\ TypeOf("link") = 10
    BY DEF TypeOf
  <2>2. mode = 9
    BY <1>3, <1>4, <2>1 DEF Opened
  <2> QED BY <2>1, <2>2 DEF Perm, FileType
<1>6. PICK d : d = WithDir
  OBVIOUS
<1>7. Formed(d) /\ Apart(dest, d, name) /\ name \in DOMAIN d /\ d[name].kind = "dir"
  <2>1. CASE Here = "dir"
    <3>1. d = dest
      BY <1>6, <2>1 DEF WithDir
    <3> QED BY <1>2, <2>1, <3>1, ApartSelf DEF Typed, Here, KindAt
  <2>2. CASE Here # "dir"
    <3>1. PICK e : e = IF Here = "none" THEN dest ELSE Removed(dest, name)
      OBVIOUS
    <3>2. PICK node : node = Fresh("dir", Perm(modes[gi]))
      OBVIOUS
    <3>3. d = MadeDirs(e, ToMake(name), node)
      BY <1>2, <1>6, <2>2, <3>1, <3>2 DEF WithDir
    <3>4. IsNode(node) /\ node.kind = "dir" /\ node.perm \in {0, 1}
      BY <1>3, <3>2, FreshIs
    <3>5. \A n \in ToMake(name) :
            \/ Parent(n) \in ToMake(name)
            \/ Parent(n) \in DOMAIN dest /\ dest[Parent(n)].kind = "dir"
      BY <1>1, <1>2, <2>2 DEF MayMake, MayChange, KindAt
    <3>6. Formed(dest) /\ (name \in DOMAIN dest => dest[name].kind # "dir")
      BY <1>2, <2>2 DEF Typed, Here, KindAt
    <3>7. name \in ToMake(name) /\ ToMake(name) \cap DOMAIN dest \subseteq {name}
      BY DEF ToMake
    <3>8. /\ Formed(e) /\ Apart(dest, e, name) /\ DOMAIN e \subseteq DOMAIN dest
          /\ name \in DOMAIN e => e[name].kind # "dir"
      <4>1. CASE Here = "none"
        BY <3>1, <3>6, <4>1, ApartSelf
      <4>2. CASE Here # "none"
        <5>1. name \in DOMAIN dest
          BY <1>2, <4>2 DEF Here, KindAt
        <5>2. /\ Parent(name) \in DOMAIN dest => dest[Parent(name)].kind = "dir"
              /\ \A n \in DOMAIN dest \ {name} : Parent(n) # name
          BY <3>6, <5>1 DEF Formed
        <5>3. Formed(e) /\ Apart(dest, e, name) /\ DOMAIN e = DOMAIN dest \ {name}
          BY <3>1, <3>6, <4>2, <5>2, FormedRemoved
        <5> QED BY <5>3
      <4> QED BY <4>1, <4>2
    <3>9. \A n \in DOMAIN dest \ {name} : n \in DOMAIN e /\ e[n].kind = dest[n].kind
      BY <3>8 DEF Apart, Like
    <3>10. /\ \A n \in ToMake(name) : \/ Parent(n) \in ToMake(name)
                                      \/ Parent(n) \in DOMAIN e /\ e[Parent(n)].kind = "dir"
           /\ \A n \in ToMake(name) \cap DOMAIN e : e[n].kind # "dir"
      BY <3>5, <3>6, <3>7, <3>8, <3>9
    <3>11. /\ Formed(d)
           /\ \A n \in DOMAIN e \ ToMake(name) : n \in DOMAIN d /\ Like(e[n], d[n])
           /\ \A n \in ToMake(name) : n \in DOMAIN d /\ d[n] = node
      BY <3>3, <3>4, <3>8, <3>10, FormedMade
    <3>12. Apart(e, d, name)
      BY <3>7, <3>8, <3>11 DEF Apart
    <3> QED BY <3>4, <3>7, <3>8, <3>11, <3>12, ApartThen
  <2> QED BY <2>1, <2>2
<1>8. /\ Formed(dest') /\ Apart(d, dest', name) /\ DOMAIN dest' = DOMAIN d
  BY <1>1, <1>2, <1>4, <1>5, <1>6, <1>7, FormedSet
<1>9. dest'[name] = Stamped(d[name], gi, mode)
  BY <1>1, <1>2, <1>4, <1>6, <1>7, SetPermsAt
<1>10. MadeIn(gi, dest')
  <2>1. IsNode(d[name])
    BY <1>7 DEF Formed
  <2>2. /\ dest'[name].kind = "dir" /\ dest'[name].perm = 1
        /\ world.root /\ On(ropt, "preserve_uid") => dest'[name].uid = fileList[gi].Uid
    BY <1>5, <1>7, <1>9, <2>1, StampedIs
  <2> QED BY <1>1, <1>2, <1>7, <1>8, <2>2 DEF MadeIn, MadeAs
<1>11. Apart(dest, dest', name)
  BY <1>7, <1>8, ApartThen
<1> QED BY <1>1, <1>2, <1>3, <1>8, <1>10, <1>11 DEF Passed

\* The uppermost directory is made, and no other.
LEMMA GenDirHalfForms ==
  ASSUME Typed, GenDirHalf
  PROVE  Formed(dest') /\ mpc' = "err" /\ UNCHANGED <<world, modes, gi, queue>>
<1>1. PICK n \in ToMake(NameOf(gi)) :
           Parent(n) \notin ToMake(NameOf(gi)) /\ dest' = MadeDirs(dest, {n}, Fresh("dir", 0))
  BY DEF GenDirHalf
<1>2. Here # "dir" /\ MayMake(NameOf(gi)) /\ mpc' = "err" /\ UNCHANGED <<world, modes, gi, queue>>
  BY DEF GenDirHalf
<1>3. Parent(n) \in DOMAIN dest /\ dest[Parent(n)].kind = "dir"
  BY <1>1, <1>2 DEF MayMake, MayChange, KindAt
<1>4. n \in DOMAIN dest => dest[n].kind # "dir"
  BY <1>1, <1>2 DEF ToMake, Here, KindAt
<1>5. PICK node : node = Fresh("dir", 0)
  OBVIOUS
<1>6. IsNode(node) /\ node.kind = "dir" /\ node.perm \in {0, 1}
  BY <1>5, FreshIs
<1>7. Formed(dest)
  BY DEF Typed
<1>8. PICK names : names = {n}
  OBVIOUS
<1>9. /\ \A m \in names : \/ Parent(m) \in names
                          \/ Parent(m) \in DOMAIN dest /\ dest[Parent(m)].kind = "dir"
      /\ \A m \in names \cap DOMAIN dest : dest[m].kind # "dir"
  BY <1>3, <1>4, <1>8
<1>10. Formed(MadeDirs(dest, names, node))
  BY <1>6, <1>7, <1>9, FormedMade
<1> QED BY <1>1, <1>2, <1>5, <1>8, <1>10

\* What the options do not ask for is passed over.
LEMMA GenIgnorePasses ==
  ASSUME ListOK, Typed, GenIgnore
  PROVE  Passed
<1>1. /\ gi \in DOMAIN fileList /\ dest' = dest /\ gi' = gi + 1
      /\ UNCHANGED <<mpc, world, modes, queue, retouchDirPerms>>
      /\ DryRun \/ (~Handled(gi) /\ EntryKind(gi) # "dir")
  BY DEF GenIgnore, At, Generating, Advance, MakesDirs, Handled
<1>2. Formed(dest') /\ Apart(dest, dest', NameOf(gi))
  BY <1>1, ApartSelf DEF Typed
<1> QED BY <1>1, <1>2 DEF Passed, MadeIn

\* A link is made, or is there.
LEMMA GenLinkPasses ==
  ASSUME ListOK, Typed, GenLink
  PROVE  Passed
<1> DEFINE new == [Fresh("link", 1) EXCEPT !.target = fileList[gi].LinkTarget]
<1>1. /\ gi \in DOMAIN fileList /\ EntryKind(gi) = "link"
      /\ SameLink \/ (Here # "dir" /\ MayChange(NameOf(gi)))
      /\ dest' = SetPerms(IF SameLink THEN dest ELSE Placed(dest, NameOf(gi), new), gi, modes[gi])
      /\ gi' = gi + 1 /\ UNCHANGED <<mpc, world, modes, queue, retouchDirPerms>>
  BY Zenon DEF GenLink, At, Generating, Advance
<1>2. IsNode(new) /\ new.kind = "link" /\ new.perm = 1 /\ new.target = fileList[gi].LinkTarget
  BY FreshIs
<1> HIDE DEF new
<1>3. PICK name : name = NameOf(gi)
  OBVIOUS
<1>4. modes[gi] \in Int /\ FileType(modes[gi]) = TypeOf("link") /\ "link" \in Kinds
  BY <1>1, ModeFacts
<1>5. PICK d : d = IF SameLink THEN dest ELSE Placed(dest, name, new)
  OBVIOUS
<1>6. /\ Formed(d) /\ Apart(dest, d, name) /\ name \in DOMAIN d /\ d[name].kind = "link"
      /\ d[name].target = fileList[gi].LinkTarget
  <2>1. CASE SameLink
    BY <1>3, <1>5, <2>1, ApartSelf DEF Typed, SameLink, Here, KindAt
  <2>2. CASE ~SameLink
    <3>1. /\ Parent(name) \in DOMAIN dest /\ dest[Parent(name)].kind = "dir"
          /\ name \in DOMAIN dest => dest[name].kind # "dir"
      BY <1>1, <1>3, <2>2 DEF MayChange, Here, KindAt
    <3>2. Formed(dest) /\ d = Placed(dest, name, new)
      BY <1>5, <2>2 DEF Typed
    <3>3. new.kind \in Kinds /\ new.perm \in {0, 1}
      BY <1>2, <1>4
    <3>4. Formed(d) /\ Apart(dest, d, name) /\ name \in DOMAIN d /\ d[name] = new
      BY <1>2, <3>1, <3>2, <3>3, FormedPlaced
    <3> QED BY <1>2, <3>4
  <2> QED BY <2>1, <2>2
<1>7. Formed(dest') /\ Apart(d, dest', name) /\ DOMAIN dest' = DOMAIN d
  BY <1>1, <1>3, <1>4, <1>5, <1>6, FormedSet
<1>8. dest'[name] = IF DryRun THEN d[name] ELSE Stamped(d[name], gi, modes[gi])
  BY <1>1, <1>3, <1>5, <1>6, SetPermsAt
<1>9. ASSUME ~DryRun PROVE MadeIn(gi, dest')
  <2>1. IsNode(d[name])
    BY <1>6 DEF Formed
  <2>2. /\ dest'[name].kind = "link" /\ dest'[name].target = fileList[gi].LinkTarget
        /\ world.root /\ On(ropt, "preserve_uid") => dest'[name].uid = fileList[gi].Uid
    BY <1>6, <1>8, <1>9, <2>1, StampedIs
  <2> QED BY <1>1, <1>3, <1>6, <1>7, <2>2 DEF MadeIn, MadeAs
<1>10. Apart(dest, dest', name)
  BY <1>6, <1>7, ApartThen
<1> QED BY <1>1, <1>3, <1>7, <1>9, <1>10 DEF Passed

\* A device is made, or is there.
LEMMA GenDevicePasses ==
  ASSUME ListOK, Typed, GenDevice
  PROVE  Passed
<1> DEFINE new == Fresh(EntryKind(gi), Perm(modes[gi]))
<1>1. /\ gi \in DOMAIN fileList /\ EntryKind(gi) \in {"dev", "pipe"}
      /\ gi' = gi + 1 /\ UNCHANGED <<mpc, world, modes, queue, retouchDirPerms>>
      /\ \/ Here = EntryKind(gi) /\ dest' = dest
         \/ /\ Here = "none" /\ MayChange(NameOf(gi))
            /\ dest' = Placed(dest, NameOf(gi), new)
  BY DEF GenDevice, At, Generating, Advance
<1>2. EntryKind(gi) \in Kinds /\ Perm(modes[gi]) \in {0, 1}
  BY <1>1, ModeFacts
<1>3. IsNode(new) /\ new.kind = EntryKind(gi) /\ new.perm \in {0, 1}
  BY <1>2, FreshIs
<1> HIDE DEF new
<1>4. PICK name : name = NameOf(gi)
  OBVIOUS
<1>5. PICK kind : kind = EntryKind(gi)
  OBVIOUS
<1>6. /\ Formed(dest') /\ Apart(dest, dest', name) /\ name \in DOMAIN dest'
      /\ dest'[name].kind = kind
  <2>1. CASE Here = EntryKind(gi) /\ dest' = dest
    BY <1>2, <1>4, <1>5, <2>1, KindIs, ApartSelf DEF Typed, Here
  <2>2. CASE /\ Here = "none" /\ MayChange(NameOf(gi))
             /\ dest' = Placed(dest, NameOf(gi), new)
    <3>1. /\ Parent(name) \in DOMAIN dest /\ dest[Parent(name)].kind = "dir"
      BY <1>4, <2>2 DEF MayChange, KindAt
    <3>2. Formed(dest) /\ dest' = Placed(dest, name, new)
      BY <1>4, <2>2 DEF Typed
    <3>3. name \in DOMAIN dest => dest[name].kind # "dir"
      BY <1>4, <2>2 DEF Here, KindAt
    <3>4. /\ Formed(dest') /\ Apart(dest, dest', name) /\ name \in DOMAIN dest'
          /\ dest'[name] = new
      BY <1>2, <1>3, <3>1, <3>2, <3>3, FormedPlaced
    <3> QED BY <1>3, <1>5, <3>4
  <2> QED BY <1>1, <2>1, <2>2
<1>7. MadeIn(gi, dest')
  BY <1>1, <1>4, <1>5, <1>6 DEF MadeIn, MadeAs
<1> QED BY <1>1, <1>4, <1>6, <1>7 DEF Passed

\* A file that is up to date gets its metadata.
LEMMA GenSkipPasses ==
  ASSUME ListOK, Typed, GenSkip
  PROVE  Passed
<1>1. /\ gi \in DOMAIN fileList /\ EntryKind(gi) = "file" /\ Here = "file"
      /\ dest' = SetPerms(dest, gi, modes[gi])
      /\ gi' = gi + 1 /\ UNCHANGED <<mpc, world, modes, queue, retouchDirPerms>>
  BY DEF GenSkip, At, Generating, Advance, SkipFile
<1>2. PICK name : name = NameOf(gi)
  OBVIOUS
<1>3. /\ modes[gi] \in Int /\ FileType(modes[gi]) # TypeOf("link")
      /\ On(ropt, "preserve_perms") => modes[gi] = fileList[gi].Mode
  BY <1>1, ModeFacts DEF Typed, ModeKept
<1>4. Formed(dest) /\ name \in DOMAIN dest /\ dest[name].kind = "file"
  BY <1>1, <1>2 DEF Typed, Here, KindAt
<1>5. Formed(dest') /\ Apart(dest, dest', name) /\ DOMAIN dest' = DOMAIN dest
  BY <1>1, <1>2, <1>3, <1>4, FormedSet
<1>6. ~DryRun => dest'[name] = Stamped(dest[name], gi, modes[gi])
  BY <1>1, <1>2, <1>4, SetPermsAt
<1>7. ASSUME ~DryRun PROVE MadeIn(gi, dest')
  <2>1. IsNode(dest[name])
    BY <1>4 DEF Formed
  <2>2. /\ dest'[name].kind = "file"
        /\ On(ropt, "preserve_perms") => dest'[name].perm = Perm(fileList[gi].Mode)
        /\ On(ropt, "preserve_mtimes") => dest'[name].mtime = fileList[gi].ModTime
        /\ world.root /\ On(ropt, "preserve_uid") => dest'[name].uid = fileList[gi].Uid
    BY <1>3, <1>4, <1>6, <1>7, <2>1, StampedIs
  <2> QED BY <1>1, <1>2, <1>4, <1>5, <2>2 DEF MadeIn, MadeAs
<1> QED BY <1>1, <1>2, <1>5, <1>7 DEF Passed

\* What is in the way of a file has nothing in it.
LEMMA ClearsAlone ==
  ASSUME Formed(dest), NEW name, KindAt(name) \notin {"none", "file"},
         KindAt(name) = "dir" => Empty(name)
  PROVE  \A n \in DOMAIN dest \ {name} : Parent(n) # name
BY DEF Formed, KindAt, Empty

\* A file is requested.
LEMMA GenRequestPasses ==
  ASSUME ListOK, Typed, GenRequest
  PROVE  Passed
<1>1. /\ gi \in DOMAIN fileList /\ EntryKind(gi) = "file"
      /\ InTheWay => MayClear
      /\ dest' = IF InTheWay THEN Removed(dest, NameOf(gi)) ELSE dest
      /\ gi' = gi + 1 /\ UNCHANGED <<mpc, world, modes, retouchDirPerms>>
      /\ queue' = Append(queue, gi)
  BY DEF GenRequest, At, Generating, Advance
<1>2. PICK name : name = NameOf(gi)
  OBVIOUS
<1>3. Formed(dest)
  BY DEF Typed
<1>4. Formed(dest') /\ Apart(dest, dest', name)
  <2>1. CASE ~InTheWay
    BY <1>1, <1>3, <2>1, ApartSelf
  <2>2. CASE InTheWay
    <3>1. dest' = Removed(dest, name)
      BY <1>1, <1>2, <2>2
    <3>2. Parent(name) \in DOMAIN dest => dest[Parent(name)].kind = "dir"
      BY <1>1, <1>2, <2>2 DEF MayClear, MayChange, KindAt
    <3>3. \A n \in DOMAIN dest \ {name} : Parent(n) # name
      BY <1>1, <1>2, <1>3, <2>2, ClearsAlone DEF MayClear, InTheWay, Here
    <3> QED BY <1>3, <3>1, <3>2, <3>3, FormedRemoved
  <2> QED BY <2>1, <2>2
<1> QED BY <1>1, <1>2, <1>4 DEF Passed

-----------------------------------------------------------------------------
(* The receiver, and both.                                                 *)

\* A file is put in place: the first that was requested is made.
Landed ==
  /\ queue # <<>> /\ queue' = Tail(queue) /\ ~DryRun
  /\ UNCHANGED <<mpc, world, gi, retouchDirPerms>>
  /\ Formed(dest') /\ Apart(dest, dest', NameOf(First)) /\ MadeIn(First, dest')
  /\ \E mode : /\ modes' = [modes EXCEPT ![First] = mode] /\ mode \in Int
               /\ FileType(mode) \notin {4, 10}
               /\ On(ropt, "preserve_perms") => mode = fileList[First].Mode

\* The queue is of files that the generator has passed.
LEMMA FirstIs ==
  ASSUME Typed, queue # <<>>
  PROVE  /\ First \in DOMAIN fileList /\ First < gi /\ EntryKind(First) = "file"
         /\ Tail(queue) \in Seq(Nat) /\ Len(queue) \in Nat \ {0}
         /\ DOMAIN Tail(queue) = 1 .. Len(queue) - 1
         /\ \A k \in DOMAIN Tail(queue) : k + 1 \in DOMAIN queue /\ Tail(queue)[k] = queue[k + 1]
<1>1. queue \in Seq(Nat)
  BY DEF Typed
<1>2. 1 \in DOMAIN queue /\ First = queue[1]
  BY <1>1 DEF First
<1>3. /\ Tail(queue) \in Seq(Nat) /\ Len(queue) \in Nat \ {0}
      /\ DOMAIN Tail(queue) = 1 .. Len(queue) - 1
      /\ \A k \in DOMAIN Tail(queue) : k + 1 \in DOMAIN queue /\ Tail(queue)[k] = queue[k + 1]
  BY <1>1
<1> QED BY <1>2, <1>3 DEF Typed

LEMMA RecvFileLands ==
  ASSUME ListOK, Typed, RecvFile
  PROVE  Landed
<1> DEFINE new == [Fresh("file", 1) EXCEPT !.size = fileList[First].Length,
                                           !.sum = Tree[files[First]].sum]
<1>1. /\ queue # <<>> /\ ~DryRun /\ CanLand
      /\ dest' = SetPerms(Placed(dest, NameOf(First), new), First, LocalMode)
      /\ modes' = [modes EXCEPT ![First] = LocalMode]
      /\ queue' = Tail(queue)
      /\ UNCHANGED <<mpc, world, gi, retouchDirPerms>>
  BY DEF RecvFile, Receiving
<1>2. First \in DOMAIN fileList /\ EntryKind(First) = "file"
  BY <1>1, FirstIs
<1>3. IsNode(new) /\ new.kind = "file" /\ new.perm = 1
  BY DEF Fresh, IsNode, NodeFields
<1> HIDE DEF new
<1>4. PICK name : name = NameOf(First)
  OBVIOUS
<1>5. PICK mode : mode = LocalMode
  OBVIOUS
<1>6. TypeOf("link") = 10 /\ TypeOf("dir") = 4 /\ "file" \in Kinds
  BY DEF TypeOf, Kinds
<1>7. /\ mode \in Int /\ FileType(mode) \notin {4, 10}
      /\ On(ropt, "preserve_perms") => mode = fileList[First].Mode
  <2>1. CASE KindAt(name) = "file" /\ ~On(ropt, "preserve_perms")
    <3>1. mode = dest[name].perm
      BY <1>4, <1>5, <2>1 DEF LocalMode
    <3>2. mode \in {0, 1}
      BY <1>6, <2>1, <3>1, KindIs DEF Typed, Formed
    <3>3. FileType(mode) = 0
      BY <3>2 DEF FileType
    <3> QED BY <2>1, <3>2, <3>3
  <2>2. CASE ~(KindAt(name) = "file" /\ ~On(ropt, "preserve_perms"))
    <3>1. mode = modes[First]
      BY <1>4, <1>5, <2>2 DEF LocalMode
    <3> QED BY <1>2, <3>1 DEF Typed, ModeKept
  <2> QED BY <2>1, <2>2
<1>8. PICK d : d = Placed(dest, name, new)
  OBVIOUS
<1>9. Formed(d) /\ Apart(dest, d, name) /\ name \in DOMAIN d /\ d[name] = new
  <2>1. /\ Parent(name) \in DOMAIN dest /\ dest[Parent(name)].kind = "dir"
        /\ name \in DOMAIN dest => dest[name].kind # "dir"
    BY <1>1, <1>4 DEF CanLand, MayChange, KindAt
  <2>2. Formed(dest)
    BY DEF Typed
  <2>3. new.kind \in Kinds /\ new.perm \in {0, 1}
    BY <1>3, <1>6
  <2> QED BY <1>3, <1>8, <2>1, <2>2, <2>3, FormedPlaced
<1>10. Formed(dest') /\ Apart(d, dest', name) /\ DOMAIN dest' = DOMAIN d
  BY <1>1, <1>4, <1>5, <1>7, <1>8, <1>9, FormedSet
<1>11. dest'[name] = Stamped(d[name], First, mode)
  BY <1>1, <1>4, <1>5, <1>8, <1>9, SetPermsAt
<1>12. MadeIn(First, dest')
  <2>1. /\ dest'[name].kind = "file"
        /\ On(ropt, "preserve_perms") => dest'[name].perm = Perm(fileList[First].Mode)
        /\ On(ropt, "preserve_mtimes") => dest'[name].mtime = fileList[First].ModTime
        /\ world.root /\ On(ropt, "preserve_uid") => dest'[name].uid = fileList[First].Uid
    BY <1>3, <1>6, <1>7, <1>9, <1>11, StampedIs
  <2> QED BY <1>2, <1>4, <1>9, <1>10, <2>1 DEF MadeIn, MadeAs
<1>13. Apart(dest, dest', name)
  BY <1>9, <1>10, ApartThen
<1> QED BY <1>1, <1>4, <1>5, <1>7, <1>10, <1>12, <1>13 DEF Landed

\* The transfer goes on in one of these ways.
LEMMA TransferIs ==
  ASSUME ListOK, Typed, Transfer, mpc # "list"
  PROVE  mpc = "run" /\ \/ Passed
                        \/ Landed
                        \/ DryRun /\ RecvDry
                        \/ mpc' = "err" /\ Formed(dest') /\ UNCHANGED <<world, modes, gi, queue>>
                        \/ Finish
<1>1. ~Begin
  BY DEF Begin
<1>2. ASSUME GenDir \/ GenIgnore \/ GenLink \/ GenDevice \/ GenSkip \/ GenRequest
      PROVE  Passed /\ mpc = "run"
  <2>1. mpc = "run"
    BY <1>2 DEF GenDir, GenIgnore, GenLink, GenDevice, GenSkip, GenRequest, At, Generating
  <2> QED BY <1>2, <2>1, GenDirPasses, GenIgnorePasses, GenLinkPasses, GenDevicePasses,
             GenSkipPasses, GenRequestPasses
<1>3. ASSUME GenFail \/ RecvFail
      PROVE  mpc = "run" /\ mpc' = "err" /\ Formed(dest') /\ UNCHANGED <<world, modes, gi, queue>>
  <2>1. mpc = "run" /\ mpc' = "err" /\ UNCHANGED <<world, dest, modes, gi, queue>>
    BY <1>3 DEF GenFail, RecvFail, Blocked, At, Generating, Receiving
  <2> QED BY <2>1 DEF Typed
<1>4. ASSUME RecvDry PROVE mpc = "run" /\ DryRun
  BY <1>4 DEF RecvDry, Receiving
<1>5. ASSUME RecvFile PROVE mpc = "run" /\ Landed
  BY <1>5, RecvFileLands DEF RecvFile, Receiving
<1>6. ASSUME Finish PROVE mpc = "run"
  BY <1>6 DEF Finish
<1>7. ASSUME GenDirHalf
      PROVE  mpc = "run" /\ mpc' = "err" /\ Formed(dest') /\ UNCHANGED <<world, modes, gi, queue>>
  <2>1. mpc = "run"
    BY <1>7 DEF GenDirHalf, At, Generating
  <2> QED BY <1>7, <2>1, GenDirHalfForms
<1> QED BY <1>1, <1>2, <1>3, <1>4, <1>5, <1>6, <1>7 DEF Transfer

-----------------------------------------------------------------------------
(* The modes of the directories, at the end.                               *)

\* No name is in the list twice.
UniqueNames == \A i, j \in DOMAIN fileList : NameOf(i) = NameOf(j) => i = j

\* One directory after the other.
Touching(t) ==
  /\ DOMAIN t = 0 .. Len(fileList) /\ t[0] = dest
  /\ \A i \in 1 .. Len(fileList) :
       t[i] = IF NeedsTouchUp(i) THEN SetPerms(t[i - 1], i, modes[i]) ELSE t[i - 1]
  /\ TouchUpDirs = t[Len(fileList)]

\* Entries with values of a set stay such when their metadata is set.
LEMMA StampedIn ==
  ASSUME NEW V, NEW x \in [NodeFields -> V], NEW i, NEW mode,
         fileList[i].ModTime \in V, fileList[i].Uid \in V, fileList[i].Gid \in V,
         Perm(mode) \in V
  PROVE  Stamped(x, i, mode) \in [NodeFields -> V]
<1> DEFINE isLink == FileType(mode) = TypeOf("link")
<1>1. PICK a : a = IF On(ropt, "preserve_mtimes") /\ ~isLink THEN fileList[i].ModTime ELSE x.mtime
  OBVIOUS
<1>2. PICK b : b = IF On(ropt, "preserve_uid") /\ world.root THEN fileList[i].Uid ELSE x.uid
  OBVIOUS
<1>3. PICK c : c = IF /\ On(ropt, "preserve_gid")
                      /\ world.root \/ fileList[i].Gid \in world.groups
                   THEN fileList[i].Gid ELSE x.gid
  OBVIOUS
<1>4. PICK p : p = IF isLink THEN x.perm ELSE Perm(mode)
  OBVIOUS
<1>5. x.mtime \in V /\ x.uid \in V /\ x.gid \in V /\ x.perm \in V
  BY DEF NodeFields
<1>6. a \in V /\ b \in V /\ c \in V /\ p \in V
  BY <1>1, <1>2, <1>3, <1>4, <1>5
<1>7. Stamped(x, i, mode) = [x EXCEPT !.mtime = a, !.uid = b, !.gid = c, !.perm = p]
  BY <1>1, <1>2, <1>3, <1>4 DEF Stamped, NodeFields
<1> QED BY <1>6, <1>7

LEMMA Touches ==
  ASSUME ListOK, Typed
  PROVE  \E t : Touching(t)
<1> DEFINE n == Len(fileList)
           V == {dest[m][field] : m \in DOMAIN dest, field \in NodeFields}
                \cup {fileList[i].ModTime : i \in 1 .. n} \cup {fileList[i].Uid : i \in 1 .. n}
                \cup {fileList[i].Gid : i \in 1 .. n} \cup {0, 1}
           S == [DOMAIN dest -> [NodeFields -> V]]
           step(i, d) == IF NeedsTouchUp(i) THEN SetPerms(d, i, modes[i]) ELSE d
           g == [p \in (1 .. n) \X S |-> step(p[1], p[2])]
           eq(t) == t = [i \in 0 .. n |-> IF i = 0 THEN dest
                           ELSE IF NeedsTouchUp(i) THEN SetPerms(t[i - 1], i, modes[i])
                           ELSE t[i - 1]]
           touched == CHOOSE t : eq(t)
<1>1. n \in Nat /\ DOMAIN fileList = 1 .. n
  BY DEF ListOK
<1>2. dest \in S
  <2>1. \A m \in DOMAIN dest : dest[m] = [field \in NodeFields |-> dest[m][field]]
    BY DEF Typed, Formed, IsNode
  <2>2. \A m \in DOMAIN dest : \A field \in NodeFields : dest[m][field] \in V
    OBVIOUS
  <2> HIDE DEF V
  <2>3. \A m \in DOMAIN dest : dest[m] \in [NodeFields -> V]
    BY <2>1, <2>2
  <2>4. dest = [m \in DOMAIN dest |-> dest[m]]
    BY DEF Typed, Formed, IsMap
  <2> QED BY <2>3, <2>4
<1>3. ASSUME NEW i \in 1 .. n, NEW d \in S PROVE step(i, d) \in S
  <2>1. /\ fileList[i].ModTime \in V /\ fileList[i].Uid \in V /\ fileList[i].Gid \in V
    OBVIOUS
  <2>2. Perm(modes[i]) \in V
    <3>1. Perm(modes[i]) \in {0, 1}
      BY <1>1, ModeFacts
    <3> QED BY <3>1
  <2> HIDE DEF V
  <2>3. PICK e : e = SetPerms(d, i, modes[i])
    OBVIOUS
  <2>4. /\ DOMAIN e = DOMAIN dest /\ IsMap(d)
        /\ \A m \in DOMAIN dest : e[m] = Stamped(d[m], i, modes[i]) \/ e[m] = d[m]
    BY <2>3, SetPermsAt DEF IsMap
  <2>5. \A m \in DOMAIN dest : d[m] \in [NodeFields -> V]
    OBVIOUS
  <2>6. \A m \in DOMAIN dest : Stamped(d[m], i, modes[i]) \in [NodeFields -> V]
    BY <2>1, <2>2, <2>5, StampedIn
  <2>7. e = [m \in DOMAIN dest |-> e[m]]
    BY <2>3, <2>4, MapKept DEF IsMap
  <2>8. \A m \in DOMAIN dest : e[m] \in [NodeFields -> V]
    BY <2>4, <2>5, <2>6
  <2>9. e \in S
    BY <2>7, <2>8
  <2> HIDE DEF S
  <2> QED BY <2>3, <2>9
<1> HIDE DEF S, step
<1>4. g \in [(1 .. n) \X S -> S]
  <2>1. \A p \in (1 .. n) \X S : p[1] \in 1 .. n /\ p[2] \in S
    OBVIOUS
  <2> HIDE DEF n
  <2> QED BY <1>3, <2>1
<1>5. \A i \in 1 .. n, d \in S : g[<<i, d>>] = step(i, d)
  OBVIOUS
<1>6. PICK h \in [0 .. n -> S] : h[0] = dest /\ \A k \in 1 .. n : h[k] = g[<<k, h[k - 1]>>]
  <2> HIDE DEF n, g
  <2>1. Iterated(n, S, dest, g)
    BY <1>1, <1>2, <1>4, Iterates
  <2> QED BY <2>1 DEF Iterated
<1> HIDE DEF g
<1>7. \A k \in 1 .. n : h[k] = step(k, h[k - 1])
  <2> SUFFICES ASSUME NEW k \in 1 .. n PROVE h[k] = step(k, h[k - 1])
    OBVIOUS
  <2>1. k - 1 \in 0 .. n
    BY <1>1
  <2>2. h[k - 1] \in S
    BY <1>6, <2>1
  <2> QED BY <1>5, <1>6, <2>2
<1>8. eq(h)
  <2>1. \A i \in 0 .. n : h[i] = IF i = 0 THEN dest ELSE step(i, h[i - 1])
    <3> SUFFICES ASSUME NEW i \in 0 .. n PROVE h[i] = IF i = 0 THEN dest ELSE step(i, h[i - 1])
      OBVIOUS
    <3>1. CASE i = 0
      BY <1>6, <3>1
    <3>2. CASE i # 0
      <4>1. i \in 1 .. n
        BY <1>1, <3>2
      <4> QED BY <1>7, <3>2, <4>1
    <3> QED BY <3>1, <3>2
  <2>2. h = [i \in 0 .. n |-> h[i]]
    OBVIOUS
  <2> HIDE DEF n
  <2>3. h = [i \in 0 .. n |-> IF i = 0 THEN dest ELSE step(i, h[i - 1])]
    BY <2>1, <2>2
  <2> QED BY <2>3 DEF step
<1>9. eq(touched)
  <2> HIDE DEF eq
  <2> QED BY <1>8
<1>10. TouchUpDirs = touched[n]
  BY DEF TouchUpDirs
<1> HIDE DEF touched
<1>11. DOMAIN touched = 0 .. n
  BY <1>9
<1>12. \A i \in 0 .. n : touched[i] = IF i = 0 THEN dest
                           ELSE IF NeedsTouchUp(i) THEN SetPerms(touched[i - 1], i, modes[i])
                           ELSE touched[i - 1]
  BY <1>9
<1>13. 0 \in 0 .. n /\ \A i \in 1 .. n : i \in 0 .. n /\ i # 0
  BY <1>1
<1>14. Touching(touched)
  BY <1>10, <1>11, <1>12, <1>13 DEF Touching
<1> QED BY <1>14

\* What touchUpDirs does to each entry.
LEMMA TouchUpIs ==
  ASSUME ListOK, Typed, ~DryRun
  PROVE  /\ Formed(TouchUpDirs) /\ DOMAIN TouchUpDirs = DOMAIN dest
         /\ UniqueNames => \A i \in DOMAIN fileList : NameOf(i) \in DOMAIN dest =>
              TouchUpDirs[NameOf(i)] =
                IF NeedsTouchUp(i) THEN Stamped(dest[NameOf(i)], i, modes[i]) ELSE dest[NameOf(i)]
<1>1. PICK t : Touching(t)
  BY Touches
<1> DEFINE n == Len(fileList)
           Old(i) == dest[NameOf(i)]
           New(i) == Stamped(dest[NameOf(i)], i, modes[i])
           Said(j, i) == NameOf(i) \in DOMAIN dest =>
                           t[j][NameOf(i)] = IF i <= j /\ NeedsTouchUp(i) THEN New(i) ELSE Old(i)
           Well(j) == Formed(t[j]) /\ DOMAIN t[j] = DOMAIN dest
           T == {j \in 0 .. n : Well(j) /\ (UniqueNames => \A i \in 1 .. n : Said(j, i))}
<1>2. n \in Nat /\ DOMAIN fileList = 1 .. n
  BY DEF ListOK
<1>3. t[0] = dest /\ \A i \in 1 .. n :
        t[i] = IF NeedsTouchUp(i) THEN SetPerms(t[i - 1], i, modes[i]) ELSE t[i - 1]
  BY <1>1 DEF Touching
<1>4. 0 \in T
  <2>1. \A i \in 1 .. n : ~(i <= 0)
    BY <1>2
  <2>2. \A i \in 1 .. n : Said(0, i)
    BY <1>3, <2>1
  <2>3. Well(0)
    BY <1>3 DEF Typed
  <2>4. 0 \in 0 .. n
    BY <1>2
  <2> HIDE DEF Said, Well
  <2> QED BY <2>2, <2>3, <2>4
<1>5. ASSUME NEW j \in 1 .. n, j - 1 \in T
      PROVE  j \in T
  <2>1. Well(j - 1) /\ (UniqueNames => \A i \in 1 .. n : Said(j - 1, i))
    BY <1>5
  <2>2. modes[j] \in Int
    BY <1>2, ModeFacts
  <2>3. PICK d : d = t[j - 1]
    OBVIOUS
  <2>4. t[j] = IF NeedsTouchUp(j) THEN SetPerms(d, j, modes[j]) ELSE d
    BY <1>3, <2>3
  <2>5. Well(j)
    BY <2>1, <2>2, <2>3, <2>4, FormedSet
  <2>6. ASSUME UniqueNames, NEW i \in 1 .. n PROVE Said(j, i)
    <3> SUFFICES ASSUME NameOf(i) \in DOMAIN dest
                 PROVE  t[j][NameOf(i)] = IF i <= j /\ NeedsTouchUp(i) THEN New(i) ELSE Old(i)
      OBVIOUS
    <3> HIDE DEF Old, New
    <3>1. d[NameOf(i)] = IF i <= j - 1 /\ NeedsTouchUp(i) THEN New(i) ELSE Old(i)
      BY <2>1, <2>3, <2>6
    <3>2. NameOf(i) \in DOMAIN d
      BY <2>1, <2>3
    <3>3. t[j][NameOf(i)] = IF NeedsTouchUp(j) /\ NameOf(i) = NameOf(j)
                            THEN Stamped(d[NameOf(i)], j, modes[j]) ELSE d[NameOf(i)]
      BY <2>4, <3>2, SetPermsAt
    <3>4. CASE i = j
      <4>1. ~(i <= j - 1) /\ i <= j
        BY <3>4
      <4>2. d[NameOf(i)] = Old(i)
        BY <3>1, <4>1
      <4>3. Stamped(d[NameOf(i)], j, modes[j]) = New(i)
        BY <3>4, <4>2 DEF Old, New
      <4> QED BY <3>3, <3>4, <4>1, <4>2, <4>3
    <3>5. CASE i # j
      <4>1. NameOf(i) # NameOf(j)
        BY <1>2, <2>6, <3>5 DEF UniqueNames
      <4>2. i <= j <=> i <= j - 1
        BY <1>2, <3>5
      <4> QED BY <3>1, <3>3, <4>1, <4>2
    <3> QED BY <3>4, <3>5
  <2>7. j \in 0 .. n
    BY <1>2
  <2> HIDE DEF Said, Well
  <2> QED BY <2>5, <2>6, <2>7
<1>6. \A j \in 0 .. n : j \in T
  <2> HIDE DEF T, n
  <2> QED BY <1>2, <1>4, <1>5, UpTo
<1>7. n \in 0 .. n /\ \A i \in 1 .. n : i <= n
  BY <1>2
<1>8. Well(n) /\ (UniqueNames => \A i \in 1 .. n : Said(n, i))
  BY <1>6, <1>7
<1>9. TouchUpDirs = t[n]
  BY <1>1 DEF Touching
<1>10. Formed(TouchUpDirs) /\ DOMAIN TouchUpDirs = DOMAIN dest
  BY <1>8, <1>9
<1>11. ASSUME UniqueNames, NEW i \in DOMAIN fileList, NameOf(i) \in DOMAIN dest
       PROVE  TouchUpDirs[NameOf(i)] = IF NeedsTouchUp(i) THEN New(i) ELSE Old(i)
  BY <1>2, <1>7, <1>8, <1>9, <1>11
<1> QED BY <1>10, <1>11

-----------------------------------------------------------------------------
(* The names.                                                              *)

\* A position of the sorted list is of one of the list.
LEMMA OrderOnce ==
  ASSUME NEW names \in Seq(Seq(Nat))
  PROVE  \A k, l \in 1 .. Len(names) : Order(names)[k] = Order(names)[l] => k = l
<1> DEFINE S == 1 .. Len(names)
<1>1. PICK order : order = Order(names)
  OBVIOUS
<1>2. order \in [S -> S] /\ \A i \in S : \E k \in S : order[k] = i
  BY <1>1, OrderPermutes
<1>3. IsFiniteSet(S)
  <2>1. Len(names) \in Nat
    OBVIOUS
  <2> QED BY <2>1, FS_Interval
<1> HIDE DEF S
<1>4. order \in Surjection(S, S)
  BY <1>2 DEF Surjection
<1>5. order \in Injection(S, S)
  BY <1>3, <1>4, FS_Surjection
<1> QED BY <1>1, <1>5 DEF Injection, IsInjective, S

\* Sorting repeats nothing.
LEMMA InOrderOnce ==
  ASSUME NEW S, NEW list \in Seq(S), NEW names \in Seq(Seq(Nat)), Len(names) = Len(list),
         \A i, j \in DOMAIN list : list[i] = list[j] => i = j
  PROVE  \A i, j \in DOMAIN InOrder(list, names) :
           InOrder(list, names)[i] = InOrder(list, names)[j] => i = j
<1>1. PICK order : order = Order(names)
  OBVIOUS
<1>2. PICK n : n = Len(list)
  OBVIOUS
<1>3. DOMAIN list = 1 .. n
  BY <1>2
<1>4. /\ order \in [1 .. n -> 1 .. n]
      /\ \A k, l \in 1 .. n : order[k] = order[l] => k = l
  BY <1>1, <1>2, OrderPermutes, OrderOnce
<1>5. InOrder(list, names) = [k \in 1 .. n |-> list[order[k]]]
  BY <1>1, <1>3, Zenon DEF InOrder
<1>6. ASSUME NEW k \in 1 .. n, NEW l \in 1 .. n, list[order[k]] = list[order[l]] PROVE k = l
  <2>1. order[k] \in 1 .. n /\ order[l] \in 1 .. n
    BY <1>4
  <2> QED BY <1>3, <1>4, <1>6, <2>1
<1> QED BY <1>5, <1>6

NoSlash(c) == \A k \in DOMAIN c : c[k] # Slash

\* filepath.Dir cuts the last component.
LEMMA ParentCuts ==
  ASSUME Separator = Slash, NEW s \in Seq(Nat), NEW c \in Seq(Nat), NoSlash(c)
  PROVE  /\ Parent(s \o <<Slash>> \o c) = s /\ Parent(c) = Dot
         /\ ~NoSlash(s \o <<Slash>> \o c)
         /\ \A d \in Seq(Nat) : s \o <<Slash>> \o c = s \o <<Slash>> \o d => c = d
<1>1. PICK t : t = s \o <<Slash>> \o c
  OBVIOUS
<1>2. /\ t \in Seq(Nat) /\ Len(t) = Len(s) + 1 + Len(c)
      /\ \A k \in 1 .. Len(s) : t[k] = s[k]
      /\ t[Len(s) + 1] = Slash
      /\ \A k \in 1 .. Len(c) : t[Len(s) + 1 + k] = c[k]
  <2>1. Spliced(t, s, c)
    BY <1>1, SplicedIs
  <2> QED BY <2>1 DEF Spliced
<1>3. Len(s) \in Nat /\ Len(c) \in Nat /\ DOMAIN c = 1 .. Len(c) /\ DOMAIN t = 1 .. Len(t)
  BY <1>2
<1> DEFINE cuts == {k \in DOMAIN t : t[k] = Separator}
           m == Len(s) + 1
<1>4. m \in cuts
  BY <1>2, <1>3
<1>5. \A k \in cuts : k \in Nat /\ m >= k
  <2> SUFFICES ASSUME NEW k \in DOMAIN t, t[k] = Slash, ~(m >= k) PROVE FALSE
    BY <1>3
  <2>0. k \in 1 .. Len(s) + 1 + Len(c) /\ ~(m >= k)
    BY <1>2, <1>3
  <2>1. k - m \in 1 .. Len(c) /\ k = Len(s) + 1 + (k - m)
    BY <1>3, <2>0
  <2>2. t[k] = c[k - m]
    BY <1>2, <2>1
  <2> QED BY <1>3, <2>1, <2>2 DEF NoSlash
<1>6. Max(cuts) = m
  <2>1. PICK x : x = Max(cuts)
    OBVIOUS
  <2> HIDE DEF cuts
  <2>2. x \in cuts /\ \A y \in cuts : x >= y
    BY <1>4, <1>5, <2>1 DEF Max
  <2>3. x \in Nat /\ x >= m /\ m >= x
    BY <1>4, <1>5, <2>2
  <2> QED BY <1>3, <2>1, <2>3
<1>7. Parent(t) = SubSeq(t, 1, m - 1)
  BY <1>4, <1>6, Zenon DEF Parent
<1>8. SubSeq(t, 1, m - 1) = s
  <2>1. PICK u : u = SubSeq(t, 1, Len(s))
    OBVIOUS
  <2>2. u \in Seq(Nat) /\ Len(u) = Len(s) /\ \A k \in 1 .. Len(s) : u[k] = t[k]
    BY <1>2, <1>3, <2>1
  <2>3. u = s
    BY <1>2, <2>2, SameText
  <2> QED BY <1>3, <2>1, <2>3
<1>9. Parent(t) = s
  BY <1>7, <1>8
<1>10. Parent(c) = Dot
  <2>1. {k \in DOMAIN c : c[k] = Separator} = {}
    BY DEF NoSlash
  <2> QED BY <2>1 DEF Parent
<1>11. ~NoSlash(t)
  BY <1>4 DEF NoSlash
<1>12. ASSUME NEW d \in Seq(Nat), t = s \o <<Slash>> \o d PROVE c = d
  <2>1. /\ Len(t) = Len(s) + 1 + Len(d) /\ Len(d) \in Nat
        /\ \A k \in 1 .. Len(d) : t[Len(s) + 1 + k] = d[k]
    <3>1. Spliced(t, s, d)
      BY <1>12, SplicedIs
    <3> QED BY <3>1 DEF Spliced
  <2>2. Len(c) = Len(d)
    BY <1>2, <1>3, <2>1
  <2>3. \A k \in 1 .. Len(c) : c[k] = d[k]
    BY <1>2, <2>1, <2>2
  <2> QED BY <2>2, <2>3, SameText
<1> QED BY <1>1, <1>9, <1>10, <1>11, <1>12

\* The paths of a file system.
Good(path) == path \in Seq(Seq(Nat)) /\ \A k \in DOMAIN path : IsComponent(path[k])

LEMMA GoodUp ==
  ASSUME NEW path, Good(path), path # <<>>
  PROVE  /\ Good(Up(path)) /\ Len(Up(path)) = Len(path) - 1 /\ Len(path) \in Nat \ {0}
         /\ path[Len(path)] \in Seq(Nat) /\ NoSlash(path[Len(path)])
         /\ path[Len(path)] # Dot
<1>1. path \in Seq(Seq(Nat)) /\ \A k \in DOMAIN path : IsComponent(path[k])
  BY DEF Good
<1>2. /\ Len(path) \in Nat \ {0} /\ Len(path) \in DOMAIN path
      /\ DOMAIN path = 1 .. Len(path)
  BY <1>1
<1>3. Up(path) \in Seq(Seq(Nat)) /\ Len(Up(path)) = Len(path) - 1
  BY <1>1, TextUp
<1>4. \A k \in DOMAIN Up(path) : k \in DOMAIN path /\ Up(path)[k] = path[k]
  BY <1>1, <1>2 DEF Up
<1>5. Good(Up(path))
  BY <1>1, <1>3, <1>4 DEF Good
<1>6. IsComponent(path[Len(path)]) /\ path[Len(path)] \in Seq(Nat)
  BY <1>1, <1>2
<1> QED BY <1>2, <1>3, <1>5, <1>6 DEF IsComponent, NoSlash, Has

\* The directory of a name is that of the directory above.
LEMMA ParentUp ==
  ASSUME Separator = Slash, NEW path, Good(path), path # <<>>
  PROVE  /\ Parent(Text(path)) = Text(Up(path)) /\ Text(path) # Dot
         /\ NoSlash(Text(path)) <=> Len(path) = 1
<1>1. path \in Seq(Seq(Nat))
  BY DEF Good
<1>2. PICK c : c = path[Len(path)]
  OBVIOUS
<1>3. c \in Seq(Nat) /\ NoSlash(c) /\ c # Dot
  BY <1>2, GoodUp
<1>4. CASE Len(path) = 1
  <2>1. Up(path) = <<>> /\ Text(path) = c
    BY <1>1, <1>2, <1>4, TextUp
  <2>2. <<>> \in Seq(Nat)
    OBVIOUS
  <2>3. Parent(c) = Dot
    BY <1>3, <2>2, ParentCuts
  <2>4. Text(<<>>) = Dot
    BY DEF Text
  <2> QED BY <1>3, <1>4, <2>1, <2>3, <2>4
<1>5. CASE Len(path) # 1
  <2>1. PICK s : s = Text(Up(path))
    OBVIOUS
  <2>2. Up(path) \in Seq(Seq(Nat)) /\ Text(path) = s \o <<Slash>> \o c
    BY <1>1, <1>2, <1>5, <2>1, TextUp
  <2>3. s \in Seq(Nat)
    BY <2>1, <2>2, TextType
  <2>4. Parent(Text(path)) = s /\ ~NoSlash(Text(path))
    BY <1>3, <2>2, <2>3, ParentCuts
  <2>5. NoSlash(Dot)
    BY DEF NoSlash, Dot, Slash
  <2> QED BY <1>5, <2>1, <2>4, <2>5
<1> QED BY <1>4, <1>5

\* Two paths have two names.
LEMMA TextOnce ==
  ASSUME Separator = Slash, NEW p, Good(p), NEW q, Good(q), Text(p) = Text(q)
  PROVE  p = q
<1> DEFINE n == Len(p)
           Only(k) == \A x, y : Good(x) /\ Good(y) /\ Len(x) = k /\ Text(x) = Text(y) => x = y
           T == {k \in 0 .. n : Only(k)}
<1>1. n \in Nat
  BY DEF Good
<1>2. \A x : Good(x) => Len(x) \in Nat /\ (Len(x) = 0 <=> x = <<>>)
  BY DEF Good
<1>3. 0 \in T
  <2> SUFFICES ASSUME NEW x, NEW y, Good(x), Good(y), Len(x) = 0, Text(x) = Text(y) PROVE x = y
    BY <1>1
  <2>1. Text(x) = Dot
    BY <1>2 DEF Text
  <2>2. y = <<>>
    BY <2>1, ParentUp
  <2> QED BY <1>2, <2>2
<1>4. ASSUME NEW k \in 1 .. n, k - 1 \in T PROVE k \in T
  <2> SUFFICES ASSUME NEW x, NEW y, Good(x), Good(y), Len(x) = k, Text(x) = Text(y) PROVE x = y
    OBVIOUS
  <2>0. Only(k - 1)
    BY <1>4
  <2>1. x # <<>> /\ k # 0
    BY <1>2
  <2>2. y # <<>>
    <3>1. Text(<<>>) = Dot
      BY DEF Text
    <3> QED BY <2>1, <3>1, ParentUp
  <2>3. Text(Up(x)) = Text(Up(y)) /\ (Len(x) = 1 <=> Len(y) = 1)
    BY <2>1, <2>2, ParentUp
  <2>4. /\ Good(Up(x)) /\ Good(Up(y)) /\ Len(Up(x)) = k - 1 /\ Len(Up(y)) = Len(y) - 1
        /\ Len(y) \in Nat \ {0}
    BY <2>1, <2>2, GoodUp
  <2>5. Up(x) = Up(y)
    <3> HIDE DEF T
    <3> QED BY <2>0, <2>3, <2>4
  <2>6. Len(y) = k
    BY <2>4, <2>5
  <2>7. x[k] = y[k]
    <3>1. PICK c, d : c = x[k] /\ d = y[k]
      OBVIOUS
    <3>2. c \in Seq(Nat) /\ NoSlash(c) /\ d \in Seq(Nat) /\ NoSlash(d)
      BY <2>1, <2>2, <2>6, <3>1, GoodUp
    <3>3. x \in Seq(Seq(Nat)) /\ y \in Seq(Seq(Nat))
      BY DEF Good
    <3>4. CASE k = 1
      <4>1. Text(x) = c /\ Text(y) = d
        BY <2>1, <2>2, <2>6, <3>1, <3>3, <3>4, TextUp
      <4> QED BY <3>1, <4>1
    <3>5. CASE k # 1
      <4>1. PICK s : s = Text(Up(x))
        OBVIOUS
      <4>2. s \in Seq(Nat)
        BY <2>4, <4>1, TextType DEF Good
      <4>3. Text(x) = s \o <<Slash>> \o c
        BY <2>1, <3>1, <3>3, <3>5, <4>1, TextUp
      <4>4. Text(y) = s \o <<Slash>> \o d
        BY <2>2, <2>5, <2>6, <3>1, <3>3, <3>5, <4>1, TextUp
      <4>5. s \o <<Slash>> \o c = s \o <<Slash>> \o d
        BY <4>3, <4>4
      <4>6. c = d
        BY <3>2, <4>2, <4>5, ParentCuts
      <4> QED BY <3>1, <4>6
    <3> QED BY <3>4, <3>5
  <2>8. \A j \in 1 .. k - 1 : x[j] = y[j]
    <3>1. x \in Seq(Seq(Nat)) /\ y \in Seq(Seq(Nat))
      BY DEF Good
    <3>2. \A j \in 1 .. k - 1 : Up(x)[j] = x[j] /\ Up(y)[j] = y[j]
      BY <2>6, <3>1 DEF Up
    <3> QED BY <2>5, <3>2
  <2>9. \A j \in 1 .. k : x[j] = y[j]
    <3>1. \A j \in 1 .. k : j = k \/ j \in 1 .. k - 1
      OBVIOUS
    <3> QED BY <2>7, <2>8, <3>1
  <2>10. x \in Seq(Seq(Nat)) /\ y \in Seq(Seq(Nat))
    BY DEF Good
  <2> QED BY <2>6, <2>9, <2>10
<1>5. \A k \in 0 .. n : k \in T
  <2> HIDE DEF T, n
  <2> QED BY <1>1, <1>3, <1>4, UpTo
<1>6. n \in T
  <2> HIDE DEF T
  <2> QED BY <1>1, <1>5
<1> QED BY <1>6

\* What is cut from the path of an entry.
CutOf(path) ==
  LET n == Len(job.path)
  IN IF job.push THEN IF job.slash \/ n = 0 THEN n ELSE n - 1
     ELSE IF job.slash /\ Len(path) > n THEN n ELSE 0

\* The tree has the directories above its entries.
LEMMA TreeGood ==
  ASSUME NEW path \in DOMAIN Tree
  PROVE  /\ Good(path) /\ path \in Seq(Seq(Nat)) /\ Len(path) \in Nat
         /\ \A k \in 1 .. Len(path) :
              SubSeq(path, 1, k - 1) \in DOMAIN Tree /\ Tree[SubSeq(path, 1, k - 1)].kind = "dir"
<1>1. path \in Seq(Seq(Nat))
  BY ListConstants
<1>2. DOMAIN path = 1 .. Len(path) /\ Len(path) \in Nat
  BY <1>1
<1>3. \A k \in DOMAIN path : IsComponent(path[k])
  BY ListConstants
<1>4. \A k \in DOMAIN path :
        SubSeq(path, 1, k - 1) \in DOMAIN Tree /\ Tree[SubSeq(path, 1, k - 1)].kind = "dir"
  BY ListConstants
<1> QED BY <1>1, <1>2, <1>3, <1>4 DEF Good

\* The walk is below the path that was asked for.
WireOf(p) ==
  LET n == Len(job.path)
      c == CutOf(p)
      w == WireName(p)
  IN /\ n \in Nat /\ Len(p) \in Nat /\ n <= Len(p) /\ c \in 0 .. n
     /\ \A k \in 1 .. n : p[k] = job.path[k]
     /\ w \in Seq(Seq(Nat)) /\ Len(w) = Len(p) - c
     /\ \A k \in 1 .. Len(p) - c : w[k] = p[c + k]

LEMMA WireIs ==
  ASSUME job \in Jobs, NEW p \in WalkOf(job.path)
  PROVE  WireOf(p) /\ Good(p) /\ Good(WireName(p)) /\ Good(job.path) /\ p \in DOMAIN Tree
<1>1. p \in DOMAIN Tree /\ IsPrefix(job.path, p) /\ job.path \in DOMAIN Tree
  BY ListConstants DEF WalkOf
<1>2. Good(p) /\ Good(job.path) /\ p \in Seq(Seq(Nat)) /\ job.path \in Seq(Seq(Nat))
  BY <1>1, TreeGood
<1>3. PICK n : n = Len(job.path)
  OBVIOUS
<1>4. PICK m : m = Len(p)
  OBVIOUS
<1>5. PICK c : c = CutOf(p)
  OBVIOUS
<1>6. n \in Nat /\ m \in Nat /\ n <= m
  BY <1>1, <1>2, <1>3, <1>4 DEF IsPrefix
<1>7. ASSUME NEW k \in 1 .. n PROVE p[k] = job.path[k]
  <2>1. SubSeq(job.path, 1, n) = SubSeq(p, 1, n)
    BY <1>1, <1>3 DEF IsPrefix
  <2>2. SubSeq(job.path, 1, n)[k] = job.path[k]
    BY <1>2, <1>3, <1>6
  <2>3. SubSeq(p, 1, n)[k] = p[k]
    BY <1>2, <1>4, <1>6
  <2> QED BY <2>1, <2>2, <2>3
<1>8. c \in 0 .. n
  BY <1>3, <1>5, <1>6 DEF CutOf
<1>9. PICK w : w = WireName(p)
  OBVIOUS
<1>10. w = SubSeq(p, c + 1, m)
  BY <1>4, <1>5, <1>9 DEF WireName, CutOf
<1>11. w \in Seq(Seq(Nat)) /\ Len(w) = m - c
  BY <1>2, <1>4, <1>6, <1>8, <1>10
<1>12. \A k \in 1 .. m - c : w[k] = p[c + k]
  BY <1>2, <1>4, <1>6, <1>8, <1>10
<1>13. WireOf(p)
  BY <1>3, <1>4, <1>5, <1>6, <1>7, <1>8, <1>9, <1>11, <1>12 DEF WireOf
<1>14. Good(w)
  <2> SUFFICES ASSUME NEW k \in 1 .. m - c PROVE IsComponent(w[k])
    BY <1>11 DEF Good
  <2>1. c + k \in DOMAIN p
    BY <1>2, <1>4, <1>6, <1>8
  <2> QED BY <1>2, <1>12, <2>1 DEF Good
<1> QED BY <1>1, <1>2, <1>9, <1>13, <1>14

\* Where as much is cut the path can be told from the name.
LEMMA SameCut ==
  ASSUME job \in Jobs, NEW p \in WalkOf(job.path), NEW q \in WalkOf(job.path),
         CutOf(p) = CutOf(q)
  PROVE  \A k \in 1 .. Len(p) : k <= Len(q) /\
           (k > CutOf(p) => WireName(p)[k - CutOf(p)] = WireName(q)[k - CutOf(p)])
             => p[k] = q[k]
<1> SUFFICES ASSUME NEW k \in 1 .. Len(p), k <= Len(q),
                    k > CutOf(p) => WireName(p)[k - CutOf(p)] = WireName(q)[k - CutOf(p)]
             PROVE  p[k] = q[k]
  OBVIOUS
<1>1. PICK c : c = CutOf(p)
  OBVIOUS
<1>2. PICK n : n = Len(job.path)
  OBVIOUS
<1>3. /\ n \in Nat /\ Len(p) \in Nat /\ c \in 0 .. n
      /\ \A j \in 1 .. n : p[j] = job.path[j]
      /\ \A j \in 1 .. Len(p) - c : WireName(p)[j] = p[c + j]
  BY <1>1, <1>2, WireIs DEF WireOf
<1>4. /\ Len(q) \in Nat /\ \A j \in 1 .. n : q[j] = job.path[j]
      /\ \A j \in 1 .. Len(q) - c : WireName(q)[j] = q[c + j]
  BY <1>1, <1>2, WireIs DEF WireOf
<1>5. CASE k <= c
  <2>1. k \in 1 .. n
    BY <1>3, <1>5
  <2> QED BY <1>3, <1>4, <2>1
<1>6. CASE ~(k <= c)
  <2>1. k - c \in 1 .. Len(p) - c /\ k - c \in 1 .. Len(q) - c /\ c + (k - c) = k /\ k > c
    BY <1>3, <1>4, <1>6
  <2>2. WireName(p)[k - c] = p[k] /\ WireName(q)[k - c] = q[k]
    BY <1>3, <1>4, <2>1
  <2> QED BY <1>1, <2>1, <2>2
<1> QED BY <1>5, <1>6

\* Only a module's path with a slash is cut from some names and not from others.
LEMMA CutsDiffer ==
  ASSUME job \in Jobs, NEW p \in WalkOf(job.path), NEW q \in WalkOf(job.path),
         CutOf(p) # CutOf(q), Len(p) <= Len(q)
  PROVE  /\ ~job.push /\ job.slash /\ job.path # <<>> /\ p = job.path /\ Len(q) > Len(job.path)
         /\ CutOf(p) = 0 /\ CutOf(q) = Len(job.path) /\ WireName(p) = p
<1>1. PICK n : n = Len(job.path)
  OBVIOUS
<1>2. /\ n \in Nat /\ Len(p) \in Nat /\ n <= Len(p) /\ Len(q) \in Nat /\ n <= Len(q)
      /\ \A k \in 1 .. n : p[k] = job.path[k]
      /\ p \in Seq(Seq(Nat)) /\ job.path \in Seq(Seq(Nat))
  BY <1>1, WireIs DEF WireOf, Good
<1>3. ~job.push /\ job.slash
  BY DEF CutOf
<1>4. Len(q) > n /\ Len(p) = n
  BY <1>1, <1>2, <1>3 DEF CutOf
<1>5. CutOf(p) = 0 /\ CutOf(q) = n
  BY <1>1, <1>2, <1>3, <1>4 DEF CutOf
<1>6. n # 0
  BY <1>5
<1>7. p = job.path
  BY <1>1, <1>2, <1>4, SameText
<1>8. WireName(p) = p
  <2>0. WireOf(p)
    BY WireIs
  <2>1. /\ WireName(p) \in Seq(Seq(Nat)) /\ Len(WireName(p)) = Len(p) - CutOf(p)
        /\ \A k \in 1 .. Len(p) - CutOf(p) : WireName(p)[k] = p[CutOf(p) + k]
    BY <2>0, Zenon DEF WireOf
  <2>2. Len(WireName(p)) = Len(p) /\ \A k \in 1 .. Len(p) : WireName(p)[k] = p[k]
    BY <1>2, <1>5, <2>1
  <2> QED BY <1>2, <2>1, <2>2, SameText
<1>9. job.path # <<>>
  BY <1>1, <1>6
<1> QED BY <1>1, <1>3, <1>4, <1>5, <1>7, <1>8, <1>9

\* A directory that is asked for by its name in a module, with a slash, is in
\* the list under this name, and so is what has the same name in it.
OwnName ==
  job.push \/ ~job.slash \/ job.path = <<>> \/ job.path \o job.path \notin DOMAIN Tree

\* What is below a path with as much again.
LEMMA Doubled ==
  ASSUME NEW r \in Seq(Seq(Nat)), NEW q \in Seq(Seq(Nat)), Len(q) = Len(r) + Len(r),
         \A k \in 1 .. Len(r) : q[k] = r[k], \A k \in 1 .. Len(r) : q[Len(r) + k] = r[k]
  PROVE  q = r \o r
<1>1. \A k \in 1 .. Len(r) : q[k + Len(r)] = r[k]
  <2> SUFFICES ASSUME NEW k \in 1 .. Len(r) PROVE q[k + Len(r)] = r[k]
    OBVIOUS
  <2>1. k + Len(r) = Len(r) + k
    OBVIOUS
  <2> QED BY <2>1
<1> QED BY <1>1, Joined

\* Two entries have two names.
LEMMA WireOnce ==
  ASSUME job \in Jobs, OwnName, NEW p \in WalkOf(job.path), NEW q \in WalkOf(job.path),
         WireName(p) = WireName(q), Len(p) <= Len(q)
  PROVE  p = q
<1>1. /\ Len(p) \in Nat /\ Len(q) \in Nat /\ CutOf(p) \in Nat /\ CutOf(q) \in Nat
      /\ Len(WireName(p)) = Len(p) - CutOf(p) /\ Len(WireName(q)) = Len(q) - CutOf(q)
      /\ p \in Seq(Seq(Nat)) /\ q \in Seq(Seq(Nat)) /\ q \in DOMAIN Tree
  BY WireIs DEF WireOf, Good
<1>2. CASE CutOf(p) = CutOf(q)
  <2>1. Len(p) = Len(q)
    BY <1>1, <1>2
  <2>2. ASSUME NEW k \in 1 .. Len(p) PROVE p[k] = q[k]
    <3>1. k <= Len(q)
      BY <1>1, <2>1
    <3> QED BY <1>2, <3>1, SameCut
  <2> QED BY <1>1, <2>1, <2>2, SameText
<1>3. CASE CutOf(p) # CutOf(q)
  <2>1. /\ ~job.push /\ job.slash /\ job.path # <<>> /\ p = job.path
        /\ CutOf(p) = 0 /\ CutOf(q) = Len(p) /\ WireName(p) = p
    BY <1>3, CutsDiffer
  <2>2. Len(q) = Len(p) + Len(p)
    BY <1>1, <2>1
  <2>0. WireOf(q)
    BY WireIs
  <2>3. \A k \in 1 .. Len(p) : q[k] = p[k]
    BY <2>0, <2>1 DEF WireOf
  <2>4. \A k \in 1 .. Len(q) - Len(p) : WireName(q)[k] = q[Len(p) + k]
    BY <2>0, <2>1 DEF WireOf
  <2>5. \A k \in 1 .. Len(p) : q[Len(p) + k] = p[k]
    BY <1>1, <2>1, <2>2, <2>4
  <2>6. q = p \o p
    BY <1>1, <2>2, <2>3, <2>5, Doubled
  <2> QED BY <1>1, <2>1, <2>6 DEF OwnName
<1> QED BY <1>2, <1>3

\* The name of what is asked for itself may be nothing; then it is a directory.
LEMMA NoName ==
  ASSUME job \in Jobs, NEW p \in WalkOf(job.path), WireName(p) = <<>>
  PROVE  Tree[p].kind = "dir"
<1>1. PICK n : n = Len(job.path)
  OBVIOUS
<1>2. /\ n \in Nat /\ Len(p) \in Nat /\ n <= Len(p) /\ CutOf(p) \in 0 .. n
      /\ \A k \in 1 .. n : p[k] = job.path[k]
      /\ Len(WireName(p)) = Len(p) - CutOf(p)
  BY <1>1, WireIs DEF WireOf
<1>3. p \in Seq(Seq(Nat)) /\ job.path \in Seq(Seq(Nat))
  BY WireIs DEF Good
<1>4. Len(p) = CutOf(p)
  BY <1>2
<1>5. Len(p) = n
  BY <1>2, <1>4
<1>6. p = job.path
  BY <1>1, <1>2, <1>3, <1>5, SameText
<1>7. (job.push /\ job.slash) \/ n = 0
  BY <1>1, <1>2, <1>4, <1>5 DEF CutOf
<1>8. CASE job.push /\ job.slash
  BY <1>6, <1>8, ListConstants
<1>9. CASE n = 0
  <2>1. p = <<>>
    BY <1>3, <1>5, <1>9
  <2> QED BY <2>1, ListConstants
<1> QED BY <1>7, <1>8, <1>9

\* What has the name of a directory of a file is a directory.
LEMMA AboveFile ==
  ASSUME job \in Jobs, OwnName, NEW p \in WalkOf(job.path), NEW q \in WalkOf(job.path),
         Tree[p].kind = "file", WireName(q) = Up(WireName(p))
  PROVE  Tree[q].kind = "dir"
<1>1. WireName(p) # <<>>
  BY NoName
<1>2. PICK m : m = Len(p)
  OBVIOUS
<1>3. PICK c : c = CutOf(p)
  OBVIOUS
<1>4. /\ m \in Nat /\ c \in Nat /\ WireName(p) \in Seq(Seq(Nat)) /\ Len(WireName(p)) = m - c
      /\ p \in Seq(Seq(Nat)) /\ p \in DOMAIN Tree
  BY <1>2, <1>3, WireIs DEF WireOf, Good
<1>5. /\ Len(q) \in Nat /\ CutOf(q) \in Nat /\ Len(WireName(q)) = Len(q) - CutOf(q)
      /\ q \in Seq(Seq(Nat)) /\ q \in DOMAIN Tree
  BY WireIs DEF WireOf, Good
<1>6. m - c \in Nat \ {0} /\ Len(Up(WireName(p))) = m - c - 1
  <2>1. Len(WireName(p)) \in Nat \ {0} /\ Len(Up(WireName(p))) = Len(WireName(p)) - 1
    BY <1>1, <1>4, TextUp
  <2> QED BY <1>4, <2>1
<1>7. \A k \in 1 .. m - c - 1 : WireName(q)[k] = WireName(p)[k]
  BY <1>4, <1>6 DEF Up
<1>8. m \in 1 .. m /\ SubSeq(p, 1, m - 1) \in DOMAIN Tree /\ Tree[SubSeq(p, 1, m - 1)].kind = "dir"
  <2>1. m \in 1 .. m
    BY <1>4, <1>6
  <2> QED BY <1>2, <1>4, <2>1, TreeGood
<1>9. PICK r : r = SubSeq(p, 1, m - 1)
  OBVIOUS
<1>10. r \in Seq(Seq(Nat)) /\ Len(r) = m - 1 /\ \A k \in 1 .. m - 1 : r[k] = p[k]
  BY <1>2, <1>4, <1>8, <1>9
<1>0. Len(q) - CutOf(q) = m - c - 1 /\ Len(q) \in Nat
  <2>1. Len(WireName(q)) = Len(q) - CutOf(q) /\ Len(WireName(q)) = m - c - 1
    BY <1>5, <1>6
  <2> QED BY <1>5, <2>1
<1>11. CASE CutOf(q) = c
  <2>1. Len(q) = m - 1
    BY <1>0, <1>4, <1>11
  <2>2. ASSUME NEW k \in 1 .. m - 1 PROVE q[k] = p[k]
    <3>1. k \in 1 .. Len(q) /\ k <= Len(p)
      BY <1>2, <1>4, <2>1
    <3>2. ASSUME k > c PROVE WireName(q)[k - c] = WireName(p)[k - c]
      <4>1. k - c \in 1 .. m - c - 1
        BY <1>4, <3>2
      <4> QED BY <1>7, <4>1
    <3> QED BY <1>3, <1>11, <3>1, <3>2, SameCut
  <2>3. q = r
    BY <1>5, <1>10, <2>1, <2>2, SameText
  <2> QED BY <1>8, <1>9, <2>3
<1>12. CASE CutOf(q) # c /\ Len(p) <= Len(q)
  <2>1. p = job.path /\ Len(q) > Len(job.path)
    BY <1>3, <1>12, CutsDiffer
  <2>2. m + 1 \in 1 .. Len(q)
    BY <1>2, <1>4, <1>5, <2>1
  <2>3. Tree[SubSeq(q, 1, (m + 1) - 1)].kind = "dir"
    BY <1>5, <2>2, TreeGood
  <2>4. \A k \in 1 .. m : q[k] = p[k]
    <3>1. WireOf(q)
      BY WireIs
    <3> QED BY <1>2, <2>1, <3>1 DEF WireOf
  <2>5. SubSeq(q, 1, m) = p
    <3>1. PICK u : u = SubSeq(q, 1, m)
      OBVIOUS
    <3>2. u \in Seq(Seq(Nat)) /\ Len(u) = m /\ \A k \in 1 .. m : u[k] = q[k]
      BY <1>4, <1>5, <2>2, <3>1
    <3>3. \A k \in 1 .. m : u[k] = p[k]
      BY <2>4, <3>2
    <3> QED BY <1>2, <1>4, <3>1, <3>2, <3>3, SameText
  <2>6. (m + 1) - 1 = m
    BY <1>4
  <2> QED BY <2>3, <2>5, <2>6
<1>13. CASE CutOf(q) # c /\ ~(Len(p) <= Len(q))
  <2>1. /\ ~job.push /\ job.slash /\ job.path # <<>> /\ q = job.path
        /\ c = Len(job.path) /\ WireName(q) = q
    <3>1. Len(q) <= Len(p)
      BY <1>2, <1>4, <1>5, <1>13
    <3> QED BY <1>3, <1>13, <3>1, CutsDiffer
  <2>2. Len(q) = c /\ m - 1 = c + c
    <3>1. CutOf(q) = 0
      <4>1. Len(q) <= Len(p)
        BY <1>0, <1>2, <1>4, <1>13
      <4> QED BY <1>3, <1>13, <4>1, CutsDiffer
    <3>2. Len(q) = c
      BY <2>1
    <3> QED BY <1>0, <1>4, <3>1, <3>2
  <2>3. WireOf(p)
    BY WireIs
  <2>4. \A k \in 1 .. c : p[k] = q[k]
    BY <2>1, <2>3 DEF WireOf
  <2>5. \A k \in 1 .. m - c : WireName(p)[k] = p[c + k]
    BY <1>2, <1>3, <2>3 DEF WireOf
  <2>6. \A k \in 1 .. c : p[c + k] = q[k]
    <3> SUFFICES ASSUME NEW k \in 1 .. c PROVE p[c + k] = q[k]
      OBVIOUS
    <3>1. k \in 1 .. m - c /\ k \in 1 .. m - c - 1
      BY <1>4, <2>2
    <3> QED BY <1>7, <2>1, <2>5, <3>1
  <2>7. \A k \in 1 .. c : k \in 1 .. m - 1 /\ c + k \in 1 .. m - 1
    BY <1>4, <2>2
  <2>8. \A k \in 1 .. c : r[k] = q[k] /\ r[c + k] = q[k]
    BY <1>10, <2>4, <2>6, <2>7
  <2>9. r = q \o q
    BY <1>5, <1>10, <2>2, <2>8, Doubled
  <2> QED BY <1>8, <1>9, <2>1, <2>9 DEF OwnName
<1> QED BY <1>11, <1>12, <1>13

\* What is above a file in the list is a directory.
AboveIsDir ==
  \A i, j \in DOMAIN fileList :
    EntryKind(i) = "file" /\ NameOf(j) = Parent(NameOf(i)) => EntryKind(j) = "dir"


\* The walk stays below what was asked for, and lists nothing twice.
Once ==
  /\ rest \cup ToSet(files) \subseteq WalkOf(job.path)
  /\ \A i, j \in DOMAIN files : files[i] = files[j] => i = j

LEMMA OnceInit == Init => Once
<1> SUFFICES ASSUME Init PROVE Once
  OBVIOUS
<1>1. rest = WalkOf(job.path) /\ files = <<>>
  BY DEF Init
<1>2. ToSet(files) = {} /\ DOMAIN files = {}
  BY <1>1 DEF ToSet
<1> QED BY <1>1, <1>2 DEF Once

LEMMA OnceStep ==
  ASSUME Walked, Once, [Next]_listVars
  PROVE  Once'
<1>1. /\ job \in Jobs /\ rest \subseteq DOMAIN Tree /\ files \in Seq(DOMAIN Tree)
      /\ rest \cap ToSet(files) = {}
  BY DEF Walked
<1>2. /\ rest \cup ToSet(files) \subseteq WalkOf(job.path)
      /\ \A i, j \in DOMAIN files : files[i] = files[j] => i = j
  BY DEF Once
<1>3. ASSUME Visiting
      PROVE  /\ This \in rest /\ This \in DOMAIN Tree
             /\ SkipDir(rest, This) \subseteq rest \ {This} /\ AfterSent \subseteq rest \ {This}
  BY <1>1, <1>3, SkipFacts DEF Visiting
<1>4. CASE WalkVanished \/ WalkSkip \/ WalkExclude
  <2>1. Visiting /\ rest' \subseteq rest /\ files' = files /\ job' = job
    BY <1>3, <1>4 DEF WalkVanished, WalkSkip, WalkExclude, Wanted, jobVars
  <2> QED BY <1>2, <2>1 DEF Once
<1>5. CASE WalkSend \/ WalkUnreadable \/ WalkFail
  <2>1. Visiting /\ job' = job
    BY <1>5 DEF WalkSend, WalkUnreadable, WalkFail, Wanted, jobVars
  <2>2. PICK this : this = This
    OBVIOUS
  <2>3. /\ files' = Append(files, this) /\ rest' \subseteq rest
        /\ this \in rest /\ this \in DOMAIN Tree
    BY <1>3, <1>5, <2>1, <2>2 DEF WalkSend, WalkUnreadable, WalkFail, Noted
  <2>4. ToSet(files') = ToSet(files) \cup {this}
    BY <1>1, <2>3, AppendSet
  <2>5. ASSUME NEW i \in DOMAIN files', NEW j \in DOMAIN files', files'[i] = files'[j]
        PROVE  i = j
    <3>1. /\ Len(files) \in Nat /\ DOMAIN files' = 1 .. Len(files) + 1
          /\ DOMAIN files = 1 .. Len(files)
          /\ files'[Len(files) + 1] = this /\ \A k \in 1 .. Len(files) : files'[k] = files[k]
      BY <1>1, <2>3
    <3>2. \A k \in 1 .. Len(files) : files'[k] = files[k] /\ files[k] # this
      <4>1. \A k \in DOMAIN files : files[k] \in ToSet(files)
        BY DEF ToSet
      <4> QED BY <1>1, <2>3, <3>1, <4>1
    <3>3. \A k \in DOMAIN files' : k = Len(files) + 1 \/ k \in 1 .. Len(files)
      BY <3>1
    <3> QED BY <1>2, <2>5, <3>1, <3>2, <3>3
  <2> QED BY <1>2, <2>1, <2>3, <2>4, <2>5 DEF Once
<1>6. CASE SendEnd
  <2>1. rest' = rest /\ files' = SortedFiles /\ job' = job
    BY <1>6 DEF SendEnd, FilesToSend, jobVars
  <2>2. ToSet(SortedFiles) = ToSet(files)
    BY <1>1, SortedFilesFacts
  <2>3. PICK names : names = [i \in DOMAIN files |-> Text(WireName(files[i]))]
    OBVIOUS
  <2>4. DOMAIN files = 1 .. Len(files) /\ Len(files) \in Nat
    BY <1>1
  <2>5. \A i \in 1 .. Len(files) : Text(WireName(files[i])) \in Seq(Nat)
    BY <1>1, WireNameType
  <2>6. names \in Seq(Seq(Nat)) /\ Len(names) = Len(files)
    BY <2>3, <2>4, <2>5
  <2>7. \A i, j \in DOMAIN InOrder(files, names) :
          InOrder(files, names)[i] = InOrder(files, names)[j] => i = j
    BY <1>1, <1>2, <2>6, InOrderOnce
  <2>8. SortedFiles = InOrder(files, names)
    BY <2>3 DEF SortedFiles
  <2> QED BY <1>2, <2>1, <2>2, <2>7, <2>8 DEF Once
<1>7. CASE Receive \/ UNCHANGED listVars
  <2>1. UNCHANGED jobVars /\ UNCHANGED sendVars
    BY <1>7, ReceiveKeeps DEF listVars
  <2> QED BY <1>2, <2>1 DEF Once, jobVars, sendVars
<1> QED BY <1>4, <1>5, <1>6, <1>7 DEF Next, Walk

\* Every name of the list is that of a path, and the entry has its kind.
LEMMA ListPaths ==
  ASSUME IInv, Once, Done, DevicesAsOne, Separator = Slash, NEW i \in DOMAIN fileList
  PROVE  \E p \in WalkOf(job.path) :
           NameOf(i) = Text(WireName(p)) /\ EntryKind(i) = Tree[p].kind
<1>1. job \in Jobs
  BY DEF IInv, Walked
<1>2. ToSet(fileList) = {Expected(path) : path \in ToSet(files)}
  BY Faithful DEF ListFaithful
<1>3. fileList[i] \in ToSet(fileList)
  BY DEF ToSet
<1>4. PICK p \in ToSet(files) : fileList[i] = Expected(p)
  BY <1>2, <1>3
<1>5. p \in WalkOf(job.path) /\ p \in DOMAIN Tree
  BY <1>4 DEF Once, WalkOf
<1>6. PICK info : info = Tree[p]
  OBVIOUS
<1>7. /\ fileList[i]["Name"] = Cleaned(Text(WireName(p))) /\ fileList[i]["Mode"] = ModeOf(info)
  BY <1>4, <1>5, <1>6, ExpectedIs
<1>8. NameOf(i) = Text(WireName(p))
  <2>1. PICK t : t = Text(WireName(p))
    OBVIOUS
  <2>2. t \in Seq(Nat)
    BY <1>1, <1>5, <2>1, WireNameType
  <2>3. Cleaned(t) = t
    <3>1. \A j \in DOMAIN t : (IF t[j] = Slash THEN Separator ELSE t[j]) = t[j]
      OBVIOUS
    <3>2. t = [j \in DOMAIN t |-> t[j]]
      BY <2>2
    <3> QED BY <3>1, <3>2 DEF Cleaned
  <2> QED BY <1>7, <2>1, <2>3 DEF NameOf
<1>9. EntryKind(i) = info.kind
  <2>1. info \in FileInfo
    BY <1>5, <1>6, ListConstants
  <2>2. FileType(ModeOf(info)) = TypeOf(info.kind) /\ info.kind \in Kinds
    BY <2>1, KindTypes DEF FileInfo
  <2>3. EntryKind(i) \in Kinds /\ FileType(fileList[i].Mode) = TypeOf(EntryKind(i))
    BY ListIsOK DEF ListOK, EntryOK
  <2> QED BY <1>7, <2>2, <2>3, TypesDiffer
<1> QED BY <1>5, <1>6, <1>8, <1>9

\* No name is in the list twice.
LEMMA NamesUnique ==
  ASSUME IInv, Once, Done, DevicesAsOne, Separator = Slash, OwnName
  PROVE  UniqueNames
<1> SUFFICES ASSUME NEW i \in DOMAIN fileList, NEW j \in DOMAIN fileList, NameOf(i) = NameOf(j)
             PROVE  i = j
  BY DEF UniqueNames
<1>1. job \in Jobs /\ files \in Seq(DOMAIN Tree)
  BY DEF IInv, Walked
<1>2. /\ Len(fileList) = Len(files)
      /\ \A k \in DOMAIN files : fileList[k].Name = Cleaned(Text(WireName(files[k])))
  BY OwnNames DEF LandsUnderOwnName
<1>3. DOMAIN fileList = 1 .. Len(fileList)
  BY ListIsOK DEF ListOK
<1>4. i \in DOMAIN files /\ j \in DOMAIN files
  BY <1>1, <1>2, <1>3
<1>5. PICK p, q : p = files[i] /\ q = files[j]
  OBVIOUS
<1>6. p \in WalkOf(job.path) /\ q \in WalkOf(job.path) /\ p \in DOMAIN Tree /\ q \in DOMAIN Tree
  BY <1>4, <1>5 DEF Once, ToSet, WalkOf
<1>7. \A t \in Seq(Nat) : Cleaned(t) = t
  <2> SUFFICES ASSUME NEW t \in Seq(Nat) PROVE Cleaned(t) = t
    OBVIOUS
  <2>1. \A k \in DOMAIN t : (IF t[k] = Slash THEN Separator ELSE t[k]) = t[k]
    OBVIOUS
  <2>2. t = [k \in DOMAIN t |-> t[k]]
    OBVIOUS
  <2> QED BY <2>1, <2>2 DEF Cleaned
<1>8. Text(WireName(p)) = Text(WireName(q))
  <2>1. Text(WireName(p)) \in Seq(Nat) /\ Text(WireName(q)) \in Seq(Nat)
    BY <1>1, <1>6, WireNameType
  <2>2. Cleaned(Text(WireName(p))) = Cleaned(Text(WireName(q)))
    BY <1>2, <1>4, <1>5 DEF NameOf
  <2> QED BY <1>7, <2>1, <2>2
<1>9. Good(WireName(p)) /\ Good(WireName(q)) /\ Len(p) \in Nat /\ Len(q) \in Nat
  BY <1>1, <1>6, WireIs DEF WireOf
<1>10. WireName(p) = WireName(q)
  BY <1>8, <1>9, TextOnce
<1>11. p = q
  <2>1. CASE Len(p) <= Len(q)
    BY <1>1, <1>6, <1>10, <2>1, WireOnce
  <2>2. CASE Len(q) <= Len(p)
    BY <1>1, <1>6, <1>10, <2>2, WireOnce
  <2> QED BY <1>9, <2>1, <2>2
<1> QED BY <1>4, <1>5, <1>11 DEF Once

\* What is above a file is a directory.
LEMMA NamesAbove ==
  ASSUME IInv, Once, Done, DevicesAsOne, Separator = Slash, OwnName
  PROVE  AboveIsDir
<1> SUFFICES ASSUME NEW i \in DOMAIN fileList, NEW j \in DOMAIN fileList,
                    EntryKind(i) = "file", NameOf(j) = Parent(NameOf(i))
             PROVE  EntryKind(j) = "dir"
  BY DEF AboveIsDir
<1>1. job \in Jobs
  BY DEF IInv, Walked
<1>2. PICK p \in WalkOf(job.path) : NameOf(i) = Text(WireName(p)) /\ EntryKind(i) = Tree[p].kind
  BY ListPaths
<1>3. PICK q \in WalkOf(job.path) : NameOf(j) = Text(WireName(q)) /\ EntryKind(j) = Tree[q].kind
  BY ListPaths
<1>4. Good(WireName(p)) /\ Good(WireName(q))
  BY <1>1, WireIs
<1>5. WireName(p) # <<>>
  BY <1>1, <1>2, NoName
<1>6. Parent(Text(WireName(p))) = Text(Up(WireName(p))) /\ Good(Up(WireName(p)))
  BY <1>4, <1>5, ParentUp, GoodUp
<1>7. WireName(q) = Up(WireName(p))
  BY <1>2, <1>3, <1>4, <1>6, TextOnce
<1> QED BY <1>1, <1>2, <1>3, <1>7, AboveFile

-----------------------------------------------------------------------------
(* The invariant.                                                          *)

\* What the generator has passed is made, or requested; and a directory that
\* has to be closed again is remembered.
Progress ==
  /\ \A j \in 1 .. gi - 1 : (\A k \in DOMAIN queue : queue[k] # j) => MadeIn(j, dest)
  /\ \A j \in 1 .. gi - 1 :
       EntryKind(j) = "dir" /\ Perm(fileList[j].Mode) = 0 => retouchDirPerms

MetaInv ==
  /\ IInv /\ Once /\ DryInv /\ mpc \in {"list", "run", "ok", "err"}
  /\ mpc = "list" => queue = <<>>
  /\ DevicesAsOne /\ mpc # "list" => Typed
  /\ DevicesAsOne /\ UniqueNames /\ ~DryRun /\ mpc = "run" => Progress
  /\ DevicesAsOne /\ UniqueNames /\ mpc = "ok" => AsListed

\* The list does not change any more.
LEMMA ListStays ==
  ASSUME UNCHANGED listVars
  PROVE  /\ fileList' = fileList /\ (Done' <=> Done) /\ (DryRun' <=> DryRun)
         /\ (DevicesAsOne' <=> DevicesAsOne) /\ (UniqueNames' <=> UniqueNames)
         /\ \A i : NameOf(i)' = NameOf(i) /\ EntryKind(i)' = EntryKind(i)
         /\ \A i : Handled(i)' <=> Handled(i)
         /\ \A field : On(ropt, field)' <=> On(ropt, field)
<1>1. /\ job' = job /\ copt' = copt /\ dopt' = dopt /\ fileList' = fileList
      /\ spc' = spc /\ rpc' = rpc
  BY DEF listVars, jobVars, sendVars, recvVars
<1>2. ropt' = ropt
  BY <1>1 DEF ropt
<1>3. /\ (Done' <=> Done) /\ (DryRun' <=> DryRun) /\ (DevicesAsOne' <=> DevicesAsOne)
      /\ \A field : On(ropt, field)' <=> On(ropt, field)
  BY <1>1, <1>2 DEF Done, DryRun, DevicesAsOne, Asked, On
<1>4. \A i : NameOf(i)' = NameOf(i) /\ EntryKind(i)' = EntryKind(i)
  BY <1>1 DEF NameOf, EntryKind
<1>5. \A i : Handled(i)' <=> Handled(i)
  BY <1>2, <1>4 DEF Handled, On
<1>6. UniqueNames' <=> UniqueNames
  BY <1>1, <1>4 DEF UniqueNames
<1> QED BY <1>1, <1>3, <1>4, <1>5, <1>6

\* What was made stays as it is while other entries are worked on.
LEMMA MadeStays ==
  ASSUME NEW i, NEW d, NEW e, NEW name, Apart(d, e, name), NameOf(i) # name, MadeIn(i, d),
         EntryKind(i) = "dir" \/ EntryKind(i) # "dir"
  PROVE  MadeIn(i, e)
<1> SUFFICES ASSUME Handled(i) PROVE NameOf(i) \in DOMAIN e /\ MadeAs(i, e[NameOf(i)])
  BY DEF MadeIn
<1>1. NameOf(i) \in DOMAIN d /\ MadeAs(i, d[NameOf(i)])
  BY DEF MadeIn
<1>2. NameOf(i) \in DOMAIN e /\ Like(d[NameOf(i)], e[NameOf(i)])
  BY <1>1 DEF Apart
<1> QED BY <1>1, <1>2 DEF MadeAs, Like

LEMMA MadeThen ==
  ASSUME UNCHANGED <<listVars, world>>, NEW i, MadeIn(i, dest')
  PROVE  MadeIn(i, dest)'
BY ListStays DEF MadeIn, MadeAs

\* There is a destination to begin with.
LEMMA OpenFormed ==
  ASSUME NEW w \in Worlds
  PROVE  Formed(OpenDest(w.dest))
<1>1. PICK d : d = w.dest
  OBVIOUS
<1>2. CASE Dot \in DOMAIN d
  <2>1. /\ d \in [DOMAIN d -> Node]
        /\ \A name \in DOMAIN d : Parent(name) \in DOMAIN d /\ d[Parent(name)].kind = "dir"
    BY <1>1, WorldsOK
  <2>2. IsMap(d)
    BY <2>1 DEF IsMap
  <2>3. \A n \in DOMAIN d : IsNode(d[n]) /\ d[n].kind \in Kinds /\ d[n].perm \in {0, 1}
    <3>1. \A n \in DOMAIN d : d[n] \in Node
      BY <2>1
    <3> QED BY <3>1, NodeTyped DEF Node
  <2>4. OpenDest(w.dest) = d
    BY <1>1, <1>2 DEF OpenDest
  <2> QED BY <2>1, <2>2, <2>3, <2>4 DEF Formed
<1>3. CASE Dot \notin DOMAIN d
  <2>1. PICK node : node = Fresh("dir", 1)
    OBVIOUS
  <2>2. IsNode(node) /\ node.kind \in Kinds /\ node.kind = "dir" /\ node.perm \in {0, 1}
    BY <2>1, FreshIs DEF Kinds
  <2>3. Parent(Dot) = Dot
    BY ListConstants DEF Parent, Dot, Slash, Backslash
  <2>4. OpenDest(w.dest) = [n \in {Dot} |-> node]
    BY <1>1, <1>3, <2>1 DEF OpenDest
  <2> QED BY <2>2, <2>3, <2>4 DEF Formed, IsMap
<1> QED BY <1>2, <1>3

\* The list is there, and the transfer begins.
LEMMA BeginTyped ==
  ASSUME ListOK, Begin, queue = <<>>, UNCHANGED listVars
  PROVE  Typed' /\ Progress' /\ mpc' = "run"
<1>1. PICK w \in Worlds : world' = w /\ dest' = OpenDest(w.dest)
  BY DEF Begin
<1>2. /\ mpc' = "run" /\ gi' = 1 /\ queue' = <<>>
      /\ modes' = [i \in DOMAIN fileList |-> fileList[i].Mode]
  BY DEF Begin
<1>3. Formed(OpenDest(w.dest))
  BY OpenFormed
<1>4. fileList' = fileList /\ \A i : EntryKind(i)' = EntryKind(i)
  BY ListStays
<1>5. ASSUME NEW i \in DOMAIN fileList
      PROVE  /\ modes'[i] = fileList[i].Mode /\ fileList[i].Mode \in Int
             /\ EntryKind(i) = "file" => FileType(fileList[i].Mode) \notin {4, 10}
  <2>1. TypeOf("file") = 8
    BY DEF TypeOf
  <2> QED BY <1>2, <2>1 DEF ListOK, EntryOK
<1>6. \A i \in DOMAIN fileList : ModeKept(i)'
  BY <1>4, <1>5 DEF ModeKept
<1>7. gi' \in 1 .. Len(fileList) + 1 /\ queue' \in Seq(Nat) /\ DOMAIN queue' = {}
  BY <1>2 DEF ListOK
<1>8. DOMAIN modes' = DOMAIN fileList
  BY <1>2
<1>9. Typed'
  BY <1>1, <1>3, <1>4, <1>6, <1>7, <1>8 DEF Typed
<1>10. \A j \in 1 .. gi' - 1 : FALSE
  BY <1>2
<1> QED BY <1>2, <1>9, <1>10 DEF Progress

\* A step of the generator.
LEMMA PassedTyped ==
  ASSUME ListOK, Typed, Passed, UNCHANGED listVars
  PROVE  /\ Typed'
         /\ UniqueNames /\ ~DryRun /\ Progress => Progress'
<1>1. fileList' = fileList /\ \A i : EntryKind(i)' = EntryKind(i) /\ NameOf(i)' = NameOf(i)
  BY ListStays
<1>2. /\ gi \in DOMAIN fileList /\ gi' = gi + 1 /\ mpc' = mpc /\ world' = world /\ modes' = modes
      /\ Formed(dest') /\ Apart(dest, dest', NameOf(gi))
      /\ \/ queue' = Append(queue, gi) /\ EntryKind(gi) = "file"
         \/ queue' = queue /\ (~DryRun => MadeIn(gi, dest'))
      /\ retouchDirPerms => retouchDirPerms'
      /\ ~DryRun /\ EntryKind(gi) = "dir" /\ Perm(fileList[gi].Mode) = 0 => retouchDirPerms'
  BY DEF Passed
<1>3. /\ Len(fileList) \in Nat /\ DOMAIN fileList = 1 .. Len(fileList)
      /\ gi \in 1 .. Len(fileList) /\ gi' \in 1 .. Len(fileList) + 1
  BY <1>2 DEF ListOK
<1>4. /\ queue \in Seq(Nat)
      /\ \A k \in DOMAIN queue :
           queue[k] \in DOMAIN fileList /\ queue[k] < gi /\ EntryKind(queue[k]) = "file"
  BY DEF Typed
<1>5. \A i \in DOMAIN fileList : ModeKept(i)'
  <2>1. \A i \in DOMAIN fileList : ModeKept(i)
    BY DEF Typed
  <2> QED BY <1>1, <1>2, <2>1, ListStays DEF ModeKept
<1>6. /\ queue' \in Seq(Nat)
      /\ \A k \in DOMAIN queue' :
           queue'[k] \in DOMAIN fileList /\ queue'[k] < gi' /\ EntryKind(queue'[k]) = "file"
  <2>1. CASE queue' = queue
    BY <1>2, <1>3, <1>4, <2>1
  <2>2. CASE queue' = Append(queue, gi) /\ EntryKind(gi) = "file"
    <3>1. /\ queue' \in Seq(Nat)
          /\ \A k \in DOMAIN queue' : \/ k \in DOMAIN queue /\ queue'[k] = queue[k]
                                      \/ queue'[k] = gi
      BY <1>3, <1>4, <2>2
    <3> QED BY <1>2, <1>3, <1>4, <2>2, <3>1
  <2> QED BY <1>2, <2>1, <2>2
<1>7. DOMAIN modes' = DOMAIN fileList /\ world' \in Worlds
  BY <1>2 DEF Typed
<1>8. Typed'
  BY <1>1, <1>2, <1>3, <1>5, <1>6, <1>7 DEF Typed
<1>9. ASSUME UniqueNames, ~DryRun, Progress PROVE Progress'
  <2>1. /\ 1 .. gi' - 1 = (1 .. gi - 1) \cup {gi}
        /\ \A j \in 1 .. gi - 1 : j \in DOMAIN fileList /\ j # gi
    BY <1>2, <1>3
  <2>2. ASSUME NEW j \in 1 .. gi' - 1, \A k \in DOMAIN queue' : queue'[k] # j
        PROVE  MadeIn(j, dest)'
    <3>1. CASE j = gi
      <4>1. queue' = queue
        <5>1. SUFFICES ASSUME queue' = Append(queue, gi) PROVE FALSE
          BY <1>2
        <5>2. Len(queue) + 1 \in DOMAIN queue' /\ queue'[Len(queue) + 1] = gi
          BY <1>4, <5>1
        <5> QED BY <2>2, <3>1, <5>2
      <4>2. MadeIn(gi, dest')
        BY <1>2, <1>9, <4>1, <1>4
      <4> QED BY <1>2, <3>1, <4>2, MadeThen
    <3>2. CASE j # gi
      <4>1. j \in 1 .. gi - 1 /\ j \in DOMAIN fileList
        BY <2>1, <3>2
      <4>2. \A k \in DOMAIN queue : k \in DOMAIN queue' /\ queue'[k] = queue[k]
        <5>1. CASE queue' = queue
          BY <5>1
        <5>2. CASE queue' = Append(queue, gi)
          BY <1>4, <5>2
        <5> QED BY <1>2, <5>1, <5>2
      <4>3. MadeIn(j, dest)
        BY <1>9, <2>2, <4>1, <4>2 DEF Progress
      <4>4. NameOf(j) # NameOf(gi)
        BY <1>2, <1>9, <3>2, <4>1 DEF UniqueNames
      <4>5. MadeIn(j, dest')
        BY <1>2, <4>3, <4>4, MadeStays
      <4> QED BY <1>2, <4>5, MadeThen
    <3> QED BY <3>1, <3>2
  <2>3. ASSUME NEW j \in 1 .. gi' - 1, EntryKind(j) = "dir", Perm(fileList[j].Mode) = 0
        PROVE  retouchDirPerms'
    <3>1. CASE j = gi
      BY <1>2, <1>9, <2>3, <3>1
    <3>2. CASE j # gi
      <4>1. j \in 1 .. gi - 1
        BY <2>1, <3>2
      <4> QED BY <1>2, <1>9, <2>3, <4>1 DEF Progress
    <3> QED BY <3>1, <3>2
  <2> QED BY <1>1, <2>2, <2>3 DEF Progress
<1> QED BY <1>8, <1>9

\* The queue without its first file.
LEMMA TailTyped ==
  ASSUME Typed, queue # <<>>, queue' = Tail(queue)
  PROVE  /\ queue' \in Seq(Nat)
         /\ \A k \in DOMAIN queue' :
              queue'[k] \in DOMAIN fileList /\ queue'[k] < gi /\ EntryKind(queue'[k]) = "file"
         /\ \A j : j # First /\ (\A k \in DOMAIN queue' : queue'[k] # j)
              => \A k \in DOMAIN queue : queue[k] # j
<1>1. /\ queue \in Seq(Nat)
      /\ \A k \in DOMAIN queue :
           queue[k] \in DOMAIN fileList /\ queue[k] < gi /\ EntryKind(queue[k]) = "file"
  BY DEF Typed
<1>2. /\ queue' \in Seq(Nat) /\ DOMAIN queue' = 1 .. Len(queue) - 1
      /\ \A k \in DOMAIN queue' : k + 1 \in DOMAIN queue /\ queue'[k] = queue[k + 1]
  BY FirstIs
<1>3. ASSUME NEW j, j # First, \A k \in DOMAIN queue' : queue'[k] # j, NEW k \in DOMAIN queue
      PROVE  queue[k] # j
  <2>1. CASE k = 1
    <3>1. queue[1] = First
      BY <1>1 DEF First
    <3> QED BY <1>3, <2>1, <3>1
  <2>2. CASE k # 1
    <3>1. k - 1 \in 1 .. Len(queue) - 1 /\ (k - 1) + 1 = k
      BY <1>1, <2>2
    <3>2. k - 1 \in DOMAIN queue' /\ queue'[k - 1] = queue[k]
      BY <1>2, <3>1
    <3> QED BY <1>3, <3>2
  <2> QED BY <2>1, <2>2
<1> QED BY <1>1, <1>2, <1>3

\* A step of the receiver.
LEMMA LandedTyped ==
  ASSUME ListOK, Typed, Landed, UNCHANGED listVars
  PROVE  /\ Typed'
         /\ UniqueNames /\ ~DryRun /\ Progress => Progress'
<1>1. fileList' = fileList /\ \A i : EntryKind(i)' = EntryKind(i) /\ NameOf(i)' = NameOf(i)
  BY ListStays
<1>2. /\ queue # <<>> /\ queue' = Tail(queue) /\ world' = world /\ gi' = gi
      /\ retouchDirPerms' = retouchDirPerms
      /\ Formed(dest') /\ Apart(dest, dest', NameOf(First)) /\ MadeIn(First, dest')
  BY DEF Landed
<1>3. PICK mode : /\ modes' = [modes EXCEPT ![First] = mode] /\ mode \in Int
                  /\ FileType(mode) \notin {4, 10}
                  /\ On(ropt, "preserve_perms") => mode = fileList[First].Mode
  BY DEF Landed
<1>4. First \in DOMAIN fileList /\ First < gi /\ EntryKind(First) = "file"
  BY <1>2, FirstIs
<1>5. /\ queue' \in Seq(Nat)
      /\ \A k \in DOMAIN queue' :
           queue'[k] \in DOMAIN fileList /\ queue'[k] < gi /\ EntryKind(queue'[k]) = "file"
      /\ \A j : j # First /\ (\A k \in DOMAIN queue' : queue'[k] # j)
           => \A k \in DOMAIN queue : queue[k] # j
  BY <1>2, TailTyped
<1>6. DOMAIN modes' = DOMAIN fileList /\ \A i \in DOMAIN fileList :
        modes'[i] = IF i = First THEN mode ELSE modes[i]
  BY <1>3 DEF Typed
<1>7. \A i \in DOMAIN fileList : ModeKept(i)'
  <2> SUFFICES ASSUME NEW i \in DOMAIN fileList PROVE ModeKept(i)'
    OBVIOUS
  <2>1. ModeKept(i)
    BY DEF Typed
  <2>2. CASE i = First
    BY <1>1, <1>3, <1>4, <1>6, <2>2, ListStays DEF ModeKept
  <2>3. CASE i # First
    BY <1>1, <1>6, <2>1, <2>3, ListStays DEF ModeKept
  <2> QED BY <2>2, <2>3
<1>8. gi' \in 1 .. Len(fileList) + 1 /\ world' \in Worlds
  BY <1>2 DEF Typed
<1>9. Typed'
  BY <1>1, <1>2, <1>5, <1>6, <1>7, <1>8 DEF Typed
<1>10. ASSUME UniqueNames, Progress PROVE Progress'
  <2>1. ASSUME NEW j \in 1 .. gi' - 1, \A k \in DOMAIN queue' : queue'[k] # j
        PROVE  MadeIn(j, dest)'
    <3>1. CASE j = First
      BY <1>2, <3>1, MadeThen
    <3>2. CASE j # First
      <4>1. j \in 1 .. gi - 1 /\ j \in DOMAIN fileList
        BY <1>2 DEF Typed, ListOK
      <4>2. MadeIn(j, dest)
        BY <1>5, <1>10, <2>1, <3>2, <4>1 DEF Progress
      <4>3. NameOf(j) # NameOf(First)
        BY <1>4, <1>10, <3>2, <4>1 DEF UniqueNames
      <4>4. MadeIn(j, dest')
        BY <1>2, <4>2, <4>3, MadeStays
      <4> QED BY <1>2, <4>4, MadeThen
    <3> QED BY <3>1, <3>2
  <2>2. ASSUME NEW j \in 1 .. gi' - 1, EntryKind(j) = "dir", Perm(fileList[j].Mode) = 0
        PROVE  retouchDirPerms'
    BY <1>2, <1>10, <2>2 DEF Progress
  <2> QED BY <1>1, <2>1, <2>2 DEF Progress
<1> QED BY <1>9, <1>10

\* Both are done, and the directories get their modes.
LEMMA FinishTyped ==
  ASSUME ListOK, Typed, DryRun => ~retouchDirPerms, Finish, UNCHANGED listVars
  PROVE  /\ Typed' /\ mpc' = "ok"
         /\ UniqueNames /\ ~DryRun /\ Progress => AsListed'
<1>1. fileList' = fileList /\ \A i : EntryKind(i)' = EntryKind(i) /\ NameOf(i)' = NameOf(i)
  BY ListStays
<1>2. /\ gi = Len(fileList) + 1 /\ queue = <<>> /\ mpc' = "ok"
      /\ dest' = IF retouchDirPerms THEN TouchUpDirs ELSE dest
      /\ UNCHANGED <<world, modes, gi, queue, retouchDirPerms>>
  BY DEF Finish
<1>3. Formed(dest')
  <2>1. CASE ~retouchDirPerms
    BY <1>2, <2>1 DEF Typed
  <2>2. CASE retouchDirPerms
    BY <1>2, <2>2, TouchUpIs
  <2> QED BY <2>1, <2>2
<1>4. \A i \in DOMAIN fileList : ModeKept(i)'
  <2>1. \A i \in DOMAIN fileList : ModeKept(i)
    BY DEF Typed
  <2> QED BY <1>1, <1>2, <2>1, ListStays DEF ModeKept
<1>5. Typed'
  <2>1. /\ world' \in Worlds /\ DOMAIN modes' = DOMAIN fileList
        /\ gi' \in 1 .. Len(fileList) + 1 /\ queue' \in Seq(Nat)
        /\ \A k \in DOMAIN queue' :
             queue'[k] \in DOMAIN fileList /\ queue'[k] < gi' /\ EntryKind(queue'[k]) = "file"
    BY <1>2 DEF Typed
  <2> QED BY <1>1, <1>3, <1>4, <2>1 DEF Typed
<1>6. ASSUME UniqueNames, ~DryRun, Progress PROVE AsListed'
  <2> SUFFICES ASSUME NEW i \in DOMAIN fileList, Handled(i)
               PROVE  LET f == fileList[i]
                          kind == EntryKind(i)
                      IN /\ f.Name \in DOMAIN dest' /\ dest'[f.Name].kind = kind
                         /\ kind = "link" => dest'[f.Name].target = f.LinkTarget
                         /\ kind = "dir" => dest'[f.Name].perm = Perm(f.Mode)
                         /\ kind = "file" /\ On(ropt, "preserve_perms")
                            => dest'[f.Name].perm = Perm(f.Mode)
                         /\ /\ On(ropt, "preserve_mtimes")
                            /\ kind = "file" \/ (kind = "dir" /\ Perm(f.Mode) = 0)
                            => dest'[f.Name].mtime = f.ModTime
                         /\ world.root /\ On(ropt, "preserve_uid") /\ kind \notin {"dev", "pipe"}
                            => dest'[f.Name].uid = f.Uid
    BY <1>1, <1>2, ListStays DEF AsListed, Handled, KindAt
  <2>1. PICK name : name = NameOf(i)
    OBVIOUS
  <2>2. name \in DOMAIN dest /\ MadeAs(i, dest[name])
    <3>1. DOMAIN queue = {}
      BY <1>2
    <3>2. i \in 1 .. gi - 1
      BY <1>2 DEF ListOK
    <3>3. MadeIn(i, dest)
      BY <1>6, <3>1, <3>2 DEF Progress
    <3> QED BY <2>1, <3>3 DEF MadeIn
  <2>3. PICK x : x = dest[name]
    OBVIOUS
  <2>4. PICK y : y = dest'[name]
    OBVIOUS
  <2>5. IsNode(x)
    BY <2>2, <2>3 DEF Typed, Formed
  <2>6. NeedsTouchUp(i) <=> EntryKind(i) = "dir" /\ Perm(fileList[i].Mode) = 0
    <3>1. EntryKind(i) = "dir" => modes[i] = fileList[i].Mode
      BY ModeFacts
    <3>2. FileType(modes[i]) = TypeOf("dir") <=> EntryKind(i) = "dir"
      BY ModeFacts
    <3> QED BY <1>6, <3>1, <3>2 DEF NeedsTouchUp
  <2>7. NeedsTouchUp(i) => retouchDirPerms
    <3>1. i \in 1 .. gi - 1
      BY <1>2 DEF ListOK
    <3> QED BY <1>6, <2>6, <3>1 DEF Progress
  <2>8. name \in DOMAIN dest' /\ y = IF NeedsTouchUp(i) THEN Stamped(x, i, modes[i]) ELSE x
    <3>1. CASE retouchDirPerms
      <4>1. dest' = TouchUpDirs
        BY <1>2, <3>1
      <4>2. DOMAIN TouchUpDirs = DOMAIN dest /\ (name \in DOMAIN dest => TouchUpDirs[name] =
              IF NeedsTouchUp(i) THEN Stamped(dest[name], i, modes[i]) ELSE dest[name])
        BY <1>6, <2>1, TouchUpIs
      <4> QED BY <2>2, <2>3, <2>4, <4>1, <4>2
    <3>2. CASE ~retouchDirPerms
      BY <1>2, <2>2, <2>3, <2>4, <2>7, <3>2
    <3> QED BY <3>1, <3>2
  <2>9. EntryKind(i) \in Kinds /\ Perm(fileList[i].Mode) \in {0, 1}
    BY DEF ListOK, EntryOK
  <2>10. fileList[i].Name = name
    BY <2>1 DEF NameOf
  <2>11. CASE NeedsTouchUp(i)
    <3>1. EntryKind(i) = "dir" /\ modes[i] = fileList[i].Mode /\ FileType(modes[i]) # TypeOf("link")
      BY <2>6, <2>11, ModeFacts
    <3>2. x.kind = "dir" /\ (world.root /\ On(ropt, "preserve_uid") => x.uid = fileList[i].Uid)
      BY <2>2, <2>3, <3>1 DEF MadeAs
    <3>3. /\ y.kind = "dir" /\ y.perm = Perm(fileList[i].Mode)
          /\ On(ropt, "preserve_mtimes") => y.mtime = fileList[i].ModTime
          /\ world.root /\ On(ropt, "preserve_uid") => y.uid = fileList[i].Uid
      BY <2>5, <2>8, <2>11, <3>1, <3>2, StampedIs
    <3> QED BY <2>4, <2>8, <2>10, <3>1, <3>3
  <2>12. CASE ~NeedsTouchUp(i)
    <3>1. MadeAs(i, y)
      BY <2>2, <2>3, <2>8, <2>12
    <3>2. EntryKind(i) = "dir" => Perm(fileList[i].Mode) = 1
      BY <2>6, <2>9, <2>12
    <3>3. y.kind = EntryKind(i) /\ (EntryKind(i) = "link" => y.target = fileList[i].LinkTarget)
      BY <3>1 DEF MadeAs
    <3>4. EntryKind(i) = "dir" => y.perm = Perm(fileList[i].Mode) /\ Perm(fileList[i].Mode) # 0
      BY <3>1, <3>2 DEF MadeAs
    <3>5. /\ EntryKind(i) = "file" /\ On(ropt, "preserve_perms") => y.perm = Perm(fileList[i].Mode)
          /\ EntryKind(i) = "file" /\ On(ropt, "preserve_mtimes")
             => y.mtime = fileList[i].ModTime
          /\ world.root /\ On(ropt, "preserve_uid") /\ EntryKind(i) \notin {"dev", "pipe"}
             => y.uid = fileList[i].Uid
      BY <3>1 DEF MadeAs
    <3> QED BY <2>4, <2>8, <2>10, <3>3, <3>4, <3>5
  <2> QED BY <2>11, <2>12
<1> QED BY <1>2, <1>5, <1>6

\* A file is left as it is.
LEMMA DryTyped ==
  ASSUME Typed, RecvDry, UNCHANGED listVars
  PROVE  Typed'
<1>1. fileList' = fileList /\ \A i : EntryKind(i)' = EntryKind(i)
  BY ListStays
<1>2. queue # <<>> /\ queue' = Tail(queue) /\ UNCHANGED <<world, dest, modes, gi>>
  BY DEF RecvDry, Receiving
<1>3. /\ queue' \in Seq(Nat)
      /\ \A k \in DOMAIN queue' :
           queue'[k] \in DOMAIN fileList /\ queue'[k] < gi /\ EntryKind(queue'[k]) = "file"
  BY <1>2, TailTyped
<1>4. \A i \in DOMAIN fileList : ModeKept(i)'
  <2>1. \A i \in DOMAIN fileList : ModeKept(i)
    BY DEF Typed
  <2> QED BY <1>1, <1>2, <2>1, ListStays DEF ModeKept
<1> QED BY <1>1, <1>2, <1>3, <1>4 DEF Typed

LEMMA SameTyped ==
  ASSUME Typed, Formed(dest'), UNCHANGED <<world, modes, gi, queue>>, UNCHANGED listVars
  PROVE  Typed'
<1>1. fileList' = fileList /\ \A i : EntryKind(i)' = EntryKind(i)
  BY ListStays
<1>2. \A i \in DOMAIN fileList : ModeKept(i)'
  <2>1. \A i \in DOMAIN fileList : ModeKept(i)
    BY DEF Typed
  <2> QED BY <1>1, <2>1, ListStays DEF ModeKept
<1> QED BY <1>1, <1>2 DEF Typed

LEMMA MetaStart == MetaInit => MetaInv
<1> SUFFICES ASSUME MetaInit PROVE MetaInv
  OBVIOUS
<1>1. IInv /\ Once /\ DryInv
  BY InitInvariant, OnceInit, DryInit DEF MetaInit
<1>2. mpc = "list" /\ queue = <<>>
  BY DEF MetaInit
<1> QED BY <1>1, <1>2 DEF MetaInv

LEMMA MetaStep == MetaInv /\ [MetaNext]_<<listVars, metaVars>> => MetaInv'
<1> SUFFICES ASSUME MetaInv, [MetaNext]_<<listVars, metaVars>> PROVE MetaInv'
  OBVIOUS
<1>1. IInv /\ Once /\ DryInv /\ mpc \in {"list", "run", "ok", "err"}
  BY DEF MetaInv
<1>2. IInv' /\ Once' /\ DryInv'
  <2>1. [Next]_listVars
    BY DEF MetaNext
  <2> QED BY <1>1, <2>1, StepInvariant, OnceStep, DryNext DEF IInv
<1>3. CASE Next /\ UNCHANGED metaVars
  <2>1. mpc = "list"
    BY <1>1, <1>3, ListSteps DEF DryInv
  <2>2. mpc' = "list" /\ queue' = <<>>
    BY <1>3, <2>1 DEF MetaInv, metaVars
  <2> QED BY <1>2, <2>2 DEF MetaInv
<1>4. CASE Transfer /\ UNCHANGED listVars
  <2>1. /\ (DevicesAsOne' <=> DevicesAsOne) /\ (UniqueNames' <=> UniqueNames)
        /\ (DryRun' <=> DryRun)
    BY <1>4, ListStays
  <2>2. ASSUME DevicesAsOne, mpc # "list" PROVE ListOK /\ Typed /\ Done
    BY <1>1, <2>2, ListIsOK DEF MetaInv, DryInv
  <2>3. CASE Begin
    <3>1. mpc = "list" /\ Done /\ queue = <<>> /\ mpc' = "run"
      BY <1>4, <2>3 DEF Begin, MetaInv
    <3>2. DevicesAsOne => ListOK
      BY <1>1, <3>1, ListIsOK
    <3>3. DevicesAsOne => Typed' /\ Progress'
      BY <1>4, <2>3, <3>1, <3>2, BeginTyped
    <3> QED BY <1>2, <2>1, <3>1, <3>3 DEF MetaInv
  <2>4. CASE ~Begin /\ ~DevicesAsOne
    <3>1. mpc # "list" /\ mpc' \in {"run", "ok", "err"}
      BY <1>4, <2>4 DEF Transfer, GenDir, GenDirHalf, GenIgnore, GenLink, GenDevice, GenSkip, GenRequest,
         GenFail, Blocked, RecvDry, RecvFile, RecvFail, Finish, Receiving, At, Generating, Advance
    <3> QED BY <1>2, <2>1, <2>4, <3>1 DEF MetaInv
  <2>5. CASE ~Begin /\ DevicesAsOne
    <3>1. mpc # "list"
      BY <1>4, <2>5 DEF Transfer, GenDir, GenDirHalf, GenIgnore, GenLink, GenDevice, GenSkip, GenRequest,
         GenFail, Blocked, RecvDry, RecvFile, RecvFail, Finish, Receiving, At, Generating
    <3>2. ListOK /\ Typed
      BY <2>2, <2>5, <3>1
    <3>3. mpc = "run"
      BY <1>4, <3>1, <3>2, TransferIs
    <3>4. UniqueNames /\ ~DryRun => Progress
      BY <2>5, <3>3 DEF MetaInv
    <3>5. CASE Passed
      <4>1. Typed' /\ (UniqueNames /\ ~DryRun => Progress') /\ mpc' = "run"
        BY <1>4, <3>2, <3>3, <3>4, <3>5, PassedTyped DEF Passed
      <4> QED BY <1>2, <2>1, <4>1 DEF MetaInv
    <3>6. CASE Landed
      <4>1. Typed' /\ (UniqueNames /\ ~DryRun => Progress') /\ mpc' = "run"
        BY <1>4, <3>2, <3>3, <3>4, <3>6, LandedTyped DEF Landed
      <4> QED BY <1>2, <2>1, <4>1 DEF MetaInv
    <3>7. CASE DryRun /\ RecvDry
      <4>1. Typed' /\ mpc' = "run"
        BY <1>4, <3>2, <3>3, <3>7, DryTyped DEF RecvDry
      <4> QED BY <1>2, <2>1, <3>7, <4>1 DEF MetaInv
    <3>8. CASE mpc' = "err" /\ Formed(dest') /\ UNCHANGED <<world, modes, gi, queue>>
      <4>1. Typed'
        BY <1>4, <3>2, <3>8, SameTyped
      <4> QED BY <1>2, <2>1, <3>8, <4>1 DEF MetaInv
    <3>9. CASE Finish
      <4>1. DryRun => ~retouchDirPerms
        BY <1>1 DEF DryInv
      <4>2. Typed' /\ mpc' = "ok" /\ (UniqueNames /\ ~DryRun => AsListed')
        BY <1>4, <3>2, <3>4, <3>9, <4>1, FinishTyped
      <4>3. DryRun => AsListed'
        BY <2>1 DEF AsListed
      <4> QED BY <1>2, <2>1, <4>2, <4>3 DEF MetaInv
    <3> QED BY <1>4, <3>1, <3>2, <3>5, <3>6, <3>7, <3>8, <3>9, TransferIs
  <2> QED BY <2>3, <2>4, <2>5
<1>5. CASE UNCHANGED <<listVars, metaVars>>
  <2>1. /\ (DevicesAsOne' <=> DevicesAsOne) /\ (UniqueNames' <=> UniqueNames)
        /\ (DryRun' <=> DryRun) /\ fileList' = fileList
    BY <1>5, ListStays
  <2>2. /\ UNCHANGED <<world, dest, modes, gi, queue, retouchDirPerms>> /\ mpc' = mpc
    BY <1>5 DEF metaVars
  <2>3. ASSUME Typed PROVE Typed'
    <3>1. Formed(dest')
      BY <2>2, <2>3 DEF Typed
    <3> QED BY <1>5, <2>2, <2>3, <3>1, SameTyped
  <2>4. Progress => Progress'
    BY <1>5, <2>1, <2>2, ListStays, MadeThen DEF Progress
  <2>5. AsListed => AsListed'
    BY <1>5, <2>1, <2>2, ListStays DEF AsListed, KindAt
  <2> QED BY <1>2, <2>1, <2>2, <2>3, <2>4, <2>5 DEF MetaInv
<1> QED BY <1>3, <1>4, <1>5 DEF MetaNext

\* The invariant always holds.
LEMMA MetaAlways == MetaSpec => []MetaInv
BY MetaStart, MetaStep, PTL DEF MetaSpec

\* Every entry at the destination is in a directory, whatever is removed and made
\* there in whatever order, and what waits for the receiver are files that the
\* generator has passed (recvGenerator and recvFile1, in two goroutines).
THEOREM MetaTypeCorrect == MetaSpec => [](DevicesAsOne => MetaTypeOK)
<1>1. MetaInv => (DevicesAsOne => MetaTypeOK)
  <2> SUFFICES ASSUME MetaInv, DevicesAsOne PROVE MetaTypeOK
    OBVIOUS
  <2>1. mpc \in {"list", "run", "ok", "err"}
    BY DEF MetaInv
  <2>2. ASSUME mpc # "list"
        PROVE  /\ world \in Worlds
               /\ \A name \in DOMAIN dest : /\ dest[name].kind \in Kinds
                                           /\ dest[name].perm \in {0, 1}
                                           /\ KindAt(Parent(name)) = "dir"
               /\ DOMAIN modes = DOMAIN fileList
               /\ gi \in 1 .. Len(fileList) + 1
               /\ \A k \in DOMAIN queue : queue[k] < gi /\ EntryKind(queue[k]) = "file"
    <3>1. Typed
      BY <2>2 DEF MetaInv
    <3> QED BY <3>1 DEF Typed, Formed, KindAt
  <2> QED BY <2>1, <2>2 DEF MetaTypeOK
<1> QED BY <1>1, MetaAlways, PTL

\* After a success every entry is what the list says of it, also the directories
\* that were opened for the transfer: their modes and times are set again, by the
\* loop of Do over the whole list (do.go:105), and nothing that came later has
\* undone what was set (setPerms, generator.go and receiver.go).
THEOREM SuccessAsListed ==
  MetaSpec => [](DevicesAsOne /\ Separator = Slash /\ OwnName => AsListed)
<1>1. MetaInv => (DevicesAsOne /\ Separator = Slash /\ OwnName => AsListed)
  <2> SUFFICES ASSUME MetaInv, DevicesAsOne, Separator = Slash, OwnName, mpc = "ok"
               PROVE  AsListed
    BY DEF AsListed
  <2>1. UniqueNames
    BY NamesUnique DEF MetaInv, DryInv
  <2> QED BY <2>1 DEF MetaInv
<1> QED BY <1>1, MetaAlways, PTL

\* A file that was requested finds the directory that is before it in the list
\* there and writable, however far the generator is ahead, and whatever mode the
\* directory had before or has in the list (generator.go:210-218, do.go:105).
THEOREM RequestedLands ==
  MetaSpec => [](DevicesAsOne /\ Separator = Slash /\ OwnName => RequestsCanLand)
<1>1. MetaInv => (DevicesAsOne /\ Separator = Slash /\ OwnName => RequestsCanLand)
  <2> SUFFICES ASSUME MetaInv, DevicesAsOne, Separator = Slash, OwnName, mpc = "run", ~DryRun,
                      NEW k \in DOMAIN queue, NEW j \in 1 .. queue[k] - 1,
                      NameOf(j) = Parent(NameOf(queue[k]))
               PROVE  KindAt(Parent(NameOf(queue[k]))) = "dir"
                      /\ dest[Parent(NameOf(queue[k]))].perm = 1
    BY DEF RequestsCanLand
  <2>0. UniqueNames /\ AboveIsDir
    BY NamesUnique, NamesAbove DEF MetaInv, DryInv
  <2>1. Typed /\ Progress /\ ListOK
    BY <2>0, ListIsOK DEF MetaInv, DryInv
  <2>2. queue[k] \in DOMAIN fileList /\ queue[k] < gi /\ EntryKind(queue[k]) = "file"
    BY <2>1 DEF Typed
  <2>3. j \in DOMAIN fileList /\ j \in 1 .. gi - 1
    BY <2>1, <2>2 DEF Typed, ListOK
  <2>4. EntryKind(j) = "dir"
    BY <2>0, <2>2, <2>3 DEF AboveIsDir
  <2>5. \A m \in DOMAIN queue : queue[m] # j
    BY <2>1, <2>4 DEF Typed
  <2>6. MadeIn(j, dest)
    BY <2>1, <2>3, <2>5 DEF Progress
  <2>7. NameOf(j) \in DOMAIN dest /\ dest[NameOf(j)].kind = "dir" /\ dest[NameOf(j)].perm = 1
    BY <2>4, <2>6 DEF MadeIn, MadeAs, Handled
  <2> QED BY <2>7 DEF KindAt
<1> QED BY <1>1, MetaAlways, PTL

=============================================================================
