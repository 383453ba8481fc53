------------------------------- MODULE Metadata -------------------------------
(***************************************************************************)
(* What becomes of the entries of the file list at the destination besides *)
(* their content: directories, links and devices, and the modes, times and *)
(* owners of all of them (generator.go, receiver.go, do.go).  The          *)
(* generator makes and changes entries in the order of the list, ahead of  *)
(* the receiver, which puts the files that were requested into             *)
(* directories that the generator keeps writable until both are done.      *)
(*                                                                         *)
(* A file goes over at once and as the sender listed it; how, and what     *)
(* else may go wrong on the way, is in Session.                            *)
(***************************************************************************)
EXTENDS FileList

CONSTANTS
  Worlds,  \* [root, groups, dest]: whether the receiver is root, the groups it
           \* is in, and the destination: name -> what is there.  A link above
           \* a name of the list leads out of it, where os.Root does not go
  Me,      \* the receiver's user and group
  Now      \* the time of the transfer

\* What Lstat and Readlink say of an entry, and the sum of its content.
Node == [kind : Kinds, perm : {0, 1}, size : Nat, sum : Seq(Nat), mtime : Int,
         uid : Nat, gid : Nat, target : Seq(Nat)]

\* filepath.Dir
Parent(name) ==
  LET cuts == {k \in DOMAIN name : name[k] = Separator}
  IN IF cuts = {} THEN Dot ELSE SubSeq(name, 1, Max(cuts) - 1)

\* The directories above a name.
Above(name) ==
  {Dot} \cup {SubSeq(name, 1, k - 1) : k \in {j \in DOMAIN name : name[j] = Separator}}

\* Who is not root has made the destination: nobody else's modes and times can
\* be set.  There may be no destination yet.
ASSUME WorldsOK ==
  \A w \in Worlds :
    /\ w.dest \in [DOMAIN w.dest -> Node]
    /\ w.dest = <<>> \/ Dot \in DOMAIN w.dest
    /\ \A name \in DOMAIN w.dest :
         Parent(name) \in DOMAIN w.dest /\ w.dest[Parent(name)].kind = "dir"
    /\ w.root \/ \A name \in DOMAIN w.dest : w.dest[name].uid = Me

VARIABLES
  mpc,      \* "list", "run", "ok", "err"
  world,
  dest,     \* the destination now
  modes,    \* the Mode of the list's entries, which both goroutines share
  gi,       \* the entry the generator is at
  queue,    \* the files requested and not yet received
  retouchDirPerms

metaVars == <<mpc, world, dest, modes, gi, queue, retouchDirPerms>>

DryRun == On(ropt, "dry_run")
NameOf(i) == fileList[i].Name
KindAt(name) == IF name \in DOMAIN dest THEN dest[name].kind ELSE "none"
EntryKind(i) == CHOOSE kind \in Kinds : FileType(fileList[i].Mode) = TypeOf(kind)

\* A mistake to be caught: nobody looks whether there is a directory.
MayChangeUnchecked(name) ==
  Parent(name) \in DOMAIN dest => world.root \/ dest[Parent(name)].perm = 1

\* Whether entries can be made or removed next to name.
MayChange(name) ==
  /\ KindAt(Parent(name)) = "dir"
  /\ world.root \/ dest[Parent(name)].perm = 1

\* Making or removing an entry also sets the time of its directory.
Touched(d, name) == [d EXCEPT ![Parent(name)].mtime = Now]
Placed(d, name, node) ==
  [n \in DOMAIN d \cup {name} |-> IF n = name THEN node ELSE Touched(d, name)[n]]
Removed(d, name) == Touched([n \in DOMAIN d \ {name} |-> d[n]], name)

Fresh(kind, perm) ==
  [kind |-> kind, perm |-> perm, size |-> 0, sum |-> EmptyChecksum, mtime |-> Now,
   uid |-> Me, gid |-> Me, target |-> <<>>]

\* setPerms with setUid: time, owner and mode of an entry that is there.
SetPerms(d, i, mode) ==
  LET f == fileList[i]
      isLink == FileType(mode) = TypeOf("link")
      Set(node) ==
        [node EXCEPT
           !.mtime = IF On(ropt, "preserve_mtimes") /\ ~isLink THEN f.ModTime ELSE @,
           !.uid = IF On(ropt, "preserve_uid") /\ world.root THEN f.Uid ELSE @,
           !.gid = IF /\ On(ropt, "preserve_gid")
                      /\ world.root \/ f.Gid \in world.groups
                   THEN f.Gid ELSE @,
           !.perm = IF isLink THEN @ ELSE Perm(mode)]
  IN IF DryRun THEN d ELSE [d EXCEPT ![f.Name] = Set(@)]
-----------------------------------------------------------------------------
\* The destination is made unless it is there, in a dry run too, by the client
\* and by the server; before the list is read, which does not look at it.
OpenDest(d) == IF Dot \in DOMAIN d THEN d ELSE [n \in {Dot} |-> Fresh("dir", 1)]

\* Do, once there is a list.
Begin ==
  /\ mpc = "list" /\ Done
  /\ \E w \in Worlds : world' = w /\ dest' = OpenDest(w.dest)
  /\ mpc' = "run" /\ gi' = 1
  /\ modes' = [i \in DOMAIN fileList |-> fileList[i].Mode]
  /\ UNCHANGED <<queue, retouchDirPerms>>

Generating == mpc = "run" /\ gi \in DOMAIN fileList
At(kind) == Generating /\ EntryKind(gi) = kind
Here == KindAt(NameOf(gi))

Advance(d) ==
  /\ dest' = d /\ gi' = gi + 1
  /\ UNCHANGED <<mpc, world, modes>>

\* A mistake to be caught: a directory gets its mode at once.
ModeAtOnce(mode) == mode

\* A mistake to be caught: a dry run makes directories as well.
MakesDirsAlways == TRUE
MakesDirs == ~DryRun

\* The mode of a directory while files are put into it.
Opened(mode) == 2 * FileType(mode) + 1

\* MkdirAll makes the missing directories above as well: the list of a pull has
\* nothing above the directory that was asked for.  All get the same mode.
ToMake(name) == {name} \cup (Above(name) \ DOMAIN dest)
MayMake(name) ==
  \A n \in ToMake(name) : Parent(n) \in ToMake(name) \/ MayChange(n)

MadeDirs(d, names, node) ==
  [n \in DOMAIN d \cup names |->
     IF n \in names THEN node
     ELSE IF \E m \in names : n = Parent(m) THEN [d[n] EXCEPT !.mtime = Now]
     ELSE d[n]]

\* Who is not root can make nothing in a directory just made without permission
\* to write.
MayFill == world.root \/ Perm(modes[gi]) = 1 \/ ToMake(NameOf(gi)) = {NameOf(gi)}

\* recvGenerator, a directory: made, if need be instead of what is there.
WithDir ==
  IF Here = "dir" THEN dest
  ELSE MadeDirs(IF Here = "none" THEN dest ELSE Removed(dest, NameOf(gi)),
                ToMake(NameOf(gi)), Fresh("dir", Perm(modes[gi])))

GenDir ==
  /\ At("dir") /\ MakesDirs
  /\ Here = "dir" \/ (MayMake(NameOf(gi)) /\ MayFill)
  /\ Advance(SetPerms(WithDir, gi, Opened(modes[gi])))
  /\ retouchDirPerms' = (retouchDirPerms \/ Perm(modes[gi]) = 0)
  /\ UNCHANGED queue

\* MkdirAll makes the uppermost one, and fails at the next.
GenDirHalf ==
  /\ At("dir") /\ MakesDirs
  /\ Here # "dir" /\ MayMake(NameOf(gi)) /\ ~MayFill
  /\ \E n \in ToMake(NameOf(gi)) :
       Parent(n) \notin ToMake(NameOf(gi)) /\ dest' = MadeDirs(dest, {n}, Fresh("dir", 0))
  /\ mpc' = "err"
  /\ UNCHANGED <<world, modes, gi, queue, retouchDirPerms>>

\* recvGenerator: nothing is done about directories in a dry run, and about
\* what no option asks for.
GenIgnore ==
  /\ \/ At("dir") /\ ~MakesDirs
     \/ At("link") /\ ~On(ropt, "preserve_links")
     \/ (At("dev") \/ At("pipe")) /\ ~On(ropt, "preserve_devices")
  /\ Advance(dest)
  /\ UNCHANGED <<queue, retouchDirPerms>>

SameLink == Here = "link" /\ dest[NameOf(gi)].target = fileList[gi].LinkTarget

\* recvGenerator, a link: made or replaced unless it is there, also in a dry run.
GenLink ==
  /\ At("link") /\ On(ropt, "preserve_links")
  /\ SameLink \/ (Here # "dir" /\ MayChange(NameOf(gi)))
  /\ LET new == [Fresh("link", 1) EXCEPT !.target = fileList[gi].LinkTarget]
     IN Advance(SetPerms(IF SameLink THEN dest ELSE Placed(dest, NameOf(gi), new),
                         gi, modes[gi]))
  /\ UNCHANGED <<queue, retouchDirPerms>>

\* createDevice, also in a dry run; an existing one is left as it is.
GenDevice ==
  /\ At("dev") \/ At("pipe")
  /\ On(ropt, "preserve_devices")
  /\ \/ Here = EntryKind(gi) /\ Advance(dest)
     \/ /\ Here = "none" /\ MayChange(NameOf(gi))
        /\ At("dev") => world.root
        /\ Advance(Placed(dest, NameOf(gi), Fresh(EntryKind(gi), Perm(modes[gi]))))
  /\ UNCHANGED <<queue, retouchDirPerms>>

\* skipFile
SkipFile ==
  LET f == fileList[gi]
      there == dest[f.Name]
  IN /\ Here = "file" /\ there.size = f.Length
     /\ IF On(ropt, "always_checksum") THEN there.sum = f.Checksum
        ELSE \/ On(ropt, "size_only")
             \/ ~On(ropt, "ignore_times") /\ there.mtime = f.ModTime

\* recvGenerator, a file that is up to date.
GenSkip ==
  /\ At("file") /\ SkipFile
  /\ Advance(SetPerms(dest, gi, modes[gi]))
  /\ UNCHANGED <<queue, retouchDirPerms>>

Empty(name) == \A n \in DOMAIN dest \ {name} : Parent(n) # name
\* Lstat fails, and not because nothing is there.
NoLstat == \E n \in Above(NameOf(gi)) : KindAt(n) \notin {"none", "dir"}
InTheWay == Here \notin {"none", "file"}
MayClear == MayChange(NameOf(gi)) /\ (Here = "dir" => Empty(NameOf(gi)))

\* recvGenerator, a file that is requested; what else has its name is removed,
\* also in a dry run.
GenRequest ==
  /\ At("file") /\ ~SkipFile /\ ~NoLstat
  /\ InTheWay => MayClear
  /\ Advance(IF InTheWay THEN Removed(dest, NameOf(gi)) ELSE dest)
  /\ queue' = Append(queue, gi)
  /\ UNCHANGED retouchDirPerms

\* Something is in the way, or not permitted.
Blocked ==
  \/ At("dir") /\ MakesDirs /\ Here # "dir" /\ ~MayMake(NameOf(gi))
  \/ /\ At("link") /\ On(ropt, "preserve_links") /\ ~SameLink
     /\ Here = "dir" \/ ~MayChange(NameOf(gi))
  \/ /\ At("dev") \/ At("pipe")
     /\ On(ropt, "preserve_devices") /\ Here # EntryKind(gi)
     /\ Here # "none" \/ ~MayChange(NameOf(gi)) \/ (At("dev") /\ ~world.root)
  \/ At("file") /\ (NoLstat \/ (InTheWay /\ ~MayClear))

GenFail ==
  /\ Blocked
  /\ mpc' = "err"
  /\ UNCHANGED <<world, dest, modes, gi, queue, retouchDirPerms>>
-----------------------------------------------------------------------------
Receiving == mpc = "run" /\ queue # <<>>
First == Head(queue)

\* recvFile1 in a dry run.
RecvDry ==
  /\ Receiving /\ DryRun
  /\ queue' = Tail(queue)
  /\ UNCHANGED <<mpc, world, dest, modes, gi, retouchDirPerms>>

\* openLocalFile: without -p a file keeps the mode it has, and the entry of
\* the list takes it over.
LocalMode ==
  IF KindAt(NameOf(First)) = "file" /\ ~On(ropt, "preserve_perms")
    THEN dest[NameOf(First)].perm ELSE modes[First]

\* A file can be made next to where it goes, and renamed.
CanLand == MayChange(NameOf(First)) /\ KindAt(NameOf(First)) # "dir"

\* recvFile1: the file is put in place, then its metadata is set.
RecvFile ==
  /\ Receiving /\ ~DryRun /\ CanLand
  /\ LET new == [Fresh("file", 1) EXCEPT !.size = fileList[First].Length,
                                         !.sum = Tree[files[First]].sum]
     IN dest' = SetPerms(Placed(dest, NameOf(First), new), First, LocalMode)
  /\ modes' = [modes EXCEPT ![First] = LocalMode]
  /\ queue' = Tail(queue)
  /\ UNCHANGED <<mpc, world, gi, retouchDirPerms>>

\* newPendingFile or CloseAtomicallyReplace fails.
RecvFail ==
  /\ Receiving /\ ~DryRun /\ ~CanLand
  /\ mpc' = "err"
  /\ UNCHANGED <<world, dest, modes, gi, queue, retouchDirPerms>>

\* A mistake to be caught: the loop is left at the first writable directory.
NeedsTouchUpFirst(i) ==
  /\ EntryKind(i) = "dir" /\ ~DryRun
  /\ \A j \in 1 .. i : EntryKind(j) = "dir" => Perm(modes[j]) = 0

\* touchUpDirs: the directories without permission to write.
NeedsTouchUp(i) ==
  FileType(modes[i]) = TypeOf("dir") /\ ~DryRun /\ Perm(modes[i]) = 0

TouchUpDirs ==
  LET touched[i \in 0 .. Len(fileList)] ==
        IF i = 0 THEN dest
        ELSE IF NeedsTouchUp(i) THEN SetPerms(touched[i - 1], i, modes[i])
        ELSE touched[i - 1]
  IN touched[Len(fileList)]

\* Do, when both goroutines are done.
Finish ==
  /\ mpc = "run" /\ gi = Len(fileList) + 1 /\ queue = <<>>
  /\ dest' = IF retouchDirPerms THEN TouchUpDirs ELSE dest
  /\ mpc' = "ok"
  /\ UNCHANGED <<world, modes, gi, queue, retouchDirPerms>>
-----------------------------------------------------------------------------
MetaInit ==
  /\ Init
  /\ mpc = "list" /\ world = <<>> /\ dest = <<>> /\ modes = <<>> /\ gi = 1
  /\ queue = <<>> /\ retouchDirPerms = FALSE

Transfer ==
  \/ Begin \/ GenDir \/ GenDirHalf \/ GenIgnore \/ GenLink \/ GenDevice \/ GenSkip
  \/ GenRequest \/ GenFail \/ RecvDry \/ RecvFile \/ RecvFail \/ Finish

MetaNext ==
  \/ Next /\ UNCHANGED metaVars
  \/ Transfer /\ UNCHANGED listVars

MetaSpec == MetaInit /\ [][MetaNext]_<<listVars, metaVars>>
-----------------------------------------------------------------------------
MetaTypeOK ==
  /\ mpc \in {"list", "run", "ok", "err"}
  /\ mpc # "list" =>
       /\ world \in Worlds
       /\ \A name \in DOMAIN dest :
            /\ dest[name].kind \in Kinds
            /\ dest[name].perm \in {0, 1}
            /\ KindAt(Parent(name)) = "dir"
       /\ DOMAIN modes = DOMAIN fileList
       /\ gi \in 1 .. Len(fileList) + 1
       /\ \A k \in DOMAIN queue : queue[k] < gi /\ EntryKind(queue[k]) = "file"

\* A file that was requested finds its directory there and writable, if the
\* list has the directory before the file: the generator, which is ahead, has
\* opened it, and nobody closes it before both are done (generator.go:210-218,
\* do.go:105).  Names like "-x" come before "." in the list, and are not helped.
RequestsCanLand ==
  mpc = "run" /\ ~DryRun =>
    \A k \in DOMAIN queue :
      LET above == Parent(NameOf(queue[k]))
      IN (\E j \in 1 .. queue[k] - 1 : NameOf(j) = above)
           => KindAt(above) = "dir" /\ dest[above].perm = 1

\* After a success every entry is what the list says of it: its kind, and as
\* far as the options ask for it its time, its owner and where a link points;
\* a directory has its mode again.  Not the time of a writable directory, which
\* changes with what is put into it (retouchDirTimes is a comment, do.go:105);
\* not time and owner of a device, for which nothing calls setPerms.
AsListed ==
  mpc = "ok" /\ ~DryRun =>
    \A i \in DOMAIN fileList :
      LET f == fileList[i]
          kind == EntryKind(i)
          there == dest[f.Name]
          Asked(k, option) == kind = k => On(ropt, option)
      IN /\ Asked("link", "preserve_links")
         /\ Asked("dev", "preserve_devices") /\ Asked("pipe", "preserve_devices")
         => /\ KindAt(f.Name) = kind
            /\ kind = "link" => there.target = f.LinkTarget
            /\ kind = "dir" => there.perm = Perm(f.Mode)
            /\ kind = "file" /\ On(ropt, "preserve_perms") => there.perm = Perm(f.Mode)
            /\ /\ On(ropt, "preserve_mtimes")
               /\ kind = "file" \/ (kind = "dir" /\ Perm(f.Mode) = 0)
               => there.mtime = f.ModTime
            /\ world.root /\ On(ropt, "preserve_uid") /\ kind \notin {"dev", "pipe"}
               => there.uid = f.Uid

\* A dry run leaves files and directories as they are, and makes no directory
\* but the destination itself.  What it does change - it makes the destination
\* (clientmaincmd.go:90, 426, maincmd.go:407, rsyncd.go:609, 631), it makes links
\* and devices, and it removes what is in the way of a file (generator.go:246,
\* 259, 300) - it should not either: "Performs a simulation run without writing
\* to target disk" (README.md:65).
DryRunKeeps ==
  mpc # "list" /\ DryRun =>
    LET was == world.dest
        Regular(d) == {name \in DOMAIN d : d[name].kind \in {"file", "dir"}}
        Listed(kinds) == {NameOf(i) : i \in {j \in DOMAIN fileList : EntryKind(j) \in kinds}}
    IN /\ Regular(dest) \subseteq Regular(was) \cup {Dot}
       /\ \A name \in Regular(was) \ Listed({"file", "link"}) :
            /\ name \in DOMAIN dest
            /\ [dest[name] EXCEPT !.mtime = was[name].mtime] = was[name]
       /\ \A name \in Regular(was) :
            was[name].kind = "file" /\ name \notin Listed({"link"})
              => name \in DOMAIN dest /\ dest[name] = was[name]
=============================================================================
