------------------------------- MODULE FileList -------------------------------
(***************************************************************************)
(* The file list.  The sender walks its tree and writes an entry for what  *)
(* it finds (sender/flist.go); the receiver reads field after field        *)
(* (receiver/flist.go, uidlist.go).  Nothing on the wire says which fields *)
(* there are, or where an entry ends: both sides know it from their        *)
(* options, and the server's are those that the client wrote on its        *)
(* command line.  Then both sides sort, and a file is an index.            *)
(*                                                                         *)
(* A path is the sequence of its components, a component a sequence of     *)
(* character codes.  A token on the wire is a byte, an int, a long or some *)
(* bytes.                                                                  *)
(***************************************************************************)
EXTENDS Options, Filters, FiniteSets, SequencesExt

CONSTANTS
  Tree,         \* path -> what is there
  Jobs,         \* what may be asked for: [args, rules, push, path, slash]
  SenderNames,  \* user or group id -> name, at the sender
  LocalIds,     \* name -> id, at the receiver
  IntMax,       \* the greatest int32
  Separator,    \* of the receiver's system: Slash or Backslash
  MaxFaults     \* bound: entries that vanish or cannot be read

Backslash == 92
Dot == <<46>>
EmptyChecksum == <<0, 0>>
PathMax == 4096  \* PATH_MAX: the receiver takes no longer names
Narrow == -IntMax - 1 .. IntMax  \* an int32

\* The text of a path, as it is on the wire.
Text(path) ==
  LET text[k \in 1 .. Len(path)] ==
        IF k = 1 THEN path[1] ELSE text[k - 1] \o <<Slash>> \o path[k]
  IN IF path = <<>> THEN Dot ELSE text[Len(path)]

Kinds == {"pipe", "dev", "dir", "file", "link"}

\* What Lstat and Readlink say of an entry of the tree, and the sum of its content.
FileInfo ==
  [kind : Kinds, perm : {0, 1}, size : Nat, mtime : Int, uid : Narrow, gid : Narrow,
   rdev : Narrow, target : Seq(Nat), sum : {sum \in Seq(Nat) : Len(sum) = Len(EmptyChecksum)}]

\* What a component of a path may be.
IsComponent(name) == name \notin {<<>>, Dot} /\ ~Has(name, {Slash})

ASSUME ListConstants ==
  /\ DOMAIN Tree \subseteq Seq(Seq(Nat)) /\ IsFiniteSet(DOMAIN Tree)
  /\ <<>> \in DOMAIN Tree /\ Tree[<<>>].kind = "dir"
  /\ \A path \in DOMAIN Tree : \A k \in DOMAIN path :
       LET above == SubSeq(path, 1, k - 1)
       IN IsComponent(path[k]) /\ above \in DOMAIN Tree /\ Tree[above].kind = "dir"
  /\ \A path \in DOMAIN Tree : Tree[path] \in FileInfo
  /\ \A path \in DOMAIN Tree : Len(Text(path)) < PathMax /\ Len(Tree[path].target) < PathMax
  /\ Separator \in {Slash, Backslash}
  /\ \A job \in Jobs :
       job.path \in DOMAIN Tree
       /\ (job.push /\ job.slash => Tree[job.path].kind = "dir")  \* os.OpenRoot
  /\ DOMAIN SenderNames \subseteq Nat /\ IsFiniteSet(DOMAIN SenderNames)
  /\ \A id \in DOMAIN SenderNames :
       SenderNames[id] \in Seq(Nat) /\ Len(SenderNames[id]) < 256  \* one byte
  /\ IntMax \in Nat /\ MaxFaults \in Nat

\* The filter rules on the command line.
RuleArguments(rules) ==
  [i \in DOMAIN rules |->
     <<"--", IF rules[i].include THEN "include" ELSE "exclude",
       Characters(rules[i].parts)>>]

\* What is asked for is a command line of a client that Main has accepted; the
\* filter rules on it are said apart.  Names consist of codes.
ASSUME JobsOK ==
  /\ \A asked \in Jobs :
       LET o == ParseArguments(asked.args)
       IN /\ asked.args \in Seq(Range(asked.args))
          /\ \A arg \in Range(asked.args) : arg \in Seq(Range(arg)) /\ arg # <<>>
          /\ ~o.failed /\ o.am_daemon # 1 /\ o.filterRules = <<>>
          /\ asked.rules \in Seq(Range(asked.rules))
          /\ \A rule \in Range(asked.rules) :
               /\ rule.include \in BOOLEAN
               /\ rule.parts \in Seq(Range(rule.parts)) /\ IsPattern(rule.parts)
  /\ Dot \in Seq(Codes)
  /\ \A path \in DOMAIN Tree : \A k \in DOMAIN path : path[k] \in Seq(Codes)

VARIABLES
  job,       \* what is asked for
  copt,      \* the client's options
  dopt,      \* its server's
  spc,       \* the sender: "walk", "sorted", "err"
  rest,      \* the paths the walk has still to visit
  files,     \* the sender's list
  uidMap,    \* ids the sender has seen, with their names
  gidMap,
  ioErrors,
  faults,
  wire,
  rpc,       \* the receiver: "list", "sorted", "err"
  need,      \* the fields it will read next
  entry,     \* the entry it is reading
  size,      \* the length it has read last
  fileList,  \* the receiver's list
  ids,       \* "Uid", "Gid" -> id -> [name, local]
  IOErrors

jobVars == <<job, copt, dopt>>
sendVars == <<spc, rest, files, uidMap, gidMap, ioErrors, faults>>
recvVars == <<rpc, need, entry, size, fileList, ids, IOErrors>>
listVars == <<jobVars, sendVars, wire, recvVars>>

sopt == IF job.push THEN copt ELSE dopt
ropt == IF job.push THEN dopt ELSE copt

\* Byte order of strings.
Less(s, t) ==
  \/ IsStrictPrefix(s, t)
  \/ \E k \in DOMAIN s \cap DOMAIN t :
       s[k] < t[k] /\ \A j \in 1 .. k - 1 : s[j] = t[j]

\* WalkDir: a directory before what is in it, names in their order.
Before(p, q) ==
  \/ IsStrictPrefix(p, q)
  \/ \E k \in DOMAIN p \cap DOMAIN q :
       Less(p[k], q[k]) /\ \A j \in 1 .. k - 1 : p[j] = q[j]

\* The positions of names in their order.  Equal names stay as they are:
\* sort.Slice may exchange them, but in the same way on both sides, because it
\* looks only at what is less.
Sooner(names, i, j) ==
  \/ Less(names[i], names[j])
  \/ (names[i] = names[j] /\ i < j)

Order(names) ==
  [k \in DOMAIN names |->
     CHOOSE i \in DOMAIN names :
       Cardinality({j \in DOMAIN names : Sooner(names, j, i)}) = k - 1]

InOrder(list, names) ==
  LET order == Order(names) IN [k \in DOMAIN list |-> list[order[k]]]

WalkOf(path) == {p \in DOMAIN Tree : IsPrefix(path, p)}

\* What is left of a walk without what is below a path.
SkipDir(walk, path) == {p \in walk : ~IsPrefix(path, p)}

\* getStrip, walkFn and SendFileList: the name an entry gets.  A client's
\* paths are absolute; with a slash at its end one is the root of the walk,
\* without it the directory it is in.  A module's paths are in the module;
\* with a slash it is cut from the names that are longer.
WireName(path) ==
  LET n == Len(job.path)
      cut == IF job.push THEN IF job.slash \/ n = 0 THEN n ELSE n - 1
             ELSE IF job.slash /\ Len(path) > n THEN n ELSE 0
  IN SubSeq(path, cut + 1, Len(path))

Rules == [i \in DOMAIN copt.filterRules |-> ParseRule(copt.filterRules[i])]
-----------------------------------------------------------------------------
Byte(v)  == [kind |-> "byte", val |-> v]
Int32(v) == [kind |-> "int", val |-> v]
Long(v)  == [kind |-> "long", val |-> v]
Bytes(v) == [kind |-> "bytes", val |-> v]

\* WriteInt64: four bytes if they will do, or -1 and eight bytes.
Int64(v) == IF v <= IntMax /\ v >= 0 THEN <<Int32(v)>> ELSE <<Int32(-1), Long(v)>>

\* A mistake to be caught: a number is sent as it is.
Unwrapped(v) == v

\* The conversion to int32.
Wrapped(v) ==
  LET m == v % (2 * (IntMax + 1)) IN IF m > IntMax THEN m - 2 * (IntMax + 1) ELSE m

\* A mode is a file type (S_IFMT) and permissions, of which the one that
\* matters is the owner's to write.
TypeOf(kind) ==
  CASE kind = "pipe" -> 1 [] kind = "dev" -> 2 [] kind = "dir" -> 4
    [] kind = "file" -> 8 [] kind = "link" -> 10
ModeOf(info) == 2 * TypeOf(info.kind) + info.perm
FileType(mode) == mode \div 2
Perm(mode) == mode % 2

DirSize == 4

When(condition, tokens) == IF condition THEN tokens ELSE <<>>

\* A mistake to be caught: the device number goes with what a device is to
\* the receiver, whatever the options say.
RdevAlways(info) == When(info.kind \in {"dev", "pipe"}, <<Int32(info.rdev)>>)

Rdev(info) ==
  When(\/ On(sopt, "preserve_devices") /\ info.kind = "dev"
       \/ On(sopt, "preserve_specials") /\ info.kind = "pipe",
       <<Int32(info.rdev)>>)

SizeOf(info) == IF info.kind = "dir" THEN DirSize ELSE info.size

\* A mistake to be caught: every size is sent as four bytes.
LengthCut(info) == <<Int32(IF SizeOf(info) > IntMax THEN IntMax ELSE SizeOf(info))>>

Length(info) == Int64(SizeOf(info))

\* The second half of walkFn: the fields of an entry.
Entry(path) ==
  LET info == Tree[path]
      name == Text(WireName(path))
  IN <<Byte(1), Int32(Len(name)), Bytes(name)>> \o Length(info)
     \o <<Int32(Wrapped(info.mtime)), Int32(ModeOf(info))>>
     \o When(On(sopt, "preserve_uid"), <<Int32(info.uid)>>)
     \o When(On(sopt, "preserve_gid"), <<Int32(info.gid)>>)
     \o Rdev(info)
     \o When(On(sopt, "preserve_links") /\ info.kind = "link",
             <<Int32(Len(info.target)), Bytes(info.target)>>)
     \o When(On(sopt, "always_checksum"),
             <<Bytes(IF info.kind = "file" THEN info.sum ELSE EmptyChecksum)>>)

\* An id is looked up once; root has no entry.
Seen(map, id, preserve) ==
  IF preserve /\ id # 0 /\ id \in DOMAIN SenderNames THEN map \cup {id} ELSE map

Noted(path) ==
  /\ files' = Append(files, path)
  /\ uidMap' = Seen(uidMap, Tree[path].uid, On(sopt, "preserve_uid"))
  /\ gidMap' = Seen(gidMap, Tree[path].gid, On(sopt, "preserve_gid"))
-----------------------------------------------------------------------------
Visiting == spc = "walk" /\ rest # {}
This == CHOOSE p \in rest : \A q \in rest \ {p} : Before(p, q)
IsDir == Tree[This].kind = "dir"
Faulty == faults < MaxFaults /\ faults' = faults + 1

\* A mistake to be caught: a file that is gone is no error.
WalkVanishedSilently ==
  /\ Visiting /\ Faulty
  /\ rest' = SkipDir(rest, This)
  /\ UNCHANGED <<jobVars, spc, files, uidMap, gidMap, ioErrors, wire, recvVars>>

\* walkFn: the entry is gone, or cannot be looked at.
WalkVanished ==
  /\ Visiting /\ Faulty
  /\ rest' = SkipDir(rest, This)
  /\ ioErrors' = 1
  /\ UNCHANGED <<jobVars, spc, files, uidMap, gidMap, wire, recvVars>>

\* walkFn: without -r and -d a directory is skipped.
WalkSkip ==
  /\ Visiting /\ IsDir /\ sopt.xfer_dirs = 0
  /\ rest' = SkipDir(rest, This)
  /\ UNCHANGED <<jobVars, spc, files, uidMap, gidMap, ioErrors, faults, wire,
                 recvVars>>

Wanted == Visiting /\ ~(IsDir /\ sopt.xfer_dirs = 0)
Excluded == Matches(Rules, Text(WireName(This)))

\* walkFn: an excluded entry, and what is below it.
WalkExclude ==
  /\ Wanted /\ Excluded
  /\ rest' = SkipDir(rest, This)
  /\ UNCHANGED <<jobVars, spc, files, uidMap, gidMap, ioErrors, faults, wire,
                 recvVars>>

AfterSent == IF IsDir /\ ~Recurse(sopt) THEN SkipDir(rest, This) ELSE rest \ {This}

\* walkFn: an entry.
WalkSend ==
  /\ Wanted /\ ~Excluded
  /\ Noted(This)
  /\ wire' = wire \o Entry(This)
  /\ rest' = AfterSent
  /\ UNCHANGED <<jobVars, spc, ioErrors, faults, recvVars>>

\* The same, but then the directory cannot be read: walkFn is called again,
\* with the error.
WalkUnreadable ==
  /\ Wanted /\ ~Excluded /\ IsDir /\ Recurse(sopt) /\ Faulty
  /\ Noted(This)
  /\ wire' = wire \o Entry(This)
  /\ rest' = SkipDir(rest, This)
  /\ ioErrors' = 1
  /\ UNCHANGED <<jobVars, spc, recvVars>>

\* walkFn: the target of a link, or a file to be summed, cannot be read.  The
\* walk ends, and so does the transfer.
WalkFail ==
  /\ Wanted /\ ~Excluded /\ Faulty
  /\ \/ Tree[This].kind = "link" /\ On(sopt, "preserve_links")
     \/ Tree[This].kind = "file" /\ On(sopt, "always_checksum")
  /\ Noted(This)
  /\ spc' = "err"
  /\ rest' = rest \ {This}
  /\ UNCHANGED <<jobVars, ioErrors, wire, recvVars>>

\* An id and its name.
Id(id) == <<Int32(id), Byte(Len(SenderNames[id])), Bytes(SenderNames[id])>>

\* The names of a set of ids, in some order, ended by a zero.
IdList(order) ==
  LET n == Len(order)
      last[k \in 0 .. n] ==
        IF k = 0 THEN <<Int32(0)>> ELSE Id(order[n - k + 1]) \o last[k - 1]
  IN last[n]

SortedFiles == InOrder(files, [i \in DOMAIN files |-> Text(WireName(files[i]))])

\* A mistake to be caught: the sender's list stays in the order of the walk.
FilesAsWalked == files

FilesToSend == SortedFiles

\* What follows the entries.
Ends(users, groups) ==
  <<Byte(0)>> \o When(On(sopt, "preserve_uid"), IdList(users))
  \o When(On(sopt, "preserve_gid"), IdList(groups)) \o <<Int32(ioErrors)>>

\* SendFileList: the end of the list.  Then Do sorts.
SendEnd ==
  /\ spc = "walk" /\ rest = {}
  /\ \E users \in SetToSeqs(uidMap), groups \in SetToSeqs(gidMap) :
       wire' = wire \o Ends(users, groups)
  /\ spc' = "sorted"
  /\ files' = FilesToSend
  /\ UNCHANGED <<jobVars, rest, uidMap, gidMap, ioErrors, faults, recvVars>>
-----------------------------------------------------------------------------
Blank ==
  [Name |-> <<>>, Length |-> 0, ModTime |-> 0, Mode |-> 0, Uid |-> 0,
   Gid |-> 0, Rdev |-> 0, LinkTarget |-> <<>>, Checksum |-> EmptyChecksum]

\* How a field is read.
Width(field) ==
  CASE field \in {"flags", "idlen"} -> "byte"
    [] field \in {"Name", "LinkTarget", "Checksum", "idname"} -> "bytes"
    [] field = "Length64" -> "long"
    [] OTHER -> "int"

\* receiveFileEntry: what follows the mode.
AfterMode(mode) ==
  When(On(ropt, "preserve_uid"), <<"Uid">>)
  \o When(On(ropt, "preserve_gid"), <<"Gid">>)
  \o When(On(ropt, "preserve_devices") /\ FileType(mode) \in {1, 2}, <<"Rdev">>)
  \o When(On(ropt, "preserve_links") /\ FileType(mode) = 10, <<"linklen", "LinkTarget">>)
  \o When(On(ropt, "always_checksum"), <<"Checksum">>)
  \o <<"flags">>

\* ReceiveFileList: what follows the entries.
Trailer ==
  When(On(ropt, "preserve_uid"), <<"users">>)
  \o When(On(ropt, "preserve_gid"), <<"groups">>) \o <<"IOErrors">>

Cleaned(text) == [k \in DOMAIN text |-> IF text[k] = Slash THEN Separator ELSE text[k]]

Reading(field) == rpc = "list" /\ Head(need) = field /\ wire # <<>>
Value == Head(wire).val

Readable ==
  /\ Head(wire).kind = Width(Head(need))
  /\ Head(need) \in {"Name", "LinkTarget", "idname"} => Len(Value) = size
  /\ Head(need) = "Checksum" => Len(Value) = Len(EmptyChecksum)

\* ReceiveFileList: a new entry begins, or the list ends and is sorted.
RecvFlags ==
  /\ Reading("flags") /\ Readable
  /\ wire' = Tail(wire)
  /\ IF Value = 0
     THEN /\ need' = Trailer
          /\ fileList' = InOrder(fileList, [i \in DOMAIN fileList |-> fileList[i].Name])
     ELSE /\ need' = <<"namelen", "Name", "Length", "ModTime", "Mode">>
          /\ UNCHANGED fileList
  /\ entry' = Blank
  /\ UNCHANGED <<jobVars, sendVars, rpc, size, ids, IOErrors>>

\* receiveFileEntry: a field.  The entry is complete before the next flags.
RecvAttribute ==
  LET field == Head(need)
      value == IF field = "Name" THEN Cleaned(Value) ELSE Value
      next == CASE field = "Length" /\ Value = -1 -> <<"Length64">> \o Tail(need)
                [] field = "Mode" -> AfterMode(Value)
                [] OTHER -> Tail(need)
      name == IF field = "Length64" THEN "Length" ELSE field
  IN /\ rpc = "list" /\ wire # <<>> /\ Readable
     /\ name \in DOMAIN Blank
     /\ wire' = Tail(wire)
     /\ need' = next
     /\ entry' = [entry EXCEPT ![name] = value]
     /\ fileList' = IF next = <<"flags">>
                    THEN Append(fileList, [entry EXCEPT ![name] = value])
                    ELSE fileList
     /\ UNCHANGED <<jobVars, sendVars, rpc, size, ids, IOErrors>>

\* The length of a name or a link target.
RecvLength ==
  /\ \/ Reading("namelen") \/ Reading("linklen") \/ Reading("idlen")
  /\ Readable
  /\ wire' = Tail(wire)
  /\ need' = Tail(need)
  /\ size' = Value
  /\ UNCHANGED <<jobVars, sendVars, rpc, entry, fileList, ids, IOErrors>>

\* recvIdMapping1: an id, or the end of the set.
RecvId ==
  /\ \/ Reading("users") \/ Reading("groups")
  /\ Readable
  /\ wire' = Tail(wire)
  /\ need' = IF Value = 0 THEN Tail(need) ELSE <<"idlen", "idname">> \o need
  /\ entry' = [entry EXCEPT !.Uid = Value]
  /\ UNCHANGED <<jobVars, sendVars, rpc, size, fileList, ids, IOErrors>>

\* recvIdMapping1: its name, and the id that has this name here.
RecvIdName ==
  /\ Reading("idname") /\ Readable
  /\ wire' = Tail(wire)
  /\ need' = Tail(need)
  /\ ids' = [ids EXCEPT ![need[2]] = @ \cup
       {[id |-> entry.Uid, name |-> Value,
         local |-> IF Value \in DOMAIN LocalIds THEN LocalIds[Value]
                   ELSE entry.Uid]}]
  /\ UNCHANGED <<jobVars, sendVars, rpc, entry, size, fileList, IOErrors>>

RecvIOErrors ==
  /\ Reading("IOErrors") /\ Readable
  /\ wire' = Tail(wire)
  /\ need' = <<>>
  /\ IOErrors' = Value
  /\ rpc' = "sorted"
  /\ UNCHANGED <<jobVars, sendVars, entry, size, fileList, ids>>

\* The sender is gone.
RecvEOF ==
  /\ rpc = "list" /\ wire = <<>> /\ spc = "err"
  /\ rpc' = "err"
  /\ UNCHANGED <<jobVars, sendVars, wire, need, entry, size, fileList, ids,
                 IOErrors>>
-----------------------------------------------------------------------------
Init ==
  /\ job \in Jobs
  /\ copt = LET o == ParseArguments(job.args \o RuleArguments(job.rules))
            IN IF job.push THEN SetSender(o) ELSE o
  /\ dopt = ParseArguments(ServerOptions(copt))
  /\ spc = "walk" /\ rest = WalkOf(job.path)
  /\ files = <<>> /\ uidMap = {} /\ gidMap = {} /\ ioErrors = 0 /\ faults = 0
  /\ wire = <<>>
  /\ rpc = "list" /\ need = <<"flags">> /\ entry = Blank /\ size = 0
  /\ fileList = <<>> /\ ids = [set \in {"users", "groups"} |-> {}]
  /\ IOErrors = 0

Walk ==
  \/ WalkVanished \/ WalkSkip \/ WalkExclude \/ WalkSend
  \/ WalkUnreadable \/ WalkFail \/ SendEnd

Receive ==
  \/ RecvFlags \/ RecvAttribute \/ RecvLength
  \/ RecvId \/ RecvIdName \/ RecvIOErrors \/ RecvEOF

Next == Walk \/ Receive

Spec == Init /\ [][Next]_listVars
-----------------------------------------------------------------------------
Done == spc = "sorted" /\ rpc = "sorted"

TypeOK ==
  /\ job \in Jobs
  /\ spc \in {"walk", "sorted", "err"}
  /\ rpc \in {"list", "sorted", "err"}
  /\ rest \cup ToSet(files) \subseteq DOMAIN Tree
  /\ rest \cap ToSet(files) = {}
  /\ Len(fileList) <= Len(files)
  /\ ioErrors \in {0, 1} /\ IOErrors \in {0, 1} /\ faults \in 0 .. MaxFaults
  /\ \A e \in ToSet(fileList) : e.ModTime \in Narrow

\* The receiver reads every field as what the sender wrote, and the list ends
\* for both at the same byte: nothing is left, and nothing is waited for.
\* (Fields depend on options of both processes and on the mode read before:
\* walkFn 233-303, receiveFileEntry 139-197.)
NeverMisread ==
  /\ rpc = "list" /\ wire # <<>> => Readable
  /\ rpc = "sorted" => spc = "sorted" /\ wire = <<>>
  /\ spc = "sorted" /\ wire = <<>> => rpc = "sorted"

\* An index is the same file for both sides.  sender/do.go: "we need to sort,
\* too (in the same way!), otherwise our indices do not match".
LandsUnderOwnName ==
  Done => /\ Len(fileList) = Len(files)
          /\ \A i \in DOMAIN files :
               fileList[i].Name = Cleaned(Text(WireName(files[i])))

\* What the client's options say about an entry; sizes beyond an int32 and
\* ids without a name included.  Times beyond an int32 are not kept: "this
\* will overflow in 2038" (flist.go:197).
Expected(path) ==
  LET info == Tree[path]
      If(condition, value, otherwise) == IF condition THEN value ELSE otherwise
  IN [Name |-> Cleaned(Text(WireName(path))),
      Length |-> SizeOf(info),
      ModTime |-> Wrapped(info.mtime),
      Mode |-> ModeOf(info),
      Uid |-> If(On(copt, "preserve_uid"), info.uid, 0),
      Gid |-> If(On(copt, "preserve_gid"), info.gid, 0),
      Rdev |-> If(/\ On(copt, "preserve_devices")
                  /\ info.kind \in {"dev", "pipe"}, info.rdev, 0),
      LinkTarget |-> If(On(copt, "preserve_links") /\ info.kind = "link",
                        info.target, <<>>),
      Checksum |-> If(On(copt, "always_checksum") /\ info.kind = "file",
                      info.sum, EmptyChecksum)]

NamesOf(seen) ==
  {[id |-> id, name |-> SenderNames[id],
    local |-> IF SenderNames[id] \in DOMAIN LocalIds
              THEN LocalIds[SenderNames[id]] ELSE id] :
     id \in (seen \cap DOMAIN SenderNames) \ {0}}

\* The receiver's entries say of every file what the sender found, as far as
\* the client asked for it, and every owner has the local id of its name.
ListFaithful ==
  Done =>
    LET sent == ToSet(files) IN
    /\ ToSet(fileList) = {Expected(path) : path \in sent}
    /\ On(copt, "preserve_uid") =>
         ids["users"] = NamesOf({Tree[path].uid : path \in sent})
    /\ On(copt, "preserve_gid") =>
         ids["groups"] = NamesOf({Tree[path].gid : path \in sent})

\* What the rules of the job mean: the first that is about the name decides, and
\* one without a slash is about its last component.
LeftOut(path) ==
  LET name == WireName(path)
      About(rule) ==
        LET whole == Has(Characters(rule.parts), {Slash}) \/ name = <<>>
        IN Fits(rule.parts, IF whole THEN Text(name) ELSE Last(name))
  IN \E i \in DOMAIN job.rules :
       /\ About(job.rules[i]) /\ ~job.rules[i].include
       /\ \A j \in 1 .. i - 1 : ~About(job.rules[j])

\* The first rule that matches a name by dowild is the first that is about it.
FilterMeaning ==
  spc = "walk" /\ files = <<>> =>
    \A path \in rest : Matches(Rules, Text(WireName(path))) = LeftOut(path)

\* What a transfer is asked for.
AskedFor(path) ==
  LET above == {p \in DOMAIN Tree : IsPrefix(job.path, p) /\ IsPrefix(p, path)}
  IN /\ IsPrefix(job.path, path)
     /\ \A p \in above : ~LeftOut(p)
     /\ path # job.path => Recurse(copt)
     /\ Tree[job.path].kind = "dir" => copt.xfer_dirs # 0

\* A file that is asked for and is not in the list has set the error flag: the
\* receiver does not take it for one that was deleted (receiver/do.go deletes
\* only if IOErrors is 0).  And nothing that was excluded is in the list.
MissingMeansFlagged ==
  Done =>
    LET asked == {path \in DOMAIN Tree : AskedFor(path)} IN
    /\ ToSet(files) \subseteq asked
    /\ IOErrors = 0 => ToSet(files) = asked
=============================================================================
