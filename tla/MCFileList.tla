------------------------------ MODULE MCFileList ------------------------------
(***************************************************************************)
(* FileList and Metadata on a tree with entries of each kind, directories  *)
(* in a directory to be asked for alone, and names whose order depends on  *)
(* the separator: "1" is greater than a slash and less than a backslash,   *)
(* "-" is less than both and than the dot of the root.                     *)
(***************************************************************************)
EXTENDS Metadata

a == <<97>>
b == <<98>>
f == <<102>>
a1 == <<97, 49>>
aDash == <<97, 45>>
dash == <<45>>
dev == <<100>>
pipe == <<112>>
link == <<108>>

MCCodes == {Slash, Dash, 46, 49, 97, 98, 100, 102, 108, 112}

Info(kind) ==
  [kind |-> kind, perm |-> 1, size |-> 1, mtime |-> 5, uid |-> 0, gid |-> 0, rdev |-> 0,
   target |-> <<>>, sum |-> EmptyChecksum]

MCTree ==
  (<<>> :> Info("dir"))
  @@ (<<a>> :> [Info("dir") EXCEPT !.perm = 0, !.uid = 1, !.gid = 2])
  @@ (<<a, f>> :> [Info("file") EXCEPT !.size = 9, !.uid = 2, !.gid = 2,
                                       !.sum = <<7, 1>>])
  @@ (<<a, dash>> :> [Info("file") EXCEPT !.size = 7, !.perm = 0, !.uid = 3, !.gid = 2])
  @@ (<<a, b>> :> [Info("dir") EXCEPT !.perm = 0])
  @@ (<<a, b, b>> :> Info("dir"))
  @@ (<<a, b, b, f>> :> Info("file"))
  @@ (<<aDash>> :> [Info("link") EXCEPT !.target = a1, !.uid = 1])
  @@ (<<a1>> :> [Info("file") EXCEPT !.sum = <<3, 0>>, !.mtime = -8])
  @@ (<<dev>> :> [Info("dev") EXCEPT !.rdev = 6])
  @@ (<<pipe>> :> [Info("pipe") EXCEPT !.rdev = 4, !.gid = 4, !.mtime = 9])

\* 3 has no name at the sender, 2 is somebody else at the receiver, and the
\* name of 4 is not known there.
MCSenderNames == (0 :> <<1>>) @@ (1 :> <<2>>) @@ (2 :> <<3, 3>>) @@ (4 :> <<4>>)
MCLocalIds == (<<1>> :> 0) @@ (<<2>> :> 1) @@ (<<3, 3>> :> 5)

Short(letters) == << <<"-">> \o letters >>

\* Command lines.  --devices and --specials are said together: with one of
\* them alone the two sides disagree about rdev.
Lines ==
  { Short(<<"a">>),
    Short(<<"a", "n">>),
    Short(<<"a", "c">>) \o << <<"--", "no-links">>, <<"--", "no-owner">> >>,
    Short(<<"r", "D", "g">>),
    Short(<<"r", "l", "o", "c", "v", "v">>),
    Short(<<"d">>),
    Short(<<"l", "t">>),
    Short(<<"r">>) \o << <<"--", "no-recursive">>, <<"--", "dirs">>,
                        <<"--", "no-dirs">> >>,
    << <<"--", "archive">>, <<"--", "delete">>, <<"--", "no-D">>,
       <<"--", "timeout", "9">> >> }

Places == {[path |-> <<>>, slash |-> FALSE], [path |-> <<a, b>>, slash |-> FALSE],
           [path |-> <<a>>, slash |-> TRUE], [path |-> <<a, f>>, slash |-> FALSE]}

Job(line, rules, push, place) ==
  [args |-> line, rules |-> rules, push |-> push, path |-> place.path,
   slash |-> place.slash]

No(parts) == [include |-> FALSE, parts |-> parts]
But(parts) == [include |-> TRUE, parts |-> parts]

RuleLists ==
  { << No(<<Char(97)>>) >>,
    << No(<<Char(97), AnyName>>) >>,
    << No(<<Char(97), AnyChar>>) >>,
    << No(<<Char(97), Char(Slash), AnyName>>) >>,
    << No(<<AnyName, Char(Slash), Char(102)>>) >>,
    << No(<<AnyPath, Char(102)>>) >>,
    << No(<<Char(97), AnyPath>>), But(<<AnyName>>) >>,
    << No(<<Char(97), OneOf(45, 49)>>) >>,
    << No(<<AnyName, NoneOf(49, 97)>>) >>,
    << But(<<Char(97)>>), But(<<AnyName, Char(45)>>), No(<<Char(97), AnyName>>) >>,
    << But(<<AnyPath, AnyChar>>), No(<<AnyName>>) >>,
    << No(<<AnyName, AnyChar, AnyName, Char(49)>>) >> }

MCJobs ==
  { Job(line, <<>>, push, place) :
      line \in Lines, push \in BOOLEAN, place \in Places }
  \cup { Job(line, <<>>, FALSE, [path |-> <<a, b, b>>, slash |-> FALSE]) :
      line \in {Short(<<"a">>), Short(<<"a", "n">>)} }
  \cup { Job(Short(<<"r", "o">>), rules, push, place) :
      rules \in RuleLists, push \in BOOLEAN,
      place \in {p \in Places : p.slash = (p.path # <<>>)} }

\* Destinations: none yet; from an earlier transfer, with other modes and groups
\* and read-only directories; with files that are up to date but without the
\* directory "a"; with something else under most names.
Names == {Cleaned(Text(path)) : path \in DOMAIN Tree} \cup {f, dash}
KindOf(name) ==
  IF name \in {f, dash} THEN "file"
  ELSE Tree[CHOOSE path \in DOMAIN Tree : Cleaned(Text(path)) = name].kind

Old(kind) ==
  [kind |-> kind, perm |-> 0, size |-> 1, sum |-> <<3, 0>>, mtime |-> 2, uid |-> Me,
   gid |-> 9, target |-> a]

MCRoot == Dot :> [Old("dir") EXCEPT !.perm = 1]
MCOld == [name \in Names |-> Old(KindOf(name))]
MCCurrent == [name \in {n \in Names \ {a} : Parent(n) = Dot} |->
                [Old(KindOf(name)) EXCEPT !.mtime = -8, !.target = a1]]
MCOther == MCRoot @@ (a :> Old("file")) @@ (aDash :> Old("file")) @@ (a1 :> Old("dir"))
                  @@ (link :> Old("link")) @@ (dev :> Old("pipe")) @@ (f :> Old("dir"))
                  @@ (f \o <<Slash>> \o a :> Old("file"))

MCWorlds ==
  {[root |-> FALSE, groups |-> {}, dest |-> <<>>],
   [root |-> FALSE, groups |-> {2}, dest |-> MCOld],
   [root |-> TRUE, groups |-> {}, dest |-> MCOld],
   [root |-> TRUE, groups |-> {}, dest |-> MCCurrent],
   [root |-> TRUE, groups |-> {}, dest |-> MCOther]}

\* One transfer, to look at the order of names only.
MCOneJob == { Job(Short(<<"r">>), <<>>, TRUE, [path |-> <<>>, slash |-> FALSE]) }
=============================================================================
