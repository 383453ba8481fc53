------------------------------ MODULE MCStartup ------------------------------
(***************************************************************************)
(* Startup with a daemon of a few modules, one for each gate, and clients  *)
(* that are let in and clients that are not.                               *)
(***************************************************************************)
EXTENDS Startup

Rule(action, who) == [action |-> action, who |-> who]

Module ==
  [acl |-> <<>>, cns |-> {}, users |-> {}, secrets |-> ("" :> ""),
   writable |-> TRUE]

MCModules ==
  ("open" :> Module)
  @@ ("readonly" :> [Module EXCEPT !.writable = FALSE])
  @@ ("net" :> [Module EXCEPT !.acl = <<Rule("allow", "host"), Rule("deny", "net"),
                                       Rule("allow", "all")>>])
  @@ ("nobody" :> [Module EXCEPT !.acl = <<Rule("deny", "all"), Rule("allow", "all")>>])
  @@ ("broken" :> [Module EXCEPT !.acl = <<Rule("allow", "host"), Rule("", "")>>])
  @@ ("certs" :> [Module EXCEPT !.cns = {"alice"}])
  @@ ("anycert" :> [Module EXCEPT !.cns = {"*"}])
  @@ ("auth" :> [Module EXCEPT !.users = {"u", "v"},
                               !.secrets = ("u" :> "p") @@ ("w" :> "q")])

From(args, push, name) ==
  [remote |-> "daemon", args |-> args,  push |-> push, module |-> name,
   address |-> "far", nets |-> {"far"}, cn |-> "", user |-> "u",
   password |-> "p", others |-> <<>>]

Short(letters) == << <<"-">> \o letters >>
Long(name) == << <<"--", name>> >>
Value(name, value) == << <<"--", name, value>> >>
Excludes == Value("exclude", "x") \o Value("include", "y")

Plain == Short(<<"r">>)
Timed == Plain \o Value("timeout", "9")
Archive == Short(<<"a", "v", "n">>) \o Excludes
Mirror == Short(<<"a", "c">>) \o Long("delete") \o Excludes

\* Each gate, and from both sides of it.
Gates ==
  { From(Plain, push, name) :  push \in BOOLEAN, name \in DOMAIN MCModules }
  \cup { [From(Plain, FALSE, name) EXCEPT !.address = "near", !.nets = nets] :
           name \in {"net", "broken", "nobody"},
           nets \in {{"host", "net"}, {"net"}, {"other"}} }
  \cup { [From(Plain, FALSE, "certs") EXCEPT !.cn = cn] : cn \in {"alice", "bob"} }
  \cup { [From(Plain, FALSE, "auth") EXCEPT !.user = user, !.password = password] :
           user \in {"u", "v", "w"}, password \in {"", "p", "q"} }
  \cup { From(Plain, FALSE, name) : name \in {"", "#list", "unknown"} }

\* Options, by each way to a server.
Ways ==
  { [From(args, push, "open") EXCEPT !.remote = remote] :
      args \in {Plain, Timed, Archive, Mirror, Short(<<"d", "l", "I">>)},
       push \in BOOLEAN, remote \in {"host", "daemon"} }
  \cup { [From(args, TRUE, "") EXCEPT !.remote = "none"] : args \in {Archive, Mirror} }
  \cup { [From(args \o Value("rsh", "ssh"), push, name)
            EXCEPT !.address = "", !.nets = {}] :
           args \in {Plain, Mirror},  push \in BOOLEAN, name \in {"open", "net", "certs"} }

\* Clients that are not this program.
Others ==
  { [From(Plain, push, "open") EXCEPT !.others = others, !.remote = remote] :
      others \in {Short(<<"H">>), Long("fuzzy")},  push \in BOOLEAN,
      remote \in {"host", "daemon"} }

MCCalls == Gates \cup Ways \cup Others
=============================================================================
