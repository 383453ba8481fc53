------------------------------- MODULE Startup -------------------------------
(***************************************************************************)
(* From the command line to the file list: how the client finds its        *)
(* server (clientmaincmd.go), what the two say to each other before the    *)
(* transfer (clientserver.go, rsyncd.go), and whom a daemon lets in.       *)
(*                                                                         *)
(* There are four ways to a server: a goroutine of the same process        *)
(* ("local"), a command at the other end of a remote shell ("shell"), a    *)
(* daemon behind a socket ("socket"), and a daemon at the other end of a   *)
(* remote shell ("shelldaemon").  The daemons speak in lines first; after  *)
(* the seed everything from the server is in messages.  An item on a       *)
(* channel is <<"line", ...>>, <<"int", ...>>, <<"msg", tag, ...>>, or, to *)
(* the server, <<"rule", r>> and <<"list">>.                               *)
(***************************************************************************)
EXTENDS Options, FiniteSets, SequencesExt

CONSTANTS
  Calls,      \* clients, see Kind and the operators after it
  Modules,    \* name -> [acl, cns, users, secrets, writable]
  Challenges

\* The modules of a daemon are a finite list, and an access list is one.  An
\* argument has at least one part, and the command line of a client is one
\* that Main has accepted, and not that of a daemon.
ASSUME StartupConstants ==
  /\ Challenges # {} /\ None \notin DOMAIN Modules /\ IsFiniteSet(DOMAIN Modules)
  /\ \A m \in DOMAIN Modules : Modules[m].acl \in Seq(Range(Modules[m].acl))
  /\ \A c \in Calls :
       /\ c.remote \in {"none", "host", "daemon"}
       /\ c.remote = "none" => c.push
       /\ c.nets = {} <=> c.address = None
       /\ \A args \in {c.args, c.others} :
            /\ args \in Seq(Range(args))
            /\ \A a \in Range(args) : a \in Seq(Range(a)) /\ a # <<>>
       /\ ~ParseArguments(c.args).failed /\ ParseArguments(c.args).am_daemon # 1

VARIABLES
  call,
  copt,      \* the client's options
  cpc,       \* client: "begin", "greeting", "lines", "version", "seed",
             \* "filters", "list", "transfer", "listed", "err"
  buffer,    \* read by the bufio.Reader of StartInbandExchange
  dropped,   \* what was in it when it was dropped
  dopt,      \* the server's options
  spc,       \* server: "main", "greet", "greeting", "module", "auth",
             \* "flags", "version", "seed", "receiver", "filters", "list",
             \* "transfer", "listed", "err"
  module,    \* None is the implicit module
  challenge,
  flags,      \* the flags received
  rules,     \* the filter list received
  up, down,  \* to the server, to the client
  stalled    \* the network does not deliver any more

clientVars == <<copt, cpc, buffer, dropped>>
serverVars == <<dopt, spc, module, challenge, flags, rules>>
startVars == <<call, clientVars, serverVars, up, down, stalled>>

Line(text) == <<"line", text>>
OK == Line("@RSYNCD: OK")
Exit == Line("@RSYNCD: EXIT")
Error == Line("@ERROR")
EndOfFlags == Line(<<>>)
EndOfFilters == <<"int", 0>>
ErrorXfer == <<"msg", "error">>
Data(what) == <<"msg", "data", what>>

\* rsyncMain: the way to the server.
Kind ==
  CASE call.remote = "none" -> "local"
    [] call.remote = "host" -> "shell"
    [] OTHER -> IF copt.shell_cmd = None THEN "socket" ELSE "shelldaemon"

ClientOptions(c) ==
  LET o == ParseArguments(c.args)
  IN [o EXCEPT !.am_sender = IF c.push THEN 1 ELSE @,
               !.local_server = IF c.remote = "none" THEN 1 ELSE @]

\* The arguments of the server.  A client that is not this program may send
\* others as well (call.others).
Arguments == ServerOptions(copt) \o call.others \o << <<".">>, <<"path">> >>

\* doCmd
CommandLine ==
  IF Kind = "shelldaemon" THEN << <<"--", "server">>, <<"--", "daemon">>, <<".">> >>
  ELSE Arguments

\* StartInbandExchange gets the remote path from socketClient, but the first
\* operand from rsyncMain: over a remote shell a client that sends gives it
\* its own absolute path, in front of whose first slash there is nothing.
RequestedModule ==
  IF Kind = "shelldaemon" /\ call.push THEN None ELSE call.module

HasTimeout == Kind = "socket" /\ copt.io_timeout # None
-----------------------------------------------------------------------------
(* The gates of a daemon.                                                  *)

\* A mistake to be caught: a rule that allows is looked for first.
checkACLAllowFirst(acl) ==
  \/ acl = <<>>
  \/ /\ call.address # None
     /\ \E i \in DOMAIN acl :
          acl[i].action = "allow" /\ acl[i].who \in call.nets \cup {"all"}

\* checkACL: the rules are read one after the other until one is about the
\* address; a rule that cannot be read is an error, if it is reached.
checkACL(acl) ==
  LET from[i \in 1 .. Len(acl) + 1] ==
        IF i > Len(acl) THEN TRUE
        ELSE IF acl[i].action \notin {"allow", "deny"} THEN FALSE
        ELSE IF acl[i].who \in call.nets \cup {"all"} THEN acl[i].action = "allow"
        ELSE from[i + 1]
  IN acl = <<>> \/ (call.address # None /\ from[1])

\* The common name of the client's certificate is None without TLS.
ClientCN == IF Kind = "socket" THEN call.cn ELSE None

\* A mistake to be caught: the star is taken for a name.
cnAllowedLiteral(cns) == cns = {} \/ ClientCN \in cns

cnAllowed(cns) == cns = {} \/ ClientCN \in cns \/ "*" \in cns

\* generateAuthHash and authHashSecret.
Hash(password, c) == <<password, c>>

\* lookupSecret: the password in the secrets file, if the user is in it.
lookupSecret(m, user) ==
  {Modules[m].secrets[u] : u \in {user} \cap DOMAIN Modules[m].secrets}

\* authServer: the user is one of the module's, and answers with the secret.
authServer(m, user, response) ==
  /\ user \in Modules[m].users
  /\ \E secret \in lookupSecret(m, user) : response = Hash(secret, challenge)
-----------------------------------------------------------------------------
(* The server.                                                             *)

ServerReads == ~stalled /\ up # <<>>
Heard == Head(up)

\* Everything but the server's place, what it has read and what it has said.
ServerOnly == UNCHANGED <<call, clientVars, stalled>>

Says(items) == down' = down \o items

\* Main: a command line of a server.
ServerMain ==
  /\ spc = "main"
  /\ LET o == ParseArguments(CommandLine)
     IN /\ dopt' = o
        /\ spc' = IF o.failed THEN "err"
                  ELSE IF o.am_daemon = 1 THEN "greet"
                  ELSE "version"
  /\ ServerOnly
  /\ UNCHANGED <<module, challenge, flags, rules, up, down>>

\* HandleDaemonConn
ServerGreet ==
  /\ spc = "greet"
  /\ Says(<<Line("@RSYNCD: 31.0")>>)
  /\ spc' = "greeting"
  /\ ServerOnly
  /\ UNCHANGED <<dopt, module, challenge, flags, rules, up>>

ServerGreeting ==
  /\ spc = "greeting" /\ ServerReads
  /\ up' = Tail(up)
  /\ spc' = "module"
  /\ ServerOnly
  /\ UNCHANGED <<dopt, module, challenge, flags, rules, down>>

AtModule ==
  /\ spc = "module" /\ ServerReads
  /\ up' = Tail(up)
  /\ module' = Heard[2]
  /\ ServerOnly
  /\ UNCHANGED <<dopt, flags, rules>>

formatModuleList == [i \in 1 .. Cardinality(DOMAIN Modules) |-> Line("a module")]

ServerListModules ==
  /\ AtModule /\ Heard[2] \in {None, "#list"}
  /\ Says(formatModuleList \o <<Exit>>)
  /\ spc' = "listed"
  /\ UNCHANGED challenge

Known(m) == m \in DOMAIN Modules
Passes(m) == Known(m) /\ checkACL(Modules[m].acl) /\ cnAllowed(Modules[m].cns)

ServerRefuse ==
  /\ AtModule /\ Heard[2] \notin {None, "#list"} /\ ~Passes(Heard[2])
  /\ Says(<<Error>>)
  /\ spc' = "err"
  /\ UNCHANGED challenge

ServerAskAuth ==
  /\ AtModule /\ Passes(Heard[2]) /\ Modules[Heard[2]].users # {}
  /\ challenge' \in Challenges
  /\ Says(<< <<"line", "@RSYNCD: AUTHREQD", challenge'>> >>)
  /\ spc' = "auth"

\* A mistake to be caught: the seed does not wait for the client's flags.
AdmittanceWithSeed == <<OK, <<"int", "seed">> >>

Admittance == <<OK>>

ServerAdmit ==
  /\ AtModule /\ Passes(Heard[2]) /\ Modules[Heard[2]].users = {}
  /\ Says(Admittance)
  /\ spc' = "flags"
  /\ UNCHANGED challenge

ServerAuth ==
  /\ spc = "auth" /\ ServerReads
  /\ up' = Tail(up)
  /\ IF authServer(module, Heard[3], Heard[4])
     THEN Says(Admittance) /\ spc' = "flags"
     ELSE Says(<<Error>>) /\ spc' = "err"
  /\ ServerOnly
  /\ UNCHANGED <<dopt, module, challenge, flags, rules>>

ServerFlag ==
  /\ spc = "flags" /\ ServerReads /\ Heard # EndOfFlags
  /\ up' = Tail(up)
  /\ flags' = Append(flags, Heard[2])
  /\ ServerOnly
  /\ UNCHANGED <<dopt, spc, module, challenge, rules, down>>

\* The flags are complete; an error is said after a seed of its own.
ServerFlags ==
  /\ spc = "flags" /\ ServerReads /\ Heard = EndOfFlags
  /\ up' = Tail(up)
  /\ dopt' = ParseArguments(flags)
  /\ IF dopt'.failed
     THEN Says(<< <<"int", "errorSeed">>, ErrorXfer >>) /\ spc' = "err"
     ELSE UNCHANGED down /\ spc' = "seed"
  /\ ServerOnly
  /\ UNCHANGED <<module, challenge, flags, rules>>

\* handleConn, negotiating
ServerVersion ==
  /\ spc = "version" /\ ServerReads
  /\ up' = Tail(up)
  /\ Says(<< <<"int", "version">> >>)
  /\ spc' = "seed"
  /\ ServerOnly
  /\ UNCHANGED <<dopt, module, challenge, flags, rules>>

ServerSeed ==
  /\ spc = "seed"
  /\ Says(<< <<"int", "seed">> >>)
  /\ spc' = IF Sender(dopt) THEN "filters" ELSE "receiver"
  /\ ServerOnly
  /\ UNCHANGED <<dopt, module, challenge, flags, rules, up>>

Writable == module = None \/ Modules[module].writable

\* handleConnReceiver: a module that is read only, or an option that is not
\* implemented, is an error; a filter list comes with --delete only.
ServerReceiver ==
  /\ spc = "receiver"
  /\ IF ~Writable \/ On(dopt, "preserve_hard_links")
     THEN Says(<<ErrorXfer>>) /\ spc' = "err"
     ELSE UNCHANGED down /\ spc' = IF DeleteMode(dopt) THEN "filters" ELSE "list"
  /\ ServerOnly
  /\ UNCHANGED <<dopt, module, challenge, flags, rules, up>>

\* RecvFilterList: a length and a rule, or a zero.
ServerRule ==
  /\ spc = "filters" /\ ServerReads /\ Heard[1] = "rule"
  /\ up' = Tail(up)
  /\ rules' = Append(rules, Heard[2])
  /\ ServerOnly
  /\ UNCHANGED <<dopt, spc, module, challenge, flags, down>>

ServerRules ==
  /\ spc = "filters" /\ ServerReads /\ Heard = EndOfFilters
  /\ up' = Tail(up)
  /\ spc' = "list"
  /\ ServerOnly
  /\ UNCHANGED <<dopt, module, challenge, flags, rules, down>>

\* SendFileList; or ReceiveFileList, and then the first request.
ServerSendList ==
  /\ spc = "list" /\ Sender(dopt)
  /\ Says(<<Data("list")>>)
  /\ spc' = "transfer"
  /\ ServerOnly
  /\ UNCHANGED <<dopt, module, challenge, flags, rules, up>>

ServerReceiveList ==
  /\ spc = "list" /\ ~Sender(dopt) /\ ServerReads /\ Heard = <<"list">>
  /\ up' = Tail(up)
  /\ Says(<<Data("request")>>)
  /\ spc' = "transfer"
  /\ ServerOnly
  /\ UNCHANGED <<dopt, module, challenge, flags, rules>>

ClientGone == cpc \in {"listed", "err"}
ServerGone == spc \in {"listed", "err"}

\* The client has closed the connection.
ServerEOF ==
  /\ spc \in {"greeting", "module", "auth", "flags", "version", "filters", "list"}
  /\ ~stalled /\ up = <<>> /\ ClientGone
  /\ spc' = "err"
  /\ ServerOnly
  /\ UNCHANGED <<dopt, module, challenge, flags, rules, up, down>>

ServerStep ==
  \/ ServerMain \/ ServerGreet \/ ServerGreeting \/ ServerListModules
  \/ ServerRefuse \/ ServerAskAuth \/ ServerAdmit \/ ServerAuth
  \/ ServerFlag \/ ServerFlags \/ ServerVersion \/ ServerSeed
  \/ ServerReceiver \/ ServerRule \/ ServerRules \/ ServerSendList
  \/ ServerReceiveList \/ ServerEOF
-----------------------------------------------------------------------------
(* The client.                                                             *)

ClientOnly == UNCHANGED <<call, copt, serverVars, stalled>>
Sends(items) == up' = up \o items

\* StartInbandExchange says its greeting; ClientRun its version.
ClientBegin ==
  /\ cpc = "begin"
  /\ IF Kind \in {"socket", "shelldaemon"}
     THEN Sends(<<Line("@RSYNCD: greeting")>>) /\ cpc' = "greeting"
     ELSE Sends(<< <<"int", "version">> >>) /\ cpc' = "version"
  /\ ClientOnly
  /\ UNCHANGED <<buffer, dropped, down>>

\* The bufio.Reader reads what there is, and not only a line.
ClientFill ==
  /\ cpc \in {"greeting", "lines"} /\ buffer = <<>>
  /\ ~stalled /\ down # <<>>
  /\ \E n \in DOMAIN down :
       /\ buffer' = SubSeq(down, 1, n)
       /\ down' = SubSeq(down, n + 1, Len(down))
  /\ ClientOnly
  /\ UNCHANGED <<cpc, dropped, up>>

ClientGreeting ==
  /\ cpc = "greeting" /\ buffer # <<>>
  /\ buffer' = Tail(buffer)
  /\ Sends(<<Line(RequestedModule)>>)
  /\ cpc' = "lines"
  /\ ClientOnly
  /\ UNCHANGED <<dropped, down>>

AtLine(line) ==
  /\ cpc = "lines" /\ buffer # <<>> /\ Head(buffer)[2] = line
  /\ ClientOnly

ClientAuth ==
  /\ AtLine("@RSYNCD: AUTHREQD")
  /\ IF call.password = None
     THEN cpc' = "err" /\ UNCHANGED up
     ELSE /\ Sends(<< <<"line", "auth", call.user,
                        Hash(call.password, Head(buffer)[3])>> >>)
          /\ UNCHANGED cpc
  /\ buffer' = Tail(buffer)
  /\ UNCHANGED <<dropped, down>>

ArgLines == [i \in DOMAIN Arguments |-> Line(Arguments[i])]

\* A mistake to be caught: nothing ends the flags.
FlagLinesOpen == ArgLines

FlagLines == Append(ArgLines, EndOfFlags)

\* The flags; the reader is forgotten, with what it holds.
ClientFlags ==
  /\ AtLine(OK[2])
  /\ Sends(FlagLines)
  /\ dropped' = Tail(buffer)
  /\ buffer' = <<>>
  /\ cpc' = "seed"
  /\ UNCHANGED down

ClientExit ==
  /\ AtLine(Exit[2])
  /\ buffer' = Tail(buffer)
  /\ cpc' = "listed"
  /\ UNCHANGED <<dropped, up, down>>

ClientRefused ==
  /\ AtLine(Error[2])
  /\ buffer' = Tail(buffer)
  /\ cpc' = "err"
  /\ UNCHANGED <<dropped, up, down>>

\* The message of the day, or a module.
ClientSkip ==
  /\ AtLine("a module")
  /\ buffer' = Tail(buffer)
  /\ UNCHANGED <<cpc, dropped, up, down>>

ClientReads == ~stalled /\ down # <<>>

ClientVersion ==
  /\ cpc = "version" /\ ClientReads
  /\ down' = Tail(down)
  /\ cpc' = "seed"
  /\ ClientOnly
  /\ UNCHANGED <<buffer, dropped, up>>

ClientSeed ==
  /\ cpc = "seed" /\ ClientReads
  /\ down' = Tail(down)
  /\ cpc' = "filters"
  /\ ClientOnly
  /\ UNCHANGED <<buffer, dropped, up>>

\* A mistake to be caught: the rules are sent from the last to the first.
RuleItemsReversed ==
  [i \in DOMAIN copt.filterRules |-> <<"rule", Reverse(copt.filterRules)[i]>>]

RuleItems == [i \in DOMAIN copt.filterRules |-> <<"rule", copt.filterRules[i]>>]

\* A mistake to be caught: a client that sends never sends its rules.
SendsFiltersNever == ~Sender(copt)

\* ClientRun: a client that sends keeps its rules to itself, but for --delete.
SendsFilters == Sender(copt) => DeleteMode(copt)

ClientFilters ==
  /\ cpc = "filters"
  /\ Sends((IF SendsFilters THEN RuleItems \o <<EndOfFilters>> ELSE <<>>)
           \o (IF Sender(copt) THEN << <<"list">> >> ELSE <<>>))
  /\ cpc' = "list"
  /\ ClientOnly
  /\ UNCHANGED <<buffer, dropped, down>>

\* MultiplexReader.Read: the list of a sender, or the first request.
ClientData ==
  /\ cpc = "list" /\ ClientReads /\ Head(down)[2] = "data"
  /\ down' = Tail(down)
  /\ cpc' = "transfer"
  /\ ClientOnly
  /\ UNCHANGED <<buffer, dropped, up>>

\* MultiplexReader.Read: an error message is logged, and no error.
ClientMessage ==
  /\ cpc = "list" /\ ClientReads /\ Head(down) = ErrorXfer
  /\ down' = Tail(down)
  /\ ClientOnly
  /\ UNCHANGED <<cpc, buffer, dropped, up>>

ClientWaits ==
  /\ cpc \in {"greeting", "lines", "version", "seed", "list"}
  /\ buffer = <<>>
  /\ stalled \/ down = <<>>

ClientEOF ==
  /\ ClientWaits /\ ~stalled /\ ServerGone
  /\ cpc' = "err"
  /\ ClientOnly
  /\ UNCHANGED <<buffer, dropped, up, down>>

\* TimeoutConn.Read: the deadline of a read has passed.
ClientTimeout ==
  /\ ClientWaits /\ HasTimeout
  /\ cpc' = "err"
  /\ ClientOnly
  /\ UNCHANGED <<buffer, dropped, up, down>>

ClientStep ==
  \/ ClientBegin \/ ClientFill \/ ClientGreeting \/ ClientAuth \/ ClientFlags
  \/ ClientExit \/ ClientRefused \/ ClientSkip \/ ClientVersion \/ ClientSeed
  \/ ClientFilters \/ ClientData \/ ClientMessage \/ ClientEOF
-----------------------------------------------------------------------------
\* The server closes its socket before it has read everything: what is still
\* on its way to the client may be lost.
Reset ==
  /\ Kind = "socket" /\ ServerGone /\ up # <<>> /\ down # <<>>
  /\ down' = <<>>
  /\ UNCHANGED <<call, clientVars, serverVars, up, stalled>>

Stall ==
  /\ Kind = "socket" /\ ~stalled
  /\ stalled' = TRUE
  /\ UNCHANGED <<call, clientVars, serverVars, up, down>>

Init ==
  /\ call \in Calls
  /\ copt = ClientOptions(call)
  /\ cpc = "begin" /\ buffer = <<>> /\ dropped = <<>>
  /\ dopt = Defaults
  /\ spc = IF Kind = "socket" THEN "greet" ELSE "main"
  /\ module = None /\ challenge = CHOOSE c \in Challenges : TRUE
  /\ flags = <<>> /\ rules = <<>>
  /\ up = <<>> /\ down = <<>> /\ stalled = FALSE

Next == ServerStep \/ ClientStep \/ ClientTimeout \/ Reset \/ Stall

\* The server has come to an end, or waits for something to read.  (What it
\* cannot read as a rule or as a list would leave it waiting as well.)
ServerIdle ==
  \/ spc \in {"transfer", "listed", "err"}
  \/ /\ \/ spc \in {"greeting", "module", "auth", "flags", "version", "filters"}
        \/ spc = "list" /\ ~Sender(dopt)
     /\ \/ stalled
        \/ up = <<>> /\ ~ClientGone
        \/ up # <<>> /\ spc = "filters" /\ Heard[1] # "rule" /\ Heard # EndOfFilters
        \/ up # <<>> /\ spc = "list" /\ Heard # <<"list">>

\* Both processes go on as long as they can, and a deadline passes.  For the
\* server, weak fairness is written out: see ServerIdle for ENABLED.
Fairness ==
  /\ []<>ServerIdle \/ []<><<ServerStep>>_startVars
  /\ WF_startVars(ClientStep)
  /\ WF_startVars(ClientTimeout /\ stalled)

Spec == Init /\ [][Next]_startVars

FairSpec == Spec /\ Fairness
-----------------------------------------------------------------------------
ClientPlaces ==
  {"begin", "greeting", "lines", "version", "seed", "filters", "list",
   "transfer", "listed", "err"}
ServerPlaces ==
  {"main", "greet", "greeting", "module", "auth", "flags", "version", "seed",
   "receiver", "filters", "list", "transfer", "listed", "err"}

TypeOK ==
  /\ call \in Calls
  /\ cpc \in ClientPlaces /\ spc \in ServerPlaces
  /\ module \in DOMAIN Modules \cup {None, "#list", call.module}
  /\ challenge \in Challenges
  /\ IsPrefix(rules, copt.filterRules)
  /\ flags # <<>> => IsPrefix(flags, Arguments)
  /\ buffer # <<>> => cpc \in {"greeting", "lines", "listed", "err"}

\* What the configuration of a module says of a client.
Listed(rule) == rule.who \in call.nets \cup {"all"}
MayUse(m) ==
  LET mod == Modules[m]
      \* the rule that is about the client, or is not a rule
      decides == {i \in DOMAIN mod.acl :
                    mod.acl[i].action \notin {"allow", "deny"} \/ Listed(mod.acl[i])}
      first == {i \in decides : \A j \in decides : i <= j}
  IN /\ mod.acl = <<>> \/ call.address # None
     /\ \A i \in first : mod.acl[i].action = "allow"
     /\ mod.cns = {} \/ "*" \in mod.cns
          \/ (Kind = "socket" /\ call.cn \in mod.cns)
          \/ (Kind # "socket" /\ None \in mod.cns)
     /\ mod.users = {} \/ (/\ call.user \in mod.users
                           /\ call.user \in DOMAIN mod.secrets
                           /\ mod.secrets[call.user] = call.password)

\* A daemon reads the flags of a client only if the module's access rules,
\* certificates and secrets let this client in, and writes to a module only if
\* it is writable.
GatesPassed ==
  /\ spc \in {"flags", "seed", "receiver", "filters", "list", "transfer"}
       /\ module # None => MayUse(module)
  /\ spc \in {"list", "transfer"} /\ ~Sender(dopt) /\ module # None =>
       Modules[module].writable

\* The fields that decide what is on the wire, and what the receiver does.
WireFields ==
  {"dry_run", "preserve_links", "preserve_uid", "preserve_gid",
   "preserve_devices", "preserve_mtimes", "preserve_perms", "recurse",
   "xfer_dirs", "always_checksum", "delete_mode", "update_only",
   "ignore_times", "size_only"}

\* When the file list begins, exactly one side is the sender, and both have
\* the same options, though the server has only seen a command line made up
\* from the client's.
AgreeOnOptions ==
  spc \in {"list", "transfer"} =>
    /\ Sender(copt) # Sender(dopt)
    /\ \A field \in WireFields : On(copt, field) = On(dopt, field)

\* The server reads a filter list exactly if the client sends one: none of its
\* rules is lost, and none is left for the file list.
FiltersArrive ==
  /\ spc \in {"list", "transfer"} /\ (Sender(dopt) \/ DeleteMode(dopt)) =>
       rules = copt.filterRules
  /\ spc = "filters" =>
       \A i \in DOMAIN up : up[i] = <<"list">> => i > 1 /\ up[i - 1] = EndOfFilters
  /\ spc = "list" /\ up # <<>> => up[1] = <<"list">>

\* Nothing of what the server says is lost with the client's line reader:
\* the server says nothing after OK until it has read the flags.
NothingDropped == dropped = <<>>

ClientEnded == cpc \in {"transfer", "listed", "err"}
ServerEnded == spc \in {"transfer", "listed", "err"}

\* Client and server never wait for each other: if the network does not stall,
\* both come to the transfer or to an end.  If it does, a client with --timeout
\* still comes to an end.
HandshakeEnds ==
  /\ <>(stalled \/ (ClientEnded /\ ServerEnded))
  /\ <>((stalled /\ ~HasTimeout) \/ ClientEnded)

\* A client that may use a module, and asks for nothing the server cannot do,
\* is served.  (Not one that sends to a daemon over a remote shell: see
\* RequestedModule.)
Served ==
  LET may == /\ Kind \in {"socket", "shelldaemon"} =>
                  /\ call.module \in DOMAIN Modules
                  /\ MayUse(call.module)
                  /\ Sender(copt) => Modules[call.module].writable
             /\ call.others = <<>> /\ ~HasTimeout
             /\ ~(Kind = "shelldaemon" /\ Sender(copt))
  IN may => <>(stalled \/ (cpc = "transfer" /\ spc = "transfer"))
=============================================================================
