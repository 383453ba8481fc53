------------------------------- MODULE Options -------------------------------
(***************************************************************************)
(* The options of a transfer: how a command line is parsed (popt.go,       *)
(* rsyncopts.go), and how the client writes the command line of its server *)
(* (serveroptions.go), which the server parses again.                      *)
(*                                                                         *)
(* An argument is the sequence of its parts: <<"--", name>> or             *)
(* <<"--", name, value>> is a long option, <<"-", l1, ..., ln>> a cluster  *)
(* of short options, anything else an operand.  A long option after one    *)
(* dash ("-no-D") is accepted as well; it is written with two here.  An    *)
(* option's argument is the third part, whether it follows "=" or in the   *)
(* next word; <<"--", "timeout">> has none.  Options that touch neither    *)
(* the connection nor the choice of what is transferred (logging, TLS      *)
(* files, ports, bandwidth, temporary directories) are left out, and       *)
(* --delete-excluded, which has a field but no row in rsyncTable.          *)
(***************************************************************************)
EXTENDS Integers, Sequences, FiniteSets

\* An empty string: no name, no argument.
None == ""

\* tridgeDefaults: -1 is "not said".
Defaults ==
  [am_server |-> 0, am_sender |-> 0, am_daemon |-> 0, local_server |-> 0,
   dry_run |-> 0, preserve_links |-> 0, preserve_uid |-> 0,
   preserve_gid |-> 0, preserve_devices |-> 0, preserve_specials |-> 0,
   preserve_mtimes |-> 0, preserve_perms |-> 0, preserve_hard_links |-> 0,
   recurse |-> 0, xfer_dirs |-> -1, always_checksum |-> 0, delete_mode |-> 0,
   update_only |-> 0, ignore_times |-> 0, size_only |-> 0, whole_file |-> -1,
   list_only |-> 0, verbose |-> 0, io_timeout |-> None, shell_cmd |-> None,
   filterRules |-> <<>>, remaining |-> <<>>, failed |-> FALSE]

\* A row of a table: long name, short name, field, and the value it gets.
Row(long, short, field, val) ==
  [long |-> long, short |-> short, field |-> field, val |-> val]

\* rsyncTable: the options that only set a field.
SwitchTable ==
  { Row("dry-run", "n", "dry_run", 1),
    Row("no-verbose", None, "verbose", 0), Row("no-v", None, "verbose", 0),
    Row("recursive", "r", "recurse", 2), Row("no-recursive", None, "recurse", 0),
    Row("no-r", None, "recurse", 0),
    Row("dirs", "d", "xfer_dirs", 2),    Row("no-dirs", None, "xfer_dirs", 0),
    Row("no-d", None, "xfer_dirs", 0),
    Row("perms", "p", "preserve_perms", 1),
    Row("no-perms", None, "preserve_perms", 0),
    Row("no-p", None, "preserve_perms", 0),
    Row("times", "t", "preserve_mtimes", 1),
    Row("no-times", None, "preserve_mtimes", 0),
    Row("no-t", None, "preserve_mtimes", 0),
    Row("owner", "o", "preserve_uid", 1), Row("no-owner", None, "preserve_uid", 0),
    Row("no-o", None, "preserve_uid", 0),
    Row("group", "g", "preserve_gid", 1), Row("no-group", None, "preserve_gid", 0),
    Row("no-g", None, "preserve_gid", 0),
    Row("devices", None, "preserve_devices", 1),
    Row("no-devices", None, "preserve_devices", 0),
    Row("specials", None, "preserve_specials", 1),
    Row("no-specials", None, "preserve_specials", 0),
    Row("links", "l", "preserve_links", 1),
    Row("no-links", None, "preserve_links", 0),
    Row("no-l", None, "preserve_links", 0),
    Row("ignore-times", "I", "ignore_times", 1),
    Row("size-only", None, "size_only", 1),
    Row("update", "u", "update_only", 1),
    Row("delete", None, "delete_mode", 1),
    Row("whole-file", "W", "whole_file", 1),
    Row("no-whole-file", None, "whole_file", 0), Row("no-W", None, "whole_file", 0),
    Row("checksum", "c", "always_checksum", 1),
    Row("no-checksum", None, "always_checksum", 0),
    Row("no-c", None, "always_checksum", 0),
    Row("no-hard-links", None, "preserve_hard_links", 0),
    Row("no-H", None, "preserve_hard_links", 0) }

\* The rest of rsyncTable: options ParseArguments is asked about, and those
\* with an argument.
OtherTable ==
  { Row("verbose", "v", "special", 0), Row("archive", "a", "special", 0),
    Row(None, "D", "special", 0),        Row("no-D", None, "special", 0),
    Row("hard-links", "H", "special", 0),
    Row("filter", "f", "argument", 0), Row("exclude", None, "argument", 0),
    Row("include", None, "argument", 0),
    Row("timeout", None, "argument", 0), Row("no-timeout", None, "special", 0),
    Row("rsh", "e", "argument", 0),
    Row("list-only", None, "list_only", 2),
    Row("server", None, "special", 0),   Row("sender", None, "special", 0),
    Row("daemon", None, "daemon", 0) }

rsyncTable == SwitchTable \cup OtherTable

\* daemonTable, for the options that are in both.
daemonTable ==
  { Row("daemon", None, "daemon", 0), Row("server", None, "am_server", 1),
    Row("verbose", "v", "special", 0), Row("no-verbose", None, "verbose", 0),
    Row("no-v", None, "verbose", 0) }

IsLong(arg)    == arg[1] = "--"
IsCluster(arg) == arg[1] = "-" /\ Len(arg) > 1

\* findOption: the rows a part of an argument names; at most one.
findOption(table, item) ==
  IF IsLong(item) THEN {row \in table : row.long = item[2]}
  ELSE {row \in table : row.short = item[2]}

\* The letters of a cluster are options of their own (nextCharArg).
Items(args) ==
  LET items[i \in 0 .. Len(args)] ==
        IF i = 0 THEN <<>>
        ELSE items[i - 1] \o
             (IF IsCluster(args[i])
              THEN [j \in 1 .. Len(args[i]) - 1 |-> <<"-", args[i][j + 1]>>]
              ELSE <<args[i]>>)
  IN items[Len(args)]

Fail(o) == [o EXCEPT !.failed = TRUE]

\* ParseArguments: the options that set several fields, or depend on others.
Special(o, name) ==
  CASE name = "server" -> [o EXCEPT !.am_server = 1]
    [] name = "sender" ->
         IF o.am_server = 0 THEN Fail(o) ELSE [o EXCEPT !.am_sender = 1]
    [] name = "archive" ->
         [o EXCEPT !.recurse = IF @ = 0 THEN 1 ELSE @,
                   !.preserve_links = 1, !.preserve_perms = 1,
                   !.preserve_mtimes = 1, !.preserve_gid = 1,
                   !.preserve_uid = 1, !.preserve_devices = 1,
                   !.preserve_specials = 1]
    [] name = "D" ->
         [o EXCEPT !.preserve_devices = 1, !.preserve_specials = 1]
    [] name = "no-D" ->
         [o EXCEPT !.preserve_devices = 0, !.preserve_specials = 0]
    [] name = "hard-links" -> [o EXCEPT !.preserve_hard_links = 1]
    [] name = "verbose" -> [o EXCEPT !.verbose = @ + 1]
    [] name = "no-timeout" -> [o EXCEPT !.io_timeout = None]

\* The options with an argument.  A filter rule is <<sign, pattern>>; the
\* value of --filter is a rule already.
Argument(o, name, value) ==
  CASE name = "filter"  -> [o EXCEPT !.filterRules = Append(@, value)]
    [] name = "exclude" -> [o EXCEPT !.filterRules = Append(@, <<"- ", value>>)]
    [] name = "include" -> [o EXCEPT !.filterRules = Append(@, <<"+ ", value>>)]
    [] name = "timeout" -> [o EXCEPT !.io_timeout = value]
    [] name = "rsh"     -> [o EXCEPT !.shell_cmd = value]

\* An option the daemon's parser stops at: it has no row, or a value where its
\* row takes none.
NotForDaemon(item) ==
  Len(item) > 1 /\ (Len(item) > 2 \/ findOption(daemonTable, item) = {})

\* -v counts from the last --no-verbose on.
DaemonVerbose(before, items) ==
  LET quiet == {i \in DOMAIN items :
                  items[i] \in {<<"--", "no-verbose">>, <<"--", "no-v">>}}
      loud  == {i \in DOMAIN items :
                  items[i] \in {<<"-", "v">>, <<"--", "verbose">>}}
  IN (IF quiet = {} THEN before ELSE 0)
       + Cardinality({i \in loud : \A j \in quiet : j < i})

\* --daemon: the whole command line once more, by the other table.
ParseDaemon(o, items) ==
  IF \E i \in DOMAIN items : NotForDaemon(items[i]) THEN Fail(o)
  ELSE [o EXCEPT !.am_daemon = 1,
                 !.verbose = DaemonVerbose(@, items),
                 !.am_server = IF \E i \in DOMAIN items :
                                    items[i] = <<"--", "server">>
                               THEN 1 ELSE @]

\* poptGetNextOpt: one option or operand.
Apply(o, item, items) ==
  IF o.failed \/ o.am_daemon = 1 THEN o
  ELSE IF Len(item) = 1 THEN [o EXCEPT !.remaining = Append(@, item[1])]
  ELSE IF findOption(rsyncTable, item) = {} THEN Fail(o)
  ELSE LET row == CHOOSE row \in findOption(rsyncTable, item) : TRUE
           name == IF row.long = None THEN row.short ELSE row.long
       IN CASE row.field = "daemon"   -> ParseDaemon(o, items)
            [] row.field = "special"  ->
                 IF Len(item) > 2 THEN Fail(o) ELSE Special(o, name)
            [] row.field = "argument" ->
                 IF Len(item) = 2 THEN Fail(o) ELSE Argument(o, name, item[3])
            [] OTHER ->
                 IF Len(item) > 2 THEN Fail(o)
                 ELSE [o EXCEPT ![row.field] = row.val]

\* What follows from other options.
Implied(o) ==
  [o EXCEPT !.xfer_dirs = IF o.recurse # 0 THEN 1
                          ELSE IF @ >= 0 THEN @
                          ELSE IF o.list_only # 0 THEN 1 ELSE 0]

ParseArguments(args) ==
  LET items == Items(args)
      after[i \in 0 .. Len(items)] ==
        IF i = 0 THEN Defaults ELSE Apply(after[i - 1], items[i], items)
      o == after[Len(items)]
  IN IF o.failed \/ o.am_daemon = 1 THEN o ELSE Implied(o)

\* clientMain: without a destination the source is listed.
SetListOnly(o) ==
  [o EXCEPT !.list_only = 1, !.xfer_dirs = IF o.recurse = 0 THEN 1 ELSE @]

SetSender(o) == [o EXCEPT !.am_sender = 1]
-----------------------------------------------------------------------------
Sender(o)     == o.am_sender # 0
Server(o)     == o.am_server # 0
Recurse(o)    == o.recurse # 0
DeleteMode(o) == o.delete_mode # 0
On(o, field)  == o[field] > 0

\* ServerOptions: one letter for each of these, in this order.
Letters(o) ==
  LET letter(field, l) == IF On(o, field) THEN <<l>> ELSE <<>>
      argstr == letter("verbose", "v") \o letter("update_only", "u")
        \o letter("dry_run", "n") \o letter("preserve_links", "l")
        \o letter("whole_file", "W") \o letter("preserve_uid", "o")
        \o letter("preserve_gid", "g") \o letter("preserve_devices", "D")
        \o letter("preserve_mtimes", "t") \o letter("preserve_perms", "p")
        \o letter("recurse", "r") \o letter("always_checksum", "c")
        \o letter("ignore_times", "I")
        \o (IF Recurse(o) THEN <<>> ELSE letter("xfer_dirs", "d"))
  IN IF argstr = <<>> THEN <<>> ELSE << <<"-">> \o argstr >>

\* The server is the sender if the client is not.
ServerMode(o) ==
  << <<"--", "server">> >> \o
  (IF Sender(o) THEN <<>> ELSE << <<"--", "sender">> >>)

\* A mistake to be caught: deleting is thought to be the client's business.
DeleteArgLocal(o) == <<>>

DeleteArg(o) == IF DeleteMode(o) THEN << <<"--", "delete">> >> ELSE <<>>

ServerOptions(o) ==
  ServerMode(o)
  \o (IF On(o, "size_only") THEN << <<"--", "size-only">> >> ELSE <<>>)
  \o Letters(o)
  \o (IF o.io_timeout = None THEN <<>>
      ELSE << <<"--", "timeout", o.io_timeout>> >>)
  \o DeleteArg(o)

\* CommandOptions: the server's command line.
CommandOptions(o, path) == ServerOptions(o) \o << <<".">>, <<path>> >>
=============================================================================
