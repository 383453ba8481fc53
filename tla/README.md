# Formal models of gorsync

TLA+ specifications of gorsync's own logic, written from the Go source: from
the command line over the handshake with a server and the file list to the
transfer session, the delta search, the `--delete` walk and the `--bwlimit`
token bucket. TLC checks them on small instances; TLAPS proves the most
important results for every value of the constants. `PROJECT.json` lists the
runs, the theorems, the hazards each property is about, and for each definition
the lines of source it stands for.

    tlc -config MCSession_safety.cfg MCSession.tla     # any run of PROJECT.json
    tlapm SessionProof.tla                             # any *Proof module

## The system

| component | source | state it keeps | operations |
|---|---|---|---|
| generator goroutine | `internal/receiver/generator.go` | position in the file list, `retouchDirPerms` | `GenerateFiles`, `recvGenerator`, `skipFile`, `setPerms`, `generateAndSendSums` |
| receiver goroutine | `internal/receiver/receiver.go`, `token.go`, `pendingfile.go` | phase, open basis file, pending file, running MD4 | `RecvFiles`, `recvFile1`, `receiveData` |
| receiver's `Do` | `internal/receiver/do.go` | errgroup of the two goroutines | `deleteFiles`, join, `report`, goodbye |
| receiver's file list | `internal/receiver/flist.go`, `uidlist.go` | list, id maps, `IOErrors` | `ReceiveFileList`, `sortFileList` |
| sender | `internal/sender/sender.go`, `do.go`, `token.go` | phase, open file, hashing goroutine | `SendFiles`, `sendFile`, `handleStats` |
| delta search | `internal/sender/match.go`, `fileio.go` | rolling sum, `lastMatch`, sliding window | `hashSearch`, `matched`, `mapStruct.ptr` |
| sender's file list, filters | `internal/sender/flist.go`, `exclude.go` | list of files, rules | `SendFileList`, `walkFn`, `wildmatch` |
| wire | `internal/rsyncwire/wire.go`, `varint.go` | byte counters | integers, multiplexing |
| rate limiter | `internal/rsyncwire/ratelimit.go` | tokens, size of the bucket, last replenish | `Wait` |
| block sizes, sums | `internal/rsynccommon`, `types.go`, `internal/rsyncchecksum` | - | `SumSizesSqroot`, `SumHead`, `Checksum1`, `Checksum2` |
| daemon | `rsyncd/rsyncd.go` | modules, connections | `Serve`, `HandleDaemonConn`, `checkACL`, `authServer` |
| client | `internal/maincmd` | - | `ClientRun`, `StartInbandExchange`, `TimeoutConn` |
| worker pool, progress | `internal/parallel`, `internal/progress` | task and error channels; five samples | `Run`; `Show` |
| SSH listener | `internal/anonssh` | keys, sessions | `Serve`, `handleSession` |
| options | `internal/rsyncopts` | the fields of `Options` | `ParseArguments`, `ServerOptions` |
| config, isolation, logging, commands, library | `rsyncdconfig`, `restrict`, `rsyncos`, `log`, `cmd`, `rsyncclient`, `rsynccmd` | values read once | start-up |

A client finds its server in one of four ways: a goroutine of its own process,
a command behind a remote shell, a daemon behind a socket, a daemon behind a
remote shell. It writes the server's command line from its own options; the
server parses it again, and nothing else tells the two what will be on the
wire. A daemon first speaks in lines (greeting, module, challenge, flags) and
lets the client in, or not. Then version, seed, filter list, file list.

A session runs over one connection. The sender walks its tree and sends the
file list; both sides sort it and from then on name a file by its index. Two
goroutines of the receiving side work on the list at the same time: the
generator requests files (index, block sums of what the destination has), the
receiver goroutine reads the sender's answers. The sender answers requests one
by one; for a whole file it starts a goroutine that opens and hashes the file a
second time. Generator, sender and receiver goroutine thus form a circle of
bounded pipes, with -1 as the end of a phase, once around for each of two
phases, then statistics (if the sender is the server), then a goodbye. On the
client's side a limiter may sit under both directions.

What is hard in it: the goroutines share the destination tree; the source
changes under the sender between listing, opening, sending and hashing; the
connection, the disk or a process fails between any two steps; `Do` may return
while a goroutine still runs; the quick check of the *next* run trusts the
times this run leaves behind; everybody may wait for everybody. `PROJECT.json`
lists these hazards one by one, at the line where each bites.

What makes each part correct:

- session: a destination file is replaced only as a whole, by a content the
  sender vouched for as that file; success means up to date; the next run's
  quick check never skips a stale file; a session ends on both sides.
- `--delete`: no listed file is removed; nothing is removed after an I/O error,
  without a top directory, or in a dry run; what is extraneous goes.
- options and start: nobody passes a daemon's gates who may not; both sides
  agree on the options that decide what is on the wire, and on the filters;
  neither waits for the other.
- file list: the receiver reads every field as what was written; both sides mean
  the same file by an index; what is missing from the list was left out on
  purpose or has set the error flag.
- metadata: every entry becomes at the destination what the list says of it; a
  requested file finds its directory there and open; a dry run leaves the files
  and directories of the destination alone.
- delta search: what `hashSearch` sends, applied to the basis, is the source
  file; the window of `mapStruct` holds the bytes asked for; the rolling sum is
  the sum of the bytes under it.
- limiter: never faster than configured over any interval; no caller starves.

## Modules

| module | what it is |
|---|---|
| `Options` | command lines: parsing, and what the client writes for its server |
| `Startup` | the way to a server, greeting, gates, filter list (extends `Options`) |
| `Filters` | filter rules and `dowild` |
| `FileList` | sending, receiving and sorting the list (extends `Options`, `Filters`) |
| `Metadata` | directories, links, devices, modes, times and owners at the destination (extends `FileList`) |
| `Mirror` | abstract: what a receiver promises about its destination |
| `SessionWire` | options, list, trees and connection shared by the processes |
| `Generator`, `Receiver`, `Sender` | one module per process of a session |
| `Session` | their composition with `Do`, the connection's end and the world |
| `DeltaStream` | abstract: what the answer to a request for one file means |
| `BlockSums` | division of a basis into blocks, and their checksums |
| `MapWindow` | the window through which the sender reads a file |
| `HashSearch` | the delta search on bytes (extends `BlockSums`, `MapWindow`) |
| `RateLimiter` | `--bwlimit` |
| `DeleteWalk` | `--delete` |
| `MC...` | instances for TLC |
| `SessionProof` | theorems about `Session` and `Mirror` |
| `HashSearchProof` | theorems about `MapWindow`, `HashSearch` and `DeltaStream` |
| `OptionsProof`, `StartupProof` | theorems about `Options` and `Startup` |
| `FileListProof` | theorems about `FileList` |
| `MetadataProof`, `RateLimiterProof`, `DeleteWalkProof` | theorems about those modules |

The levels meet at their ends: `Startup` stops where the file list begins, with
options and filters that both sides agree on; `FileList` starts from a command
line (parsed by `Options` on both sides) and ends with two equal lists, which is
where `Session` starts; `Sender` leaves open which blocks `hashSearch` finds and
takes from `HashSearch` that the tokens build up the file from front to back.
`Metadata` starts, like `Session`, from the receiver's list: `Session` follows
the regular files through every failure, `Metadata` follows every kind of entry
while files go over in one step.

### Start

State and code: `copt` and `dopt` are the options of the two sides, `cpc` and
`spc` the places in `StartInbandExchange`/`ClientRun` and in
`HandleDaemonConn`/`handleConn`; `up` and `down` the two directions; `buffer`
what the `bufio.Reader` of `StartInbandExchange` has read, and `dropped` what was
in it when it was given up. A client is a record: where its server is, its
command line, its address and the networks it is in, the common name of its
certificate, user and password. A module is its gates and whether it is
writable. An ACL rule is an action and a network (a rule that cannot be read has
another action); a password hash is the pair of password and challenge.

- `Options` keeps the options that touch the connection or what is transferred;
  `--delete-excluded` has a field but no row in the table (it is commented out,
  `rsyncopts.go:997`), so it is an unknown option here as well.
- A server that is this program is started by `ServerOptions`; clients that are
  not this program may say more (`call.others`): an option the server parses but
  does not implement (`-H`), and one it does not know.
- Data on a channel is never lost but by `Reset` (a socket closed with unread
  input) and `Stall` (a network that delivers nothing any more). The channels
  are unbounded; the items before the file list are a few hundred bytes. The
  pipe of the local server is an `io.Pipe` without any buffer, which is not
  modelled: there an error message of the server waits for a client that reads.
- A push to a daemon over a remote shell asks for the wrong module:
  `clientmaincmd.go:149` gives `StartInbandExchange` the first operand, the
  client's own path, where `socketClient` gives it the remote one. In front of
  its first slash there is nothing, the daemon lists its modules, and the client
  ends without a transfer and without an error. `RequestedModule` models it;
  `Served` leaves this way out.

### The file list

State and code: `rest` is what `fs.WalkDir` has still to visit, `files` the
sender's list, `uidMap`/`gidMap` the ids it has met; `need` the fields
`receiveFileEntry` and `RecvIdList` will read next, `entry` what they have read,
`fileList`, `ids`, `IOErrors` the receiver's result. A token on the wire has the
width with which it was written; a field read with another width, or at the end
of the data, is what `NeverMisread` forbids. An entry that vanishes (before
`Info`), cannot be read as a directory, or cannot be opened for its checksum is
a fault. `IntMax` stands for the greatest int32: sizes beyond it take the long
form, times beyond it wrap. Paths are shorter than `PATH_MAX`: the receiver would
give up at a longer one.

Names are sequences of components, components of character codes, because the
order depends on how the separator compares with other characters.
`Filters!Fits` is the reference for `dowild`: a pattern is a sequence of parts,
each of which stands for one character, or any number of them, of a set
(`IsPattern`: no star next to a star, which would be two, and no slash at the end,
which is dropped). `LeftOut` says with it what the rules of a job mean; the code's
side goes all the way from the command line (`RuleArguments`) through the parser,
`ParseRule` and `dowild`. The jobs say both of `--devices` and `--specials` or none: with one alone the sender
writes `rdev` under other conditions (`flist.go:269`) than the receiver reads
it, and `NeverMisread` fails. Not modelled: several requested paths in one list,
a request for a
module's directory with a trailing slash after a name (the directory itself is
then called by that name).

### Metadata

State and code: `dest` is the destination, a function from names to what is
there, and `world` what it was before, who the receiver is and in which groups;
`modes` are the `Mode` fields of the list, which `openLocalFile` overwrites;
`gi` is where `GenerateFiles` is, `queue` the files it has requested and
`RecvFiles` has not received, `retouchDirPerms` as in the code. An action is one
call of `recvGenerator` or of `recvFile1`, in any interleaving of the two
goroutines. Of the permissions a mode has the owner's to write, the one that
matters to what comes later. `MayChange`, `Placed`, `Removed` and `Fresh` are
what a file system does: permission is a matter of the directory, a change of
an entry sets the time of its directory, a new entry belongs to the receiver.
Who is not root has made the destination, so setting times and modes does not
fail; a destination that is missing is made by the program (`OpenDest`). A link
above a name of the list leads out of the destination, and `os.Root` does not
follow it. `GenFail` has the failures of a file system that works: something in
the way, or no permission. An `Lstat` that fails for another reason and a basis
that cannot be read for `--checksum` are left out. The `--delete` walk that comes
before is in `DeleteWalk`.

What the code does here and a reader may not expect:

- A dry run makes the destination directory if there is none, on the client's
  side (`clientmaincmd.go:90`, 426) as on the server's (`maincmd.go:407`,
  `rsyncd.go:609`, 631); it makes links and devices, and removes what is in the
  way of a file (`generator.go:246`, 259, 300): `README.md:65` has it "without
  writing to target disk". `DryRunKeeps` is what remains. No file is made, and no
  directory but the destination itself; files and directories that were there
  are left alone, but for those that have the name of a link or a file.
- The list need not have what is above a directory: who pulls `x/y` of a module
  gets `x/y` and `x/y/f`, and nothing of `x` (`sender/flist.go:68-76`, 143-148).
  `MkdirAll` makes `x` as well (`generator.go:204`), with the mode of `x/y`, and
  nothing sets its metadata afterwards (`ToMake`, `MadeDirs`). If that mode is
  one without permission to write and the receiver is not root, `x` is made and
  `x/y` in it fails (`GenDirHalf`).
- A directory has its time only if it was sent read-only: of the others the
  files put into them change it (`do.go:105`; `TESTING.md:111` expects a
  matching mtime). `AsListed` says which.
- A name that sorts before ".", such as "-x", is requested before the top
  directory is opened. In a read-only one the receiver goroutine may fail, and
  `RequestsCanLand` leaves these names out.
- Owners are numbers: `rt.Users` and `rt.Groups` are read from the wire
  (`receiver/flist.go:254`) and used by nothing; setting one fails for nobody,
  it is just not tried without permission (`generatoruid.go:38-44`).
- Without `-p` a file that was there keeps its mode, a new one and every
  directory get the sender's.

### The delta search

`win` is `ms`, `k`, `s1`, `s2` the rolling sum, `offset` and `lastMatch` as in
the code, `wire` the tokens, `assembled` what `receiveData` makes of them,
`hashed` what went into the MD4. One iteration of the loop is two steps, so that
`Truncate` can come between them. The constants are not the code's to scale
(`Chunk` 32 KiB, `Align` 1 KiB, `ReadMin` 256 KiB become 1, 2 and 12): what they
keep is that the window is several chunks and several steps of alignment. Bytes are
below 4, two of them negative as signed chars, and the halves of the weak sum
are modulo 16, so that different blocks do have equal sums. A strong checksum is
the content. The table of tags is the set of blocks with a tag: which of several
equal blocks is found depends on `sort.Slice`. An empty source is a run of its
own (session_empty).

`HashSearch` implements `DeltaStream`: every step extends what is assembled to a
longer prefix of the source, or ends the stream with a checksum of all of it.

### The session

State and code: `gpc`/`gi` are where `GenerateFiles` is; `rpc`, `rcur`,
`rbasis`, `tmp` where `receiveData` is, with which file, open basis and pending
file; `spc`, `scur`, `ssums`, `sfile`, `sread` where `SendFiles` and `sendFile`
or `hashSearch` are; `hpc`, `hfile`, `hread` the hashing goroutine; `dpc` is
`Do`. The file list is `lsrc`/`lmt`, the versions the sender saw when it listed
them; `src`/`smt` and `dst`/`dmt` are the two trees. An action is what a process
does between two operations another one can see: reading or writing one item of
the connection, one look at a tree, one rename, one `Chtimes`.

Abstractions:

- A file is a sequence of blocks; a checksum is the content it was computed
  from (no collisions). Quick check by size compares lengths.
- A modification time is a version number: every change of a source file gives
  a larger one, and a file the receiver has just created has the time `Now` of
  no source version. The granularity of one second in `modTimeEqual` is
  abstracted: two changes within one second, or a destination file created in
  the second of a source change, are not told apart from the code's view.
- `hashSearch` may send any block of the file as a literal or as any equal block
  of the basis: which matches the search finds is left open. It is modelled as
  reading the file once; `mapStruct.ptr` may read bytes a second time for the
  hash, and a difference between the two would show as a wrong checksum.
- `sendFile` reads the file twice, by path, and both reads may see a change in
  the middle of the file; an unlink or replacement leaves an open file alone.
- A connection is a pair of FIFOs of `Cap` items. When one side has hung up,
  what was written before can still be read; after `Reset` a read may fail
  although items are left, or still return them.
- `DiskFaults` lets every operation on the destination's disk fail, including
  opening the basis file in the generator, which then asks for the whole file.
- `dryRun` is the session's `--dry-run`: each session chooses it from `DryRuns`,
  so that a real run can follow a dry one.
- A session starts when the list has been sent. `Rerun` starts the next one on
  what is there, with the list of that moment, also after a crash.
- Names are distinct, files are regular. A source file that cannot be opened is
  one that has vanished: permission errors take the same path in the code. A
  read error in the middle of a source file is not modelled. A vanished file is
  logged only (`sender.go:98`), and the run still reports success, so the
  success properties speak of files that have not changed since they were
  listed.

The mistakes that the modules define next to some actions ("A mistake to be
caught") are used only to show that the properties notice them.

### Refinement

`Session` implements `Mirror`, with the variables of the same names: `Modify` is
`Change`, `Vouch` is `SendSum`, `Install` is `RecvCommit`, `Stamp` is
`RecvPerms` or `GenSkip`; every other step leaves `Mirror` where it is. Reset,
crash and rerun are among them: `Mirror` knows neither sessions nor failures,
which is why it is what a user may rely on.

### The limiter

`Wait` between `Lock` and `Unlock` is one step; `idle` is the time since
`lastReplenish`, in units in which one token arrives, so that rate and bucket
are the same number `Burst`. `debt` is a history variable: a meter that a grant
fills and that runs out with the rate; `debt <= Biggest` at all times says that
over *every* interval of length t the callers get at most t + Biggest. A
`Wait` of the client is never cancelled (`clientmaincmd.go:284-285` passes no
`Ctx`); `Cancels` models the limiter's own interface. Reader and writer ask for
different sizes, so a request may be larger than the bucket: the MD4 of a
file is 16 bytes, a `Write` of data up to 256 KiB, and `--bwlimit=1` is a
bucket of 1 KiB. (`ARCHITECTURE.md:162` speaks of tickers; the code uses
`time.After`.)

### The delete walk

Entries of the destination are numbered in the order of `fs.WalkDir`, and the
entries under n are n+1 .. last[n]: every tree of up to `NumEntries` entries is
an initial state, with every list that names a file only together with its
directories. `RemoveAll` may leave any part of a subtree behind. Nobody else
changes the destination meanwhile. `Windows` gives the list backslashes: a
listed entry below a directory is then not found, and `KeepsListed` fails; the
same cause (`receiver/flist.go:111`) is shown by the run order_windows.

## Runs

| run | instance | what it shows |
|---|---|---|
| session_safety | two files of at most two blocks, `Cap` 2, one change, two sessions, resets, crashes, disk faults; 2.4 million states | type correctness, `QuickCheckSound`, `SuccessMeansSynced`, `SuccessMeansStamped`, `MirrorSpec`, `QuietAfterSuccess` |
| session_ends | two pulls with `--checksum`, each dry or real, `Cap` 1, misdated destinations, one change, resets, crashes; 295 thousand states | `Terminates`, `Succeeds`, `DryRunTouchesNothing`, `SuccessMeansSynced` |
| limiter_safety | reader and writer, three calls each, requests of 1, 3 and 5 with a bucket of 3 | `RateRespected`, `WaitReturns` |
| delete_safety | every tree of four entries, every list, up to two walks | `KeepsListed`, `DeletesOnlyWhenSafe`, `DeletesSome` |
| order_unix | a tree of eleven entries of every kind, nine command lines, five requested paths, twelve filter lists, pushed and pulled, one fault, five destinations; 237 thousand states | `NeverMisread`, `ListFaithful`, `LandsUnderOwnName`, `FilterMeaning`, `MissingMeansFlagged`, `RequestsCanLand`, `AsListed`, `DryRunKeeps` |
| startup | eight modules, one for each gate; about eighty clients on the four ways | `GatesPassed`, `AgreeOnOptions`, `FiltersArrive`, `NothingDropped`, `HandshakeEnds`, `Served` |
| delta | all files of up to four bytes over two values and four files longer than the window, against nine bases; one cut | `WindowFaithful`, `RollingExact`, `EveryReadFits`, `IdenticalSendsNoLiterals`, `StreamSpec` |

Runs that show a disagreement between the code and what the repository says:

| run | what the code does |
|---|---|
| session_hang | a file that vanishes between the two opens of `sendFile` leaves a push waiting forever: the error is taken for one of the first open and the checksum is never sent. (A pull ends with "file corruption", because the statistics are taken for the checksum.) |
| session_empty | a source file that is empty while the destination is not ends the sender with an index out of range in `hashSearch` |
| limiter_starved | the grant of one caller takes back the size the bucket was given for the other one, who then waits forever |
| delete_siblings | `fs.SkipDir` after a deleted file skips the rest of its directory |
| order_windows | on Windows the receiver sorts names with backslashes, the sender with slashes, and contents land under other names |

Met on the way, without a run: `ARCHITECTURE.md:85` says that times and mode are
set before the rename; `receiver.go:193-199` renames first, and
`QuickCheckSound` shows that this order is a safe one. `RunDaemon` of the client
library leaves `negotiate` false (`rsyncclient.go:171`), and its `ListFiles`
(188-215) neither sends a filter list nor takes messages apart. `--update` "skips files
that are newer on the destination" (`README.md:69`); it is parsed and passed
on, and the generator does not look at it (`generator.go:306`).

### Bounds

- Two files: one that has a basis and one that has none, or the other way
  round, so that a request for the second is under way while the first is
  received. Two blocks: enough to tear a file, to send it in another order of
  the basis's blocks, and to have contents of equal size that differ.
- `MaxChanges` 1: a change may happen at each point of the session and be of
  each kind (write in place, replacement, removal). `MaxSessions` 2: what one
  session leaves is what the next one's quick check sees.
- `Cap` 1 in the liveness runs makes every process block on every other; `Cap`
  2 in the safety run lets them run ahead of each other. TLAPS covers the rest
  for the proved properties.
- `MaxCalls` bounds the demand on the limiter. It is also why a small request
  cannot be overtaken for ever: `sync.Mutex` and timers promise no order, and
  `WaitReturns` is a statement about finitely many competing calls. `MaxIdle`
  is the size of the largest bucket: a longer pause fills it no further.
- `MinBlock` 2 and files of up to 19 bytes: blocks of two, three and four bytes,
  a last block that is shorter or not, literals that are flushed before a match
  (more than a block and a chunk), a window that slides several times.
- One fault in the walk: two do not interact, the flag is set once. The tree has
  entries of each kind, and names whose order a separator can change. Of its
  three directories below the top, one in the other, two are asked for alone:
  `a/b`, sent read-only, and `a/b/b`, sent writable, so that one and two
  directories above them may be missing, and can be filled or not.
- Five destinations: none yet, for somebody who is not root; one from an earlier
  transfer with other modes, times and groups and read-only directories, for root
  and for somebody who is not; one that is up to date but without `a`, so that
  root misses the directories above a pulled one; one with something else under
  most names, a directory that is not empty among them.
- The clients of startup are listed one by one rather than as a product: each
  gate from both sides of it, each way with each group of options, and two that
  are not this program.
- `NumEntries` 4: a directory in a directory, siblings before and after both;
  `MaxTops` 2: a list with more than one top directory.

CHECK_DEADLOCK is off everywhere but for the limiter: the others end.

### Fairness

`Generate`, `Receive`, `Send`, `Do` and `Hangup` are weakly fair: goroutines and
processes that can go on are scheduled, and closing a connection does not wait.
`SendFiles` does not stop inside `hashSearch`: its fairness is weak fairness of
`Search`, written out, as for the server of `Startup` (`ServerIdle` says where
it waits), because TLC evaluates that faster than ENABLED of a large disjunction.
Client and server of `Startup` go on as long as they can, and a deadline of
`TimeoutConn` passes when the network is stalled; nothing obliges the network to
stall or to recover. In the limiter, time passes and timers fire. Nothing obliges a source file to
change, the network to fail, a process to be killed, or a user to call again
or cancel.

## Proofs

All proofs assume only the named assumptions on the constants (`OptionsOK`,
`WorldOK`, `LimiterOK`, `WalkOK`, `WindowConstants`, `SumConstants`,
`SearchedFiles`, `StartupConstants`, `ListConstants`, `CodesOK`, `JobsOK`,
`WorldsOK`), which say what
kind of values they are and which TLC evaluates in the runs. `ListConstants` says
that ids and times are what they are in the code and that names are short enough
to be sent: paths below `PATH_MAX`, which the receiver refuses, names of users
and groups below 256 bytes, whose length is sent as one byte; and that the tree
is one: what is above a path is a directory, and no component is empty, "." or
has a slash in it. `JobsOK` says of a transfer what `StartupConstants` says of a
client: its command line is one that `Main` accepts from a client, with the filter
rules said apart. `WorldsOK` says of a destination that it is missing or a tree
like that, and that one who is not root has made it. `StartupConstants` says a little
more: an argument of a command line is not empty, and what the user typed is a
command line that `Main` accepts as that of a client, since it is only then that
the program becomes one.

Session:

- `TypeCorrect` (`SessionProof`): `Spec => []TypeOK`. `TypeOK` is strengthened
  by `Control`, which relates program counters to what is held: a pending file
  exists inside a transfer, `Do` reports only after both goroutines ended.
- `DryRunIsDry`: `DryRunTouchesNothing`. In a dry run the receiver never leaves
  the loop over indices, so that nothing is ever pending (`DryIdle`).
- `QuickCheckCorrect`, `SessionImplementsMirror`, for every
  `Check` but "size" - with `--size-only` the generator gives the source's time
  to a stale file of the same size. The inductive invariant says that the items
  of a file stay together on the connection and end with the checksum of that
  very file (`StreamOK`), that a checksum on the way, or already compared, is
  one the sender sent for that file, and the one of the listed version if the
  source still is that version (`SumsGenuine`, `RecvGenuine`), that what the
  sender has read of an unchanged file is a prefix of it (`ReadGenuine`), and
  that no destination file has a time of the future (`NoFutureStamp`). None of
  this follows from `QuickCheckSound` alone: the stamp is decided long after
  the content was vouched for.
- `SuccessIsQuiet`: `QuietAfterSuccess`, from `Control`.
- `SuccessIsSynced` (again but for `--size-only`), `SuccessIsStamped`: when `Do` reports success, every file that has not changed
  since it was listed is at the destination, with its time. Two invariants carry
  this. `Delivered`: a file the generator has passed is settled at the
  destination, or its request, its items or its pending file are somewhere
  between the three goroutines, or the session has failed. `Barrier`: the first
  -1 goes around behind every request and every item, so that when the receiver
  has counted it nothing is in flight.

Delta search (`HashSearchProof`), for all files, block lengths, windows and
chunks:

- `PtrFaithful`, `PtrReads`: whatever piece of the file is asked for and
  whatever the window was, if it held the file's bytes, `ptr` returns the
  file's bytes and leaves a window that holds them, also when the file has
  become shorter meanwhile.
- `WindowHolds`, `RollsExactly`, `ReadsFit`, `TypeCorrect`: `WindowFaithful`,
  `RollingExact`, `EveryReadFits`, `TypeOK`. `SearchInv` says where a search
  stands between two iterations: what has been hashed and what the tokens
  assemble is the file up to `lastMatch`, the sum is the one of the bytes at
  `offset`, `offset` is less than a chunk and two blocks ahead of `lastMatch` -
  which is why the window never has to go back - and the search fails only on a
  file that was cut.
- `SendsDeltaStream`: `HashSearch` implements `DeltaStream`, step by step.
- `IdenticalInBlocks`: `IdenticalSendsNoLiterals`; on a basis that equals the
  file `lastMatch` is always at the end of a block.

Options and start:

- `ServerHears`, `DaemonHears`, `ParsesSane` (`OptionsProof`): the command line
  that `ServerOptions` writes from options that `ParseArguments` has read is
  parsed to the same transfer options, with or without what a daemon leaves
  out; and whatever `ParseArguments` reads is such options.
- `Gated`, `NoneDropped`, `TypeCorrect` (`StartupProof`): `GatesPassed`,
  `NothingDropped`, `TypeOK`. `Dialogue` relates the places of both sides to
  what is on the way between them; `Gates` to the gates the client has behind
  it, `FirstRuleAllows` saying that the loop of `checkACL` finds the first rule
  that is about the address. `Streams` follows the data: what is on the way to
  the server is the rest of its flags, or of the filter list.
- `OptionsAgree`, `RulesArrive`: `AgreeOnOptions` and `FiltersArrive` for
  clients that are this program (`call.others = <<>>`).

File list (`FileListProof`). The theorems are about clients that say both of
`--devices` and `--specials` or neither (`DevicesAsOne`); for the others
`NeverMisread` is false. Nothing else is asked of tree, faults, filters, ids,
options.

- `FramingSound`: `NeverMisread`. The client's options decide which fields an
  entry has; by `ServerHears` its server decides the same (`Agreed`). So an entry
  has one plan (`Plan`), and what the sender writes fits it field by field
  (`AttrsPlanned`), and what the receiver plans when it has read the mode is the
  same (`AfterModeIs`). The invariant (`Framed`) says that the wire is the rest of
  the entry the receiver is in, the entries it has not begun, and, if the sender
  is done, the names of ids and the error flag; that what it has read of the
  entry is what the sender meant; and that the list it has is the beginning of
  the sender's.
- `IndicesAgree`: `LandsUnderOwnName`, for a receiver whose separator is a slash:
  the order depends on the names only, and `filepath.Clean` leaves them alone.
  (With a backslash it is false, see the runs.)
- `EntriesFaithful`: `ListFaithful`, from the same invariant: a sorted list has
  the same entries, and the names that were sent are those of the ids in the
  list.
- `TypeCorrect`: `TypeOK`.
- `RulesMean`: `FilterMeaning`, for every pattern and every name (and without
  `DevicesAsOne`). Three things meet in it. The parser makes of every `--include`
  and `--exclude` one rule, in their order, whatever the other arguments are
  (`RulesParsed`). `WildMeans`: `dowild` on the characters of a pattern
  finds the texts its parts mean. `dowild` goes through the pattern from its end,
  `Fits` through the parts from their beginning; the claim that joins them
  (`FitsBy`) is that from a position of the text the rest of the text fits the
  rest of the pattern exactly if the remaining parts lead to its end, and it is
  shown once for an element of the pattern and a part (`PartsLaid`,
  `LeadsAsFits`): a run of stars, a question mark, a class with or without
  negation, a character. And a pattern without special characters, which the code
  compares as a string, means that string (`PlainMeans`).
- `NothingMissed`: `MissingMeansFlagged`. What the walk has passed (`PassedBy`) is
  said by two things. `Tidy`: above what is still to be visited everything was
  sent, and is being gone into; without it a path could be sent below a directory
  that was left out. `Covers`: what is asked for is sent, still to be visited, or
  an error was noted; and only what is asked for is sent. The error flag comes
  after the list, and the receiver has it when it is done (`Errors`, of the same
  invariant as `NeverMisread`), hence `DevicesAsOne`.

`Framed` says of the wire that there *are* entries, ids and a place in them such
that it is their rest; the sets these come from are not finite, so that no run
can evaluate the invariant itself. The runs check what it implies.

Metadata (`MetadataProof`):

- `DryRunLeaves`: `DryRunKeeps`, with the destination there or not. Nothing
  changes the list once it is there, and no step changes the options; in a dry
  run an entry is made only in a directory, and only under the name of a link or
  where there is nothing, and one is removed only under the name of a requested
  file, and if it is no file (`Kept`, which compares with what `Begin` has opened).
- `MetaTypeCorrect`: `MetaTypeOK`. A step removes an entry of one name, a
  directory only with everything in it, or adds entries: one, or a directory with
  those missing above it, of which the uppermost lies in one that is there
  (`FormedMade`); other directories change no more than their time. So entries
  stay in directories (`Formed`).
- `SuccessAsListed`, `RequestedLands`: `AsListed` and `RequestsCanLand`, from the
  invariant `MetaInv`. It says what was made of every entry the generator has
  passed, or the receiver if it was requested (`Progress`, `MadeIn`); that a
  directory which had to be opened is open, and `retouchDirPerms` set, until both
  are done; and that `modes` differs from the list only where `openLocalFile` has
  written to it (`ModeKept`). `Progress` is inductive only if no step for one entry
  is about the name of another. So names have to be unique, and that is derived
  from the walk: it lists no path twice (`Once`), sorting repeats nothing
  (`InOrderOnce`), a path can be told from its text (`TextOnce`) and from the name
  it gets on the wire (`WireOnce`).

  Hypotheses: `DevicesAsOne`, without which the list is misread; a receiver whose
  separator is a slash; and `OwnName`: who asks a module for `a/` gets the
  directory under the name `a`, and with it `a/a` under the same name. The code
  does not look for duplicates (`receiver/flist.go:17`), so there the two entries
  are made over each other, and the theorem leaves the case out.

Limiter and delete walk:

- `LimitHolds` (`RateLimiterProof`): `RateRespected`; while something is owed,
  debt, tokens and the time not yet credited together stay below the largest
  bucket. `LimiterTypeCorrect`: `TypeOK`, which needs the same invariant, since
  only the ledger keeps the bucket from going below zero.
- `ListedKept` (`DeleteWalkProof`): `KeepsListed` for equal separators: the
  subtree of an unlisted entry holds no listed one. `SafeDeletion`:
  `DeletesOnlyWhenSafe`, because a walk begins only after the guard of
  `deleteFiles`, and nothing changes what the guard looked at. `SomeDeleted`:
  `DeletesSome`; a walk has passed only listed entries, and those it has
  removed (`PassedListed`). `WalkTypeCorrect`: `TypeOK`.

What is defined by recursion over data (the rules of an ACL, the blocks of a
file, sums, items of a command line, the parser itself) is reasoned about with
the least number for which a claim fails: the library's induction rules take the
claim as an operator, which the provers cannot instantiate, but sets of numbers
have least elements, and that is a fact about one set.

Only model-checked: everything about liveness, which is out of the provers' reach.

## Not modelled, and the plan

The core came first (the session, `--delete`, the limiter), then what leads to
it: options, start, filters, file list, delta search, and with `Metadata` what
becomes of the list. Left, in this order:

1. Duplicate names in a list and several requested paths; the virtual and the
   Windows pending file; `Metadata` on other systems.
2. `Serve` (accepting, and how it ends) and the paths inside a module; the
   local server behind a pipe without a buffer.
3. `WorkerPool` (no transfer uses `Run` of it yet); the varints of `varint.go`
   and the negotiation of checksums, which are tested but called by nothing.

Left out for good: configuration files, TLS, process isolation, logging,
progress and entry points, which keep no state over time; hash functions, of
which the models need only that they tell contents apart; the SSH listener,
whose sessions end in the same `Main` as the way "shell".
