# CERN httpd: a TLA+ model

CERN httpd is a Web server of the 1990s that also works as a caching proxy.
This directory holds a TLA+ model of it: modules that translate the parts of
the program that decide something, TLC configurations that check them on small
instances, and proofs for TLAPS.

All paths below are relative to `src/`. `Daemon` stands for
`Daemon/Implementation`, `Library` for `Library/Implementation`. The file
`PROJECT.json` names, for every definition that models code, the lines it
models.

## 1. The system

The daemon is one process that listens and forks one child per connection. A
child reads one request, answers it and exits. Children share no memory; they
meet only in the cache directory, in log files, and in the parent, which learns
from a child its exit status and nothing else.

| Part | Code | State it keeps | Operations |
|---|---|---|---|
| Server loop | `Daemon/HTDaemon.c` `standalone_server_loop`, `sig_child`, `set_signals` | `gc_pid`, `HTCacheUsage`, `cur_time` | accept, fork, daily gc, reaping children, in the loop and in a signal handler |
| Configuration and rules | `HTConfig.c`, `HTSUtils.c` | rule list, `sc`, `cc`, named set-ups | read the files at the start and on SIGHUP, translate a URL |
| Request handling | `HTHandle`, `HTDaemon.c` | the request record, output timeout | parse, redirect, authorise, change uid, choose proxy, script or file |
| Request parsing | `Library/HTFormat.c` `get_some_line`, `HTRequest.c` | input buffer, request record | the lines of a head, its fields, what goes on to a server or script |
| Authorisation | `HTAAServ.c`, `HTAAProt.c`, `HTACL.c`, `HTGroup.c`, `HTPasswd.c` | protection set-ups, group trees | find the protection, check password, group and address |
| Proxy cache | `HTCache.c`, `HTCacheInfo.c` | files `x`, `x.cache_tmp`, `x.cache_lock`, `.cache_info` per directory, and the tree of directories | look up, lock, break a lock, make a place, create, refresh, restore, cancel |
| Cache stream | `HTCache.c` `cache_write`, `cache_free` | parser state, line buffer, held-back headers | split a response between client and cache |
| Cache usage | `HTCache.c`, `HTDaemon.c` `read_gc_results`, `HTgc.c` | `HTCacheUsage`, `.gc_info` | exit status encoding, correction by gc reports |
| Garbage collector | `HTgc.c` | tree of the cache in memory | scan, value, choose thresholds, remove, rewrite `.cache_info` |
| Scripts | `HTScript.c` | pipes, process ids | fork, feed, copy the output, kill |
| Loads | `Library/HTAccess.c`, `HTError.c` | error stack, redirections | find the protocol, load, answer with the document or a message |
| Protocol clients | `Library/HTTP.c`, `HTFTP.c`, `HTGopher.c`, `HTNews.c`, `HTTCP.c` | sockets, connection state, host cache | fetch a remote document |
| Streams | `HTRequest.c`, `HTims.c`, `Library/HTWriter.c`, `HTFormat.c`, `HTMIME.c`, `HTGuess.c`, `SGML.c`, `HTMLGen.c` | converter stack | count, convert and write a document on its way |
| Local files | `Library/HTFile.c`, `HTMulti.c`, `HTDirBrw.c` | suffix tables | content negotiation, listings |
| Data structures | `Library/HTBTree.c`, `HTAnchor.c`, `HTParse.c`, `Daemon/HTWild.c` | trees, anchors, names, patterns | |
| Separate programs | `HTAdm.c`, `HTImage.c`, `CGIParse.c`, `cgiutils.c` | the password file | |

### How the parts meet

The parent calls `accept`, notes the time in `cur_time`, forks. The child calls
`HTHandle`, which reads the head of the request, sets an alarm
(`output_timeout_on`), translates the URL by the rules and asks
`HTAA_checkAuthorization`. For a proxied URL it asks `cache_lookup`. The answer
decides whether the stream that leads to the client gets a cache stream in
front of it (`HTProxyCache`). `HTLoadDocument` finds the protocol module, which
connects through `HTDoConnect` and writes the remote document into that stream,
and `cache_free` or `cache_abort` ends it: the lock file is renamed to the
cached copy, or the backup is restored, or the lock is removed. The size of
what was cached becomes the exit status; the parent's `sig_child` adds it to
`HTCacheUsage`, and when that reaches `CacheSize`, the next child does a
garbage collection when it has served its client. A collection leaves a report
in `.gc_info`, which the parent reads when it reaps the collector.

### What is hard about it

- Children interleave at every system call on the files of a document and on
  the directories above it, and a lock is a file that any child may remove
  once it looks old.
- A child may die anywhere: by the alarm, by a signal, by a fault. Its files
  stay. A client that hangs up does not stop a child that fills the cache, and
  re-installing the signal handlers then turns the alarm off.
- `sig_child` runs both from the loop and as a signal handler, on the same
  variables; SIGCLD is not queued.
- Sizes travel through an eight bit exit status, and reports of collections
  arrive out of order with the statuses of children.
- The network cuts a request and a reply anywhere, sockets take part of what is
  written, and the parsers in between must not depend on where.
- Loads retry: over the addresses of a host, over ways to open an FTP data
  connection, over a news connection that the server has closed, and over
  redirections within redirections. What they report, which sockets they leave
  and whether they end depends on all of it together.
- The configuration is kept in global variables that a reload clears in part,
  and a redirection on the fly uses again what the first pass has left.

The list with line numbers is under "hazards" in `PROJECT.json`. It has forty
entries; more lines are like them, and are covered by the modules but not
listed: what an old collection leaves in the parent (`HTDaemon.c`, 713), the
block behind a character in the content counter (`HTRequest.c`, 690), the news
connection of the load before (`HTNews.c`, 222), a `poss` that a nested group
clears (`HTGroup.c`, 682), a block read while the buffer still has a line
(`HTFormat.c`, 406), the rotations of a tree (`HTBTree.c`, 266), a field folded
within its name (`HTMIME.c`, 206).

## 2. The modules

Arrows are EXTENDS; a module of proofs extends what it proves about.

    ProxyCache  <- ProxyCacheGC <- MCProxyCacheGC        ProxyCache <- MCProxyCache
    CacheGC, CacheTree, Daemon                 <- MCCacheGC
    CacheWriter, RequestReader, OutputStreams, CacheUsage  <- MCStreams
    Access <- Request;  Request, Configuration <- MCRequest
    Connecting <- Loading <- Clients, FTPClient \
    Connecting <- HostCache --------------------- <- Loads <- MCLoads
    Connecting <- ConnectContract   (INSTANCE in HostCache, with a refinement mapping)
    CacheContract                   (INSTANCE in ProxyCache, with a refinement mapping)
    Names, AccessFiles, MCTexts                <- MCAlgorithms
    ProxyCacheGC <- ProxyCacheProofs        CacheUsage <- CacheUsageProofs
    Daemon, Configuration <- DaemonProofs
    CacheWriter, RequestReader, OutputStreams <- StreamProofs
    Access <- Request <- RequestProofs      CacheGC <- CacheGCProofs      CacheTree <- CacheTreeProofs
    Loads <- LoadsProofs

| Module | Models | Checked by | Proved in |
|---|---|---|---|
| `ProxyCache`, `CacheContract` | children on the cached copies, locks, backups and info entries of a document; what they promise together | `MCProxyCache` | `ProxyCacheProofs` |
| `ProxyCacheGC` | a collection beside the children | `MCProxyCacheGC` | `ProxyCacheProofs` |
| `CacheTree` | the names of copies and the directories they make, by children beside each other | `MCCacheGC` | `CacheTreeProofs` |
| `CacheGC` | one garbage collection: walk, ranks, thresholds, removals, report | `MCCacheGC` | `CacheGCProofs` |
| `CacheUsage` | exit statuses, usage estimate, gc reports, restarts | `MCStreams` | `CacheUsageProofs` |
| `CacheWriter` | the stream between a remote response, the cache and the client | `MCStreams` | `StreamProofs` |
| `RequestReader` | the input socket and the lines of a request | `MCStreams` | `StreamProofs` |
| `OutputStreams` | the head of a reply with its counted length; the writer of a socket | `MCStreams` | `StreamProofs` |
| `Daemon` | the parent: loop, SIGCLD handler, forks, `gc_pid` | `MCCacheGC`, `DaemonDeaf.cfg` | `DaemonProofs` |
| `Access` | rule translation and access authorisation of a request | `MCRequest` | `RequestProofs` |
| `Request` | one request in a child, with its script, client and alarm | `MCRequest` | `RequestProofs` |
| `Configuration` | the directives, the start, the reload on SIGHUP | `MCRequest` | `DaemonProofs` |
| `Loading`, `Loads` | `HTLoadDocument`, local files, and all loads as one system | `MCLoads` | `LoadsProofs` |
| `Connecting`, `ConnectContract`, `HostCache` | `HTDoConnect`: what the protocol modules rely on, as operators and as a specification, and how it is kept | `MCLoads` | `LoadsProofs` |
| `Clients`, `FTPClient` | the clients for HTTP, Gopher and news; for FTP | `MCLoads` | `LoadsProofs` |
| `Names` | wildcard patterns; URLs | `MCAlgorithms` | |
| `Formats`, `Listings`, `Anchors` | suffixes and content negotiation; sorted trees and FTP listings; anchors and links | `MCTexts` | |
| `Markup`, `Converters`, `RequestFields` | HTML generator and SGML parser; MIME, guesses and line ends; fields of requests and replies; conditional requests | `MCTexts` | |
| `AccessFiles`, `PasswordFile`, `Programs` | group files, protection set-ups, access control lists; password file and `htadm`; `htimage` and `cgiparse` | `MCAlgorithms` | |

A specification with steps has a module `MC...` of its own or shares one; where
two share one, a variable `subject` says which of them a behaviour is about,
and the others stay in an initial state.

### The cache

`ProxyCache`: a step is one system call of one child. `main`, `tmp` and `lock`
bind the three names of a document to files; a file is named by the child that
created it, so a rename by the wrong child is visible. `info` is the verdict of
the document's last `.cache_info` entry. `pc` is the place in `HTHandle`,
`cache_lookup`, `locked`, `do_lock`, `cache_write`, `cache_free`,
`cache_created`, `cache_not_modified` and `cache_cancel`. `robbed` is a history
variable: the children whose lock another child removed. The clock moves
between steps; `cur` is the parent's `cur_time` at the accept, by which a child
judges ages. Abstracted: the contents of a copy (none, partial, whole, or of a
length that nothing tells), expiry times (a lifetime the entry grants).

`CacheContract` is the same seen by the requests: for each document a set of
copies and the holder of its lock, and the children that have finished their
document, have failed at it, or were robbed. Nothing is published that is not
finished and its holder's, and a lock is stolen only where a child has failed.
In `ProxyCache` the copies are what `main` and `tmp` name (`Copies`), a document
is finished when its file will not be written again (`Finished`), and a child
has failed when it is dead or its alarm is lost (`FailedAt`). `locked_break` by
a thief is `Steal`; so is any release of a lock that meanwhile is another's,
`created_install` included, which then publishes what the other is writing.
`ContractKept` says that this is an implementation.

`CacheTree` has the names that `ProxyCache` takes as given. A name is a
sequence of components; `tree` maps names to directories and documents. The
actions are the system calls of `cache_lookup` and `create_cache_place`: a
document whose name is wanted for a directory is set aside, the directory is
made, and the document moved into it as its index. Whether a lock is old and a
copy fresh is any value here. A call that the code does not check has a
disjunct for its failure.

`ProxyCacheGC`: a collection visits the three names of a document in the order
of `gc_dir`, a step per system call: read the directory, read `.cache_info`,
remove, rewrite `.cache_info`. Between its steps the children of `ProxyCache`
take theirs.

`CacheGC`: `gc_read_dir`, the ranking of files, the threshold tables and the
removals of `collect` are actions; the limit on memory makes several
collections of one walk. The attributes of a file (bytes, expired, unused,
value) are given; the tables are functions over `1 .. TABLE_SIZE`.

`CacheUsage`: the arithmetic of the eight bit scale and of `read_gc_results` is
translated as it is. `cached` is the truth about the disk; `uncounted` is a
history variable: bytes that no exit status, report or restart has brought to
the parent yet.

### The parent

`Daemon`: `loop_pc` is the place in `standalone_server_loop`. `sig_child` is modelled
once and used in two contexts, the loop's call and the handler's: `frame[f]`
holds the position, the reaped child and the loaded value of
`HTCacheUsage += ...` of each. The handler starts between any two steps of the
loop and runs to its end. `child[z]` is what the kernel knows of the process.

### Streams

`CacheWriter`: a reply is a sequence of pieces: a line of its head of one of
the kinds the stream tells apart, or a unit of its body; a line that overflows
the buffer is two pieces. A step takes one piece through `cache_put_char` and
`cache_write`, or ends the stream. `state` is the state of the code's parser,
`header_buf` the lines held back, `client` and `cf` what went to the client and
to the lock file.

`RequestReader`: the network delivers the text in blocks that end anywhere;
`get_some_line` works on the buffer with its pointers, `getUnfoldedLine` looks
one line ahead. What `HTParseRequest` does with a line once it has it is in
`RequestFields`.

`OutputStreams`: bytes are numbered in the order in which they are put, so that
loss, repetition and disorder are visible. The counter holds a document back up
to a limit; the writer's `write()` takes any part, is interrupted, or fails.

### A request and the configuration

`Access` folds the rule list over a URL as `HTTranslateReq` does, "dry" for the
translation of PATH_INFO; then `HTAA_checkAuthorization`: the rules, the
file that `HTMulti` finds, whose name (`page.html` for `page`) replaces the one
asked for (`Physical`), and `check_authorization` under that name, by mask, by
access control list or by the default set-up; where none is found, under the name
asked for. Both are functions of the server environment
`env`, the record of the global variables that `compute_server_env` resets in
part.

`Request` is `HTHandle`. `pc` is the place in it; `timer` says which alarm is
set, and "lost" that `set_signals` has switched it off; `hops` counts
redirections on the fly, which send a request back to the authorisation with
what is left of the earlier `env`. A script is a process of its own: it reads
its input, writes, closes either end, or falls silent; the two pipes hold
`PipeSize` blocks. The client reads, stalls or goes away at any moment. An
unassigned `status` is any value. Abstracted: users and passwords (a mask gives
a verdict for each user), the content of documents and headers, the relay to
other servers (one step; its parts are in `ProxyCache` and `Loads`).

`Configuration` is `HTLoadConfig`. `Directive` is the table of the directives
with the kind of each (a switch, a size, a time, a list, a template with a time,
a rule, ...) and the setting it is about; `Effect` is what each kind does,
early returns and bad values included. `lines` are the files as they are now,
`read` the lines as they were read, in order; `conf` is the record of `sc`, `cc`
and the rule list. `Start` reads what the command line names; an edit changes a
file; `ReloadChangesNothing` and the others compare `conf` with what `read`
means, without the steps by which it was reached.

### Loads

`req` is the request of the library: the error stack, the open sockets, what
has been put into the stream (`fed`), whether the client got a message
(`told`), and `pc`. A protocol module begins at `pc` = its name and ends at
"loaded". A step is a wait (for a reply, for data, for a connection) with all
that follows up to the next one; an operator returns the set of its outcomes,
because replies and failures are any. `FTPClient` keeps the states of the
enumerations of `HTFTP.c`, and in `owed` the replies that the server still owes,
each with the command it is to. `Clients` has HTTP loads within HTTP loads,
as redirections and prompts for passwords make them. `HostCache` is
`HTDoConnect` with the weights of multi-homed hosts; its weights are in tenths
of a second.

`HostCache` is shown to implement `ConnectContract`: with the errors of earlier
rounds hidden until the result is there (the refinement mapping), each
connection asked for is answered in one step by one of the outcomes of
`Connecting!HTDoConnect`, the operator that all protocol modules use. So the
clients are checked against the contract, and the contract against the code.

### Sequential code

The other modules are algorithms, as recursive functions or folds over what the
code reads: characters where the algorithm looks at characters (patterns, URLs,
forms, line ends), otherwise words or lexical items. `MCAlgorithms` and
`MCTexts` hold what they are compared with: for each a
definition of what the input means, given without the code's way to it. A
behaviour is about one family of inputs and grows one input a piece at a time.

- `Names`: the compiled pattern and the search that goes on behind a text that
  did not lead to a match; `HTSimplify`, which edits a text in place and walks
  backwards, with `HTParse` and `HTRelative` on top of it.
- `AccessFiles`: the lexical analyser with the one item that `unlex` pushes
  back; groups and membership with the static `poss`; set-up files, inlined
  ones and their cache; entries of access control lists.
- `PasswordFile`: records and checks; `htadm` as steps on the file, its
  temporary and its backup, which may be stopped between any two of them or
  run out of space.
- `Formats`: suffixes, ranks, welcome pages, and the choice of a converter.
- `Listings`: the tree with its single rotations; the lines of FTP servers.
- `Anchors`: a heap of anchors with their lists of children, links and sources.
- `Markup`: events to text with line breaks, and text to events with the stack
  of open elements.
- `Converters`: the states of `HTMIME`, the sample of `HTGuess`, line ends.
- `RequestFields`: what is taken from each field, what goes on to
  a server, a script and a client; the stream that makes a 304 of a reply.
- `Programs`: the map of a picture and the shapes; queries as forms for shells.

## 3. What the runs show

| Run | Question and answer |
|---|---|
| `cache` | Is there one writer per document; are locks found too old only after a failure; are installed copies complete? They are (`LockExclusive`, `StaleVerdict`, `CachedCopiesComplete`), in the precise form in which the first and last except children that were robbed of their lock. And does a request end, whatever the remote server does? Yes, unless a hang-up has disarmed the alarm (`RequestsEnd`). |
| `cache_backup` | `cache_created()` may remove the next child's backup: `BackupKept` fails. |
| `gc` | Is there at most one collector (`SingleGc`), and is every child reaped though SIGCLD is not queued (`ZombiesReaped`)? Yes. Does a collection bring the cache below its limit and remove what is expired (`Collected`), and no more than needed (`NoMoreThanNeeded`), and do its report, `.cache_info` and the disk agree (`BooksAgree`)? Is what a child sends its own document, and a copy found again after it was moved (`CopiesFound`)? Yes; the last only as long as the children that move it come one after the other. |
| `gc_beside` | Do the guarantees of the cache survive a collection at any moment? Locks and complete copies do (`LocksAndCopies`), and a collection removes only what it has judged (`GcVerdict`). Do children and collector together implement the contract of the cache (`ContractKept`)? Yes. |
| `daemon_deaf` | The loop may block without a timeout while no gc runs: `DeafOnlyDuringGc` fails. |
| `streams` | Does the client get the whole response in order, and the cache a whole copy, or else the client the old one (`ClientGetsReply`, `CopyComplete`)? Is a request read as it was sent, however it is cut (`HeadAsSent`)? Is a counted length that of what follows (`LengthRight`), and does the socket get every byte once and in order (`WrittenInOrder`)? Yes. Does the parent's estimate fall behind the cache? No, but for a sixth and 1K (`UsageCoversCache`, with the types and widths it rests on, `UsageTypeOK`). |
| `writer_http0` | An HTTP/0.9 response whose first line is longer than the buffer is held back: `Http0Dumped` fails. |
| `load` | Does a proxy's client get the document or a message with a reason (`ClientAnswered`); are sockets closed (`SocketsClosed`); is each FTP reply taken for an answer to its own command (`FTPInStep`); is the host cache bounded (`HostCacheBounded`); does `HTDoConnect` keep its contract (`ConnectKept`); does a load end (`LoadEnds`)? Yes, with the exceptions the properties name. |
| `request` | Is a protected document served only to those its set-up and the access control list for the file's own name admit, also after redirections on the fly, under the right uid, changed only with a permission, and its existence told only to those who may know (`AccessRight`)? Is there one answer, without a body for HEAD (`AnswerRight`)? Is an alarm set whenever the child waits, and does it end (`TimersCover`, `Ends`)? Is the configuration that of the files, as they were read by any number of loads (`ConfigurationRight`), and a reload of the same file without effect (`ReloadChangesNothing`)? Yes, with the exceptions that the properties name. |
| `request_told` | "Tell that file doesn't exist only if user is authorized": a refusal may tell that it does, where the list treats the name asked for and the one found differently: `ExistenceUntold` fails. |
| `algorithms` | Does each algorithm compute what its input means: names and patterns (`NamesRight`), groups (`GroupsRight`), negotiation (`FormatsRight`), listings and FTP replies (`ListingsRight`), trees and anchors (`StructuresRight`), HTML, converters, fields and conditional requests (`TextsRight`), set-ups and passwords (`FilesRight`), image maps and forms (`ProgramsRight`)? Yes, with the exceptions below. |
| `unmodified_told` | A reply that is not newer than the client's copy is sent in full when a field behind its date has a hyphen in it, as `Content-Type` has in its name: `UnmodifiedTold` fails. |

A property whose name ends in `Right` is a conjunction of the named parts that
stand above it in its module, one for each question.

The runs that end in a violation each check one statement of a comment;
"findings" in `PROJECT.json` quotes it.

### What the properties except

The properties say what the code guarantees, which is sometimes less than one
would think. The exceptions worth knowing:

The cache
- The lock of an index file is made under one name and removed under another
  (`HTCache.c`, 594), so it stays until a collection; `locked()` does not look
  at it either.
- Two children that set the same document aside may move the directory into
  itself as its index; the document is then not found (`CopiesFound` says "as
  long as they come one after the other"). A child that opens a name which has
  become a directory sends nothing; a rename onto one fails, and the copy is
  lost. A `mkdir` that loses a race makes the document uncached.
- `reserved_name` looks at the last component of a path only.

Requests
- Four branches of `HTHandle` leave `status` unassigned, and a second answer
  may follow theirs (`AnsweredOnce` names them). A child whose alarm is lost, or
  that sends an error before any alarm is set, may wait for ever (`Ends`).
- Of the refusals of a group, "wrong address" (403) may be given where the
  comment of `HTAA_userAndInetInGroup` promises "not a member" (401).
- The access control list is asked for the name that `HTMulti` found
  (`HTAAServ.c`, 611; `HTACL.c`, 177): `page.html` for `page`, and `page` itself
  where there is no such file. So `ExistenceHidden` is about lists that treat both
  names alike; with another list a refusal tells that the file exists, against the
  comment (662). What is served is admitted under its own name in any case
  (`ListHolds`). A directory is redirected to its welcome page before anyone is
  asked for authorisation (613), which tells that it exists.
- The stream of conditional requests looks for a hyphen in all that follows in its
  buffer, to tell the formats of dates apart (`HTims.c`, 54; `HTSUtils.c`, 94). A
  date of the preferred format with `Content-Type` or `Content-Length` behind it
  is therefore not read, and the whole document is sent, though the comment (5)
  promises a 304. Of the third format, a comma behind the date may let the date
  of another field be taken for it, and a 304 be sent for a newer document.
  `ConditionalRight` says what does hold: a plain date is always read
  (`Readable`), and a newer document sent but for a mistaken date (`MistakenDate`).
- A reply without an empty line is lost in the stream of conditional requests;
  a request that the network cuts between a carriage return and its line feed is
  not read as it was sent (`HeadAsSent` excepts it).

Configuration
- A reload clears the rules and keeps the rest. Named set-ups and templates of
  earlier loads stay, and of two templates for one pattern the old one is found
  first. Several `-r` files are read in reverse order. The directory of the
  command line is forgotten; a file that cannot be read leaves no rules at all.
  A `Protect` that stood before its `Protection` means something else after the
  reload. `ReloadChangesNothing` has the premises that exclude these.
- A time that cannot be read loses the list of templates before it (`HTConfig.c`,
  783) and sets defaults to zero (1441 to 1537). Comments are not taken off
  before times and sizes are read, so that `CacheSize 20 # x` loses its unit and
  means no limit. `CacheClean 2 days` is the template `2`. `forever` without a
  number is zero seconds (`HTSUtils.c`, 278). A `CacheSize` of two gigabytes is
  negative. `Caching On` does not bring back a `CacheRoot` that was refused.

Loads
- `HTDoConnect` counts its rounds, not the addresses it tried (`HTTCP.c`, 977):
  weights may send two rounds to one address. `HTCacheSize` is never decremented
  (358, 513), so hosts are thrown out before the cache is full, never later.
- A phone book that answers with its last line first gives its client nothing;
  news puts the stream up before it can fail; an FTP transfer tried again may
  add a message to the document (`ClientServed`). A browser forgets the socket
  of a server whose status line it cannot parse (`HTTP.c`, 620).

Sequential code
- A text behind a wildcard that overlaps itself may be missed: `*aa` does not
  match `aaa` (`HTWild.c`, 243).
- `HTRelative` has no name for the root directory, nor for a directory as seen
  from itself; its comment (`HTParse.c`, 471) makes no exception. `HTSimplify`
  turns `../../x/y` into `x/y`, which its comment (309) excludes.
- The tree of `HTBTree.c` is sorted and knows its depths, but is not balanced:
  single rotations do not suffice. The first character of an FTP welcome line is
  lost. Comparing addresses of anchors ignores case, whatever the comment says.
- The SGML parser drops line ends behind an open tag and has no element for
  `</>`. The copy of a text to its dot line misses a dot line behind an empty
  one. A field's value goes on behind a fold of blanks.
- An empty mask of a set-up takes the next line with it, the closing brace
  included; user id 0 is taken for none; a template of an access control list is
  compared as far as the buffer holds it. `htadm` reads lines in pieces of
  `MAX_LINE_LEN - 1`. Of a password only the first eight characters are ever
  encrypted, once for every eight that it has (`HTPasswd.c`, 104 and 168), and
  four such pieces are read back: a longer one with the same beginning is
  accepted, a shorter one is not. An empty one in the file admits everybody.
- Names of fields in a form do not get their plusses turned into spaces;
  `cgiparse -init` prints a body without quoting it.

### Bounds

- `ProxyCache`: two children are enough for every disagreement between a
  lock's owner and one thief. One document, because documents share no state in
  the model. Timeouts of one unit and `MaxTime` up to three leave room for a
  lock to become old, for its breaking, and for the writing that follows.
  `LastAccept` ends the arrival of requests. In the run `cache` one child is at
  work under any configuration, two under the usual one and without
  `Pragma: no-cache`; the first is accepted at time 0, the second with it or
  when its lock may be too old (`PlainTogether`). Symmetry of the children is
  used in runs without liveness only.
- `ProxyCacheGC`: one collector, with two children that create copies or one
  that refreshes them (`OneRefreshes`).
- `Daemon`, in the run `gc`: three process ids, so that a gc, a serving child and a new fork
  coexist and ids are reused; two connections and one daily gc time.
- `CacheUsage`, in the run `streams`: sizes at the ends of every step of the exit status scale; two
  children, two transfers and a collection, so that a report can be lost and an
  older one read again.
- `CacheGC`: three directories, four files of any attributes (of the two in one
  directory, in one order: `Ordered`); the tables have a
  tenth of the code's entries, with values on both sides of the change of scale.
- `CacheTree`: a document, one below it, the same name in the other spellings
  that matter, and names that the cache must refuse; an empty cache, one with the
  document, and one with its lock and backup only, which a killed child left; two
  children beside each
  other and a third after them (`TwoAndOne`), so that what two have left is
  looked up. A VIEW leaves out variables of children that are done; it keeps
  all of the parent's, so that it is sound for the parent's liveness.
- Streams: every status line, at most two fields of any kind and a body of at
  most two units, with a status line and a first field that may be longer than
  the buffer; requests of seven words cut anywhere; documents of seven bytes
  with a counter that grows by two up to four; a socket buffer of three. Every
  pair of the parsers' states occurs, and every buffer overflows.
- `Loads`: an address of every scheme, three modes (proxy, server, browser),
  each way to route it; two redirections in place of ten, and a user who gives up
  after one prompt more; hosts with two addresses, one and none, three connections,
  and a host cache of two, so that it overflows.
- `Request`: fourteen URLs that between them use every operation of the rules
  and every branch of `HTHandle`; pipes of one block and scripts that write two,
  so that each side can be blocked by the other; two hops in place of ten, so
  that the limit is reached.
- `Configuration`: three lines on one topic, or each directive alone with each
  kind of argument; one edit and one reload; two files for rules, one otherwise.
  Lines act on each other within a topic only, as the table shows. An `int` has
  nine bits, so that sizes overflow.
- `algorithms`: patterns of at most five characters over three alphabets against
  all texts of at most four; group files of at most two declarations; paths of at
  most five segments; directories of four files; trees of six elements; five
  events of HTML; three lines of a set-up, three anchors with two links, three
  commands to `htadm`, polygons of four corners, forms of two pairs. A text can
  then match in more than one way, a group refer to another, ".." meet every
  kind of segment at both ends, a tree rotate on both sides, and a backup be
  older than the last file. A password has up to five pieces, of which four are
  kept, and a line of the password file room for an entry of four and no more.

A run sets `CHECK_DEADLOCK FALSE` where the bounds end the behaviour: all
children have exited and the clock has stopped, no more connections come, or
the input is as long as it may be. `load` checks deadlock: a load that is not
over always has a step.

### Fairness

- `ProxyCache!FairSpec`: the clock advances, a child's own system calls happen,
  a pending alarm is delivered. Nothing is assumed of clients and remote
  servers: `Relay`, `cache_write`, `sig_pipe` and `cache_free` have no fairness.
- `Daemon!DaemonFairSpec`, and `CacheSpec` with it: the parent and its handler are scheduled, a pending signal
  is delivered. Nothing is assumed of children or clients.
- `Request!FairSpec`, and `MCSpec` with it: the child is scheduled and its alarm
  rings. Fairness of the child's own steps is strong: what a client reads now and
  then leaves room in the socket's buffer until the child writes. The
  authorisation is described by where it leads (`Authorises`), because it is
  never blocked. Nothing is assumed of the client and the script, nor of who
  edits the configuration.
- `Loads!Fairness`: every read and every attempt to connect ends, by the peer, by
  the daemon's timeout or by TCP's, and a server that sends a menu line by line
  ends it some time. Which of the outcomes comes is not assumed: that retries
  and redirections end is the code's doing, and is what `LoadEnds` shows. Only the number of prompts is the
  user's (`MaxRetries`).

The type invariants of the other modules are
stated for the reader and for proofs; no run is spent on them.

## 4. What is proved

All proofs hold for any number of processes, documents, hosts and rules, and
for any values of the constants that satisfy the named assumptions of the
module. Each safety theorem follows from an inductive invariant; where it
differs from the property it is because the property alone is not inductive.

- `ProxyCacheProofs`, about children alone: `TypeCorrect`, `MutualExclusion`,
  `BreakOnlyFailed`, `NoTheftWithoutFailure`, `CompleteCopies`. None of the
  invariants is inductive alone: that a lock looks old only when its owner
  failed needs the relation of `cur`, `start`, `mtime` and the alarm; that an
  installed copy is complete needs to know that the lock file of a child that is
  not robbed is its own. `IInv` joins these. It uses `LockOutlivesOutput`
  (OutputTimeout <= LockTimeout), which is the documented condition on the
  configuration and holds of the defaults.
  The same with a collection beside them: `CollectionKeepsCache`,
  `CollectorTakesOnlyFailed`, `GcTypeCorrect`. `GcIInv` is `IInv` with the
  collector's place added: its clock is a time that was, a lock that it is
  about to remove belongs to a child that has failed (or is another file by
  now), and its count of a directory covers what it holds in memory, so that
  the subtraction at each removal stays above zero. Every step of the collector
  is shown to keep `IInv`, and every step of a child to keep the collector's
  part.
  Then the refinement: `ChildrenKeepContract` and, beside a collection,
  `CollectionKeepsContract`. For each kind of system call a lemma says which
  step of the contract it is (`ReleasesAsContract`: publish, give up or steal),
  and that a child that only looks is not seen. The contract is about one
  document at a time, which `IInv` is not, so `CInv` (`ContractInductive`) adds
  that no file is finished before its stream has ended (`UnfinishedFiles`), and
  that a verdict and a theft are at a document where a child has failed
  (`FailedThere`). `ContractSuffices` is about the contract alone: what it
  publishes was finished, or its writer was robbed where a child has failed.
- `DaemonProofs`, about the loop: `DaemonTypeCorrect`, `OneGc`. The
  strengthening says that while a collector exists the parent knows it (`gc_pid`), or is about to store
  its id, and that otherwise no fork of a second one is under way.
- `CacheUsageProofs`: `UsageTypeCorrect`, `EstimateCoversCache`. Lemmas bound
  the error of the exit status scale and of `read_gc_results`; the invariant
  keeps the account of bytes in the cache, in exit statuses and in the report.
- `StreamProofs`, for buffers, limits and documents of any size:
  `BytesInOrder` (`WInv`: while no write has failed, the network, what is being
  written and the buffer are together the bytes that were put),
  `DocumentLengthRight` (`CInv`: until the limit is reached all that was counted
  is held back, in the full buffers and the last one, and nothing went out),
  `CachedCopyComplete` and `ClientServed` for any replies. `CWInv` says for each
  state of the parser of `CacheWriter` what the header buffer, the lock file and
  the client hold of the pieces read so far; nothing is claimed of a reply with a
  line that does not fit the buffer, as in the properties.
  `RequestReadAsSent` is about requests of any length in blocks of any size.
  `Parsed` gives for every `k` the lines that are complete in the first `k`
  characters and the one that is open (`AllTo`, `OpenTo`). `ReadInv`
  (`ReaderInductive`) says that the reader is at such a place (`Place`): it holds
  a line that the next character may continue (`Waiting`), or a part of a line
  of its own (`Within`) or of one that continues the line before
  (`Continuing`), and at no place before was the head complete
  (`Incomplete`). `AtClose` is the reader after the client has closed, `AtBody`
  after the head. Lemmas on `Parsed` say what a character more adds.
- `LoadsProofs`, first about the host cache: `HostCacheStaysBounded`,
  `OnlyOwnAddresses`, and the refinement, `ConnectImplements`: a step of
  `HTDoConnect` is a step of the contract or hidden. `HInv` adds that
  `HTCacheSize` is never less than the number of elements (it is not
  decremented), which is what makes the bound hold (`HostsAssumption`).
  Then about every load, for any addresses, modes, proxies and gateways and any
  number of retries and redirections: `LoadSocketsClosed`, `RepliesInStep`,
  `ProxyClientAnswered`, and `LoadsKeepContract`, which carries the first part
  over to the system of all loads. Their invariant `LInv` (`LoadsInductive`) is
  one predicate of a load and what its protocol module keeps, and has these
  parts. For each place, the sockets that may be open (`SocksAt`): a control and
  a data connection of FTP, or one of the others. For each state of the FTP
  client, the replies still owed, none but those to the command it waits for and,
  behind it, the end of a transfer (`InStep`); a reply that the server may give
  twice (226 behind 125) is what makes `FTPInStep` not inductive alone. For a
  proxy, what has gone into the stream: nothing before a document begins, no
  more than one answer after it (`ProxyData`), and a reason in the error stack
  whenever a module has failed. Each handler returns a set of outcomes; there is
  a lemma for each operator that says which part of the invariant its outcomes
  have, so that the theorem does not expand two modules at once.
- `CacheGCProofs`, for any tree of directories, files, sizes, values and limits:
  `CollectionTypeCorrect`, `BooksOfCollection`, `RoomAfterCollection`, and of
  each step `CollectionIsMinimal`. Its first part proves that the sums over
  sets of files, which the model takes from the community modules, exist and add
  up (by induction on the number of files, with a set of numbers in place of an
  operator), its second that the entries of the table and the thresholds agree
  where the scale changes. `WalkInv` says what the walk has dealt with
  (`Settled`): what was read and is not in the memory of a directory that is
  still to be completed. No file is in two such memories, all are below the same
  root, and the account of bytes collected against bytes settled holds up to one
  byte of each collection. Assumed: directories and files are finitely many, a
  directory's parents end at a root (`TreeAssumption`), and values are below
  the end of the table (`TableAssumption`).
- `CacheTreeProofs`, for any URLs, old trees and number of children:
  `TreeInductive`, `CopiesWhereFound`. It has two invariants, since the property
  has two parts. `AnyTime` holds however the children's system calls interleave.
  What a name leads to, `Norm`, is the name without the suffixes and indices of
  its components; every `rename` is between two names that lead to the same
  place, also when it takes a whole directory along, so a document is only ever
  at names that lead where its URL does; and names made from URLs lead apart
  unless they are the same (`SameName`). `InTurn` holds until two children have
  been at work at a time: which directories there are (`PlainDirs`: none that has
  the name of a lock, a backup or an index), what the child has found at its
  name and at the directory it has come to, its lock and backup, and that every
  copy that was kept is at its name, in the index there, or being moved by that
  child. Assumed: suffixes and names of the cache's own are only at the end of a
  URL (`OwnNames`; `reserved_name` looks no further, so other URLs do collide),
  and a daemon starts on a tree that children one after the other, killed ones
  too, have left (`OldTreeAssumption`).
- `RequestProofs`, first about `Access`: what the functions of the rule system return, for any rules,
  set-ups, paths and files. `TranslatedSound` is about the loops over the rules;
  a loop is a recursive function on the number of rules, and `UpTo`, induction up
  to a number for a set, unfolds it. `AuthorisedAlike` compares an environment
  with a fresh one for the same URL: what the first leaves out of account
  (`compute_server_env` resets a part of the variables) cannot open what a
  set-up protects. It excepts set-ups with access control lists, as `AccessRight`
  does. `RefusedUnseen` compares two file systems, one where the file is found under
  any name and one where it is not: who is refused is refused in the same words,
  if the access control list is the same for both names. `ListsAdmit` says that
  the list for the name of the file, as found, admits to what passes.
- `RequestProofs`, about the steps of a request: `AccessGranted`, `OneAnswer`, `TimersCovered`, on the
  theorems of the first part. `RInv` says what each place of `HTHandle` may rely
  on: that the URL being authorised is the one in the environment, that what is
  served was admitted at the same hop, whose identity the child has, which
  places may have begun a reply and what `status` says of it, and which alarm
  is set. Assumed of the configuration: paths are no null pointers
  (`PathAssumption`) and the rules map paths to paths (`RuleAssumption`);
  no set-up names `root` as its user (`IdsAssumption`): the code serves as root
  where one does, which is the administrator's choice; requests have
  their fields (`RequestsAssumption`). TLC evaluates all four.
- `DaemonProofs`, about the configuration, for any words, files, command lines,
  edits and numbers of reloads: `ConfigurationIsAsRead`, `EveryTimeReadBack`, and
  `ConfigurationStaysRight` from the two. First the table of the directives:
  `DirectiveTable` says of each how it treats its arguments (`Entry`), and a
  lemma for each kind which settings it may change (`Keeps`), so that for a
  setting of the properties the few directives in charge of it are left
  (`LineKeeps`, `InCharge`). Then what the properties mean of the lines that were
  read, for one line more (`RulesReadStep`, `TemplatesReadStep`, `RootReadStep`,
  `PortReadStep`, `SetupReadStep`). A line keeps the two in step (`LineAsRead`),
  and so do a file (`FileAsRead`) and a load (`LoadAsRead`), by `UpTo` along the
  recursive functions of the model. `ConfigurationInductive` has what lasts from
  one load to the next (`Lasting`): the set-ups by name, the templates, the root
  with whether caching is off, and the lengths; the rules are framed (`Framed`)
  by the server's icons before them and the exported directory behind them.
  For times, `SpecShape` lists what `make_time_spec` may print, and a lemma for
  each says what the rounds of `parse_time` add up to (`Takes`). Assumed: words
  are read as numbers, units and other tokens (`TokenAssumption`), a line has an
  argument (`LineAssumption`), and the files of a command line have names
  (`OptionsAssumption`).

What stays with TLC, and why:

- `RequestsEnd`, `ZombiesReaped`, `LoadEnds`, `Ends`: liveness under fairness is
  out of this prover's reach.
- `ReloadChangesNothing`, which compares two readings of a file setting by setting.
- The properties of the run `algorithms`: their modules use RECURSIVE operators,
  which the prover cannot use, or compare recursive functions over data with what they mean, which would
  need induction with an operator as its parameter. (`UpTo` helps where the
  claim is about a set of numbers, as in the sums of `CacheGCProofs`.)
- What a run refutes: `BackupKept`, `DeafOnlyDuringGc`, `Http0Dumped`,
  `ExistenceUntold`, `UnmodifiedTold`.

## 5. What is not modelled

Under "components" in `PROJECT.json` every part has a status and a reason. Not
modelled because nothing in them depends on order or state: formatting of
directory listings (`HTDirBrw.c` but for what is loaded and sorted) and of log
lines (`HTLog.c`), the renderers of browsers (`HTML.c`, `HTTeXGen.c`, tables of
the DTD), streams that only pass on, lists and atoms (they are the sequences and sets of the models), tables of
defaults and prompts. Outside of what can be modelled: the WAIS client, which
needs a library that is not in the repository; the VMS replacements of library
routines. Small and left out: the ident query (`HTRFC931.c`), `cgiutils`.

Within modelled parts: start-up, sockets and the inetd mode of the parent; FTP
sessions, which nothing enables; the composition of a script's environment and
arguments; the encoding of credentials; the cache of group files; literal
elements and ISO 2022 in the SGML parser; the headers of news articles; escape
codes and search parts of URLs beyond those of forms.

## 6. Plan

Done: the cache with its tree, its collector, its usage account and its stream;
the parent; a request with its reader, authorisation, rules, scripts and the
configuration; the loads of the library with connections refined to their
contract; the streams; the files and programs beside the daemon; and the
algorithms for names, formats, listings, markup, fields and access files.

All safety properties of the runs but `ReloadChangesNothing` and those of
`algorithms` are theorems, and both refinements are. What would come next: the
contract of the cache with expiry times, which the models of the stream and of
the files know only in part.
