----------------------------- MODULE ProxyCache -----------------------------
(***************************************************************************)
(* The disk cache of the proxy, as the forked children of the daemon use   *)
(* it (Daemon/Implementation/HTCache.c, called from HTHandle).  Every      *)
(* child serves one request and exits.  The children share nothing but the *)
(* cache directory, and synchronise only by system calls on three files    *)
(* per document:                                                           *)
(*     cfn              the cached copy                      main[n]       *)
(*     cfn.cache_tmp    the backup made before a refresh     tmp[n]        *)
(*     cfn.cache_lock   the lock, into which the new copy                  *)
(*                      is written                           lock[n]       *)
(* and on the document's line of the .cache_info file        info[n].      *)
(* A step of this module is one such system call, so that the steps of     *)
(* the children interleave where the kernel lets them.                     *)
(*                                                                         *)
(* A file name is bound to a file (an inode) or to None.  A child creates  *)
(* at most one file, its lock file, so a file is named by the child that   *)
(* created it; Orig is a copy cached before the model starts.              *)
(***************************************************************************)
EXTENDS Integers, FiniteSets

CONSTANTS
    Child,          \* the processes forked to serve one request each
    Name,           \* cache file names, one for each cacheable URL
    NoCaching,      \* names whose URL do_caching or cache_file_name rejects
    Orig,           \* the file of a copy that is already cached
    None,           \* no file
    OutputTimeout,  \* sc.output_timeout: alarm set before the cache is used
    LockTimeout,    \* cc.cache_lock_timeout: age at which a lock is broken
    Config,         \* values of [expCheck, noConnect] to consider
    Pragma,         \* values of in.no_cache_pragma to consider
    Lifetime,       \* lifetimes a cache info entry may grant from now on
    LastAccept,     \* bound: no request is accepted after this time
    MaxTime         \* bound: the clock stops here

ASSUME TimeAssumption ==
    /\ OutputTimeout \in Nat
    /\ LockTimeout \in Nat
    /\ LastAccept \in Nat
    /\ MaxTime \in Nat
    /\ Lifetime \subseteq Nat

\* The configuration comment "CacheLockTimeOut <fn(>OutputTimeOut)>", and the
\* defaults, which make the two equal.
ASSUME LockOutlivesOutput == OutputTimeout <= LockTimeout

ASSUME ConstantAssumption ==
    /\ Config \subseteq [expCheck : BOOLEAN, noConnect : BOOLEAN]
    /\ Pragma \subseteq BOOLEAN
    /\ NoCaching \subseteq Name
    /\ None \notin Child
    /\ Orig \notin Child
    /\ None # Orig

VARIABLES
    now,        \* the clock, in the units of the timeouts
    conf,       \* [expCheck, noConnect]: cc.do_exp_check, cc.cache_no_connect
    main,       \* main[n]: the file named cfn
    tmp,        \* tmp[n]: the file named cfn.cache_tmp
    lock,       \* lock[n]: the file named cfn.cache_lock
    info,       \* info[n]: until when the last info entry calls the copy fresh
    pc,         \* pc[p]: the next system call of child p
    url,        \* url[p]: the cache file name of the requested URL
    pragma,     \* pragma[p]: the client sent Pragma: no-cache
    cur,        \* cur[p]: cur_time, the time the parent accepted the request
    start,      \* start[p]: the time output_timeout_on() was called
    armed,      \* armed[p]: SIGALRM still kills p when the timeout is over
    ims,        \* ims[p]: the request to the remote server is conditional
    seen,       \* seen[p]: the owner of the lock file p found to be too old
    ino,        \* ino[p]: what the file created by p holds
    mtime,      \* mtime[p]: the time that file was last written
    robbed      \* history: children whose lock file another child removed

files == <<main, tmp, lock, info>>
request == <<url, pragma, cur>>
timer == <<start, armed>>
inode == <<ino, mtime>>
vars == <<now, conf, files, pc, request, timer, ims, seen, inode, robbed>>

File == Child \cup {Orig, None}

\* The value of info[n] when the .cache_info file has no entry for n.
NoEntry == -1

\* A response is "whole" when all of it was written; "unsized" when the
\* connection broke but no Content-Length tells; "partial" otherwise.
Content == {"none", "partial", "whole", "unsized"}

\* From do_lock to the system call that gives the lock file up.
Holding == {"backup", "transfer", "install", "restore", "unlock", "cancel"}

PC == Holding \cup
      {"free", "request", "locked", "break", "stat", "info", "refresh",
       "create", "discard", "entry", "entry304", "resend", "open", "relay",
       "exit", "dead"}

TypeOK ==
    /\ now \in Nat
    /\ conf \in [expCheck : BOOLEAN, noConnect : BOOLEAN]
    /\ main \in [Name -> File]
    /\ tmp \in [Name -> File]
    /\ lock \in [Name -> Child \cup {None}]
    /\ info \in [Name -> Nat \cup {NoEntry}]
    /\ pc \in [Child -> PC]
    /\ url \in [Child -> Name]
    /\ pragma \in [Child -> BOOLEAN]
    /\ cur \in [Child -> Nat]
    /\ start \in [Child -> Nat]
    /\ armed \in [Child -> BOOLEAN]
    /\ ims \in [Child -> BOOLEAN]
    /\ seen \in [Child -> Child \cup {None}]
    /\ ino \in [Child -> Content]
    /\ mtime \in [Child -> Nat]
    /\ robbed \in SUBSET Child

\* The copies on disk when the daemon starts: none, or Orig with any entry.
Init ==
    /\ now = 0
    /\ conf \in Config
    /\ main \in [Name -> {Orig, None}]
    /\ tmp = [n \in Name |-> None]
    /\ lock = [n \in Name |-> None]
    /\ info \in [Name -> {NoEntry, 0} \cup Lifetime]
    /\ pc = [p \in Child |-> "free"]
    /\ url \in [Child -> Name]
    /\ pragma = [p \in Child |-> FALSE]
    /\ cur = [p \in Child |-> 0]
    /\ start = [p \in Child |-> 0]
    /\ armed = [p \in Child |-> FALSE]
    /\ ims = [p \in Child |-> FALSE]
    /\ seen = [p \in Child |-> None]
    /\ ino = [p \in Child |-> "none"]
    /\ mtime = [p \in Child |-> 0]
    /\ robbed = {}

Goto(p, label) == pc' = [pc EXCEPT ![p] = label]

\* p unlinks or renames the lock file of n: whoever owns it has lost it.
TakeLock(p, n) ==
    /\ lock' = [lock EXCEPT ![n] = None]
    /\ robbed' = robbed \cup ({lock[n]} \ {None, p})

-----------------------------------------------------------------------------
(* The daemon and HTHandle, up to the cache.                               *)

\* The parent notes the time in cur_time and forks a child.
Accept(p) ==
    /\ pc[p] = "free"
    /\ now <= LastAccept
    /\ cur' = [cur EXCEPT ![p] = now]
    /\ Goto(p, "request")
    /\ UNCHANGED <<now, conf, files, url, pragma, timer, ims, seen, inode, robbed>>

\* The request has been read: output_timeout_on(), then cache_lookup(), which
\* first asks do_caching() and cache_file_name().
HTHandle(p) ==
    /\ pc[p] = "request"
    /\ now <= LastAccept
    /\ \E noCache \in Pragma : pragma' = [pragma EXCEPT ![p] = noCache]
    /\ start' = [start EXCEPT ![p] = now]
    /\ armed' = [armed EXCEPT ![p] = TRUE]
    /\ Goto(p, IF url[p] \in NoCaching THEN "relay" ELSE "locked")
    /\ UNCHANGED <<now, conf, files, url, cur, ims, seen, inode, robbed>>

\* CACHE_FOUND: the copy is opened for reading; if it is gone meanwhile the
\* document is fetched without caching, or refused in standalone mode.
OpenCached(p) ==
    /\ pc[p] = "open"
    /\ Goto(p, IF main[url[p]] # None \/ conf.noConnect THEN "exit" ELSE "relay")
    /\ UNCHANGED <<now, conf, files, request, timer, ims, seen, inode, robbed>>

\* CACHE_NO, and CACHE_IF_MODIFIED in standalone mode: the client gets the
\* remote document, or an error page, and the cache is left alone.
Relay(p) ==
    /\ pc[p] = "relay"
    /\ Goto(p, "exit")
    /\ UNCHANGED <<now, conf, files, request, timer, ims, seen, inode, robbed>>

-----------------------------------------------------------------------------
(* cache_lookup                                                            *)

\* Mutant: >= for >.
LockTooOld_NotStrict(p, owner) == cur[p] - mtime[owner] >= LockTimeout

\* cur_time - st_mtime > cache_lock_timeout
LockTooOld(p, owner) == cur[p] - mtime[owner] > LockTimeout

\* locked(): the stat.  Note the clock: cur_time is the time of the accept.
locked(p) ==
    LET owner == lock[url[p]] IN
    /\ pc[p] = "locked"
    /\ \/ /\ owner = None
          /\ Goto(p, "stat")
          /\ UNCHANGED seen
       \/ /\ owner # None
          /\ LockTooOld(p, owner)
          /\ Goto(p, "break")
          /\ seen' = [seen EXCEPT ![p] = owner]
       \/ /\ owner # None
          /\ ~LockTooOld(p, owner)
          /\ Goto(p, "relay")
          /\ UNCHANGED seen
    /\ UNCHANGED <<now, conf, files, request, timer, ims, inode, robbed>>

\* locked(): the unlink, of whatever file has the name by now.
locked_break(p) ==
    /\ pc[p] = "break"
    /\ TakeLock(p, url[p])
    /\ Goto(p, "stat")
    /\ UNCHANGED <<now, conf, main, tmp, info, request, timer, ims, seen, inode>>

\* The stat of the cached copy.
lookup_stat(p) ==
    /\ pc[p] = "stat"
    /\ Goto(p, IF main[url[p]] = None
                 THEN IF conf.noConnect THEN "relay" ELSE "create"
                 ELSE IF ~conf.expCheck /\ ~pragma[p] THEN "open" ELSE "info")
    /\ UNCHANGED <<now, conf, files, request, timer, ims, seen, inode, robbed>>

\* HTCacheInfo_for() found an entry that is neither expired nor due for a check.
StillFresh(p) == info[url[p]] # NoEntry /\ cur[p] < info[url[p]]

\* HTCacheInfo_for(), and the verdict on the copy.  With no entry if_ms stays
\* 0: the copy will be backed up but the request is not conditional.
lookup_info(p) ==
    /\ pc[p] = "info"
    /\ \/ /\ StillFresh(p) /\ ~pragma[p]
          /\ Goto(p, "open")
          /\ UNCHANGED ims
       \/ /\ ~StillFresh(p) \/ pragma[p]
          /\ Goto(p, IF conf.noConnect THEN "relay" ELSE "refresh")
          /\ ims' = [ims EXCEPT ![p] = info[url[p]] # NoEntry]
    /\ UNCHANGED <<now, conf, files, request, timer, seen, inode, robbed>>

\* Mutant: open without O_EXCL, which shares the file of the other writer.
do_lock_NoExcl(p, success) ==
    /\ lock' = [lock EXCEPT ![url[p]] = IF @ = None THEN p ELSE @]
    /\ mtime' = [mtime EXCEPT ![p] = now]
    /\ Goto(p, success)
    /\ UNCHANGED <<now, conf, main, tmp, info, request, timer, ims, seen, ino, robbed>>

\* Mutant: a child that does not get the lock cancels nevertheless.
do_lock_Cancel(p, success) ==
    LET n == url[p] IN
    /\ \/ /\ lock[n] = None
          /\ lock' = [lock EXCEPT ![n] = p]
          /\ mtime' = [mtime EXCEPT ![p] = now]
          /\ Goto(p, success)
       \/ /\ lock[n] # None
          /\ Goto(p, "cancel")
          /\ UNCHANGED <<lock, mtime>>
    /\ UNCHANGED <<now, conf, main, tmp, info, request, timer, ims, seen, ino, robbed>>

\* do_lock(): open with O_CREAT|O_EXCL; CACHE_NO if the file exists.
do_lock(p, success) ==
    LET n == url[p] IN
    /\ \/ /\ lock[n] = None
          /\ lock' = [lock EXCEPT ![n] = p]
          /\ mtime' = [mtime EXCEPT ![p] = now]
          /\ Goto(p, success)
       \/ /\ lock[n] # None
          /\ Goto(p, "relay")
          /\ UNCHANGED <<lock, mtime>>
    /\ UNCHANGED <<now, conf, main, tmp, info, request, timer, ims, seen, ino, robbed>>

\* CACHE_IF_MODIFIED: lock, then move the copy out of the way.
lookup_refresh(p) == pc[p] = "refresh" /\ do_lock(p, "backup")

lookup_backup(p) ==
    LET n == url[p] IN
    /\ pc[p] = "backup"
    /\ IF main[n] = None THEN UNCHANGED <<main, tmp>>
       ELSE /\ tmp' = [tmp EXCEPT ![n] = main[n]]
            /\ main' = [main EXCEPT ![n] = None]
    /\ Goto(p, "transfer")
    /\ UNCHANGED <<now, conf, lock, info, request, timer, ims, seen, inode, robbed>>

\* CACHE_CREATE
lookup_create(p) == pc[p] = "create" /\ do_lock(p, "transfer")

-----------------------------------------------------------------------------
(* The transfer: cache_write, the SIGPIPE handler, and cache_free          *)

\* A piece of the response is written to the lock file.
cache_write(p) ==
    /\ pc[p] = "transfer"
    /\ ino' = [ino EXCEPT ![p] = "partial"]
    /\ mtime' = [mtime EXCEPT ![p] = now]
    /\ UNCHANGED <<now, conf, files, pc, request, timer, ims, seen, robbed>>

\* The client hangs up.  ignore_sigpipes is set, so the child goes on to fill
\* the cache, but set_signals() has made it ignore SIGALRM.
sig_pipe(p) ==
    /\ pc[p] = "transfer"
    /\ armed[p]
    /\ armed' = [armed EXCEPT ![p] = FALSE]
    /\ UNCHANGED <<now, conf, files, pc, request, start, ims, seen, inode, robbed>>

\* Mutant: the Content-Length is not compared, an interrupted copy installed.
cache_free_NoLengthCheck(p) ==
    /\ pc[p] = "transfer"
    /\ \/ \E end \in {"whole", "unsized", "partial"} :
             /\ ino' = [ino EXCEPT ![p] = end]
             /\ mtime' = [mtime EXCEPT ![p] = now]
             /\ Goto(p, "install")
       \/ ims[p] /\ Goto(p, "restore") /\ UNCHANGED inode
       \/ Goto(p, "cancel") /\ UNCHANGED inode
    /\ UNCHANGED <<now, conf, files, request, timer, ims, seen, robbed>>

\* End of the stream.  CW_COPY_BODY with the right or no length, CW_UPDATED, or
\* anything else: an error, a response not worth caching, a length mismatch.
cache_free(p) ==
    /\ pc[p] = "transfer"
    /\ \/ \E end \in {"whole", "unsized"} :
             /\ ino' = [ino EXCEPT ![p] = end]
             /\ mtime' = [mtime EXCEPT ![p] = now]
             /\ Goto(p, "install")
       \/ ims[p] /\ Goto(p, "restore") /\ UNCHANGED inode
       \/ Goto(p, "cancel") /\ UNCHANGED inode
    /\ UNCHANGED <<now, conf, files, request, timer, ims, seen, robbed>>

\* cache_created(): rename the lock file, whoever wrote it, to cfn.
created_install(p) ==
    LET n == url[p] IN
    /\ pc[p] = "install"
    /\ main' = IF lock[n] = None THEN main ELSE [main EXCEPT ![n] = lock[n]]
    /\ TakeLock(p, n)
    /\ Goto(p, IF ims[p] THEN "discard" ELSE "entry")
    /\ UNCHANGED <<now, conf, tmp, info, request, timer, ims, seen, inode>>

\* cache_created(): unlink the backup.
created_discard(p) ==
    /\ pc[p] = "discard"
    /\ tmp' = [tmp EXCEPT ![url[p]] = None]
    /\ Goto(p, "entry")
    /\ UNCHANGED <<now, conf, main, lock, info, request, timer, ims, seen, inode, robbed>>

\* cache_created(): append the cache info entry.
created_entry(p) ==
    /\ pc[p] = "entry"
    /\ \E f \in Lifetime : info' = [info EXCEPT ![url[p]] = now + f]
    /\ Goto(p, "exit")
    /\ UNCHANGED <<now, conf, main, tmp, lock, request, timer, ims, seen, inode, robbed>>

\* cache_not_modified(): rename the backup to cfn.
not_modified_restore(p) ==
    LET n == url[p] IN
    /\ pc[p] = "restore"
    /\ IF tmp[n] = None THEN UNCHANGED <<main, tmp>>
       ELSE /\ main' = [main EXCEPT ![n] = tmp[n]]
            /\ tmp' = [tmp EXCEPT ![n] = None]
    /\ Goto(p, "unlock")
    /\ UNCHANGED <<now, conf, lock, info, request, timer, ims, seen, inode, robbed>>

\* cache_not_modified(): unlink the lock file.
not_modified_unlock(p) ==
    /\ pc[p] = "unlock"
    /\ TakeLock(p, url[p])
    /\ Goto(p, "entry304")
    /\ UNCHANGED <<now, conf, main, tmp, info, request, timer, ims, seen, inode>>

\* cache_not_modified(): append the cache info entry.  The verdict "not worth
\* caching" of figure_out_expires() is ignored, and expires may then be 0.
not_modified_entry(p) ==
    /\ pc[p] = "entry304"
    /\ \E until \in {0} \cup {now + f : f \in Lifetime} :
          info' = [info EXCEPT ![url[p]] = until]
    /\ Goto(p, "resend")
    /\ UNCHANGED <<now, conf, main, tmp, lock, request, timer, ims, seen, inode, robbed>>

\* cache_free(): send the old copy to the client, if it can be opened.
cache_free_resend(p) ==
    /\ pc[p] = "resend"
    /\ Goto(p, "exit")
    /\ UNCHANGED <<now, conf, files, request, timer, ims, seen, inode, robbed>>

\* Unlink the lock.  The backup, if any, stays where it is.
cache_cancel(p) ==
    /\ pc[p] = "cancel"
    /\ TakeLock(p, url[p])
    /\ Goto(p, "exit")
    /\ UNCHANGED <<now, conf, main, tmp, info, request, timer, ims, seen, inode>>

-----------------------------------------------------------------------------
(* Time and failures                                                       *)

Live(p) == pc[p] \notin {"free", "exit", "dead"}

\* Mutant: the handler returns, and the interrupted call is restarted.
output_timed_out_Returns(p) ==
    /\ Live(p)
    /\ armed[p]
    /\ now = start[p] + OutputTimeout
    /\ UNCHANGED vars

\* SIGALRM: the child exits where it is, with its lock in place.
output_timed_out(p) ==
    /\ Live(p)
    /\ armed[p]
    /\ now = start[p] + OutputTimeout
    /\ Goto(p, "dead")
    /\ UNCHANGED <<now, conf, files, request, timer, ims, seen, inode, robbed>>

\* Killed from outside, or by a fault of its own.
Crash(p) ==
    /\ Live(p)
    /\ Goto(p, "dead")
    /\ UNCHANGED <<now, conf, files, request, timer, ims, seen, inode, robbed>>

\* The alarm is not late: no armed child outlives its timeout.
Tick ==
    /\ now < MaxTime
    /\ \A p \in Child : Live(p) /\ armed[p] => now < start[p] + OutputTimeout
    /\ now' = now + 1
    /\ UNCHANGED <<conf, files, pc, request, timer, ims, seen, inode, robbed>>

\* The system calls a child makes without waiting for anyone else.
Local(p) ==
    \/ HTHandle(p) \/ OpenCached(p)
    \/ locked(p) \/ locked_break(p)
    \/ lookup_stat(p) \/ lookup_info(p) \/ lookup_refresh(p)
    \/ lookup_backup(p) \/ lookup_create(p)
    \/ created_install(p) \/ created_discard(p) \/ created_entry(p)
    \/ not_modified_restore(p) \/ not_modified_unlock(p)
    \/ not_modified_entry(p) \/ cache_free_resend(p)
    \/ cache_cancel(p)

\* Steps that take the remote server or the client.
Remote(p) == Relay(p) \/ cache_write(p) \/ sig_pipe(p) \/ cache_free(p)

Next ==
    \/ \E p \in Child :
          Accept(p) \/ Local(p) \/ Remote(p) \/ output_timed_out(p) \/ Crash(p)
    \/ Tick

Spec == Init /\ [][Next]_vars

\* The kernel schedules the children and delivers their alarms; nothing is
\* assumed of clients and remote servers.
Fairness ==
    /\ WF_vars(Tick)
    /\ \A p \in Child : WF_vars(Local(p)) /\ WF_vars(output_timed_out(p))

FairSpec == Spec /\ Fairness

-----------------------------------------------------------------------------
(* Properties                                                              *)

\* The child was killed, or a hang-up of its client has switched its alarm off.
Failed(p) ==
    \/ pc[p] = "dead"
    \/ pc[p] \notin {"free", "request"} /\ ~armed[p]

\* A child between do_lock and the release of its lock has that lock, unless
\* another child took it away; so at most one writer works on a document.
LockExclusive ==
    \A p \in Child : pc[p] \in Holding /\ p \notin robbed => lock[url[p]] = p

\* locked() decides to break a lock only when its owner is dead, or lives on
\* without an alarm: an armed child is killed before its lock is too old.
StaleVerdict ==
    \A p \in Child : pc[p] = "break" => seen[p] # None /\ Failed(seen[p])

\* As long as no child died in the middle and no client hung up, no lock file
\* is ever removed by anyone but the child that created it.
TheftNeedsFailure == robbed # {} => \E p \in Child : Failed(p)

\* A copy under its final name, or kept as a backup, is complete as far as its
\* Content-Length tells and no child writes to it any more, unless the lock
\* file it was written to was taken from its writer.
CachedCopiesComplete ==
    \A n \in Name : \A f \in {main[n], tmp[n]} \cap (Child \ robbed) :
        ino[f] \in {"whole", "unsized"} /\ pc[f] \notin Holding

\* A request that reached the cache ends, however the remote server behaves,
\* by itself or by its alarm, unless a hang-up has switched the alarm off.
RequestsEnd ==
    \A p \in Child :
        pc[p] = "locked" ~> pc[p] \in {"exit", "dead"} \/ ~armed[p]

\* HTCache.c, cache_not_modified: "Remove lock file and restore the backup
\* file": a child that keeps its lock finds its backup when the remote server
\* says 304.
BackupKept ==
    \A p \in Child :
        pc[p] = "restore" /\ p \notin robbed => tmp[url[p]] # None

\* What the requests see of a document: its copies, and which children have failed
\* or been robbed at it; and which documents are finished.
Copies == [n \in Name |-> {main[n], tmp[n]} \ {None}]
Finished == {p \in Child : ino[p] \in {"whole", "unsized"}}
FailedAt == [n \in Name |-> {p \in Child : Failed(p) /\ url[p] = n}]
RobbedAt == [n \in Name |-> {p \in robbed : url[p] = n}]

\* Refinement: the system calls of the children are the steps of the contract. What
\* becomes a copy was finished and under its writer's lock until then, and is never
\* written again; but for documents at which a child has failed, whose locks may be
\* stolen.  No document has to do with another.
Contract ==
    INSTANCE CacheContract WITH
        copies <- Copies, holder <- lock, finished <- Finished,
        failed <- FailedAt, robbed <- RobbedAt
ContractKept == Contract!ContractSpec

=============================================================================
